------------------------- MODULE TradeServiceProofs -------------------------
(***************************************************************************)
(* Proofs about the search behind a price check: at most one request is    *)
(* out, and what is listed is of the item and the league it is shown for.  *)
(*                                                                         *)
(* Neither is inductive: a result on its way could be about anything, and  *)
(* a service that shows Searching could be waiting for one it will disown. *)
(* Owned says what is on its way: its generation is never ahead of the     *)
(* panel's, a search of the panel's own generation is of the panel's item  *)
(* in the league search() noted, and while the panel shows Searching it    *)
(* is of the panel's generation.                                           *)
(*                                                                         *)
(* The search also implements PriceAnswer, which has no worker, queue or   *)
(* generation; Paged, below, is what that refinement needs besides.        *)
(***************************************************************************)
EXTENDS TradeService, SequenceTheorems, TLAPS

Listing == [search : Nat, hash : Nat]
ResultsShape == [id : Nat, about : Items \cup {None}, league : Leagues \cup {None}, hashes : Nat,
                 listings : Seq(Listing), fetched : Nat]
TradeShape == [gen : Nat, busy : BOOLEAN, state : {"Idle", "Searching", "Ok", "Error"},
               results : ResultsShape, league : Leagues \cup {None}]
Reply == [gen : Nat, append : BOOLEAN, ok : BOOLEAN, results : ResultsShape, symbols : BOOLEAN]
Work == [gen : Nat, append : BOOLEAN, about : Items \cup {None}, league : Leagues \cup {None},
         fresh : BOOLEAN, id : Nat, hashes : Nat, first : Nat]

\* TypeOK without the bounds a model checker needs.
Shape == /\ item \in Items \cup {None} /\ setting \in Leagues /\ symbols \in BOOLEAN
         /\ trade \in TradeShape
         /\ worker \in Work \cup {None}
         /\ queue \in Seq(Reply)
         /\ asked \in Nat

OwnedWork(w) == /\ w.gen <= trade.gen
                /\ ~w.append /\ w.gen = trade.gen => w.about = item /\ w.league = trade.league
                /\ trade.state = "Searching" => w.gen = trade.gen
OwnedReply(r) ==
  /\ r.gen <= trade.gen
  /\ ~r.append /\ r.gen = trade.gen /\ r.results.id # 0
       => r.results.about = item /\ r.results.league = trade.league
  /\ trade.state = "Searching" => r.gen = trade.gen

Owned == /\ worker # None => OwnedWork(worker)
         /\ \A i \in 1..Len(queue) : OwnedReply(queue[i])

Inv == Shape /\ OneInFlight /\ Owned /\ ResultsMatch

LEMMA NoResultsShape == NoResults \in ResultsShape
  BY DEF NoResults, ResultsShape

LEMMA PageShape ==
  ASSUME NEW id \in Nat, NEW hashes \in Nat, NEW first \in Nat, NEW count \in Nat,
         NEW p \in FetchPage(id, hashes, first, count)
  PROVE  p.listings \in Seq(Listing) /\ p.consumed \in Nat
<1> DEFINE end == IF first + count < hashes THEN first + count ELSE hashes
           whole == {n \in 0..(end - first) : n % Batch = 0 \/ n = end - first}
<1>0. PICK n \in whole :
        p \in {[listings |-> [i \in 1..Len(s) |-> [search |-> id, hash |-> s[i]]], consumed |-> n]
                : s \in Unsold(first, n)}
  BY DEF FetchPage
<1>1. PICK s \in Unsold(first, n) :
        p = [listings |-> [i \in 1..Len(s) |-> [search |-> id, hash |-> s[i]]], consumed |-> n]
  BY <1>0
<1>4. n \in Nat
  OBVIOUS
<1>2. PICK k \in 0..n : s \in [1..k -> (first + 1)..(first + n)]
  BY DEF Unsold
<1>3. Len(s) = k /\ \A i \in 1..k : s[i] \in Nat
  BY <1>2, <1>4
<1> QED BY <1>1, <1>3, <1>4 DEF Listing

\* What a worker brings back is of the search it was given.
LEMMA AnswerIsOwn ==
  ASSUME NEW w \in Work, NEW a \in Answers(w)
  PROVE  /\ a.ok \in BOOLEAN /\ a.results \in ResultsShape
         /\ ~w.append /\ a.results.id # 0
              => a.results.about = w.about /\ a.results.league = w.league
<1> USE DEF Work
<1>1. CASE w.append
  <2>1. PICK p \in FetchPage(w.id, w.hashes, w.first, Batch) :
          a = [ok |-> TRUE, results |-> [NoResults EXCEPT !.listings = p.listings,
                                                         !.fetched = p.consumed]]
    BY <1>1 DEF Answers
  <2>2. p.listings \in Seq(Listing) /\ p.consumed \in Nat
    BY PageShape, PageAssumption
  <2> QED BY <1>1, <2>1, <2>2, NoResultsShape DEF ResultsShape
<1>2. CASE ~w.append
  <2>1. CASE a = [ok |-> FALSE, results |-> NoResults]
    BY <2>1, NoResultsShape DEF NoResults
  <2>2. CASE \E p \in FetchPage(w.id, w.hashes, 0, Want) :
               a = [ok |-> TRUE, results |-> [id |-> w.id, about |-> w.about,
                      league |-> w.league, hashes |-> w.hashes, listings |-> p.listings,
                      fetched |-> p.consumed]]
    <3>1. PICK p \in FetchPage(w.id, w.hashes, 0, Want) :
               a = [ok |-> TRUE, results |-> [id |-> w.id, about |-> w.about,
                      league |-> w.league, hashes |-> w.hashes, listings |-> p.listings,
                      fetched |-> p.consumed]]
      BY <2>2
    <3>2. p.listings \in Seq(Listing) /\ p.consumed \in Nat
      BY PageShape, PageAssumption
    <3> QED BY <3>1, <3>2 DEF ResultsShape
  <2> QED BY <1>2, <2>1, <2>2 DEF Answers
<1> QED BY <1>1, <1>2

-----------------------------------------------------------------------------
(* The steps of the service.                                               *)

LEMMA ClearedShape ==
  ASSUME NEW t \in TradeShape
  PROVE  /\ Cleared(t) \in TradeShape
         /\ Cleared(t).gen = t.gen + 1 /\ Cleared(t).busy = t.busy
         /\ Cleared(t).state = "Idle" /\ Cleared(t).results = NoResults
         /\ Cleared(t).league = t.league
<1>1. PICK g \in Nat : g = t.gen + 1
  BY DEF TradeShape
<1>2. Cleared(t) = [t EXCEPT !.gen = g, !.results = NoResults, !.state = "Idle"]
  BY <1>1 DEF Cleared, TradeShape
<1>3. Cleared(t) \in TradeShape
  BY <1>2, NoResultsShape DEF TradeShape
<1>4. Cleared(t).gen = g /\ Cleared(t).state = "Idle"
  BY <1>2 DEF TradeShape
<1>5. Cleared(t).busy = t.busy
  BY <1>2 DEF TradeShape
<1>6. Cleared(t).results = NoResults /\ Cleared(t).league = t.league
  BY <1>2 DEF TradeShape
<1> QED BY <1>1, <1>3, <1>4, <1>5, <1>6

\* search(), on the service `t` of an item `i`: nothing while one is out, or a
\* worker that carries what was noted.
LEMMA SearchShape ==
  ASSUME NEW t \in TradeShape, NEW i \in Items, Search(t, i),
         worker \in Work \cup {None}, asked \in Nat, setting \in Leagues, symbols \in BOOLEAN
  PROVE  \/ t.busy /\ trade' = t /\ UNCHANGED <<worker, asked>>
         \/ /\ ~t.busy /\ trade' \in TradeShape /\ asked' \in Nat
            /\ trade'.gen = t.gen /\ trade'.busy = TRUE /\ trade'.results = NoResults
            /\ trade'.league = setting
            /\ worker' \in Work /\ worker'.gen = t.gen /\ worker'.about = i
            /\ worker'.league = setting
            /\ trade'.state = "Searching" /\ ~worker'.append /\ worker'.id # 0
<1>1. CASE t.busy
  BY <1>1 DEF Search, InFlight
<1>2. CASE ~t.busy
  <2>1. trade' = [t EXCEPT !.busy = TRUE, !.state = "Searching", !.results = NoResults,
                           !.league = setting] /\ asked' = asked + 1
    BY <1>2 DEF Search, InFlight
  <2>2. PICK n \in 0..MaxHashes :
          worker' = [gen |-> t.gen, append |-> FALSE, about |-> i, league |-> setting,
                     fresh |-> symbols, id |-> asked', hashes |-> n, first |-> 0]
    BY <1>2 DEF Search, InFlight
  <2>3. n \in Nat /\ t.gen \in Nat /\ asked' \in Nat
    BY <2>1, PageAssumption DEF TradeShape
  <2>4. worker' \in Work
    BY <2>2, <2>3 DEF Work
  <2>5. trade' \in TradeShape
    BY <2>1, NoResultsShape DEF TradeShape
  <2>6. /\ trade'.gen = t.gen /\ trade'.busy = TRUE /\ trade'.results = NoResults
        /\ trade'.league = setting /\ trade'.state = "Searching"
    BY <2>1 DEF TradeShape
  <2>7. /\ worker'.gen = t.gen /\ worker'.about = i /\ worker'.league = setting
        /\ ~worker'.append /\ worker'.id # 0
    BY <2>1, <2>2
  <2> QED BY <1>2, <2>3, <2>4, <2>5, <2>6, <2>7
<1> QED BY <1>1, <1>2

LEMMA AdoptShape ==
  ASSUME trade \in TradeShape, NEW r \in Reply
  PROVE  /\ Adopt(r, trade) \in TradeShape
         /\ Adopt(r, trade).gen = trade.gen /\ Adopt(r, trade).busy = FALSE
         /\ Adopt(r, trade).league = trade.league
         /\ \/ r.gen # trade.gen /\ Adopt(r, trade).results = trade.results
               /\ Adopt(r, trade).state = trade.state
            \/ /\ r.gen = trade.gen /\ Adopt(r, trade).state \in {"Ok", "Error"}
               /\ \/ /\ r.append /\ Adopt(r, trade).results.id = trade.results.id
                     /\ Adopt(r, trade).results.about = trade.results.about
                     /\ Adopt(r, trade).results.league = trade.results.league
                     /\ Adopt(r, trade).results.listings
                          = trade.results.listings \o r.results.listings
                     /\ Adopt(r, trade).results.fetched
                          = trade.results.fetched + r.results.fetched
                  \/ ~r.append /\ Adopt(r, trade).results = r.results
<1>1. CASE r.gen # trade.gen
  BY <1>1 DEF Adopt, Disowned, TradeShape
<1>2. CASE r.gen = trade.gen /\ r.append
  <2>1. Adopt(r, trade) = [trade EXCEPT !.busy = FALSE, !.state = "Ok",
                             !.results = [trade.results EXCEPT
                                !.listings = trade.results.listings \o r.results.listings,
                                !.fetched = trade.results.fetched + r.results.fetched]]
    BY <1>2 DEF Adopt, Disowned, Consumed, TradeShape, ResultsShape
  <2>2. trade.results.listings \o r.results.listings \in Seq(Listing)
    BY DEF TradeShape, Reply, ResultsShape
  <2>3. trade.results.fetched + r.results.fetched \in Nat
    BY DEF TradeShape, Reply, ResultsShape
  <2> DEFINE res == [trade.results EXCEPT
                       !.listings = trade.results.listings \o r.results.listings,
                       !.fetched = trade.results.fetched + r.results.fetched]
  <2>4. res \in ResultsShape
    BY <2>2, <2>3 DEF TradeShape, ResultsShape
  <2>5. /\ res.id = trade.results.id /\ res.about = trade.results.about
        /\ res.league = trade.results.league
    BY DEF TradeShape, ResultsShape
  <2>9. /\ res.listings = trade.results.listings \o r.results.listings
        /\ res.fetched = trade.results.fetched + r.results.fetched
    BY DEF TradeShape, ResultsShape
  <2> HIDE DEF res
  <2>6. Adopt(r, trade) = [trade EXCEPT !.busy = FALSE, !.state = "Ok", !.results = res]
    BY <2>1 DEF res
  <2>7. Adopt(r, trade) \in TradeShape
    BY <2>4, <2>6 DEF TradeShape
  <2>8. /\ Adopt(r, trade).gen = trade.gen /\ Adopt(r, trade).busy = FALSE
        /\ Adopt(r, trade).league = trade.league /\ Adopt(r, trade).state = "Ok"
        /\ Adopt(r, trade).results = res
    BY <2>6 DEF TradeShape
  <2> QED BY <1>2, <2>5, <2>7, <2>8, <2>9
<1>3. CASE r.gen = trade.gen /\ ~r.append
  BY <1>3 DEF Adopt, Disowned, TradeShape, Reply
<1> QED BY <1>1, <1>2, <1>3

-----------------------------------------------------------------------------
(* The invariant.                                                          *)

LEMMA InvInit == Init => Inv
<1> SUFFICES ASSUME Init PROVE Inv
  OBVIOUS
<1>1. trade \in TradeShape
  BY NoResultsShape DEF Init, TradeShape
<1>2. queue \in Seq(Reply) /\ asked \in Nat /\ queue = <<>> /\ worker = None
  BY DEF Init
<1>3. trade.results.id = 0 /\ trade.state = "Idle"
  BY DEF Init, NoResults
<1>4. Shape
  <2>1. item \in Items \cup {None} /\ symbols \in BOOLEAN /\ setting \in Leagues
    BY DEF Init
  <2>2. worker \in Work \cup {None}
    BY <1>2
  <2> QED BY <1>1, <1>2, <2>1, <2>2 DEF Shape
<1>5. OneInFlight
  BY <1>2, <1>3 DEF OneInFlight
<1>6. Owned
  BY <1>2 DEF Owned
<1>7. ResultsMatch
  BY <1>3 DEF ResultsMatch
<1> QED BY <1>4, <1>5, <1>6, <1>7 DEF Inv

\* Everything on its way is of an earlier generation once the panel has moved on.
LEMMA MovedOn ==
  ASSUME Inv, trade' \in TradeShape, trade'.gen = trade.gen + 1, trade'.busy = trade.busy,
         trade'.state = "Idle", trade'.results = NoResults,
         item' \in Items \cup {None}, UNCHANGED <<setting, symbols, worker, queue, asked>>
  PROVE  Inv'
<1>1. Shape'
  BY DEF Inv, Shape
<1>2. OneInFlight'
  BY DEF Inv, OneInFlight
<1>3. ASSUME NEW w \in Work, OwnedWork(w) PROVE OwnedWork(w)'
  BY <1>3 DEF OwnedWork, Inv, Shape, Work, TradeShape
<1>4. ASSUME NEW r \in Reply, OwnedReply(r) PROVE OwnedReply(r)'
  BY <1>4 DEF OwnedReply, Inv, Shape, Reply, TradeShape
<1>5. Owned'
  <2>1. worker # None => worker \in Work
    BY DEF Inv, Shape
  <2>2. \A i \in 1..Len(queue) : queue[i] \in Reply
    BY DEF Inv, Shape
  <2> QED BY <1>3, <1>4, <2>1, <2>2 DEF Inv, Owned
<1>6. ResultsMatch'
  BY DEF ResultsMatch, NoResults
<1> QED BY <1>1, <1>2, <1>5, <1>6 DEF Inv

\* A search that goes out: nothing else is on its way.
LEMMA SentOut ==
  ASSUME Inv, ~trade.busy, trade' \in TradeShape, trade'.busy = TRUE, trade'.results = NoResults,
         trade'.league = setting, item' \in Items,
         worker' \in Work, worker'.gen = trade'.gen, worker'.about = item',
         worker'.league = setting, asked' \in Nat, UNCHANGED <<setting, symbols, queue>>
  PROVE  Inv'
<1>1. worker = None /\ queue = <<>>
  BY DEF Inv, OneInFlight
<1>2. Shape'
  BY DEF Inv, Shape
<1>3. OneInFlight'
  BY <1>1 DEF Inv, OneInFlight
<1>4. OwnedWork(worker)'
  BY DEF OwnedWork, TradeShape
<1>5. Owned' /\ ResultsMatch'
  BY <1>1, <1>4 DEF Owned, ResultsMatch, NoResults
<1> QED BY <1>2, <1>3, <1>5 DEF Inv

LEMMA AcceptStep == Inv /\ AcceptClipboard => Inv'
<1> SUFFICES ASSUME Inv, AcceptClipboard PROVE Inv'
  OBVIOUS
<1> DEFINE c == Cleared(trade)
<1>1. /\ c \in TradeShape /\ c.gen = trade.gen + 1 /\ c.busy = trade.busy /\ c.state = "Idle"
      /\ c.results = NoResults /\ c.league = trade.league
  BY ClearedShape DEF Inv, Shape
<1> HIDE DEF c
<1>2. CASE trade' = c /\ UNCHANGED <<worker, asked>>
  BY <1>1, <1>2, MovedOn DEF AcceptClipboard
<1>3. CASE AutoSearch /\ CanSearch(item') /\ Search(c, item')
  <2>1. item' \in Items
    BY <1>3, ItemAssumption DEF CanSearch
  <2>2. CASE trade' = c /\ UNCHANGED <<worker, asked>>
    BY <1>2, <2>2
  <2>3. CASE /\ ~c.busy /\ trade' \in TradeShape /\ asked' \in Nat
             /\ trade'.gen = c.gen /\ trade'.busy = TRUE /\ trade'.results = NoResults
             /\ trade'.league = setting
             /\ worker' \in Work /\ worker'.gen = c.gen /\ worker'.about = item'
             /\ worker'.league = setting
    BY <1>1, <2>1, <2>3, SentOut DEF AcceptClipboard
  <2> QED BY <1>1, <1>3, <2>1, <2>2, <2>3, SearchShape DEF Inv, Shape
<1> QED BY <1>2, <1>3 DEF AcceptClipboard, c

LEMMA SearchStep == Inv /\ SearchButton => Inv'
<1> SUFFICES ASSUME Inv, SearchButton PROVE Inv'
  OBVIOUS
<1>1. item \in Items /\ Search(trade, item)
  BY ItemAssumption DEF SearchButton, CanSearch
<1>2. CASE trade' = trade /\ UNCHANGED <<worker, asked>>
  BY <1>2 DEF SearchButton, Inv, Shape, OneInFlight, Owned, OwnedWork, OwnedReply, ResultsMatch
<1>3. CASE /\ ~trade.busy /\ trade' \in TradeShape /\ asked' \in Nat
           /\ trade'.gen = trade.gen /\ trade'.busy = TRUE /\ trade'.results = NoResults
           /\ trade'.league = setting
           /\ worker' \in Work /\ worker'.gen = trade.gen /\ worker'.about = item
           /\ worker'.league = setting
  BY <1>1, <1>3, SentOut DEF SearchButton
<1> QED BY <1>1, <1>2, <1>3, SearchShape DEF Inv, Shape

LEMMA UniqueStep == Inv /\ SetUnique => Inv'
<1> SUFFICES ASSUME Inv, SetUnique PROVE Inv'
  OBVIOUS
<1> DEFINE c == Cleared(trade)
<1>1. /\ c \in TradeShape /\ c.gen = trade.gen + 1 /\ c.busy = trade.busy /\ c.state = "Idle"
      /\ c.results = NoResults
  BY ClearedShape DEF Inv, Shape
<1> HIDE DEF c
<1>2. trade' = c /\ item' \in Items /\ UNCHANGED <<setting, symbols, worker, queue, asked>>
  BY DEF SetUnique, c
<1> QED BY <1>1, <1>2, MovedOn

\* The page that is asked for carries no subject of its own.
LEMMA LoadMoreStep == Inv /\ LoadMore => Inv'
<1> SUFFICES ASSUME Inv, LoadMore PROVE Inv'
  OBVIOUS
<1>1. ~trade.busy /\ worker = None /\ queue = <<>>
  BY DEF LoadMore, CanLoadMore, InFlight, Inv, OneInFlight
<1>2. /\ trade' = [trade EXCEPT !.busy = TRUE, !.state = "Searching"]
      /\ UNCHANGED <<item, setting, symbols, queue, asked>>
  BY DEF LoadMore
<1>3. /\ trade' \in TradeShape /\ trade'.gen = trade.gen /\ trade'.busy = TRUE
      /\ trade'.results = trade.results /\ trade'.league = trade.league
  BY <1>2 DEF Inv, Shape, TradeShape
<1>4. worker' = [gen |-> trade.gen, append |-> TRUE, about |-> None, league |-> None,
                 fresh |-> TRUE, id |-> trade.results.id, hashes |-> trade.results.hashes,
                 first |-> trade.results.fetched]
  BY DEF LoadMore, PageFrom
<1>5. /\ trade.gen \in Nat /\ trade.results.id \in Nat /\ trade.results.hashes \in Nat
      /\ trade.results.fetched \in Nat
  BY DEF Inv, Shape, TradeShape, ResultsShape
<1>6. worker' \in Work
  BY <1>4, <1>5 DEF Work
<1>7. Shape'
  BY <1>2, <1>3, <1>6 DEF Inv, Shape
<1>8. OneInFlight'
  BY <1>1, <1>2, <1>3 DEF OneInFlight
<1>9. OwnedWork(worker)'
  BY <1>3, <1>4, <1>5 DEF OwnedWork
<1>10. Owned'
  BY <1>1, <1>2, <1>9 DEF Owned
<1>11. ResultsMatch'
  BY <1>2, <1>3 DEF Inv, ResultsMatch
<1> QED BY <1>7, <1>8, <1>10, <1>11 DEF Inv

\* The worker ends: what it pushes is of what it was asked.
LEMMA WorkerStep == Inv /\ WorkerDone => Inv'
<1> SUFFICES ASSUME Inv, WorkerDone PROVE Inv'
  OBVIOUS
<1>1. worker \in Work /\ worker' = None /\ queue = <<>> /\ trade.busy /\ OwnedWork(worker)
  BY DEF WorkerDone, Inv, Shape, OneInFlight, Owned
<1>2. UNCHANGED <<item, setting, trade, symbols, asked>>
  BY DEF WorkerDone
<1>3. ResultsMatch'
  BY <1>2 DEF Inv, ResultsMatch
<1>4. CASE UNCHANGED queue
  <2>1. Shape'
    BY <1>1, <1>2, <1>4 DEF Inv, Shape
  <2>2. OneInFlight' /\ Owned'
    BY <1>1, <1>2, <1>4 DEF Inv, OneInFlight, Owned
  <2> QED BY <1>3, <2>1, <2>2 DEF Inv
<1>5. ASSUME NEW a \in Answers(worker), NEW fetched \in BOOLEAN,
             queue' = Append(queue, [gen |-> worker.gen, append |-> worker.append, ok |-> a.ok,
                                     results |-> a.results, symbols |-> fetched])
      PROVE  Inv'
  <2> DEFINE r == [gen |-> worker.gen, append |-> worker.append, ok |-> a.ok,
                   results |-> a.results, symbols |-> fetched]
  <2>1. /\ a.ok \in BOOLEAN /\ a.results \in ResultsShape
        /\ ~worker.append /\ a.results.id # 0
             => a.results.about = worker.about /\ a.results.league = worker.league
    BY <1>1, AnswerIsOwn
  <2>2. r \in Reply
    BY <1>1, <2>1 DEF Work, Reply
  <2>3. OwnedReply(r)
    BY <1>1, <2>1 DEF OwnedReply, OwnedWork
  <2> HIDE DEF r
  <2>10. PICK q \in Reply : q = r
    BY <2>2
  <2>11. OwnedReply(q)
    BY <2>3, <2>10
  <2>4. queue' = Append(<<>>, q)
    BY <1>1, <1>5, <2>10 DEF r
  <2>5. queue' \in Seq(Reply) /\ Len(queue') = 1 /\ queue'[1] = q
    BY <2>4
  <2>6. Shape'
    BY <1>1, <1>2, <2>5 DEF Inv, Shape
  <2>7. OneInFlight'
    BY <1>1, <1>2, <2>5 DEF Inv, OneInFlight
  <2>8. OwnedReply(q)'
    BY <1>2, <2>11 DEF OwnedReply
  <2>9. Owned'
    <3>1. \A i \in 1..Len(queue') : i = 1
      BY <2>5
    <3>2. OwnedReply(queue[1])'
      BY <2>5, <2>8 DEF OwnedReply
    <3> QED BY <1>1, <3>1, <3>2 DEF Owned
  <2> QED BY <1>3, <2>6, <2>7, <2>9 DEF Inv
<1> QED BY <1>4, <1>5 DEF WorkerDone

\* A result reaches the main thread: dropped, appended or shown.
LEMMA TradeEventStep == Inv /\ TradeEvent => Inv'
<1> SUFFICES ASSUME Inv, TradeEvent PROVE Inv'
  OBVIOUS
<1> DEFINE r == Head(queue)
           t == Adopt(r, trade)
<1>1. queue # <<>> /\ queue' = Tail(queue) /\ trade' = t
      /\ symbols' = (symbols \/ r.symbols) /\ UNCHANGED <<item, setting, worker, asked>>
  BY DEF TradeEvent
<1>2. Len(queue) = 1 /\ r = queue[1] /\ r \in Reply /\ queue' = <<>> /\ worker = None
  <2>1. queue \in Seq(Reply) /\ Len(queue) <= 1 /\ worker = None
    BY <1>1 DEF Inv, Shape, OneInFlight
  <2>2. Len(queue) = 1
    <3>1. PICK n \in Nat : n = Len(queue) /\ n # 0
      BY <1>1, <2>1, EmptySeq
    <3>2. n <= 1
      BY <2>1, <3>1
    <3> QED BY <3>1, <3>2
  <2>3. queue' = <<>>
    BY <1>1, <2>1, <2>2
  <2>4. r = queue[1] /\ r \in Reply
    BY <2>1, <2>2
  <2> QED BY <2>1, <2>2, <2>3, <2>4
<1>3. OwnedReply(r)
  BY <1>2 DEF Inv, Owned
<1> HIDE DEF r
<1>4. /\ t \in TradeShape /\ t.gen = trade.gen /\ t.busy = FALSE /\ t.league = trade.league
      /\ \/ r.gen # trade.gen /\ t.results = trade.results /\ t.state = trade.state
         \/ /\ r.gen = trade.gen /\ t.state \in {"Ok", "Error"}
            /\ \/ /\ r.append /\ t.results.id = trade.results.id
                  /\ t.results.about = trade.results.about
                  /\ t.results.league = trade.results.league
               \/ ~r.append /\ t.results = r.results
  BY <1>2, AdoptShape DEF Inv, Shape
<1> HIDE DEF t
<1>5. symbols' \in BOOLEAN
  BY <1>1, <1>2 DEF Inv, Shape, Reply
<1>6. Shape'
  BY <1>1, <1>2, <1>4, <1>5 DEF Inv, Shape
<1>7. ResultsMatch'
  <2>1. CASE t.results = trade.results
    BY <1>1, <1>4, <2>1 DEF Inv, ResultsMatch
  <2>2. CASE /\ t.results.id = trade.results.id /\ t.results.about = trade.results.about
             /\ t.results.league = trade.results.league
    BY <1>1, <1>4, <2>2 DEF Inv, ResultsMatch
  <2>3. CASE r.gen = trade.gen /\ ~r.append /\ t.results = r.results
    BY <1>1, <1>3, <1>4, <2>3 DEF OwnedReply, ResultsMatch
  <2> QED BY <1>4, <2>1, <2>2, <2>3
<1>8. Owned'
  <2>1. queue' = <<>> /\ worker' = None
    BY <1>1, <1>2
  <2> QED BY <2>1 DEF Owned
<1>9. t.state # "Searching"
  BY <1>3, <1>4 DEF OwnedReply
<1>10. OneInFlight'
  <2>1. queue' = <<>> /\ worker' = None /\ Len(<<>>) = 0
    BY <1>1, <1>2
  <2>2. trade'.state # "Searching"
    BY <1>1, <1>9
  <2> QED BY <2>1, <2>2 DEF OneInFlight
<1> QED BY <1>6, <1>7, <1>8, <1>10 DEF Inv

\* The other handlers leave the service and what is on its way alone, or empty it.
LEMMA FrameStep ==
  Inv /\ (Hover \/ DataEvent \/ ChangeLeague \/ SymbolsExpire \/ Cancel \/ Stopped
          \/ UNCHANGED vars) => Inv'
<1> SUFFICES ASSUME Inv, Hover \/ DataEvent \/ ChangeLeague \/ SymbolsExpire \/ Cancel \/ Stopped
                           \/ UNCHANGED vars
             PROVE  Inv'
  OBVIOUS
<1>1. UNCHANGED <<item, trade, worker, queue, asked>>
  BY DEF Hover, DataEvent, ChangeLeague, SymbolsExpire, Cancel, Stopped, vars
<1>2. setting' \in Leagues /\ symbols' \in BOOLEAN
  BY DEF Inv, Shape, Hover, DataEvent, ChangeLeague, SymbolsExpire, Cancel, Stopped, vars
<1>3. Shape'
  BY <1>1, <1>2 DEF Inv, Shape
<1>4. OneInFlight' /\ ResultsMatch'
  BY <1>1 DEF Inv, OneInFlight, ResultsMatch
<1>5. Owned'
  BY <1>1 DEF Inv, Owned, OwnedWork, OwnedReply
<1> QED BY <1>3, <1>4, <1>5 DEF Inv

LEMMA DrainStep == Inv /\ Drain => Inv'
<1> SUFFICES ASSUME Inv, Drain PROVE Inv'
  OBVIOUS
<1>1. UNCHANGED <<item, setting, trade, symbols, worker, asked>> /\ worker = None /\ queue' = <<>>
  BY DEF Drain, Joined
<1>2. Len(queue') = 0 /\ queue' \in Seq(Reply)
  BY <1>1
<1>3. Shape'
  BY <1>1, <1>2 DEF Inv, Shape
<1>4. OneInFlight'
  <2>1. ~trade'.busy => trade'.state # "Searching"
    BY <1>1 DEF Inv, OneInFlight
  <2> QED BY <1>1, <1>2, <2>1 DEF OneInFlight
<1>5. Owned' /\ ResultsMatch'
  BY <1>1, <1>2 DEF Inv, Owned, ResultsMatch
<1> QED BY <1>3, <1>4, <1>5 DEF Inv

LEMMA InvStep == Inv /\ [Next]_vars => Inv'
  BY AcceptStep, SearchStep, UniqueStep, LoadMoreStep, WorkerStep, TradeEventStep, FrameStep,
     DrainStep
  DEF Next, MainThread

LEMMA InvAlways == Spec => []Inv
  BY InvInit, InvStep, PTL DEF Spec

\* One request at a time: search() and load_more() never find a worker to wait
\* for, and what clear() disowns is the only thing on its way.
THEOREM OneRequestAtATime == Spec => []OneInFlight
<1>1. Inv => OneInFlight
  BY DEF Inv
<1> QED BY <1>1, InvAlways, PTL

\* However the answers and the panel's moves interleave, what is listed is of
\* the item the panel is about, in the league it names.
THEOREM ListedIsOfItem == Spec => []ResultsMatch
<1>1. Inv => ResultsMatch
  BY DEF Inv
<1> QED BY <1>1, InvAlways, PTL
-----------------------------------------------------------------------------
(* The rows parsed on hover.                                               *)

\* search() drops the rows and keeps what was parsed of them; the rows only change again with
\* an answer, which drops that.
LEMMA RowsStep == Inv /\ ParsedIsOfRow /\ [Next]_vars => ParsedIsOfRow'
<1> SUFFICES ASSUME Inv, ParsedIsOfRow, [Next]_vars PROVE ParsedIsOfRow'
  OBVIOUS
<1>1. CASE parsed' = <<>>
  BY <1>1 DEF ParsedIsOfRow
<1>2. ASSUME parsed' = parsed, trade'.results.listings = trade.results.listings
      PROVE  ParsedIsOfRow'
  BY <1>2 DEF ParsedIsOfRow
<1>3. ASSUME parsed' = parsed, trade'.results.listings = <<>> PROVE ParsedIsOfRow'
  <2>1. Len(trade'.results.listings) = 0
    BY <1>3
  <2> QED
    BY <1>3, <2>1 DEF ParsedIsOfRow
<1>4. CASE SearchButton
  <2>1. CASE InFlight(trade)
    BY <1>2, <1>4, <2>1 DEF SearchButton, Search
  <2>2. CASE ~InFlight(trade)
    <3>1. trade' = [trade EXCEPT !.busy = TRUE, !.state = "Searching", !.results = NoResults,
                                 !.league = setting]
      BY <1>4, <2>2 DEF SearchButton, Search
    <3>2. trade'.results.listings = <<>>
      BY <3>1 DEF Inv, Shape, TradeShape, NoResults
    <3> QED
      BY <1>3, <1>4, <3>2 DEF SearchButton
  <2> QED
    BY <2>1, <2>2
<1>5. CASE LoadMore
  <2>1. trade'.results = trade.results
    BY <1>5 DEF LoadMore, Inv, Shape, TradeShape
  <2> QED
    BY <1>2, <1>5, <2>1 DEF LoadMore
<1>6. CASE Hover
  <2> DEFINE rows == trade.results.listings
             resized == [i \in 1..Len(rows) |-> IF i <= Len(parsed) THEN parsed[i] ELSE None]
  <2>1. PICK i \in 1..Len(rows) :
          parsed' = [resized EXCEPT ![i] = [row |-> rows[i], data |-> data]]
    BY <1>6 DEF Hover
  <2>2. trade' = trade /\ Len(rows) \in Nat
    BY <1>6 DEF Hover, Inv, Shape, TradeShape, ResultsShape
  <2>3. Len(parsed') = Len(rows)
    BY <2>1, <2>2
  <2>4. ASSUME NEW j \in 1..Len(rows), parsed'[j] # None PROVE parsed'[j].row = rows[j]
    <3>1. CASE j = i
      BY <2>1, <3>1
    <3>2. CASE j # i
      <4>1. parsed'[j] = resized[j]
        BY <2>1, <3>2
      <4>2. j <= Len(parsed) /\ parsed'[j] = parsed[j]
        BY <2>4, <4>1
      <4> QED
        BY <2>4, <4>2 DEF ParsedIsOfRow
    <3> QED
      BY <3>1, <3>2
  <2> HIDE DEF rows, resized
  <2> QED
    BY <2>2, <2>3, <2>4 DEF ParsedIsOfRow, rows
<1>7. CASE TradeEvent \/ AcceptClipboard \/ SetUnique
  BY <1>1, <1>7 DEF TradeEvent, AcceptClipboard, SetUnique, Reparse
<1>8. CASE WorkerDone \/ DataEvent \/ ChangeLeague \/ SymbolsExpire \/ Cancel \/ Drain \/ UNCHANGED vars
  BY <1>2, <1>8 DEF WorkerDone, DataEvent, ChangeLeague, SymbolsExpire, Cancel, Drain, vars
<1> QED
  BY <1>4, <1>5, <1>6, <1>7, <1>8 DEF Next, MainThread, Stopped

\* A listing parsed on hover is the listing of the row it is kept for (listing_item), for every
\* item, league, page size and number of searches.
THEOREM ParsedStaysWithRow == Spec => []ParsedIsOfRow
<1>1. Init => ParsedIsOfRow
  BY DEF Init, ParsedIsOfRow
<1> QED
  BY <1>1, InvAlways, RowsStep, PTL DEF Spec
-----------------------------------------------------------------------------
(* The listings keep the promise of PriceAnswer.                           *)
(*                                                                         *)
(* A row in place could come from a page asked for twice, and a page could *)
(* reach results that are no longer those it follows. Paged says why not:  *)
(* the listings ascend through the hashes and stop at `fetched`, and what  *)
(* is on its way for the panel's own generation starts where they stop, or *)
(* finds none there.                                                       *)

\* Listings in the order of the search, each once, past the first `lo` hashes and up to `hi`.
Ascends(l, lo, hi) ==
  /\ \A i \in 1..Len(l) : lo < l[i].hash /\ l[i].hash <= hi
  /\ \A i, j \in 1..Len(l) : i < j => l[i].hash < l[j].hash

Listed(r) == /\ r.id = 0 => r.hashes = 0 /\ r.listings = <<>>
             /\ Ascends(r.listings, 0, r.fetched)

PagedWork(w) ==
  w.gen = trade.gen =>
    /\ trade.state = "Searching"
    /\ w.append => trade.results.id # 0 /\ w.first = trade.results.fetched
    /\ ~w.append => w.id # 0 /\ trade.results.listings = <<>>
PagedReply(r) ==
  r.gen = trade.gen =>
    /\ trade.state = "Searching"
    /\ r.append => /\ trade.results.id # 0
                   /\ Ascends(r.results.listings, trade.results.fetched,
                              trade.results.fetched + r.results.fetched)
    /\ ~r.append => trade.results.listings = <<>> /\ Listed(r.results)

Paged == /\ Listed(trade.results)
         /\ worker # None => PagedWork(worker)
         /\ \A i \in 1..Len(queue) : PagedReply(queue[i])

LEMMA NothingListed == Listed(NoResults)
  BY DEF Listed, NoResults, Ascends

\* fetch_page() lists what is left of the hashes after `first`, in their order.
LEMMA PageAscends ==
  ASSUME NEW id \in Nat, NEW hashes \in Nat, NEW first \in Nat, NEW count \in Nat,
         NEW p \in FetchPage(id, hashes, first, count)
  PROVE  p.consumed \in Nat /\ Ascends(p.listings, first, first + p.consumed)
<1> DEFINE end == IF first + count < hashes THEN first + count ELSE hashes
           whole == {n \in 0..(end - first) : n % Batch = 0 \/ n = end - first}
<1>0. PICK n \in whole :
        p \in {[listings |-> [i \in 1..Len(s) |-> [search |-> id, hash |-> s[i]]], consumed |-> n]
                : s \in Unsold(first, n)}
  BY DEF FetchPage
<1>1. PICK s \in Unsold(first, n) :
        p = [listings |-> [i \in 1..Len(s) |-> [search |-> id, hash |-> s[i]]], consumed |-> n]
  BY <1>0
<1>2. n \in Nat
  OBVIOUS
<1>3. PICK k \in 0..n :
        s \in {t \in [1..k -> (first + 1)..(first + n)] : \A i, j \in 1..k : i < j => t[i] < t[j]}
  BY DEF Unsold
<1>4. Len(s) = k /\ \A i \in 1..k : s[i] \in (first + 1)..(first + n)
  BY <1>2, <1>3
<1>5. Len(p.listings) = k /\ \A i \in 1..k : p.listings[i].hash = s[i]
  BY <1>1, <1>2, <1>4
<1>6. p.consumed = n
  BY <1>1
<1>7. \A i \in 1..k : first < p.listings[i].hash /\ p.listings[i].hash <= first + n
  BY <1>2, <1>4, <1>5
<1>8. ASSUME NEW i \in 1..k, NEW j \in 1..k, i < j
      PROVE  p.listings[i].hash < p.listings[j].hash
  BY <1>3, <1>5, <1>8
<1> QED BY <1>2, <1>5, <1>6, <1>7, <1>8 DEF Ascends

\* What a worker of the panel's generation brings back.
LEMMA AnswerIsPaged ==
  ASSUME NEW w \in Work, NEW a \in Answers(w)
  PROVE  /\ w.append => Ascends(a.results.listings, w.first, w.first + a.results.fetched)
         /\ ~w.append /\ w.id # 0 => Listed(a.results)
<1> USE DEF Work
<1>1. CASE w.append
  <2>1. PICK p \in FetchPage(w.id, w.hashes, w.first, Batch) :
          a = [ok |-> TRUE, results |-> [NoResults EXCEPT !.listings = p.listings,
                                                         !.fetched = p.consumed]]
    BY <1>1 DEF Answers
  <2>2. a.results.listings = p.listings /\ a.results.fetched = p.consumed
    BY <2>1 DEF NoResults
  <2>3. Ascends(p.listings, w.first, w.first + p.consumed)
    BY PageAscends, PageAssumption
  <2> QED BY <1>1, <2>2, <2>3
<1>2. ASSUME ~w.append, w.id # 0 PROVE Listed(a.results)
  <2>1. CASE a = [ok |-> FALSE, results |-> NoResults]
    BY <2>1, NothingListed
  <2>2. ASSUME NEW p \in FetchPage(w.id, w.hashes, 0, Want),
               a = [ok |-> TRUE, results |-> [id |-> w.id, about |-> w.about,
                      league |-> w.league, hashes |-> w.hashes, listings |-> p.listings,
                      fetched |-> p.consumed]]
        PROVE  Listed(a.results)
    <3>1. p.consumed \in Nat /\ Ascends(p.listings, 0, 0 + p.consumed)
      BY PageAscends, PageAssumption
    <3>2. 0 + p.consumed = p.consumed
      BY <3>1
    <3>3. a.results.id = w.id /\ a.results.listings = p.listings /\ a.results.fetched = p.consumed
      BY <2>2
    <3> QED BY <1>2, <3>1, <3>2, <3>3 DEF Listed
  <2> QED BY <1>2, <2>1, <2>2 DEF Answers
<1> QED BY <1>1, <1>2

\* load_more() picks up where the last page stopped, so what it brings is appended in order.
LEMMA PageFollows ==
  ASSUME NEW l \in Seq(Listing), NEW m \in Seq(Listing), NEW f \in Nat, NEW n \in Nat,
         Ascends(l, 0, f), Ascends(m, f, f + n)
  PROVE  Ascends(l \o m, 0, f + n)
<1>1. PICK a \in Nat, b \in Nat : a = Len(l) /\ b = Len(m)
  OBVIOUS
<1>2. /\ Len(l \o m) = a + b
      /\ \A i \in 1..a : (l \o m)[i] = l[i]
      /\ \A i \in (a + 1)..(a + b) : (l \o m)[i] = m[i - a] /\ i - a \in 1..b
  BY <1>1
<1>3. /\ \A i \in 1..a : l[i].hash \in Nat /\ 0 < l[i].hash /\ l[i].hash <= f
      /\ \A i \in 1..b : m[i].hash \in Nat /\ f < m[i].hash /\ m[i].hash <= f + n
  <2>1. (\A i \in 1..a : l[i] \in Listing) /\ (\A i \in 1..b : m[i] \in Listing)
    BY <1>1
  <2>2. (\A i \in 1..a : l[i].hash \in Nat) /\ (\A i \in 1..b : m[i].hash \in Nat)
    BY <2>1 DEF Listing
  <2> QED BY <1>1, <2>2 DEF Ascends
<1>4. ASSUME NEW i \in 1..(a + b)
      PROVE  0 < (l \o m)[i].hash /\ (l \o m)[i].hash <= f + n
  <2>1. CASE i \in 1..a
    BY <1>2, <1>3, <2>1
  <2>2. CASE i \in (a + 1)..(a + b)
    <3>1. PICK k \in 1..b : (l \o m)[i] = m[k]
      BY <1>2, <2>2
    <3>2. m[k].hash \in Nat /\ f < m[k].hash /\ m[k].hash <= f + n
      BY <1>3
    <3> QED BY <3>1, <3>2
  <2>3. i \in 1..a \/ i \in (a + 1)..(a + b)
    OBVIOUS
  <2> QED BY <2>1, <2>2, <2>3
<1>5. ASSUME NEW i \in 1..(a + b), NEW j \in 1..(a + b), i < j
      PROVE  (l \o m)[i].hash < (l \o m)[j].hash
  <2>1. CASE j \in 1..a
    <3>1. i \in 1..a /\ l[i].hash < l[j].hash
      BY <1>1, <1>5, <2>1 DEF Ascends
    <3> QED BY <1>2, <2>1, <3>1
  <2>2. CASE i \in 1..a /\ j \in (a + 1)..(a + b)
    <3>1. PICK k \in 1..b : (l \o m)[j] = m[k]
      BY <1>2, <2>2
    <3>2. l[i].hash \in Nat /\ m[k].hash \in Nat /\ l[i].hash <= f /\ f < m[k].hash
      BY <1>3, <2>2
    <3>3. (l \o m)[i] = l[i]
      BY <1>2, <2>2
    <3> QED BY <3>1, <3>2, <3>3
  <2>3. CASE i \in (a + 1)..(a + b)
    <3>1. i - a \in 1..b /\ j - a \in 1..b /\ i - a < j - a /\ j \in (a + 1)..(a + b)
      BY <1>5, <2>3
    <3>2. m[i - a].hash < m[j - a].hash
      BY <1>1, <3>1 DEF Ascends
    <3>3. (l \o m)[i] = m[i - a] /\ (l \o m)[j] = m[j - a]
      BY <1>2, <2>3, <3>1
    <3> QED BY <3>2, <3>3
  <2>4. j \in 1..a \/ j \in (a + 1)..(a + b)
    OBVIOUS
  <2>5. i \in 1..a \/ i \in (a + 1)..(a + b)
    OBVIOUS
  <2> QED BY <2>1, <2>2, <2>3, <2>4, <2>5
<1> DEFINE w == l \o m
<1>6. Len(w) = a + b
  BY <1>2
<1>7. \A i \in 1..(a + b) : 0 < w[i].hash /\ w[i].hash <= f + n
  BY <1>4
<1>8. \A i, j \in 1..(a + b) : i < j => w[i].hash < w[j].hash
  BY <1>5
<1> HIDE DEF w
<1>9. Ascends(w, 0, f + n)
  BY <1>6, <1>7, <1>8 DEF Ascends
<1> QED BY <1>9 DEF w
LEMMA PagedInit == Init => Paged
  BY NothingListed DEF Init, Paged

\* What is on its way once the panel has moved on is of no concern to it.
LEMMA PagedMovedOn ==
  ASSUME Inv, trade' \in TradeShape, trade'.gen = trade.gen + 1, trade'.results = NoResults,
         UNCHANGED <<worker, queue>>
  PROVE  Paged'
<1>1. trade.gen \in Nat
  BY DEF Inv, Shape, TradeShape
<1>2. worker # None => worker.gen # trade'.gen
  BY <1>1 DEF Inv, Shape, Owned, OwnedWork, Work
<1>3. ASSUME NEW i \in 1..Len(queue) PROVE queue[i].gen # trade'.gen
  <2>1. queue[i] \in Reply /\ OwnedReply(queue[i])
    BY DEF Inv, Shape, Owned
  <2>2. queue[i].gen \in Nat /\ queue[i].gen <= trade.gen
    BY <2>1 DEF OwnedReply, Reply
  <2> QED BY <1>1, <2>2
<1>4. worker' # None => PagedWork(worker)'
  BY <1>2 DEF PagedWork
<1>5. \A i \in 1..Len(queue') : PagedReply(queue[i])'
  BY <1>3 DEF PagedReply
<1> QED BY <1>4, <1>5, NothingListed DEF Paged

\* A search that goes out starts with nothing listed.
LEMMA PagedSentOut ==
  ASSUME Inv, ~trade.busy, trade'.state = "Searching", trade'.results = NoResults,
         ~worker'.append, worker'.id # 0, UNCHANGED queue
  PROVE  Paged'
<1>1. queue' = <<>>
  BY DEF Inv, OneInFlight
<1>2. trade'.results.listings = <<>>
  BY DEF NoResults
<1>3. PagedWork(worker)'
  BY <1>2 DEF PagedWork
<1> QED BY <1>1, <1>3, NothingListed DEF Paged

LEMMA PagedLoadMore == Inv /\ Paged /\ LoadMore => Paged'
<1> SUFFICES ASSUME Inv, Paged, LoadMore PROVE Paged'
  OBVIOUS
<1>1. queue' = <<>> /\ trade.results.fetched < trade.results.hashes
  BY DEF LoadMore, CanLoadMore, InFlight, Inv, OneInFlight
<1>2. trade'.results = trade.results /\ trade'.state = "Searching"
  BY DEF LoadMore, Inv, Shape, TradeShape
<1>3. worker'.append /\ worker'.first = trade.results.fetched
  BY DEF LoadMore, PageFrom
<1>4. trade.results.id # 0
  <2>1. trade.results.fetched \in Nat /\ trade.results.hashes \in Nat
    BY DEF Inv, Shape, TradeShape, ResultsShape
  <2> QED BY <1>1, <2>1 DEF Paged, Listed
<1>5. PagedWork(worker)'
  BY <1>2, <1>3, <1>4 DEF PagedWork
<1> QED BY <1>1, <1>2, <1>5 DEF Paged

LEMMA PagedWorker == Inv /\ Paged /\ WorkerDone => Paged'
<1> SUFFICES ASSUME Inv, Paged, WorkerDone PROVE Paged'
  OBVIOUS
<1>1. worker \in Work /\ worker' = None /\ queue = <<>> /\ trade' = trade /\ PagedWork(worker)
  BY DEF WorkerDone, Inv, Shape, OneInFlight, Paged
<1>2. CASE UNCHANGED queue
  BY <1>1, <1>2 DEF Paged
<1>3. ASSUME NEW a \in Answers(worker), NEW fetched \in BOOLEAN,
             queue' = Append(queue, [gen |-> worker.gen, append |-> worker.append, ok |-> a.ok,
                                     results |-> a.results, symbols |-> fetched])
      PROVE  Paged'
  <2>1. /\ worker.append => Ascends(a.results.listings, worker.first,
                                    worker.first + a.results.fetched)
        /\ ~worker.append /\ worker.id # 0 => Listed(a.results)
    BY <1>1, AnswerIsPaged
  <2>2. PICK r : r = [gen |-> worker.gen, append |-> worker.append, ok |-> a.ok,
                      results |-> a.results, symbols |-> fetched]
    OBVIOUS
  <2>3. PagedReply(r)
    BY <1>1, <2>1, <2>2 DEF PagedReply, PagedWork, Work
  <2>4. Len(queue') = 1 /\ queue'[1] = r
    BY <1>1, <1>3, <2>2
  <2>5. PagedReply(queue[1])'
    BY <1>1, <2>3, <2>4 DEF PagedReply
  <2>6. \A i \in 1..Len(queue') : i = 1
    BY <2>4
  <2> QED BY <1>1, <2>5, <2>6 DEF Paged
<1> QED BY <1>2, <1>3 DEF WorkerDone

\* The answer in the queue, the only one, and what it does to the listings: nothing when it is
\* disowned, and otherwise they start over or go on.
LEMMA Answered ==
  ASSUME Inv, Paged, TradeEvent
  PROVE  /\ queue' = <<>> /\ worker' = None /\ item' = item /\ trade' \in TradeShape
         /\ \/ trade'.results = trade.results /\ trade'.state = trade.state
            \/ /\ trade.state = "Searching" /\ trade'.state # "Searching"
               /\ \/ /\ trade.results.listings = <<>> /\ Listed(trade'.results)
                     /\ trade'.results \in ResultsShape
                     /\ trade'.results.id # 0 => trade'.results.about = item
                  \/ \E m \in Seq(Listing), n \in Nat :
                       /\ Ascends(m, trade.results.fetched, trade.results.fetched + n)
                       /\ trade.results.id # 0 /\ trade'.results.id = trade.results.id
                       /\ trade'.results.about = trade.results.about
                       /\ trade'.results.listings = trade.results.listings \o m
                       /\ trade'.results.fetched = trade.results.fetched + n
<1>1. queue \in Seq(Reply) /\ Len(queue) <= 1 /\ worker = None /\ queue # <<>>
  BY DEF TradeEvent, Inv, Shape, OneInFlight
<1>2. Len(queue) = 1
  <2>1. PICK n \in Nat : n = Len(queue) /\ n # 0
    BY <1>1, EmptySeq
  <2> QED BY <1>1, <2>1
<1>3. PICK r \in Reply : r = queue[1] /\ r = Head(queue)
  BY <1>1, <1>2
<1>4. queue' = <<>> /\ worker' = None /\ item' = item /\ trade' = Adopt(r, trade)
  BY <1>1, <1>2, <1>3 DEF TradeEvent
<1>5. PagedReply(r) /\ OwnedReply(r)
  BY <1>2, <1>3 DEF Paged, Inv, Owned
<1>6. trade \in TradeShape
  BY DEF Inv, Shape
<1>7. CASE r.gen # trade.gen
  BY <1>4, <1>6, <1>7, AdoptShape
<1>8. CASE r.gen = trade.gen
  <2>1. trade.state = "Searching"
    BY <1>5, <1>8 DEF PagedReply
  <2>2. trade' \in TradeShape /\ trade'.state \in {"Ok", "Error"}
    BY <1>4, <1>6, <1>8, AdoptShape
  <2>3. CASE r.append
    <3>1. /\ trade'.results.id = trade.results.id
          /\ trade'.results.about = trade.results.about
          /\ trade'.results.listings = trade.results.listings \o r.results.listings
          /\ trade'.results.fetched = trade.results.fetched + r.results.fetched
      BY <1>4, <1>6, <1>8, <2>3, AdoptShape
    <3>2. r.results.listings \in Seq(Listing) /\ r.results.fetched \in Nat
      BY DEF Reply, ResultsShape
    <3>3. /\ trade.results.id # 0
          /\ Ascends(r.results.listings, trade.results.fetched,
                     trade.results.fetched + r.results.fetched)
      BY <1>5, <1>8, <2>3 DEF PagedReply
    <3> QED BY <1>4, <2>1, <2>2, <3>1, <3>2, <3>3
  <2>4. CASE ~r.append
    <3>1. trade'.results = r.results /\ r.results \in ResultsShape
      BY <1>4, <1>6, <1>8, <2>4, AdoptShape DEF Reply
    <3>2. trade.results.listings = <<>> /\ Listed(r.results)
      BY <1>5, <1>8, <2>4 DEF PagedReply
    <3>3. r.results.id # 0 => r.results.about = item
      BY <1>5, <1>8, <2>4 DEF OwnedReply
    <3> QED BY <1>4, <2>1, <2>2, <3>1, <3>2, <3>3
  <2> QED BY <2>3, <2>4
<1> QED BY <1>7, <1>8

LEMMA PagedAnswered == Inv /\ Paged /\ TradeEvent => Paged'
<1> SUFFICES ASSUME Inv, Paged, TradeEvent PROVE Paged'
  OBVIOUS
<1>1. queue' = <<>> /\ worker' = None
  BY Answered
<1>2. Listed(trade'.results)
  <2>1. CASE trade'.results = trade.results
    BY <2>1 DEF Paged
  <2>2. ASSUME NEW m \in Seq(Listing), NEW n \in Nat,
               Ascends(m, trade.results.fetched, trade.results.fetched + n),
               trade.results.id # 0, trade'.results.id = trade.results.id,
               trade'.results.listings = trade.results.listings \o m,
               trade'.results.fetched = trade.results.fetched + n
        PROVE  Listed(trade'.results)
    <3>1. trade.results.listings \in Seq(Listing) /\ trade.results.fetched \in Nat
      BY DEF Inv, Shape, TradeShape, ResultsShape
    <3>2. Ascends(trade.results.listings, 0, trade.results.fetched)
      BY DEF Paged, Listed
    <3>3. Ascends(trade.results.listings \o m, 0, trade.results.fetched + n)
      BY <2>2, <3>1, <3>2, PageFollows
    <3> QED BY <2>2, <3>3 DEF Listed
  <2> QED BY <2>1, <2>2, Answered
<1> QED BY <1>1, <1>2 DEF Paged

LEMMA PagedStep == Inv /\ Paged /\ [Next]_vars => Paged'
<1> SUFFICES ASSUME Inv, Paged, [Next]_vars PROVE Paged'
  OBVIOUS
<1>1. trade \in TradeShape
  BY DEF Inv, Shape
<1>2. ASSUME UNCHANGED <<trade, worker, queue>> PROVE Paged'
  BY <1>2 DEF Paged, PagedWork, PagedReply
<1>3. CASE SetUnique
  BY <1>1, <1>3, ClearedShape, PagedMovedOn DEF SetUnique
<1>4. CASE AcceptClipboard
  <2>1. CASE trade' = Cleared(trade) /\ UNCHANGED <<worker, asked>>
    BY <1>1, <1>4, <2>1, ClearedShape, PagedMovedOn DEF AcceptClipboard
  <2>2. CASE CanSearch(item') /\ Search(Cleared(trade), item')
    <3>1. Cleared(trade) \in TradeShape /\ Cleared(trade).busy = trade.busy
      BY <1>1, ClearedShape
    <3>2. item' \in Items
      BY <2>2, ItemAssumption DEF CanSearch
    <3>3. worker \in Work \cup {None} /\ asked \in Nat /\ setting \in Leagues /\ symbols \in BOOLEAN
      BY DEF Inv, Shape
    <3>4. CASE trade' = Cleared(trade) /\ UNCHANGED <<worker, asked>>
      BY <2>1, <3>4
    <3>5. CASE /\ ~Cleared(trade).busy /\ trade'.state = "Searching" /\ trade'.results = NoResults
               /\ ~worker'.append /\ worker'.id # 0
      BY <1>4, <3>1, <3>5, PagedSentOut DEF AcceptClipboard
    <3> QED BY <2>2, <3>1, <3>2, <3>3, <3>4, <3>5, SearchShape
  <2> QED BY <1>4, <2>1, <2>2 DEF AcceptClipboard
<1>5. CASE SearchButton
  <2>1. item \in Items /\ Search(trade, item)
    BY <1>5, ItemAssumption DEF SearchButton, CanSearch
  <2>2. worker \in Work \cup {None} /\ asked \in Nat /\ setting \in Leagues /\ symbols \in BOOLEAN
    BY DEF Inv, Shape
  <2>3. CASE trade' = trade /\ UNCHANGED <<worker, asked>>
    BY <1>2, <1>5, <2>3 DEF SearchButton
  <2>4. CASE /\ ~trade.busy /\ trade'.state = "Searching" /\ trade'.results = NoResults
             /\ ~worker'.append /\ worker'.id # 0
    BY <1>5, <2>4, PagedSentOut DEF SearchButton
  <2> QED BY <1>1, <2>1, <2>2, <2>3, <2>4, SearchShape
<1>6. CASE Drain
  BY <1>6 DEF Drain, Joined, Paged
<1>7. CASE Hover \/ DataEvent \/ ChangeLeague \/ SymbolsExpire \/ Cancel \/ Stopped
           \/ UNCHANGED vars
  BY <1>2, <1>7 DEF Hover, DataEvent, ChangeLeague, SymbolsExpire, Cancel, Stopped, vars
<1> QED
  BY <1>3, <1>4, <1>5, <1>6, <1>7, PagedLoadMore, PagedWorker, PagedAnswered DEF Next, MainThread

\* What is on screen, as PriceAnswer names it.
OnScreen(r) == [i \in 1..Len(r.listings) |-> [of |-> r.about, place |-> r.listings[i].hash]]
Waiting == trade.state = "Searching"

LEMMA OnScreenIs ==
  ASSUME NEW r, r.listings \in Seq(Listing)
  PROVE  /\ OnScreen(r) \in Seq([of : {r.about}, place : Nat])
         /\ Len(OnScreen(r)) = Len(r.listings)
         /\ \A i \in 1..Len(r.listings) :
              OnScreen(r)[i].of = r.about /\ OnScreen(r)[i].place = r.listings[i].hash
<1>0. \A i \in 1..Len(r.listings) : r.listings[i] \in Listing
  OBVIOUS
<1>1. \A i \in 1..Len(r.listings) : r.listings[i].hash \in Nat
  BY <1>0 DEF Listing
<1>2. PICK n \in Nat : n = Len(r.listings)
  OBVIOUS
<1>3. OnScreen(r) = [i \in 1..n |-> [of |-> r.about, place |-> r.listings[i].hash]]
  BY <1>2 DEF OnScreen
<1>4. \A i \in 1..n : [of |-> r.about, place |-> r.listings[i].hash] \in [of : {r.about}, place : Nat]
  BY <1>1, <1>2
<1> QED BY <1>2, <1>3, <1>4

LEMMA NothingOnScreen == ASSUME NEW r, r.listings = <<>> PROVE OnScreen(r) = <<>>
<1>1. Len(r.listings) = 0 /\ r.listings \in Seq(Listing)
  OBVIOUS
<1>2. OnScreen(r) \in Seq([of : {r.about}, place : Nat]) /\ Len(OnScreen(r)) = 0
  BY <1>1, OnScreenIs
<1> QED BY <1>2, EmptySeq

\* A page leaves the rows before it as they are.
LEMMA OnScreenExtends ==
  ASSUME NEW r, NEW s, NEW m \in Seq(Listing), r.listings \in Seq(Listing),
         s.listings = r.listings \o m, s.about = r.about
  PROVE  /\ Len(OnScreen(s)) >= Len(OnScreen(r))
         /\ SubSeq(OnScreen(s), 1, Len(OnScreen(r))) = OnScreen(r)
<1>1. s.listings \in Seq(Listing)
  OBVIOUS
<1>2. PICK a \in Nat, b \in Nat : a = Len(r.listings) /\ b = Len(m)
  OBVIOUS
<1>3. Len(OnScreen(r)) = a /\ Len(OnScreen(s)) = a + b
  <2>1. Len(s.listings) = a + b
    BY <1>2
  <2>2. Len(OnScreen(s)) = Len(s.listings)
    BY <1>1, OnScreenIs
  <2>3. Len(OnScreen(r)) = Len(r.listings)
    BY OnScreenIs
  <2> QED BY <1>2, <2>1, <2>2, <2>3
<1>4. \A i \in 1..a : s.listings[i] = r.listings[i]
  BY <1>2
<1>5. \A i \in 1..a : OnScreen(s)[i] = OnScreen(r)[i]
  BY <1>2, <1>3, <1>4 DEF OnScreen
<1>6. PICK u, v, S : u = OnScreen(r) /\ v = OnScreen(s) /\ S = [of : {r.about}, place : Nat]
  OBVIOUS
<1>7. u \in Seq(S) /\ v \in Seq(S) /\ Len(u) = a /\ Len(v) = a + b /\ \A i \in 1..a : v[i] = u[i]
  BY <1>1, <1>3, <1>5, <1>6, OnScreenIs
<1>8. SubSeq(v, 1, a) = u
  BY ONLY <1>2, <1>7
<1> QED BY <1>3, <1>6, <1>8

LEMMA PromiseInit == Init => Promise!Init
<1> SUFFICES ASSUME Init PROVE Promise!Init
  OBVIOUS
<1>1. trade.results.listings = <<>> /\ ~Waiting /\ item = None
  BY DEF Init, NoResults, Waiting
<1>2. OnScreen(trade.results) = <<>>
  BY <1>1, NothingOnScreen
<1> QED BY <1>1, <1>2 DEF Promise!Init, OnScreen, Waiting

\* Each way the panel can change, as the promise sees it.
LEMMA PromiseStays ==
  ASSUME item' = item, trade'.results = trade.results, trade'.state = trade.state
  PROVE  UNCHANGED Promise!vars
<1>1. [i \in 1..Len(trade.results.listings) |->
        [of |-> trade.results.about, place |-> trade.results.listings[i].hash]]'
        = [i \in 1..Len(trade.results.listings) |->
            [of |-> trade.results.about, place |-> trade.results.listings[i].hash]]
  OBVIOUS
<1> QED BY <1>1 DEF Promise!vars

LEMMA PromiseMovesOn ==
  ASSUME item' \in Items \cup {None}, trade'.results = NoResults
  PROVE  Promise!MoveOn
<1>1. OnScreen(trade'.results) = <<>>
  BY NothingOnScreen DEF NoResults
<1> QED BY <1>1 DEF Promise!MoveOn, OnScreen

LEMMA PromiseAsked ==
  ASSUME item' = item, trade'.state = "Searching",
         trade'.results = NoResults \/ trade'.results = trade.results
  PROVE  Promise!Ask
<1>1. OnScreen(trade'.results) \in {<<>>, OnScreen(trade.results)}
  BY NothingOnScreen DEF NoResults
<1> QED BY <1>1 DEF Promise!Ask, OnScreen

\* The rows of an answer: of the item, the ones there were first, and in the order of the search.
LEMMA PromiseAnswered ==
  ASSUME Inv, Paged, TradeEvent
  PROVE  [Promise!Next]_(Promise!vars)
<1> DEFINE old == OnScreen(trade.results)
           new == OnScreen(trade'.results)
<1>1. CASE trade'.results = trade.results /\ trade'.state = trade.state
  BY <1>1, Answered, PromiseStays
<1>2. ASSUME trade.state = "Searching", trade'.state # "Searching",
             Len(new) >= Len(old), SubSeq(new, 1, Len(old)) = old
      PROVE  Promise!Answer
  <2>1. item' = item /\ trade' \in TradeShape /\ Listed(trade'.results)
    BY Answered, PagedAnswered DEF Paged
  <2>2. trade'.results.listings \in Seq(Listing)
    BY <2>1 DEF TradeShape, ResultsShape
  <2>3. ResultsMatch'
    BY TradeEventStep DEF Inv
  <2>4. /\ Len(new) = Len(trade'.results.listings)
        /\ \A i \in 1..Len(trade'.results.listings) :
             new[i].of = trade'.results.about /\ new[i].place = trade'.results.listings[i].hash
    BY <2>2, OnScreenIs
  <2>5. \A i \in 1..Len(new) : new[i].of = item'
    <3>1. CASE trade'.results.id = 0
      <4>1. new = <<>>
        BY <2>1, <3>1, NothingOnScreen DEF Listed
      <4> QED BY <4>1
    <3>2. CASE trade'.results.id # 0
      BY <2>3, <2>4, <3>2 DEF ResultsMatch
    <3> QED BY <3>1, <3>2
  <2>6. \A i, j \in 1..Len(new) : i < j => new[i].place < new[j].place
    BY <2>1, <2>4 DEF Listed, Ascends
  <2> QED BY <1>2, <2>1, <2>5, <2>6 DEF Promise!Answer, Promise!InOrder, OnScreen
<1>3. CASE trade.results.listings = <<>>
  <2>1. old = <<>> /\ Len(old) = 0
    BY <1>3, NothingOnScreen
  <2>2. Len(new) \in Nat /\ SubSeq(new, 1, 0) = <<>>
    <3>1. trade'.results.listings \in Seq(Listing)
      BY Answered DEF TradeShape, ResultsShape
    <3>2. PICK u, S : u = new /\ u \in Seq(S)
      BY <3>1, OnScreenIs
    <3>3. Len(u) \in Nat /\ SubSeq(u, 1, 0) = <<>>
      BY ONLY <3>2
    <3> QED BY <3>2, <3>3
  <2> QED BY <1>1, <1>2, <2>1, <2>2, Answered DEF Promise!Next
<1>4. ASSUME NEW m \in Seq(Listing), trade'.results.about = trade.results.about,
             trade'.results.listings = trade.results.listings \o m
      PROVE  Len(new) >= Len(old) /\ SubSeq(new, 1, Len(old)) = old
  BY <1>4, OnScreenExtends DEF Inv, Shape, TradeShape, ResultsShape
<1> QED BY <1>1, <1>2, <1>3, <1>4, Answered DEF Promise!Next

LEMMA PromiseStep == Inv /\ Paged /\ [Next]_vars => [Promise!Next]_(Promise!vars)
<1> SUFFICES ASSUME Inv, Paged, [Next]_vars PROVE [Promise!Next]_(Promise!vars)
  OBVIOUS
<1>1. trade \in TradeShape
  BY DEF Inv, Shape
<1>2. CASE UNCHANGED <<item, trade>>
  BY <1>2, PromiseStays
<1>3. CASE SetUnique
  BY <1>1, <1>3, ClearedShape, PromiseMovesOn DEF SetUnique, Promise!Next
<1>4. CASE AcceptClipboard
  <2>1. CASE trade' = Cleared(trade)
    BY <1>1, <1>4, <2>1, ClearedShape, PromiseMovesOn, ItemAssumption
       DEF AcceptClipboard, Promise!Next
  <2>2. CASE CanSearch(item') /\ Search(Cleared(trade), item')
    <3>1. Cleared(trade) \in TradeShape /\ item' \in Items
      BY <1>1, <2>2, ClearedShape, ItemAssumption DEF CanSearch
    <3>2. worker \in Work \cup {None} /\ asked \in Nat /\ setting \in Leagues /\ symbols \in BOOLEAN
      BY DEF Inv, Shape
    <3>3. trade' = Cleared(trade) \/ trade'.results = NoResults
      BY <2>2, <3>1, <3>2, SearchShape
    <3> QED BY <2>1, <3>1, <3>3, PromiseMovesOn DEF Promise!Next
  <2> QED BY <1>4, <2>1, <2>2 DEF AcceptClipboard
<1>5. CASE SearchButton
  <2>1. item \in Items /\ Search(trade, item) /\ item' = item
    BY <1>5, ItemAssumption DEF SearchButton, CanSearch
  <2>2. worker \in Work \cup {None} /\ asked \in Nat /\ setting \in Leagues /\ symbols \in BOOLEAN
    BY DEF Inv, Shape
  <2>3. trade' = trade \/ (trade'.results = NoResults /\ trade'.state = "Searching")
    <3>1. Search(trade, item)
      BY <2>1
    <3> QED BY <1>1, <2>1, <2>2, <3>1, SearchShape
  <2> QED BY <1>2, <2>1, <2>3, PromiseAsked DEF Promise!Next
<1>6. CASE LoadMore
  <2>1. item' = item /\ trade'.results = trade.results /\ trade'.state = "Searching"
    BY <1>1, <1>6 DEF LoadMore, TradeShape
  <2> QED BY <2>1, PromiseAsked DEF Promise!Next
<1>7. CASE \/ WorkerDone \/ Hover \/ DataEvent \/ ChangeLeague \/ SymbolsExpire \/ Cancel \/ Drain
           \/ Stopped \/ UNCHANGED vars
  BY <1>2, <1>7 DEF WorkerDone, Hover, DataEvent, ChangeLeague, SymbolsExpire, Cancel, Drain,
                    Stopped, vars
<1> QED
  BY <1>3, <1>4, <1>5, <1>6, <1>7, PromiseAnswered DEF Next, MainThread

\* Whatever the panel, the worker and the queue do, and in whatever order, the listings are only
\* ever of the item the panel is about, each once and in the order of the search; an answer only
\* adds to them, and they go away only with a new search or another item.
THEOREM ListingsKeepPromise == Spec => KeepsPromise
  BY InvAlways, PagedInit, PagedStep, PromiseInit, PromiseStep, PTL
  DEF Spec, KeepsPromise, Promise!Spec
=============================================================================
