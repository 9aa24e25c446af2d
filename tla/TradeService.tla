---------------------------- MODULE TradeService ----------------------------
(***************************************************************************)
(* The search behind a price check: TradeService (one worker thread, whose *)
(* result comes back through the SDL event queue), the paging of           *)
(* trade/client, and the part of App that owns the item the results are    *)
(* about and the listings parsed out of them.                              *)
(*                                                                         *)
(* The service's members live in one record, so that the handlers that     *)
(* call several of its methods compose them as functions of it.            *)
(***************************************************************************)
EXTENDS Naturals, Sequences

CONSTANTS
  Items,       \* readings of an item: the item, and the unique it was said to be
  Searchable,  \* the ones App::can_search lets through
  Leagues,     \* what Config::league can be set to
  None,
  Batch,       \* kFetchBatch
  Want,        \* Config::result_count
  MaxHashes,   \* bound: how many hashes a search comes back with
  MaxGen,      \* bound: how many times the panel moves on
  MaxSearches, \* bound: how many searches are sent
  MaxData,     \* bound: how many bundles arrive
  AutoSearch,  \* Config::auto_search
  PushFails    \* SDL_PushEvent can find the queue full

ASSUME ItemAssumption == Searchable \subseteq Items /\ None \notin Items \cup Leagues
ASSUME PageAssumption == Batch \in Nat \ {0} /\ Want \in Nat /\ MaxHashes \in Nat
ASSUME FlagAssumption == AutoSearch \in BOOLEAN /\ PushFails \in BOOLEAN

VARIABLES
  item,     \* what the panel is about
  data,     \* data_, and item_data_ once there is an item: which bundle it was resolved with
  setting,  \* Config::league
  trade,    \* the members of TradeService
  symbols,  \* the currency symbols are fresh
  worker,   \* the worker thread's own copy of what it was asked, None when there is none
  queue,    \* results pushed and not yet handled
  asked,    \* searches sent, whose number stands for the id the trade site gives one
  parsed,   \* listing_items_
  phase     \* how far shutdown() has come

vars == <<item, data, setting, trade, symbols, worker, queue, asked, parsed, phase>>

\* SearchResults: the search it is of, how many hashes it has, the listings and
\* how many of the hashes have been asked for.
NoResults == [id |-> 0, about |-> None, league |-> None, hashes |-> 0, listings |-> <<>>,
              fetched |-> 0]

Init ==
  /\ item = None /\ data = 0 /\ setting \in Leagues
  /\ trade = [gen |-> 0, busy |-> FALSE, state |-> "Idle", results |-> NoResults,
              league |-> None]
  /\ symbols = FALSE /\ worker = None /\ queue = <<>> /\ asked = 0
  /\ parsed = <<>> /\ phase = "running"

-----------------------------------------------------------------------------
(* The worker: trade/client.                                               *)

\* The hashes of a page that still have a listing: one sold since the search comes
\* back as nothing.
Unsold(first, n) ==
  UNION {{s \in [1..k -> (first + 1)..(first + n)] : \A i, j \in 1..k : i < j => s[i] < s[j]}
           : k \in 0..n}

\* fetch_page: batches of Batch hashes from `first` on, up to the first that fails.
FetchPage(id, hashes, first, count) ==
  LET end == IF first + count < hashes THEN first + count ELSE hashes
      whole == {n \in 0..(end - first) : n % Batch = 0 \/ n = end - first}
  IN  UNION {{[listings |-> [i \in 1..Len(s) |-> [search |-> id, hash |-> s[i]]], consumed |-> n]
                : s \in Unsold(first, n)} : n \in whole}

\* run_search: the search itself can fail; once it has not, a page that came
\* back short is only a shorter list.
Answers(w) ==
  IF w.append
  THEN {[ok |-> TRUE, results |-> [NoResults EXCEPT !.listings = p.listings, !.fetched = p.consumed]]
          : p \in FetchPage(w.id, w.hashes, w.first, Batch)}
  ELSE {[ok |-> FALSE, results |-> NoResults]} \cup
       {[ok |-> TRUE, results |-> [id |-> w.id, about |-> w.about, league |-> w.league,
                                   hashes |-> w.hashes, listings |-> p.listings,
                                   fetched |-> p.consumed]]
          : p \in FetchPage(w.id, w.hashes, 0, Want)}

\* The worker's last step: push the result, or drop it when the queue is full.
WorkerDone ==
  /\ worker # None /\ worker' = None
  /\ \/ \E a \in Answers(worker), fetched \in IF worker.fresh THEN {FALSE} ELSE BOOLEAN :
          queue' = Append(queue, [gen |-> worker.gen, append |-> worker.append, ok |-> a.ok,
                                  results |-> a.results, symbols |-> fetched])
     \/ PushFails /\ UNCHANGED queue
  /\ UNCHANGED <<item, data, setting, trade, symbols, asked, parsed, phase>>

-----------------------------------------------------------------------------
(* TradeService on the main thread.                                        *)

\* clear(): what is in flight cannot be recalled, so it is disowned.
ClearedSameGen(t) == [t EXCEPT !.results = NoResults, !.state = "Idle"]  \* altered: disowns nothing
ClearedSearching(t) == [t EXCEPT !.gen = @ + 1, !.results = NoResults]  \* altered: keeps the state
Cleared(t) == [t EXCEPT !.gen = @ + 1, !.results = NoResults, !.state = "Idle"]

CanSearch(i) == i \in Searchable /\ data # 0

InFlight(t) == t.busy

\* search(): ignored while one is in flight, whoever that one is for.
Search(t, i) ==
  IF InFlight(t)
  THEN trade' = t /\ UNCHANGED <<worker, asked>>
  ELSE /\ asked < MaxSearches /\ asked' = asked + 1
       /\ trade' = [t EXCEPT !.busy = TRUE, !.state = "Searching", !.results = NoResults,
                             !.league = setting]
       /\ \E n \in 0..MaxHashes :
            worker' = [gen |-> t.gen, append |-> FALSE, about |-> i, league |-> setting,
                       fresh |-> symbols, id |-> asked', hashes |-> n, first |-> 0]

CanLoadMore(t) == ~InFlight(t) /\ t.state = "Ok" /\ t.results.fetched < t.results.hashes

\* Where the next page starts.
PageFrom(r) == r.fetched

\* load_more(): the copy it hands over is of the results on screen.
LoadMore ==
  /\ phase = "running" /\ CanLoadMore(trade)
  /\ trade' = [trade EXCEPT !.busy = TRUE, !.state = "Searching"]
  /\ worker' = [gen |-> trade.gen, append |-> TRUE, about |-> None, league |-> None,
                fresh |-> TRUE, id |-> trade.results.id, hashes |-> trade.results.hashes,
                first |-> PageFrom(trade.results)]
  /\ UNCHANGED <<item, data, setting, symbols, queue, asked, parsed, phase>>

\* A result for an item the panel has left.
AnyResult(r, t) == FALSE  \* altered: every result is shown
Disowned(r, t) == r.gen # t.gen

Consumed(r) == r.results.fetched

\* on_done().
Adopt(r, t) ==
  IF Disowned(r, t) THEN [t EXCEPT !.busy = FALSE]
  ELSE IF r.append
  THEN [t EXCEPT !.busy = FALSE, !.state = "Ok",
                 !.results.listings = @ \o r.results.listings,
                 !.results.fetched = @ + Consumed(r)]
  ELSE [t EXCEPT !.busy = FALSE, !.state = IF r.ok THEN "Ok" ELSE "Error",
                 !.results = r.results]

-----------------------------------------------------------------------------
(* App: the item, the bundle and the listings parsed so far.               *)

\* handle_event on trade_event_.
KeepsParsed == parsed  \* altered: the rows parsed for the last result are kept
Reparse == <<>>
TradeEvent ==
  /\ phase = "running" /\ queue # <<>>
  /\ queue' = Tail(queue)
  /\ trade' = Adopt(Head(queue), trade)
  /\ symbols' = (symbols \/ Head(queue).symbols)
  /\ parsed' = Reparse
  /\ UNCHANGED <<item, data, setting, worker, asked, phase>>

\* accept_clipboard(): what was read may be no item at all.
AcceptClipboard ==
  /\ phase = "running" /\ trade.gen < MaxGen
  /\ item' \in Items \cup {None}
  /\ parsed' = <<>>
  /\ IF AutoSearch /\ CanSearch(item')
     THEN Search(Cleared(trade), item')
     ELSE trade' = Cleared(trade) /\ UNCHANGED <<worker, asked>>
  /\ UNCHANGED <<data, setting, symbols, queue, phase>>

\* set_unique(): the item read another way.
SetUnique ==
  /\ phase = "running" /\ trade.gen < MaxGen
  /\ item # None /\ data # 0 /\ item' \in Items
  /\ parsed' = <<>> /\ trade' = Cleared(trade)
  /\ UNCHANGED <<data, setting, symbols, worker, queue, asked, phase>>

\* start_search(), from a button that is grey only while the service says Searching.
SearchButton ==
  /\ phase = "running" /\ trade.state # "Searching" /\ CanSearch(item)
  /\ Search(trade, item)
  /\ UNCHANGED <<item, data, setting, symbols, queue, parsed, phase>>

\* listing_item(): the row under the cursor is parsed against the item's bundle.
Hover ==
  /\ phase = "running"
  /\ LET rows == trade.results.listings
         resized == [i \in 1..Len(rows) |-> IF i <= Len(parsed) THEN parsed[i] ELSE None]
     IN  \E i \in 1..Len(rows) :
           /\ resized[i] = None
           /\ parsed' = [resized EXCEPT ![i] = [row |-> rows[i], data |-> data]]
  /\ UNCHANGED <<item, data, setting, trade, symbols, worker, queue, asked, phase>>

\* A bundle arrives: rebuild_plan() reads the item again, and the bundle it was
\* resolved with until now has no owner left.
DataEvent ==
  /\ phase = "running" /\ data < MaxData /\ data' = data + 1
  /\ UNCHANGED <<item, setting, trade, symbols, worker, queue, asked, parsed, phase>>

ChangeLeague ==
  /\ phase = "running" /\ setting' \in Leagues \ {setting}
  /\ UNCHANGED <<item, data, trade, symbols, worker, queue, asked, parsed, phase>>

\* The symbols are a week old.
SymbolsExpire ==
  /\ symbols /\ symbols' = FALSE
  /\ UNCHANGED <<item, data, setting, trade, worker, queue, asked, parsed, phase>>

-----------------------------------------------------------------------------
(* shutdown(): cancel the waits, join the worker, drop what it pushed.     *)

Cancel ==
  /\ phase = "running" /\ phase' = "joining"
  /\ UNCHANGED <<item, data, setting, trade, symbols, worker, queue, asked, parsed>>

Joined == worker = None
Drain ==
  /\ phase = "joining" /\ Joined
  /\ phase' = "down" /\ queue' = <<>>
  /\ UNCHANGED <<item, data, setting, trade, symbols, worker, asked, parsed>>

Stopped == phase = "down" /\ UNCHANGED vars

-----------------------------------------------------------------------------
MainThread == TradeEvent \/ AcceptClipboard \/ SetUnique \/ SearchButton \/ LoadMore \/ Hover
              \/ DataEvent \/ ChangeLeague \/ Cancel \/ Drain

Next == MainThread \/ WorkerDone \/ SymbolsExpire \/ Stopped

Spec == Init /\ [][Next]_vars

\* The worker's requests time out, and the main loop handles its events.
FairSpec == Spec /\ WF_vars(WorkerDone) /\ WF_vars(TradeEvent)

-----------------------------------------------------------------------------
Results == [id : 0..MaxSearches, about : Items \cup {None}, league : Leagues \cup {None},
            hashes : 0..MaxHashes, listings : Seq([search : 0..MaxSearches, hash : 1..MaxHashes]),
            fetched : 0..MaxHashes]

TypeOK ==
  /\ item \in Items \cup {None} /\ data \in 0..MaxData /\ setting \in Leagues
  /\ trade.gen \in 0..MaxGen /\ trade.busy \in BOOLEAN
  /\ trade.state \in {"Idle", "Searching", "Ok", "Error"}
  /\ trade.results \in Results /\ trade.league \in Leagues \cup {None}
  /\ symbols \in BOOLEAN /\ asked \in 0..MaxSearches
  /\ phase \in {"running", "joining", "down"}

\* What is listed is of the item the panel is about, in the league it names,
\* however late the answer came (TradeService::on_done against clear).
ResultsMatch ==
  trade.results.id # 0 => trade.results.about = item /\ trade.results.league = trade.league

\* At most one request is out, and a service that is not busy has none: what
\* search() and load_more() rely on to reap the worker without waiting.
OneInFlight ==
  /\ Len(queue) <= 1 /\ (worker # None => queue = <<>>)
  /\ worker # None \/ queue # <<>> => trade.busy
  /\ trade.state = "Searching" => trade.busy

\* A listing parsed on hover is the listing of the row it is kept for.
ParsedIsOfRow ==
  \A i \in 1..Len(parsed) :
    i <= Len(trade.results.listings) /\ parsed[i] # None
      => parsed[i].row = trade.results.listings[i]

\* What the listings under a check promise (PriceAnswer), implemented.
Promise == INSTANCE PriceAnswer
  WITH subject <- item,
       rows <- [i \in 1..Len(trade.results.listings) |->
                  [of |-> trade.results.about, place |-> trade.results.listings[i].hash]],
       waiting <- trade.state = "Searching"
KeepsPromise == Promise!Spec

\* While the program runs every search is answered, unless its answer found the
\* event queue full (TradeService::on_done is the only way out of Searching but
\* moving on).
Lost == trade.busy /\ worker = None /\ queue = <<>>
SearchEnds ==
  trade.state = "Searching" /\ phase = "running"
    ~> trade.state # "Searching" \/ phase # "running" \/ Lost
=============================================================================
