--------------------------- MODULE PriceProofs ---------------------------
(***************************************************************************)
(* What the sources of prices and the filter list owe a reader, for every  *)
(* query, hour, order of answers, item, bundle and sequence of edits.      *)
(*                                                                         *)
(* poe.ninja's lists.  A query that ends has asked for every list it       *)
(* needed, and a torn file never counts as fresh.  The first is not        *)
(* inductive: an answer could be ended by a download that was told of      *)
(* another query's lists, or lose a fresh list to an older one on its way. *)
(* Kept says that a download under way holds only lists that were not      *)
(* fresh in memory, and that a query which waits for no second download    *)
(* has each of its lists, fetched for it or fresh.                         *)
(*                                                                         *)
(* The exchange.  What is said of an hour is what a published digest of    *)
(* that hour holds.  A digest on its way or on disk could be of anything;  *)
(* Sound says of each that it is of a published hour, and a file that is   *)
(* not torn holds all of it.                                               *)
(*                                                                         *)
(* The filter list.  First what BuildPlan builds, by its parts: every row  *)
(* has its fields and an interval in order (AreRows), the modifiers the    *)
(* rows are about are those the bundle has an id for (About), and outside  *)
(* maps no two rows are about the same one (Once).  Then the panel: the    *)
(* rows on screen descend from the plan of the item in hand, whatever was  *)
(* ticked, typed or chosen since, and only the row whose box holds the     *)
(* caret, or one Escape left, may be crossed (PanelInv).  Last, what a     *)
(* search asks of one modifier: an interval that holds its roll (Holds).   *)
(***************************************************************************)
EXTENDS NinjaService, ExchangeService, PricePanel, FiniteSetTheorems, WellFoundedInduction, TLAPS

-----------------------------------------------------------------------------
(* poe.ninja's lists.                                                      *)

\* The members of the service, each with some value.
Fields(n) ==
  /\ n = [query |-> n.query, state |-> n.state, ref |-> n.ref, error |-> n.error,
          held |-> n.held, busy |-> n.busy, restart |-> n.restart]
  /\ n.busy \in BOOLEAN /\ n.restart \in BOOLEAN

\* The lists the query needs.
Needs(n) == ToSet(KeysFor(n.query))

\* Lists were fetched by t.
By(held, t) == \A k \in DOMAIN held : held[k] \in 1..t

Files == DOMAIN nDisk = AllKeys /\ \A k \in AllKeys : nDisk[k].fetched \in 0..now /\ nDisk[k].whole \in BOOLEAN

Fetches == nWorker = <<>> \/ \E want \in SUBSET AllKeys, at \in 1..now : nWorker = [want |-> want, at |-> at]

Fetched == nResults = <<>> \/ \E held, error : nResults = <<[held |-> held, error |-> error]>> /\ By(held, now)

Kinds == /\ now \in Nat \ {0} /\ since \in 0..now
         /\ Fields(ninja) /\ By(ninja.held, now) /\ Needs(ninja) \subseteq AllKeys
         /\ Files /\ Fetches /\ Fetched

\* One download at a time, and only while the service is busy.
OneDownload == /\ nWorker = <<>> \/ nResults = <<>>
               /\ nWorker # <<>> \/ nResults # <<>> => ninja.busy

\* The lists a download under way may still put in memory.
Away(worker, results) ==
  IF worker # <<>> THEN worker.want
  ELSE IF results # <<>> THEN DOMAIN Head(results).held
  ELSE {}
UnderWay == Away(nWorker, nResults)

\* None of them is in memory and fresh, so none replaces what a query was answered from.
Lacking == \A k \in UnderWay : ~(k \in DOMAIN ninja.held /\ Fresh(ninja.held[k]))

Covers(n, seen, asked, away) ==
  \A k \in Needs(n) : k \in seen \/ (k \in DOMAIN n.held /\ n.held[k] > asked - Ttl /\ k \notin away)

\* A query that waits for no second download has its lists, fetched or fresh.
Answers == (ninja.state = "Loading" /\ ninja.restart) \/ Covers(ninja, tried, since, UnderWay)

Kept == Kinds /\ OneDownload /\ Lacking /\ Answers /\ ~relied

\* What start() may do of its three ways.
LEMMA StartIs ==
  ASSUME NEW n, Fields(n), NEW seen, Start(n, seen)
  PROVE  /\ Fields(ninja') /\ ninja'.query = n.query /\ ninja'.held = n.held
         /\ \/ /\ Wanted(n) = {} /\ nWorker' = nWorker /\ tried' = seen
               /\ ninja'.busy = n.busy /\ ninja'.restart = n.restart
            \/ /\ Wanted(n) # {} /\ n.busy /\ nWorker' = nWorker
               /\ ninja'.state = "Loading" /\ ninja'.restart /\ ninja'.busy
            \/ /\ Wanted(n) # {} /\ ~n.busy /\ ninja'.busy
               /\ nWorker' = [want |-> Wanted(n), at |-> now] /\ tried' = Wanted(n)
<1>1. CASE KeysFor(n.query) = <<>>
  <2>1. ToSet(KeysFor(n.query)) = {}
    BY <1>1 DEF ToSet
  <2>2. Wanted(n) = {} /\ ninja' = [n EXCEPT !.state = "Idle"]
    BY <1>1, <2>1 DEF Wanted, Start, Started
  <2>3. nWorker' = nWorker /\ tried' = seen
    BY <2>2 DEF Start, Spawns
  <2> QED
    BY <2>2, <2>3 DEF Fields
<1>2. CASE KeysFor(n.query) # <<>> /\ Wanted(n) = {}
  <2>1. PICK ref : ninja' = [[n EXCEPT !.ref = ref] EXCEPT !.state = "Ok"]
    BY <1>2 DEF Start, Started, Resolved
  <2>2. nWorker' = nWorker /\ tried' = seen
    BY <1>2 DEF Start, Spawns
  <2> QED
    BY <1>2, <2>1, <2>2 DEF Fields
<1>3. CASE KeysFor(n.query) # <<>> /\ Wanted(n) # {} /\ n.busy
  <2>1. ninja' = [n EXCEPT !.state = "Loading", !.restart = TRUE]
    BY <1>3 DEF Start, Started, Repeated
  <2>2. nWorker' = nWorker
    BY <1>3 DEF Start, Spawns
  <2> QED
    BY <1>3, <2>1, <2>2 DEF Fields
<1>4. CASE KeysFor(n.query) # <<>> /\ Wanted(n) # {} /\ ~n.busy
  <2>1. ninja' = [n EXCEPT !.state = "Loading", !.busy = TRUE]
    BY <1>4 DEF Start, Started
  <2>2. nWorker' = [want |-> Wanted(n), at |-> now] /\ tried' = Wanted(n)
    BY <1>4 DEF Start, Spawns
  <2> QED
    BY <1>4, <2>1, <2>2 DEF Fields
<1> QED
  BY <1>1, <1>2, <1>3, <1>4

\* What start() leaves answers the query, or will ask again.
LEMMA StartCovers ==
  ASSUME NEW n, Fields(n), NEW seen, Start(n, seen),
         now' = now, now \in Nat \ {0}, since' \in 0..now,
         By(n.held, now), Needs(n) \subseteq AllKeys, Fetches,
         nWorker = <<>> \/ nResults' = <<>>,
         nWorker # <<>> \/ nResults' # <<>> => n.busy,
         \A k \in Away(nWorker, nResults') : ~(k \in DOMAIN n.held /\ Fresh(n.held[k]))
  PROVE  /\ Fields(ninja') /\ By(ninja'.held, now') /\ Needs(ninja') \subseteq AllKeys
         /\ Fetches' /\ OneDownload' /\ Lacking' /\ Answers'
<1>1. /\ Fields(ninja') /\ ninja'.query = n.query /\ ninja'.held = n.held
      /\ \/ /\ Wanted(n) = {} /\ nWorker' = nWorker /\ tried' = seen
            /\ ninja'.busy = n.busy /\ ninja'.restart = n.restart
         \/ /\ Wanted(n) # {} /\ n.busy /\ nWorker' = nWorker
            /\ ninja'.state = "Loading" /\ ninja'.restart /\ ninja'.busy
         \/ /\ Wanted(n) # {} /\ ~n.busy /\ ninja'.busy
            /\ nWorker' = [want |-> Wanted(n), at |-> now] /\ tried' = Wanted(n)
  BY StartIs
<1>2. By(ninja'.held, now') /\ Needs(ninja') \subseteq AllKeys
  BY <1>1 DEF By, Needs
<1>4. ASSUME NEW k \in Needs(n), k \notin Wanted(n)
      PROVE  k \in DOMAIN n.held /\ Fresh(n.held[k]) /\ n.held[k] > since' - Ttl
  <2>1. k \in DOMAIN n.held /\ Fresh(n.held[k])
    BY <1>4 DEF Wanted, Needs
  <2>2. n.held[k] \in 1..now
    BY <2>1 DEF By
  <2>3. PICK at \in Nat : at = n.held[k]
    BY <2>2
  <2>4. now - at < Ttl
    BY <2>1, <2>3 DEF Fresh
  <2>5. at > since' - Ttl
    <3>1. PICK s \in 0..now : s = since'
      OBVIOUS
    <3>2. s \in Nat /\ s <= now
      BY <3>1
    <3>3. at > s - Ttl
      BY <2>3, <2>4, <3>2, TtlAssumption
    <3> QED
      BY <3>1, <3>3
  <2> QED
    BY <2>1, <2>3, <2>5
<1>5. \A k : (Fresh(k)' <=> Fresh(k))
  BY DEF Fresh
<1>6. CASE nWorker' = nWorker
  <2>1. UnderWay' = Away(nWorker, nResults')
    BY <1>6 DEF UnderWay
  <2>2. Fetches'
    BY <1>6 DEF Fetches
  <2>3. OneDownload'
    BY <1>1, <1>6 DEF OneDownload
  <2>4. Lacking'
    BY <1>1, <2>1 DEF Lacking, Fresh
  <2>5. Answers'
    <3>1. CASE Wanted(n) # {} /\ n.busy
      BY <1>1, <3>1 DEF Answers
    <3>2. CASE Wanted(n) = {}
      <4>1. ASSUME NEW k \in Needs(n) PROVE n.held[k] > since' - Ttl /\ k \in DOMAIN n.held /\ k \notin UnderWay'
        BY <1>4, <2>1, <3>2, <4>1
      <4>2. Needs(ninja') = Needs(n)
        BY <1>1 DEF Needs
      <4>3. Covers(ninja', tried', since', UnderWay')
        BY <1>1, <4>1, <4>2 DEF Covers
      <4> QED
        BY <4>3 DEF Answers, Covers, Needs
    <3>3. CASE Wanted(n) # {} /\ ~n.busy
      <4>1. nWorker = [want |-> Wanted(n), at |-> now]
        BY <1>1, <1>6, <3>3
      <4>2. nWorker = <<>>
        BY <3>3
      <4> QED
        BY <4>1, <4>2
    <3> QED
      BY <3>1, <3>2, <3>3
  <2> QED
    BY <1>1, <1>2, <2>2, <2>3, <2>4, <2>5
<1>7. CASE Wanted(n) # {} /\ ~n.busy
  <2>1. nWorker' = [want |-> Wanted(n), at |-> now] /\ tried' = Wanted(n) /\ ninja'.busy
    BY <1>1, <1>7
  <2>2. nResults' = <<>> /\ nWorker = <<>>
    BY <1>7
  <2>3. nWorker' # <<>>
    BY <2>1
  <2>4. UnderWay' = Wanted(n)
    BY <2>1, <2>3 DEF UnderWay, Away
  <2>5. Wanted(n) \subseteq AllKeys
    BY DEF Wanted, Needs
  <2>6. Fetches'
    <3>1. Wanted(n) \in SUBSET AllKeys' /\ now \in 1..now'
      BY <2>5 DEF AllKeys
    <3> QED
      BY <2>1, <3>1 DEF Fetches
  <2>7. OneDownload'
    BY <2>1, <2>2 DEF OneDownload
  <2>8. Lacking'
    BY <1>1, <2>4 DEF Lacking, Fresh, Wanted
  <2>9. Answers'
    <3>1. Needs(ninja') = Needs(n)
      BY <1>1 DEF Needs
    <3>2. Covers(ninja', tried', since', UnderWay')
      BY <1>1, <1>4, <2>1, <2>4, <3>1 DEF Covers
    <3> QED
      BY <3>2 DEF Answers, Covers, Needs
  <2> QED
    BY <1>1, <1>2, <2>6, <2>7, <2>8, <2>9
<1> QED
  BY <1>1, <1>6, <1>7

-----------------------------------------------------------------------------
(* A download.                                                             *)

\* What load_overview() answers is of a time that has come, and a copy that was fresh and did not
\* parse is never what it builds on.
LEMMA LoadsSoundly ==
  ASSUME NEW t \in Nat \ {0}, NEW file, file.fetched \in Nat, file.whole \in BOOLEAN,
         NEW a \in Loads(file, t)
  PROVE  /\ a.at <= (IF file.fetched <= t THEN t ELSE file.fetched) /\ a.at \in Nat
         /\ a.file.fetched \in Nat /\ a.file.whole \in BOOLEAN
         /\ a.file.fetched <= (IF file.fetched <= t THEN t ELSE file.fetched)
         /\ ~(a.reached /\ a.at = 0 /\ FreshAt(file.fetched, t))
<1>1. PICK have : have = HaveOnDisk(file, t)
  OBVIOUS
<1>2. have \in {file, NoFile} /\ (FreshAt(file.fetched, t) => have.whole \/ have = NoFile)
  BY <1>1 DEF HaveOnDisk
<1>3. have.fetched \in Nat /\ have.whole \in BOOLEAN /\ (have.fetched = file.fetched \/ have.fetched = 0)
  <2>1. CASE have = file
    BY <2>1
  <2>2. CASE have = NoFile
    <3>1. NoFile.fetched = 0 /\ NoFile.whole \in BOOLEAN
      BY DEF NoFile
    <3> QED
      BY <2>2, <3>1
  <2> QED
    BY <1>2, <2>1, <2>2
<1>4. CASE FreshAt(have.fetched, t) /\ have.whole
  <2>1. a = [at |-> have.fetched, error |-> FALSE, file |-> have, reached |-> FALSE]
    BY <1>1, <1>4 DEF Loads
  <2> QED
    BY <1>3, <2>1
<1>5. CASE ~(FreshAt(have.fetched, t) /\ have.whole)
  <2>1. \/ a = [at |-> t, error |-> FALSE, file |-> [fetched |-> t, whole |-> TRUE], reached |-> TRUE]
        \/ a = [at |-> 0, error |-> TRUE, file |-> [fetched |-> t, whole |-> FALSE], reached |-> FALSE]
        \/ a = [at |-> IF have.whole THEN have.fetched ELSE 0, error |-> TRUE, file |-> file, reached |-> FALSE]
        \/ /\ have.fetched > 0
           /\ a = [at |-> IF have.whole THEN t ELSE 0, error |-> ~have.whole,
                   file |-> [fetched |-> t, whole |-> have.whole], reached |-> TRUE]
    BY <1>1, <1>5 DEF Loads
  <2>2. CASE a = [at |-> t, error |-> FALSE, file |-> [fetched |-> t, whole |-> TRUE], reached |-> TRUE]
    <3>1. a.at = t /\ a.file.fetched = t /\ a.file.whole \in BOOLEAN
      BY <2>2
    <3> QED
      BY <3>1
  <2>3. CASE a = [at |-> 0, error |-> TRUE, file |-> [fetched |-> t, whole |-> FALSE], reached |-> FALSE]
    <3>1. a.at = 0 /\ ~a.reached /\ a.file.fetched = t /\ a.file.whole \in BOOLEAN
      BY <2>3
    <3> QED
      BY <3>1
  <2>4. CASE a = [at |-> IF have.whole THEN have.fetched ELSE 0, error |-> TRUE, file |-> file, reached |-> FALSE]
    BY <1>3, <2>4
  <2>5. CASE /\ have.fetched > 0
             /\ a = [at |-> IF have.whole THEN t ELSE 0, error |-> ~have.whole,
                     file |-> [fetched |-> t, whole |-> have.whole], reached |-> TRUE]
    <3>1. have = file
      BY <1>2, <2>5 DEF NoFile
    <3>2. FreshAt(file.fetched, t) => have.whole
      BY <1>2, <3>1, <2>5 DEF NoFile
    <3>3. FreshAt(file.fetched, t) => FALSE
      BY <1>5, <3>1, <3>2
    <3> QED
      BY <1>3, <2>5, <3>3
  <2> QED
    BY <2>1, <2>2, <2>3, <2>4, <2>5
<1> QED
  BY <1>4, <1>5

\* The worker's end: nothing is dated ahead of the clock, and nothing unreadable was built on.
LEMMA WorkerEnds == Kept /\ NinjaWorker => Kept'
<1> SUFFICES ASSUME Kept, NinjaWorker PROVE Kept'
  OBVIOUS
<1>1. PICK want \in SUBSET AllKeys, at \in 1..now : nWorker = [want |-> want, at |-> at]
  BY DEF Kept, Kinds, Fetches, NinjaWorker
<1>2. nWorker.want = want /\ nWorker.at = at /\ at \in Nat \ {0} /\ now \in Nat \ {0} /\ at <= now
  BY <1>1 DEF Kept, Kinds
<1>3. PICK got :
        /\ DOMAIN got = want
        /\ \A k \in DOMAIN got : got[k] \in Loads(nDisk[k], at)
        /\ nDisk' = [k \in AllKeys |-> IF k \in DOMAIN got THEN got[k].file ELSE nDisk[k]]
        /\ relied' = (relied \/ \E k \in DOMAIN got :
             got[k].reached /\ got[k].at = 0 /\ FreshAt(nDisk[k].fetched, at))
        /\ \/ nResults' = Append(nResults, [held |-> [k \in {j \in DOMAIN got : got[j].at > 0} |-> got[k].at],
                                            error |-> \E k \in DOMAIN got : got[k].error])
           \/ UNCHANGED nResults
  BY <1>2 DEF NinjaWorker
<1>4. ASSUME NEW k \in want
      PROVE  /\ got[k].at \in Nat /\ got[k].at <= now
             /\ got[k].file.fetched \in 0..now /\ got[k].file.whole \in BOOLEAN
             /\ ~(got[k].reached /\ got[k].at = 0 /\ FreshAt(nDisk[k].fetched, at))
  <2>1. nDisk[k].fetched \in 0..now /\ nDisk[k].whole \in BOOLEAN
    BY DEF Kept, Kinds, Files
  <2>2. PICK file : file = nDisk[k]
    OBVIOUS
  <2>3. PICK a : a = got[k]
    OBVIOUS
  <2>4. a \in Loads(file, at) /\ file.fetched \in Nat /\ file.whole \in BOOLEAN /\ file.fetched <= now
    BY <1>2, <1>3, <2>1, <2>2, <2>3
  <2>5. /\ a.at <= (IF file.fetched <= at THEN at ELSE file.fetched) /\ a.at \in Nat
        /\ a.file.fetched \in Nat /\ a.file.whole \in BOOLEAN
        /\ a.file.fetched <= (IF file.fetched <= at THEN at ELSE file.fetched)
        /\ ~(a.reached /\ a.at = 0 /\ FreshAt(file.fetched, at))
    BY <1>2, <2>4, LoadsSoundly
  <2>6. a.at <= now /\ a.file.fetched <= now
    BY <1>2, <2>4, <2>5
  <2> QED
    BY <1>2, <2>2, <2>3, <2>5, <2>6
<1>5. UNCHANGED <<now, ninja, since, tried>> /\ nWorker' = <<>> /\ nResults = <<>> /\ ninja.busy
  BY DEF NinjaWorker, Kept, OneDownload
<1>6. ~relied'
  BY <1>3, <1>4 DEF Kept
<1>7. Files'
  <2>1. DOMAIN nDisk' = AllKeys'
    BY <1>3 DEF AllKeys
  <2>2. ASSUME NEW k \in AllKeys PROVE nDisk'[k].fetched \in 0..now /\ nDisk'[k].whole \in BOOLEAN
    <3>1. CASE k \in want
      <4>1. nDisk'[k] = got[k].file
        BY <1>3, <3>1
      <4> QED
        BY <1>4, <3>1, <4>1
    <3>2. CASE k \notin want
      <4>1. nDisk'[k] = nDisk[k]
        BY <1>3, <3>2
      <4> QED
        BY <4>1 DEF Kept, Kinds, Files
    <3> QED
      BY <3>1, <3>2
  <2> QED
    BY <1>5, <2>1, <2>2 DEF Files, AllKeys
<1>8. Fetches'
  BY <1>5 DEF Fetches
<1>9. CASE UNCHANGED nResults
  <2>1. UnderWay' = {}
    BY <1>5, <1>9 DEF UnderWay, Away
  <2> QED
    BY <1>5, <1>6, <1>7, <1>8, <1>9, <2>1
    DEF Kept, Kinds, Fields, By, Needs, Fetched, OneDownload, Lacking, Answers, Covers, AllKeys
<1>10. CASE nResults' = Append(nResults, [held |-> [k \in {j \in DOMAIN got : got[j].at > 0} |-> got[k].at],
                                          error |-> \E k \in DOMAIN got : got[k].error])
  <2>1. PICK held, error : /\ held = [k \in {j \in DOMAIN got : got[j].at > 0} |-> got[k].at]
                           /\ error = \E k \in DOMAIN got : got[k].error
    OBVIOUS
  <2>2. nResults' = <<[held |-> held, error |-> error]>>
    BY <1>5, <1>10, <2>1
  <2>3. DOMAIN held \subseteq want /\ \A k \in DOMAIN held : held[k] \in 1..now
    BY <1>2, <1>3, <1>4, <2>1
  <2>4. Fetched'
    BY <1>5, <2>2, <2>3 DEF Fetched, By
  <2>5. nResults' # <<>> /\ Head(nResults').held = held
    BY <2>2
  <2>6. UnderWay = want /\ UnderWay' = DOMAIN held
    BY <1>1, <1>2, <1>5, <2>5 DEF UnderWay, Away
  <2>7. Lacking'
    BY <1>5, <2>3, <2>6 DEF Kept, Lacking, Fresh
  <2>8. Answers'
    BY <1>5, <2>3, <2>6 DEF Kept, Answers, Covers, Needs
  <2>9. OneDownload'
    BY <1>5 DEF OneDownload
  <2> QED
    BY <1>5, <1>6, <1>7, <1>8, <2>4, <2>7, <2>8, <2>9 DEF Kept, Kinds, Fields, By, Needs, AllKeys
<1> QED
  BY <1>3, <1>9, <1>10

-----------------------------------------------------------------------------
(* The steps.                                                              *)

\* A query of nothing needs no list.
LEMMA NothingNeeded == KeysFor(NoQuery) = <<>>
<1>1. NoQuery.category = "" /\ NoQuery.strategy = "Unsupported"
  BY DEF NoQuery
<1>2. MapItemType(NoQuery) = ""
  BY <1>1 DEF MapItemType
<1>3. OverviewType(NoQuery) = ""
  BY <1>1 DEF OverviewType
<1> QED
  BY <1>1, <1>2, <1>3 DEF KeysFor

LEMMA KeptInit == NinjaInit => Kept
<1> SUFFICES ASSUME NinjaInit PROVE Kept
  OBVIOUS
<1>1. ninja = [query |-> NoQuery, state |-> "Idle", ref |-> NoReference, error |-> FALSE,
               held |-> <<>>, busy |-> FALSE, restart |-> FALSE]
  BY DEF NinjaInit, NewNinja
<1>2. Needs(ninja) = {}
  BY <1>1, NothingNeeded DEF Needs, ToSet
<1>3. By(ninja.held, now)
  BY <1>1 DEF By
<1>4. now = 1 /\ since = 0 /\ nWorker = <<>> /\ nResults = <<>> /\ ~relied
  BY DEF NinjaInit
<1>5. Files
  <2>1. NoFile.fetched \in 0..now /\ NoFile.whole \in BOOLEAN
    BY <1>4 DEF NoFile
  <2> QED
    BY <2>1 DEF NinjaInit, Files
<1>6. Fields(ninja)
  BY <1>1 DEF Fields
<1>7. UnderWay = {}
  BY <1>4 DEF UnderWay, Away
<1> QED
  BY <1>2, <1>3, <1>4, <1>5, <1>6, <1>7
  DEF Kept, Kinds, Fetches, Fetched, OneDownload, Lacking, Answers, Covers

LEMMA PriceKeeps == Kept /\ (\E c \in Checked : Price(c)) => Kept'
<1> SUFFICES ASSUME Kept, NEW c \in Checked, Price(c) PROVE Kept'
  OBVIOUS
<1>1. PICK n : n = [ninja EXCEPT !.query = QueryFor(c.item, c.league), !.ref = NoReference, !.error = FALSE]
  OBVIOUS
<1>2. Start(n, {}) /\ UNCHANGED <<now, nResults, nDisk, relied>> /\ since' = now
  BY <1>1 DEF Price
<1>3. /\ Fields(n) /\ n.held = ninja.held /\ n.busy = ninja.busy
      /\ n.query = QueryFor(c.item, c.league)
  BY <1>1 DEF Kept, Kinds, Fields
<1>4. Needs(n) \subseteq AllKeys
  BY <1>3, BodyAssumption DEF Needs, AllKeys
<1>5. now \in Nat \ {0} /\ since' \in 0..now
  BY <1>2 DEF Kept, Kinds
<1>6. By(n.held, now) /\ \A k \in Away(nWorker, nResults') : ~(k \in DOMAIN n.held /\ Fresh(n.held[k]))
  BY <1>2, <1>3 DEF Kept, Kinds, Lacking, UnderWay
<1>7. /\ Fetches /\ Fetched' /\ (nWorker = <<>> \/ nResults' = <<>>)
      /\ (nWorker # <<>> \/ nResults' # <<>> => n.busy)
  BY <1>2, <1>3 DEF Kept, Kinds, OneDownload, Fetched, By
<1>8. /\ Fields(ninja') /\ By(ninja'.held, now') /\ Needs(ninja') \subseteq AllKeys
      /\ Fetches' /\ OneDownload' /\ Lacking' /\ Answers'
  BY <1>2, <1>3, <1>4, <1>5, <1>6, <1>7, StartCovers
<1>9. Files'
  BY <1>2 DEF Kept, Kinds, Files, AllKeys
<1>10. (By(ninja.held, now))' /\ (Fields(ninja))' /\ (Needs(ninja) \subseteq AllKeys)'
  BY <1>8 DEF By, Fields, Needs, AllKeys
<1> QED
  BY <1>2, <1>5, <1>7, <1>8, <1>9, <1>10 DEF Kept, Kinds

LEMMA FreedKeeps == Kept => Freed(ninja).held = ninja.held
  BY DEF Kept, Kinds, Fields, Freed

LEMMA DoneKeeps == Kept /\ NinjaDone => Kept'
<1> SUFFICES ASSUME Kept, NinjaDone PROVE Kept'
  OBVIOUS
<1>1. PICK got, failed : nResults = <<[held |-> got, error |-> failed]>> /\ By(got, now)
  BY DEF Kept, Kinds, Fetched, NinjaDone
<1>2. /\ nResults # <<>> /\ nResults' = <<>> /\ nWorker = <<>> /\ ninja.busy
      /\ Head(nResults).held = got /\ Head(nResults).error = failed
  BY <1>1 DEF NinjaDone, Kept, OneDownload
<1>3. UNCHANGED <<now, nDisk, since, relied>> /\ now \in Nat \ {0} /\ since \in 0..now
  BY DEF NinjaDone, Kept, Kinds
<1>4. PICK held : held = Held(got, ninja.held)
  OBVIOUS
<1>5. PICK kept : kept = [Freed(ninja) EXCEPT !.held = held]
  OBVIOUS
<1>6. /\ Fields(kept) /\ kept.query = ninja.query /\ kept.held = held /\ ~kept.busy
      /\ kept.restart = ninja.restart /\ kept.state = ninja.state
  BY <1>5 DEF Freed, Kept, Kinds, Fields
<1>7. By(held, now)
  BY <1>1, <1>4 DEF By, Held, Kept, Kinds
<1>8. UnderWay = DOMAIN got
  BY <1>2 DEF UnderWay, Away
<1>9. CASE ninja.restart
  <2>1. PICK n : n = [kept EXCEPT !.restart = FALSE]
    OBVIOUS
  <2>2. Start(n, tried)
    <3>1. Start([[Freed(ninja) EXCEPT !.held = Held(Head(nResults).held, Freed(ninja).held)]
                   EXCEPT !.restart = FALSE], tried)
      BY <1>9 DEF NinjaDone
    <3> QED
      BY <1>2, <1>4, <1>5, <2>1, <3>1, FreedKeeps
  <2>3. /\ Fields(n) /\ n.held = held /\ n.query = ninja.query /\ ~n.busy
    BY <1>6, <2>1 DEF Fields
  <2>4. Needs(n) \subseteq AllKeys
    BY <2>3 DEF Needs, Kept, Kinds
  <2>5. Away(nWorker, nResults') = {}
    BY <1>2 DEF Away
  <2>6. Fetches /\ Fetched' /\ Files'
    BY <1>2, <1>3 DEF Fetches, Fetched, Kept, Kinds, Files, AllKeys
  <2>7. /\ Fields(ninja') /\ By(ninja'.held, now') /\ Needs(ninja') \subseteq AllKeys
        /\ Fetches' /\ OneDownload' /\ Lacking' /\ Answers'
    BY <1>2, <1>3, <1>7, <2>2, <2>3, <2>4, <2>5, <2>6, StartCovers
  <2>8. (By(ninja.held, now))' /\ (Fields(ninja))' /\ (Needs(ninja) \subseteq AllKeys)'
    BY <2>7 DEF By, Fields, Needs, AllKeys
  <2> QED
    BY <1>3, <2>6, <2>7, <2>8 DEF Kept, Kinds
<1>10. CASE ~ninja.restart
  <2>1. PICK ref, state : ninja' = [[[kept EXCEPT !.error = failed] EXCEPT !.ref = ref] EXCEPT !.state = state]
    <3>1. PICK state :
            ninja' = [Resolved([[Freed(ninja) EXCEPT !.held = Held(Head(nResults).held, Freed(ninja).held)]
                                  EXCEPT !.error = Head(nResults).error]) EXCEPT !.state = state]
      BY <1>10 DEF NinjaDone
    <3>2. PICK ref : Resolved([kept EXCEPT !.error = failed])
                       = [[kept EXCEPT !.error = failed] EXCEPT !.ref = ref]
      BY DEF Resolved
    <3>3. kept = [Freed(ninja) EXCEPT !.held = Held(Head(nResults).held, Freed(ninja).held)]
      BY <1>2, <1>4, <1>5, FreedKeeps
    <3>4. ninja' = [Resolved([kept EXCEPT !.error = failed]) EXCEPT !.state = state]
      BY <1>2, <3>1, <3>3
    <3> QED
      BY ONLY <3>2, <3>4
  <2>2. /\ Fields(ninja') /\ ninja'.held = held /\ ninja'.query = ninja.query /\ ~ninja'.busy
    BY <1>6, <2>1 DEF Fields
  <2>3. nWorker' = <<>> /\ tried' = tried
    BY <1>2, <1>10 DEF NinjaDone
  <2>4. UnderWay' = {}
    BY <1>2, <2>3 DEF UnderWay, Away
  <2>5. Covers(ninja, tried, since, DOMAIN got)
    BY <1>8, <1>10 DEF Kept, Answers
  <2>6. ASSUME NEW k \in Needs(ninja)
        PROVE  k \in tried \/ (k \in DOMAIN held /\ held[k] > since - Ttl)
    BY <1>4, <2>5 DEF Covers, Held
  <2>7. Answers'
    BY <1>3, <2>2, <2>3, <2>4, <2>6 DEF Answers, Covers, Needs
  <2> QED
    BY <1>2, <1>3, <1>7, <2>2, <2>3, <2>4, <2>7
    DEF Kept, Kinds, Fields, By, Needs, Files, Fetches, Fetched, OneDownload, Lacking, AllKeys
<1> QED
  BY <1>9, <1>10

LEMMA TickKeeps == Kept /\ Tick => Kept'
<1> SUFFICES ASSUME Kept, Tick PROVE Kept'
  OBVIOUS
<1>1. now' = now + 1 /\ UNCHANGED <<ninja, nWorker, nResults, nDisk, since, tried, relied>>
  BY DEF Tick
<1>2. PICK t \in Nat \ {0} : t = now /\ now' = t + 1
  BY <1>1 DEF Kept, Kinds
<1>3. 1..t \subseteq 1..(t + 1) /\ 0..t \subseteq 0..(t + 1)
  BY <1>2
<1>4. ASSUME NEW k, k \in DOMAIN ninja.held, Fresh(ninja.held[k])' PROVE Fresh(ninja.held[k])
  <2>1. PICK at \in 1..t : at = ninja.held[k]
    BY <1>2, <1>4 DEF Kept, Kinds, By
  <2>2. t + 1 - at < Ttl
    BY <1>1, <1>2, <1>4, <2>1 DEF Fresh
  <2>3. at > 0 /\ at <= t /\ t - at < Ttl
    BY <2>1, <2>2, TtlAssumption
  <2> QED
    BY <1>2, <2>1, <2>3 DEF Fresh
<1>5. Kinds'
  <2>1. now' \in Nat \ {0} /\ since' \in 0..now'
    BY <1>1, <1>2, <1>3 DEF Kept, Kinds
  <2>2. (Fields(ninja))' /\ (Needs(ninja) \subseteq AllKeys)'
    BY <1>1 DEF Kept, Kinds, Fields, Needs, AllKeys
  <2>3. (By(ninja.held, now))'
    BY <1>1, <1>2, <1>3 DEF Kept, Kinds, By
  <2>4. Files'
    BY <1>1, <1>2, <1>3 DEF Kept, Kinds, Files, AllKeys
  <2>5. Fetches'
    <3>1. CASE nWorker = <<>>
      BY <1>1, <3>1 DEF Fetches
    <3>2. CASE nWorker # <<>>
      <4>1. PICK want \in SUBSET AllKeys, at \in 1..now : nWorker = [want |-> want, at |-> at]
        BY <3>2 DEF Kept, Kinds, Fetches
      <4>2. at \in 1..now' /\ want \in SUBSET AllKeys'
        BY <1>2, <1>3 DEF AllKeys
      <4> QED
        BY <1>1, <4>1, <4>2 DEF Fetches
    <3> QED
      BY <3>1, <3>2
  <2>6. Fetched'
    BY <1>1, <1>2, <1>3 DEF Kept, Kinds, Fetched, By
  <2> QED
    BY <2>1, <2>2, <2>3, <2>4, <2>5, <2>6 DEF Kinds
<1>6. UnderWay' = UnderWay
  BY <1>1 DEF UnderWay, Away
<1>7. Lacking'
  BY <1>1, <1>4, <1>6 DEF Kept, Lacking
<1>8. OneDownload' /\ Answers' /\ ~relied'
  BY <1>1, <1>6 DEF Kept, OneDownload, Answers, Covers, Needs
<1> QED
  BY <1>5, <1>7, <1>8 DEF Kept

LEMMA RelaunchKeeps == Kept /\ Relaunch => Kept'
<1> SUFFICES ASSUME Kept, Relaunch PROVE Kept'
  OBVIOUS
<1>1. /\ nWorker' = <<>> /\ nResults' = <<>> /\ since' = 0 /\ UNCHANGED <<now, relied>>
      /\ ninja' = [query |-> NoQuery, state |-> "Idle", ref |-> NoReference, error |-> FALSE,
                   held |-> <<>>, busy |-> FALSE, restart |-> FALSE]
  BY DEF Relaunch, NewNinja
<1>2. Needs(ninja') = {}
  BY <1>1, NothingNeeded DEF Needs, ToSet
<1>3. PICK disk : /\ nDisk' = Pruned(disk)
                  /\ \A k \in AllKeys : disk[k].fetched \in 0..now /\ disk[k].whole \in BOOLEAN
  <2>1. CASE nWorker = <<>>
    <3>1. nDisk' = Pruned(nDisk)
      BY <2>1 DEF Relaunch
    <3> QED
      BY <3>1 DEF Kept, Kinds, Files
  <2>2. CASE nWorker # <<>>
    <3>1. PICK want \in SUBSET AllKeys, at \in 1..now : nWorker = [want |-> want, at |-> at]
      BY <2>2 DEF Kept, Kinds, Fetches
    <3>2. PICK k \in want : nDisk' = Pruned([nDisk EXCEPT ![k] = [fetched |-> at, whole |-> FALSE]])
      BY <2>2, <3>1 DEF Relaunch
    <3>3. PICK disk : disk = [nDisk EXCEPT ![k] = [fetched |-> at, whole |-> FALSE]]
      OBVIOUS
    <3>4. ASSUME NEW j \in AllKeys PROVE disk[j].fetched \in 0..now /\ disk[j].whole \in BOOLEAN
      <4>1. CASE j = k
        <5>1. disk[j] = [fetched |-> at, whole |-> FALSE]
          BY <3>3, <4>1 DEF Kept, Kinds, Files
        <5>2. at \in 0..now
          BY DEF Kept, Kinds
        <5> QED
          BY <5>1, <5>2
      <4>2. CASE j # k
        <5>1. disk[j] = nDisk[j]
          BY <3>3, <4>2 DEF Kept, Kinds, Files
        <5> QED
          BY <5>1 DEF Kept, Kinds, Files
      <4> QED
        BY <4>1, <4>2
    <3> QED
      BY <3>2, <3>3, <3>4
  <2> QED
    BY <2>1, <2>2
<1>4. Files'
  <2>1. now \in Nat \ {0} /\ 0 \in 0..now
    BY DEF Kept, Kinds
  <2>2. \A k \in AllKeys : nDisk'[k] \in {disk[k], NoFile}
    BY <1>3 DEF Pruned
  <2>3. NoFile.fetched = 0 /\ NoFile.whole = FALSE
    BY DEF NoFile
  <2>4. ASSUME NEW k \in AllKeys PROVE nDisk'[k].fetched \in 0..now /\ nDisk'[k].whole \in BOOLEAN
    <3>1. CASE nDisk'[k] = disk[k]
      BY <1>3, <3>1
    <3>2. CASE nDisk'[k] = NoFile
      BY <2>1, <2>3, <3>2
    <3> QED
      BY <2>2, <3>1, <3>2
  <2>5. DOMAIN nDisk' = AllKeys
    BY <1>3 DEF Pruned
  <2> QED
    BY <1>1, <2>4, <2>5 DEF Files, AllKeys
<1>5. UnderWay' = {}
  BY <1>1 DEF UnderWay, Away
<1>6. (Fields(ninja))' /\ (By(ninja.held, now))' /\ now' \in Nat \ {0} /\ since' \in 0..now'
  BY <1>1 DEF Kept, Kinds, Fields, By
<1> QED
  BY <1>1, <1>2, <1>4, <1>5, <1>6
  DEF Kept, Kinds, Needs, Fetches, Fetched, OneDownload, Lacking, Answers, Covers

LEMMA KeptStep == Kept /\ [NinjaNext]_nVars => Kept'
<1> SUFFICES ASSUME Kept, [NinjaNext]_nVars PROVE Kept'
  OBVIOUS
<1>1. CASE \E c \in Checked : Price(c)
  BY <1>1, PriceKeeps
<1>2. CASE NinjaWorker
  BY <1>2, WorkerEnds
<1>3. CASE NinjaDone
  BY <1>3, DoneKeeps
<1>4. CASE Tick
  BY <1>4, TickKeeps
<1>5. CASE Relaunch
  BY <1>5, RelaunchKeeps
<1>6. CASE UNCHANGED nVars
  BY <1>6 DEF nVars, Kept, Kinds, Fields, By, Needs, Files, AllKeys, Fetches, Fetched,
              OneDownload, Lacking, Fresh, UnderWay, Away, Answers, Covers
<1> QED
  BY <1>1, <1>2, <1>3, <1>4, <1>5, <1>6 DEF NinjaNext

(* An answer is about the query in hand, for every league, list and number *)
(* of checks: each list that query needs was fetched for it, or was fresh  *)
(* when it was asked.  A check that lands on a download of other lists is  *)
(* not answered by that download, and no later end of it changes what was  *)
(* answered (start, on_done).                                              *)
THEOREM EveryAnswerIsAsked == NinjaSpec => []EveryListAsked
<1>1. Kept => EveryListAsked
  BY DEF Kept, Answers, Covers, Needs, EveryListAsked, Shown
<1> QED
  BY <1>1, KeptInit, KeptStep, PTL DEF NinjaSpec

(* A copy known to be current and found unreadable is fetched in full,     *)
(* never answered with its own 304 (load_overview).                        *)
THEOREM NothingTornIsRenewed == NinjaSpec => []TornIsReplaced
<1>1. Kept => TornIsReplaced
  BY DEF Kept, TornIsReplaced
<1> QED
  BY <1>1, KeptInit, KeptStep, PTL DEF NinjaSpec

-----------------------------------------------------------------------------
(* The exchange: digests that are of published hours.                      *)

SoundDigest(d) ==
  \/ d = NoDigest
  \/ d.hour \in published /\ d.hour \in Nat \ {0} /\ d.kind = "whole"

SoundDisk == \A h \in DOMAIN xDisk : h \in published /\ xDisk[h] \in {"whole", "torn"}

\* The members of the service, each with some value.
Members(x) ==
  x = [league |-> x.league, id |-> x.id, state |-> x.state, error |-> x.error,
       digest |-> x.digest, listing |-> x.listing, busy |-> x.busy, restart |-> x.restart]

AskedOf(x) == x.league \in Leagues \/ x.id = ""

\* What HourIsPublished says of the service's members x.
SaidOf(x) ==
  x.state = "Ok" /\ x.id # "" =>
    IF x.digest.league = x.league
    THEN /\ x.digest.hour \in published
         /\ x.listing = Listing(Digests[x.digest.hour], x.league, x.id)
    ELSE x.listing = <<>>

SoundResults == xResults = <<>> \/ \E r : xResults = <<r>> /\ SoundDigest(r.digest)
SoundMembers == Members(xchg) /\ AskedOf(xchg) /\ SoundDigest(xchg.digest)
Clock == hour \in Nat /\ published \subseteq Nat \ {0}
Sound == Clock /\ SoundDisk /\ SoundResults /\ SoundMembers

-----------------------------------------------------------------------------
(* The walk.                                                               *)

\* A set of bounded naturals has a largest.
LEMMA Largest ==
  ASSUME NEW n \in Nat, NEW S \in SUBSET (0..n), S # {}
  PROVE  \E x \in S : \A y \in S : y <= x
<1> DEFINE T == {n - y : y \in S}
<1>1. T \subseteq Nat /\ T # {}
  <2>1. ASSUME NEW y \in S PROVE n - y \in Nat
    OBVIOUS
  <2> QED
    BY <2>1
<1> DEFINE R == OpToRel(<, Nat)
<1>2. IsWellFoundedOn(R, Nat)
  BY NatLessThanWellFounded
<1>3. \A a, b \in Nat : a < b => <<a, b>> \in R
  BY DEF OpToRel
<1> HIDE DEF R, T
<1>4. PICK z \in T : \A y \in T : ~ (<<y, z>> \in R)
  BY <1>1, <1>2, WFMin
<1>5. PICK x \in S : z = n - x
  BY <1>4 DEF T
<1>6. ASSUME NEW y \in S PROVE y <= x
  <2>1. n - y \in T
    BY DEF T
  <2>2. ~(n - y < z)
    BY <1>1, <1>3, <1>4, <2>1
  <2> QED
    BY <1>5, <2>2
<1> QED
  BY <1>6

\* The way back ends at a published hour, or nowhere.
LEMMA WalkIsSound ==
  ASSUME Clock, SoundDisk, NEW league, NEW fails
  PROVE  LET w == Walk(league, fails)
         IN  /\ SoundDigest(w.digest)
             /\ \A h \in DOMAIN w.disk : h \in published /\ w.disk[h] \in {"whole", "torn"}
<1> DEFINE OnDisk(h) == h \in DOMAIN xDisk /\ xDisk[h] # "torn"
           walked == {k \in 1..LatestHour : k > LatestHour - StepBack}
           stops == {k \in walked : OnDisk(k) \/ (k \notin fails /\ IsPublished(OfFeed(k)))}
           h == CHOOSE k \in stops : \A j \in stops : j <= k
           failed == \E k \in fails : k > h
           Digest(kind) == [hour |-> h, league |-> league, kind |-> kind]
           w == Walk(league, fails)
<1>0. w = IF stops = {} THEN [digest |-> NoDigest, error |-> TRUE, disk |-> xDisk]
          ELSE IF OnDisk(h) THEN [digest |-> Digest(xDisk[h]), error |-> failed, disk |-> xDisk]
          ELSE [digest |-> Digest(OfFeed(h)), error |-> FALSE,
                disk |-> PrunedHours(With(xDisk, h, OfFeed(h)))]
  BY DEF Walk
<1>1. CASE stops = {}
  BY <1>0, <1>1 DEF SoundDigest, SoundDisk
<1>2. CASE stops # {}
  <2>1. LatestHour \in Nat
    BY DEF Clock, LatestHour
  <2>2. stops \in SUBSET (0..LatestHour)
    BY <2>1
  <2>3. h \in stops
    <3> HIDE DEF stops
    <3> QED
      BY <1>2, <2>1, <2>2, Largest
  <2>4. h \in 1..LatestHour /\ (OnDisk(h) \/ IsPublished(OfFeed(h)))
    <3> HIDE DEF h
    <3> QED
      BY <2>3
  <2> HIDE DEF h, stops
  <2>7. h \in Nat \ {0}
    BY <2>1, <2>4
  <2>5. CASE OnDisk(h)
    <3>1. h \in published /\ xDisk[h] = "whole"
      BY <2>5 DEF SoundDisk
    <3>2. w.digest = Digest("whole") /\ w.disk = xDisk
      BY <1>0, <1>2, <2>5, <3>1
    <3> QED
      BY <2>7, <3>1, <3>2 DEF SoundDigest, SoundDisk
  <2>6. CASE ~OnDisk(h)
    <3>1. OfFeed(h) = "whole" /\ h \in published
      BY <2>4, <2>6 DEF IsPublished, OfFeed
    <3>2. w.digest = Digest("whole") /\ w.disk = PrunedHours(With(xDisk, h, "whole"))
      BY <1>0, <1>2, <2>6, <3>1
    <3>3. ASSUME NEW k \in DOMAIN w.disk PROVE k \in published /\ w.disk[k] \in {"whole", "torn"}
      <4> DEFINE both == With(xDisk, h, "whole")
      <4>1. DOMAIN both = {h} \cup DOMAIN xDisk
        BY DEF With
      <4>2. \A j \in DOMAIN both : both[j] = IF j = h THEN "whole" ELSE xDisk[j]
        BY DEF With
      <4> HIDE DEF both
      <4>3. w.disk = PrunedHours(both)
        BY <3>2 DEF both
      <4>4. k \in DOMAIN both /\ w.disk[k] = both[k]
        BY <3>3, <4>3 DEF PrunedHours
      <4> QED
        BY <3>1, <4>1, <4>2, <4>4 DEF SoundDisk
    <3> QED
      BY <2>7, <3>1, <3>2, <3>3 DEF SoundDigest
  <2> QED
    BY <2>5, <2>6
<1> QED
  BY <1>1, <1>2

-----------------------------------------------------------------------------
(* The service's members.                                                  *)

\* What resolve() puts in the members, spelt out.
LEMMA AnsweredIs ==
  ASSUME NEW x, Members(x), NEW s, NEW list,
         list = IF x.digest.hour > 0 /\ x.digest.league = x.league
                THEN Listing(Markets(x.digest), x.league, x.id) ELSE <<>>
  PROVE  [Answered(x) EXCEPT !.state = s]
           = [league |-> x.league, id |-> x.id, state |-> s, error |-> x.error,
              digest |-> x.digest, listing |-> list, busy |-> x.busy, restart |-> x.restart]
<1>1. Answered(x) = [x EXCEPT !.listing = list]
  BY DEF Answered
<1>2. [x EXCEPT !.listing = list]
        = [league |-> x.league, id |-> x.id, state |-> x.state, error |-> x.error,
           digest |-> x.digest, listing |-> list, busy |-> x.busy, restart |-> x.restart]
  BY DEF Members
<1>3. Answered(x)
        = [league |-> x.league, id |-> x.id, state |-> x.state, error |-> x.error,
           digest |-> x.digest, listing |-> list, busy |-> x.busy, restart |-> x.restart]
  BY <1>1, <1>2
<1> QED
  BY ONLY <1>3

Ended(x, s) == [Answered(x) EXCEPT !.state = s]

LEMMA AnsweredSays ==
  ASSUME NEW x, Members(x), AskedOf(x), SoundDigest(x.digest), Clock, NEW s
  PROVE  LET y == Ended(x, s)
         IN  Members(y) /\ AskedOf(y) /\ y.digest = x.digest /\ y.state = s /\ SaidOf(y)
<1> DEFINE y == Ended(x, s)
<1>0. PICK list : list = IF x.digest.hour > 0 /\ x.digest.league = x.league
                         THEN Listing(Markets(x.digest), x.league, x.id) ELSE <<>>
  OBVIOUS
<1>1. y = [league |-> x.league, id |-> x.id, state |-> s, error |-> x.error,
           digest |-> x.digest, listing |-> list, busy |-> x.busy, restart |-> x.restart]
  BY <1>0, AnsweredIs DEF Ended
<1> HIDE DEF y
<1>2. ASSUME x.id # "", x.digest.league = x.league
      PROVE  x.digest.hour \in published /\ list = Listing(Digests[x.digest.hour], x.league, x.id)
  <2>1. NoDigest.league = "" /\ x.league # ""
    BY <1>2, LeagueAssumption DEF AskedOf, NoDigest
  <2>2. x.digest # NoDigest
    BY <1>2, <2>1
  <2>3. x.digest.hour \in published /\ x.digest.hour \in Nat \ {0} /\ x.digest.kind = "whole"
    BY <2>2 DEF SoundDigest
  <2>4. Markets(x.digest) = Digests[x.digest.hour] /\ x.digest.hour > 0
    BY <2>3 DEF Markets
  <2> QED
    BY <1>0, <1>2, <2>3, <2>4
<1>3. x.digest.league # x.league => list = <<>>
  BY <1>0
<1>4. /\ y.league = x.league /\ y.id = x.id /\ y.state = s /\ y.digest = x.digest
      /\ y.listing = list /\ y.error = x.error /\ y.busy = x.busy /\ y.restart = x.restart
  BY <1>1
<1>5. Members(y)
  BY <1>1, <1>4 DEF Members
<1>6. AskedOf(y)
  BY <1>4 DEF AskedOf
<1>7. SaidOf(y)
  BY <1>2, <1>3, <1>4 DEF SaidOf
<1> QED
  BY <1>4, <1>5, <1>6, <1>7 DEF y

LEMMA BegunSays ==
  ASSUME NEW x, Members(x), AskedOf(x), SoundDigest(x.digest), Clock
  PROVE  /\ Members(Begun(x)) /\ AskedOf(Begun(x)) /\ Begun(x).digest = x.digest
         /\ SaidOf(Begun(x))
<1>1. CASE Current(x)
  BY <1>1, AnsweredSays DEF Begun, Ended
<1>2. CASE ~Current(x)
  <2>1. Begun(x) = IF x.busy THEN [x EXCEPT !.state = "Loading", !.restart = TRUE]
                   ELSE [x EXCEPT !.state = "Loading", !.busy = TRUE]
    BY <1>2 DEF Begun, AgainAfter
  <2> QED
    BY <2>1 DEF Members, AskedOf, SaidOf
<1> QED
  BY <1>1, <1>2

-----------------------------------------------------------------------------
(* The steps.                                                              *)

LEMMA SoundInit == XchgInit => Sound /\ SaidOf(xchg)
<1> SUFFICES ASSUME XchgInit PROVE Sound /\ SaidOf(xchg)
  OBVIOUS
<1>1. Clock
  BY StepAssumption DEF XchgInit, Clock
<1>2. SoundDisk /\ SoundResults
  BY DEF XchgInit, SoundDisk, SoundResults
<1>3. SoundMembers /\ SaidOf(xchg)
  BY DEF XchgInit, NewXchg, SoundMembers, Members, AskedOf, SoundDigest, SaidOf
<1> QED
  BY <1>1, <1>2, <1>3 DEF Sound

\* A digest of a published hour stays one as more are published.
LEMMA MorePublished ==
  ASSUME published \subseteq published', NEW d, SoundDigest(d)
  PROVE  SoundDigest(d)'
  BY DEF SoundDigest

LEMMA SoundStep == Sound /\ SaidOf(xchg) /\ [XchgNext]_xVars => Sound' /\ SaidOf(xchg)'
<1> SUFFICES ASSUME Sound, SaidOf(xchg), [XchgNext]_xVars PROVE Sound' /\ SaidOf(xchg)'
  OBVIOUS
<1> USE DEF Sound
<1>0. ASSUME UNCHANGED <<hour, published>> PROVE Clock' /\ \A d : SoundDigest(d) => SoundDigest(d)'
  BY <1>0 DEF Clock, SoundDigest
<1>1. ASSUME NEW x, UNCHANGED <<published, hour>>,
             Members(x), AskedOf(x), SoundDigest(x.digest), SaidOf(x), xchg' = x
      PROVE  SoundMembers' /\ SaidOf(xchg)'
  BY <1>1 DEF SoundMembers, Members, AskedOf, SoundDigest, SaidOf
<1>2. ASSUME UNCHANGED <<published, hour, xchg>> PROVE SoundMembers' /\ SaidOf(xchg)'
  BY <1>2 DEF SoundMembers, Members, AskedOf, SoundDigest, SaidOf
<1>3. ASSUME UNCHANGED <<published, xDisk>> PROVE SoundDisk'
  BY <1>3 DEF SoundDisk
<1>4. ASSUME UNCHANGED <<published, xResults>> \/ (UNCHANGED published /\ xResults' = <<>>)
      PROVE  SoundResults'
  BY <1>4 DEF SoundResults, SoundDigest
<1>5. CASE \E league \in Leagues, id \in Ids : Lookup(league, id)
  <2>1. PICK league \in Leagues, id \in Ids : Lookup(league, id)
    BY <1>5
  <2>2. PICK x : x = [xchg EXCEPT !.league = league, !.id = id, !.listing = <<>>, !.error = FALSE]
    OBVIOUS
  <2>3. Members(x) /\ AskedOf(x) /\ x.digest = xchg.digest /\ x.id = id
    BY <2>2 DEF SoundMembers, Members, AskedOf
  <2>4. SoundDigest(x.digest)
    BY <2>3 DEF SoundMembers
  <2>5. CASE id = ""
    <3>1. xchg' = [x EXCEPT !.state = "Idle"]
      BY <2>1, <2>2, <2>5 DEF Lookup
    <3>2. PICK y : y = [x EXCEPT !.state = "Idle"]
      OBVIOUS
    <3>3. Members(y) /\ AskedOf(y) /\ y.digest = x.digest /\ y.state = "Idle"
      BY <2>3, <3>2 DEF Members, AskedOf
    <3> QED
      BY <1>0, <1>1, <1>3, <1>4, <2>1, <2>4, <3>1, <3>2, <3>3 DEF Lookup, SaidOf
  <2>6. CASE id # ""
    <3>1. xchg' = Begun(x)
      BY <2>1, <2>2, <2>6 DEF Lookup, Begin
    <3>2. Members(Begun(x)) /\ AskedOf(Begun(x)) /\ Begun(x).digest = x.digest /\ SaidOf(Begun(x))
      BY <2>3, <2>4, BegunSays
    <3> QED
      BY <1>0, <1>1, <1>3, <1>4, <2>1, <2>4, <3>1, <3>2 DEF Lookup
  <2> QED
    BY <2>5, <2>6
<1>6. CASE XchgWorker
  <2>1. UNCHANGED <<hour, published, xchg>>
    BY <1>6 DEF XchgWorker
  <2>2. PICK w, fails : /\ w = Walk(Head(xWorker), fails)
                        /\ xDisk' = w.disk
                        /\ \/ xResults' = <<[digest |-> w.digest, error |-> w.error]>>
                           \/ UNCHANGED xResults
    BY <1>6 DEF XchgWorker
  <2>3. /\ SoundDigest(w.digest)
        /\ \A h \in DOMAIN w.disk : h \in published /\ w.disk[h] \in {"whole", "torn"}
    BY <2>2, WalkIsSound
  <2>4. SoundDisk'
    BY <2>1, <2>2, <2>3 DEF SoundDisk
  <2>5. CASE UNCHANGED xResults
    BY <1>0, <1>2, <1>4, <2>1, <2>4, <2>5
  <2>6. CASE xResults' = <<[digest |-> w.digest, error |-> w.error]>>
    <3>1. SoundDigest(w.digest)'
      BY <2>1, <2>3, <1>0
    <3>2. SoundResults'
      BY <2>6, <3>1 DEF SoundResults, SoundDigest
    <3> QED
      BY <1>0, <1>2, <2>1, <2>4, <3>2
  <2> QED
    BY <2>2, <2>5, <2>6
<1>7. CASE XchgDone
  <2>1. UNCHANGED <<hour, published, xDisk>> /\ xResults' = <<>>
    BY <1>7 DEF XchgDone
  <2>2. PICK r, x, e : /\ r = Head(xResults)
                       /\ x = [xchg EXCEPT !.busy = FALSE,
                                 !.digest = IF r.digest.hour > 0 THEN r.digest ELSE @,
                                 !.listing = IF r.digest.hour > 0 THEN <<>> ELSE @]
                       /\ e = [x EXCEPT !.error = r.error]
    OBVIOUS
  <2>3. SoundDigest(r.digest)
    BY <1>7, <2>2 DEF XchgDone, SoundResults
  <2>4. Members(x) /\ AskedOf(x) /\ SoundDigest(x.digest)
    BY <2>2, <2>3 DEF SoundMembers, Members, AskedOf
  <2>5. CASE xchg.restart
    <3>1. PICK y : y = [x EXCEPT !.restart = FALSE]
      OBVIOUS
    <3>2. Members(y) /\ AskedOf(y) /\ y.digest = x.digest
      BY <2>4, <3>1 DEF Members, AskedOf
    <3>3. xchg' = Begun(y)
      BY <1>7, <2>2, <2>5, <3>1 DEF XchgDone, Begin
    <3>4. Members(Begun(y)) /\ AskedOf(Begun(y)) /\ Begun(y).digest = y.digest /\ SaidOf(Begun(y))
      BY <2>4, <3>2, BegunSays
    <3> QED
      BY <1>0, <1>1, <1>3, <1>4, <2>1, <2>4, <3>2, <3>3, <3>4
  <2>6. CASE ~xchg.restart
    <3>1. PICK s : xchg' = [Answered(e) EXCEPT !.state = s]
      BY <1>7, <2>2, <2>6 DEF XchgDone
    <3>2. Members(e) /\ AskedOf(e) /\ e.digest = x.digest
      BY <2>2, <2>4 DEF Members, AskedOf
    <3>3. PICK y : y = Ended(e, s)
      OBVIOUS
    <3>4. Members(y) /\ AskedOf(y) /\ y.digest = e.digest /\ SaidOf(y)
      <4>1. SoundDigest(e.digest) /\ Clock
        BY <2>4, <3>2
      <4> QED
        BY ONLY <3>2, <3>3, <4>1, AnsweredSays
    <3> QED
      BY <1>0, <1>1, <1>3, <1>4, <2>1, <2>4, <3>1, <3>2, <3>3, <3>4 DEF Ended
  <2> QED
    BY <2>5, <2>6
<1>8. CASE Publish
  <2>1. PICK h \in 1..LatestHour : published' = published \cup {h}
    BY <1>8 DEF Publish
  <2>2. Clock'
    BY <1>8, <2>1 DEF Publish, Clock
  <2>3. published \subseteq published' /\ UNCHANGED <<xchg, xResults, xDisk>>
    BY <1>8, <2>1 DEF Publish
  <2>4. SoundDisk' /\ SoundResults' /\ SoundMembers'
    BY <2>3 DEF SoundDisk, SoundResults, SoundMembers, SoundDigest, Members, AskedOf
  <2>5. SaidOf(xchg)'
    BY <2>3 DEF SaidOf
  <2> QED
    BY <2>2, <2>4, <2>5
<1>9. CASE HourPasses
  <2>1. Clock'
    BY <1>9 DEF HourPasses, Clock
  <2>2. UNCHANGED <<published, xchg, xDisk, xResults>>
    BY <1>9 DEF HourPasses
  <2>3. SoundMembers' /\ SaidOf(xchg)'
    BY <2>2 DEF SoundMembers, Members, AskedOf, SoundDigest, SaidOf
  <2> QED
    BY <1>3, <1>4, <2>1, <2>2, <2>3
<1>10. CASE XchgRelaunch
  <2>1. UNCHANGED <<hour, published>> /\ xResults' = <<>> /\ xchg' = NewXchg
    BY <1>10 DEF XchgRelaunch
  <2>2. SoundDisk'
    <3>1. CASE UNCHANGED xDisk
      BY <1>3, <2>1, <3>1
    <3>2. CASE \E h \in published : xDisk' = With(xDisk, h, "torn")
      BY <2>1, <3>2 DEF SoundDisk, With
    <3> QED
      BY <1>10, <3>1, <3>2 DEF XchgRelaunch
  <2>3. SoundMembers' /\ SaidOf(xchg)'
    BY <2>1 DEF NewXchg, SoundMembers, Members, AskedOf, SoundDigest, SaidOf
  <2> QED
    BY <1>0, <1>4, <2>1, <2>2, <2>3
<1>11. CASE UNCHANGED xVars
  BY <1>0, <1>2, <1>3, <1>4, <1>11 DEF xVars
<1> QED
  BY <1>5, <1>6, <1>7, <1>8, <1>9, <1>10, <1>11 DEF XchgNext

\* What is said of an hour is what the published digest of that hour holds, whatever is looked
\* up, published, missed, cut off or restarted meanwhile, for every feed and set of leagues
\* (load_digest, on_done, resolve).
THEOREM SaidOfAPublishedHour == XchgSpec => []HourIsPublished
<1>1. SaidOf(xchg) => HourIsPublished
  BY DEF SaidOf, HourIsPublished
<1> QED
  BY <1>1, SoundInit, SoundStep, PTL DEF XchgSpec

-----------------------------------------------------------------------------
(* The filter list: rows, and lists of them.                               *)

\* An interval whose bounds, where it has both, are in order.
InOrder(a, b) == a \in OptInt /\ b \in OptInt /\ (a # None /\ b # None => a <= b)

\* The fields of a row of either list.
NumFields == {"key", "on", "hidden", "min", "max", "smin", "smax"}
StatFields == {"mods", "id", "type", "on", "min", "max", "tiered", "inverted", "hidden", "negated", "choice",
               "primary", "rmin", "rmax", "smin", "smax", "pooled", "caveat"}

\* A row of the list of that kind, with an interval that is in order.
IsRow(f, l) ==
  /\ (IF l = "stats" THEN StatFields ELSE NumFields) \subseteq DOMAIN f
  /\ InOrder(f.min, f.max)
  /\ l = "stats" => f.rmin \in OptInt /\ f.rmax \in OptInt /\ f.mods \in Seq(Nat)
AreRows(s, l) == s \in Seq(Range(s)) /\ \A i \in DOMAIN s : IsRow(s[i], l)

LEMMA RowsAre ==
  ASSUME NEW l, NEW n \in Nat, NEW s, s = [i \in 1..n |-> s[i]], \A i \in 1..n : IsRow(s[i], l)
  PROVE  AreRows(s, l) /\ DOMAIN s = 1..n /\ Len(s) = n
<1>1. DOMAIN s = 1..n
  OBVIOUS
<1>2. \A i \in 1..n : s[i] \in Range(s)
  BY <1>1 DEF Range
<1>3. s \in [1..n -> Range(s)]
  BY <1>2
<1>4. s \in Seq(Range(s))
  BY <1>3
<1> QED
  BY <1>1, <1>4 DEF AreRows

LEMMA RowsTo ==
  ASSUME NEW l, NEW s, AreRows(s, l)
  PROVE  /\ Len(s) \in Nat /\ DOMAIN s = 1..Len(s) /\ \A i \in 1..Len(s) : IsRow(s[i], l)
         /\ s = [i \in 1..Len(s) |-> s[i]]
BY DEF AreRows

LEMMA NoRows == ASSUME NEW l PROVE AreRows(<<>>, l)
<1> DEFINE s == <<>>
<1>1. s \in Seq(Range(s)) /\ DOMAIN s = {}
  OBVIOUS
<1> QED
  BY <1>1 DEF AreRows

LEMMA RowsSeq ==
  ASSUME NEW X, NEW l, NEW s \in Seq(X), \A i \in 1..Len(s) : IsRow(s[i], l)
  PROVE  AreRows(s, l)
<1>1. Len(s) \in Nat /\ s = [i \in 1..Len(s) |-> s[i]]
  OBVIOUS
<1> QED
  BY <1>1, RowsAre

LEMMA OneRow == ASSUME NEW l, NEW f, IsRow(f, l) PROVE AreRows(<<f>>, l)
<1> DEFINE s == <<f>>
<1>1. s \in Seq({f}) /\ Len(s) = 1 /\ s[1] = f
  OBVIOUS
<1> HIDE DEF s
<1>2. \A i \in 1..Len(s) : IsRow(s[i], l)
  <2>1. \A i \in 1..Len(s) : i = 1
    BY <1>1
  <2> QED
    BY <1>1, <2>1
<1>3. AreRows(s, l)
  BY <1>1, <1>2, RowsSeq
<1> QED
  BY <1>3 DEF s

LEMMA MaybeRow == ASSUME NEW l, NEW f, NEW cond, cond => IsRow(f, l) PROVE AreRows(OneIf(cond, f), l)
BY OneRow, NoRows DEF OneIf

LEMMA BothRows ==
  ASSUME NEW l, NEW s, NEW t, AreRows(s, l), AreRows(t, l)
  PROVE  AreRows(s \o t, l)
<1>1. PICK X : X = Range(s) \cup Range(t)
  OBVIOUS
<1>2. s \in Seq(X) /\ t \in Seq(X)
  <2>1. Len(s) \in Nat /\ s \in [1..Len(s) -> Range(s)] /\ Len(t) \in Nat /\ t \in [1..Len(t) -> Range(t)]
    BY DEF AreRows
  <2>2. s \in [1..Len(s) -> X] /\ t \in [1..Len(t) -> X]
    BY <1>1, <2>1
  <2> QED
    BY <2>1, <2>2
<1>3. /\ s \o t \in Seq(X) /\ Len(s \o t) = Len(s) + Len(t)
      /\ \A i \in 1..Len(s \o t) : (s \o t)[i] = IF i <= Len(s) THEN s[i] ELSE t[i - Len(s)]
  BY <1>2
<1>4. ASSUME NEW i \in 1..Len(s \o t) PROVE IsRow((s \o t)[i], l)
  <2>1. Len(s) \in Nat /\ Len(t) \in Nat
    BY <1>2
  <2>2. i \in 1..Len(s) \/ i - Len(s) \in 1..Len(t)
    BY <1>3, <2>1
  <2>3. CASE i \in 1..Len(s)
    <3>1. (s \o t)[i] = s[i]
      BY <1>3, <2>1, <2>3
    <3> QED
      BY <2>3, <3>1, RowsTo
  <2>4. CASE i - Len(s) \in 1..Len(t)
    <3>1. (s \o t)[i] = t[i - Len(s)]
      BY <1>3, <2>1, <2>4
    <3> QED
      BY <2>4, <3>1, RowsTo
  <2> QED
    BY <2>2, <2>3, <2>4
<1> QED
  BY <1>3, <1>4, RowsSeq

LEMMA LeastMember == ASSUME NEW T, T \subseteq Nat, T # {} PROVE \E n \in T : \A m \in T : n <= m
<1> DEFINE R == OpToRel(<, Nat)
<1>1. IsWellFoundedOn(R, Nat)
  BY NatLessThanWellFounded
<1>2. \A a, b \in Nat : a < b => <<a, b>> \in R
  BY DEF OpToRel
<1> HIDE DEF R
<1>3. PICK n \in T : \A m \in T : ~ (<<m, n>> \in R)
  BY <1>1, WFMin
<1>4. ASSUME NEW m \in T PROVE n <= m
  <2>1. m \in Nat /\ n \in Nat
    OBVIOUS
  <2>2. ~(m < n)
    BY <1>2, <1>3, <2>1
  <2> QED
    BY <2>1, <2>2
<1> QED
  BY <1>4


\* f is what FlattenSeq counts up: its first i lists, one after another.
Strings(f, seqs, n) == \A i \in 1..n : f[i] = IF i = 1 THEN seqs[i] ELSE f[i - 1] \o seqs[i]

LEMMA StringExists == ASSUME NEW seqs, NEW n \in Nat PROVE \E f : Strings(f, seqs, n)
<1> DEFINE T == {m \in Nat : ~ \E f : Strings(f, seqs, m)}
<1>1. SUFFICES ASSUME T # {} PROVE FALSE
  OBVIOUS
<1>2. PICK m \in T : \A k \in T : m <= k
  BY <1>1, LeastMember
<1>3. CASE m = 0
  <2>1. Strings(seqs, seqs, 0)
    BY DEF Strings
  <2> QED
    BY <1>3, <2>1
<1>4. CASE m # 0
  <2>1. m - 1 \in Nat /\ m - 1 \notin T
    BY <1>2, <1>4
  <2>2. PICK g : Strings(g, seqs, m - 1)
    BY <2>1
  <2> DEFINE f == [i \in 1..m |-> IF i < m THEN g[i] ELSE IF m = 1 THEN seqs[m] ELSE g[m - 1] \o seqs[m]]
  <2>3. ASSUME NEW i \in 1..m PROVE f[i] = IF i = 1 THEN seqs[i] ELSE f[i - 1] \o seqs[i]
    <3>1. CASE i = m
      <4>1. i # 1 => i - 1 \in 1..m /\ i - 1 < m
        BY <1>4, <3>1
      <4> QED
        BY <3>1, <4>1
    <3>2. CASE i # m
      <4>1. i \in 1..(m - 1) /\ i < m
        BY <1>4, <3>2
      <4>2. i # 1 => i - 1 \in 1..m /\ i - 1 < m
        BY <4>1
      <4>3. g[i] = IF i = 1 THEN seqs[i] ELSE g[i - 1] \o seqs[i]
        BY <2>2, <4>1 DEF Strings
      <4> QED
        BY <4>1, <4>2, <4>3
    <3> QED
      BY <3>1, <3>2
  <2>4. Strings(f, seqs, m)
    <3> HIDE DEF f
    <3> QED
      BY <2>3 DEF Strings
  <2> QED
    BY <2>4
<1> QED
  BY <1>3, <1>4

LEMMA FlattenIs ==
  ASSUME NEW n \in Nat \ {0}, NEW seqs, Len(seqs) = n
  PROVE  \E f : Strings(f, seqs, n) /\ FlattenSeq(seqs) = f[n]
<1> DEFINE Is(f) == f = [i \in 1..Len(seqs) |-> IF i = 1 THEN seqs[i] ELSE f[i - 1] \o seqs[i]]
<1>1. PICK g : Strings(g, seqs, n)
  BY StringExists
<1> DEFINE h == [i \in 1..n |-> g[i]]
<1>2. Is(h)
  <2>1. ASSUME NEW i \in 1..n PROVE h[i] = IF i = 1 THEN seqs[i] ELSE h[i - 1] \o seqs[i]
    <3>1. i # 1 => i - 1 \in 1..n
      OBVIOUS
    <3>2. g[i] = IF i = 1 THEN seqs[i] ELSE g[i - 1] \o seqs[i]
      BY <1>1 DEF Strings
    <3> QED
      BY <3>1, <3>2
  <2>2. h = [i \in 1..n |-> h[i]]
    OBVIOUS
  <2> HIDE DEF h
  <2> QED
    BY <2>1, <2>2
<1> DEFINE f == CHOOSE f : Is(f)
<1>3. Is(f)
  <2> HIDE DEF Is, h
  <2> QED
    BY <1>2
<1>4. FlattenSeq(seqs) = f[n]
  BY DEF FlattenSeq
<1> HIDE DEF f
<1>5. Strings(f, seqs, n)
  <2>1. ASSUME NEW i \in 1..n PROVE f[i] = IF i = 1 THEN seqs[i] ELSE f[i - 1] \o seqs[i]
    BY <1>3
  <2> QED
    BY <2>1 DEF Strings
<1> QED
  BY <1>4, <1>5

LEMMA RowsOfAll ==
  ASSUME NEW l, NEW n \in Nat, NEW seqs, seqs = [i \in 1..n |-> seqs[i]], \A i \in 1..n : AreRows(seqs[i], l)
  PROVE  AreRows(FlattenSeq(seqs), l)
<1>1. Len(seqs) = n
  OBVIOUS
<1>2. CASE n = 0
  <2>1. FlattenSeq(seqs) = seqs
    BY <1>1, <1>2 DEF FlattenSeq
  <2>2. \A i \in 1..n : IsRow(seqs[i], l)
    BY <1>2
  <2>3. AreRows(seqs, l)
    BY <2>2, RowsAre
  <2> QED
    BY <2>1, <2>3
<1>3. CASE n # 0
  <2>1. PICK f : Strings(f, seqs, n) /\ FlattenSeq(seqs) = f[n]
    BY <1>1, <1>3, FlattenIs
  <2> DEFINE T == {m \in Nat : m \in 1..n /\ ~AreRows(f[m], l)}
  <2>2. CASE T = {}
    BY <1>3, <2>1, <2>2
  <2>3. CASE T # {}
    <3>1. PICK m \in T : \A k \in T : m <= k
      BY <2>3, LeastMember
    <3>2. f[m] = IF m = 1 THEN seqs[m] ELSE f[m - 1] \o seqs[m]
      BY <2>1, <3>1 DEF Strings
    <3>3. m = 1 \/ (m - 1 \in 1..n /\ m - 1 \notin T)
      BY <3>1
    <3>4. m # 1 => AreRows(f[m - 1], l)
      BY <3>3
    <3> QED
      BY <3>1, <3>2, <3>4, BothRows
  <2> QED
    BY <2>2, <2>3
<1> QED
  BY <1>2, <1>3

-----------------------------------------------------------------------------
(* Intervals. *)

LEMMA WideEnough ==
  ASSUME NEW v \in Int, NEW slack \in Nat
  PROVE  /\ FloorTo(100 * v - slack) \in Int /\ FloorTo(100 * v - slack) <= v
         /\ CeilTo(100 * v + slack) \in Int /\ CeilTo(100 * v + slack) >= v
<1>1. \A x \in Int : x \div 100 \in Int /\ 100 * (x \div 100) <= x
  OBVIOUS
<1>2. PICK a \in Int : a = 100 * v - slack
  <2>1. slack \in Int /\ 100 * v \in Int
    OBVIOUS
  <2>2. 100 * v - slack \in Int
    BY <2>1
  <2> QED
    BY <2>2
<1>3. FloorTo(a) \in Int /\ FloorTo(a) <= v
  <2>1. PICK q \in Int : q = a \div 100 /\ 100 * q <= a
    BY <1>1, <1>2
  <2> QED
    BY <1>2, <2>1 DEF FloorTo
<1>4. PICK b \in Int : b = 100 * v + slack
  OBVIOUS
<1>5. CeilTo(b) \in Int /\ CeilTo(b) >= v
  <2>1. PICK q \in Int : q = (-b) \div 100 /\ 100 * q <= -b
    BY <1>1, <1>4
  <2> QED
    BY <1>4, <2>1 DEF CeilTo
<1> QED
  BY <1>2, <1>3, <1>4, <1>5

LEMMA BoundIs ==
  ASSUME NEW side, side.pct \in Nat, NEW v \in Int, NEW gate \in OptInt
  PROVE  /\ Bound(side, v, gate, FALSE) \in OptInt /\ Bound(side, v, gate, TRUE) \in OptInt
         /\ Bound(side, v, gate, FALSE) # None => Bound(side, v, gate, FALSE) <= v
         /\ Bound(side, v, gate, TRUE) # None => Bound(side, v, gate, TRUE) >= v
<1>1. PICK slack \in Nat : slack = Abs(v) * side.pct
  <2>1. PICK a \in Nat : a = Abs(v)
    BY DEF Abs
  <2>2. \A x, y \in Nat : x * y \in Nat
    OBVIOUS
  <2> QED
    BY <2>1, <2>2
<1>2. PICK low \in Int : low = FloorTo(100 * v - slack) /\ low <= v
  BY WideEnough
<1>3. PICK high \in Int : high = CeilTo(100 * v + slack) /\ high >= v
  BY WideEnough
<1>4. gate # None => /\ Min2(v, Max2(low, gate)) \in Int /\ Min2(v, Max2(low, gate)) <= v
                     /\ Max2(v, Min2(high, gate)) \in Int /\ Max2(v, Min2(high, gate)) >= v
  BY DEF OptInt, Min2, Max2
<1>5. Bound(side, v, gate, FALSE) \in {None, v, low} \cup IF gate # None THEN {Min2(v, Max2(low, gate))} ELSE {}
  BY <1>1, <1>2 DEF Bound
<1>6. Bound(side, v, gate, TRUE) \in {None, v, high} \cup IF gate # None THEN {Max2(v, Min2(high, gate))} ELSE {}
  BY <1>1, <1>3 DEF Bound
<1>7. ASSUME Bound(side, v, gate, FALSE) # None
      PROVE  Bound(side, v, gate, FALSE) \in Int /\ Bound(side, v, gate, FALSE) <= v
  <2>1. PICK x : x = Bound(side, v, gate, FALSE)
    OBVIOUS
  <2>2. x = v \/ x = low \/ (gate # None /\ x = Min2(v, Max2(low, gate)))
    BY <1>5, <1>7, <2>1
  <2>3. x \in Int /\ x <= v
    BY <1>2, <1>4, <2>2
  <2> QED
    BY <2>1, <2>3
<1>8. ASSUME Bound(side, v, gate, TRUE) # None
      PROVE  Bound(side, v, gate, TRUE) \in Int /\ Bound(side, v, gate, TRUE) >= v
  <2>1. PICK x : x = Bound(side, v, gate, TRUE)
    OBVIOUS
  <2>2. x = v \/ x = high \/ (gate # None /\ x = Max2(v, Min2(high, gate)))
    BY <1>6, <1>8, <2>1
  <2>3. x \in Int /\ x >= v
    BY <1>3, <1>4, <2>2
  <2> QED
    BY <2>1, <2>3
<1> QED
  BY <1>7, <1>8 DEF OptInt

\* The range-matching setting: percentages.
IsMatch(rm) == rm.min.pct \in Nat /\ rm.max.pct \in Nat

\* Whatever the setting, a roll is never out of the interval made for it.
LEMMA SeedsInOrder ==
  ASSUME NEW rm, IsMatch(rm), NEW v \in Int, NEW lo \in OptInt, NEW hi \in OptInt, NEW lower
  PROVE  InOrder(SeedBounds(rm, v, lo, hi, lower).min, SeedBounds(rm, v, lo, hi, lower).max)
<1>1. PICK below : below = IF lower THEN rm.max ELSE rm.min
  OBVIOUS
<1>2. PICK above : above = IF lower THEN rm.min ELSE rm.max
  OBVIOUS
<1>3. below.pct \in Nat /\ above.pct \in Nat
  BY <1>1, <1>2 DEF IsMatch
<1>4. PICK a : a = Bound(below, v, lo, FALSE)
  OBVIOUS
<1>5. PICK b : b = Bound(above, v, hi, TRUE)
  OBVIOUS
<1>6. SeedBounds(rm, v, lo, hi, lower).min = a /\ SeedBounds(rm, v, lo, hi, lower).max = b
  BY <1>1, <1>2, <1>4, <1>5 DEF SeedBounds
<1>7. a \in OptInt /\ (a # None => a <= v)
  BY <1>3, <1>4, BoundIs
<1>8. b \in OptInt /\ (b # None => b >= v)
  BY <1>3, <1>5, BoundIs
<1>9. a # None /\ b # None => a <= b
  BY <1>7, <1>8 DEF OptInt
<1> QED
  BY <1>6, <1>7, <1>8, <1>9 DEF InOrder

LEMMA ExactlyInOrder == ASSUME NEW v \in OptInt PROVE InOrder(v, v) /\ InOrder(v, None) /\ InOrder(None, v)
BY DEF InOrder, OptInt

LEMMA PlusInOrder ==
  ASSUME NEW a, NEW b, NEW c, NEW d, InOrder(a, b), InOrder(c, d)
  PROVE  InOrder(Plus(a, c), Plus(b, d))
<1>1. \A x, y \in OptInt : Plus(x, y) \in OptInt /\ (Plus(x, y) # None => x # None /\ y # None /\ Plus(x, y) = x + y)
  BY DEF Plus, OptInt
<1>2. a \in OptInt /\ b \in OptInt /\ c \in OptInt /\ d \in OptInt
  BY DEF InOrder
<1>3. ASSUME Plus(a, c) # None, Plus(b, d) # None PROVE Plus(a, c) <= Plus(b, d)
  BY <1>1, <1>2, <1>3 DEF InOrder, OptInt
<1> QED
  BY <1>1, <1>2, <1>3 DEF InOrder

-----------------------------------------------------------------------------
(* The two folds of a plan: a sum, and the merging of rows.                *)

LEMMA UpTo ==
  ASSUME NEW n \in Nat PROVE IsFiniteSet(1..n) /\ Cardinality(1..n) = n /\ \A u \in SUBSET (1..n) : Cardinality(u) <= n
<1>1. IsFiniteSet(1..n)
  BY FS_Interval
<1>2. Cardinality(1..n) = n
  BY FS_Interval
<1> QED
  BY <1>1, <1>2, FS_Subset

LEMMA LastPosition ==
  ASSUME NEW n \in Nat, NEW u \in SUBSET (1..n), u # {}
  PROVE  Max(u) \in u /\ \A i \in u : Max(u) >= i
<1> DEFINE T == {n - i : i \in u}
<1>1. T \subseteq Nat /\ T # {}
  <2>1. \A i \in u : n - i \in Nat
    OBVIOUS
  <2> QED
    BY <2>1
<1>2. PICK k \in T : \A m \in T : k <= m
  BY <1>1, LeastMember
<1>3. PICK i \in u : k = n - i
  OBVIOUS
<1>4. ASSUME NEW j \in u PROVE i >= j
  <2>1. n - j \in T /\ i \in Int /\ j \in Int
    OBVIOUS
  <2>2. n - i <= n - j
    BY <1>2, <1>3, <2>1
  <2> QED
    BY <2>1, <2>2
<1>5. \E x \in u : \A y \in u : x >= y
  BY <1>4
<1> QED
  BY <1>5 DEF Max

LEMMA FewerPositions ==
  ASSUME NEW n \in Nat, NEW u \in SUBSET (1..n), u # {}
  PROVE  /\ u \ {Max(u)} \in SUBSET (1..n)
         /\ Cardinality(u) \in Nat /\ Cardinality(u) # 0
         /\ Cardinality(u \ {Max(u)}) = Cardinality(u) - 1
<1>1. IsFiniteSet(u)
  <2>1. IsFiniteSet(1..n)
    BY FS_Interval
  <2> QED
    BY <2>1, FS_Subset
<1>2. PICK x \in u : x = Max(u)
  BY LastPosition
<1>3. Cardinality(u) \in Nat
  BY <1>1, FS_CardinalityType
<1>4. Cardinality(u) # 0
  BY <1>1, FS_EmptySet
<1>5. Cardinality(u \ {x}) = Cardinality(u) - 1
  BY <1>1, <1>2, FS_RemoveElement
<1> QED
  BY <1>2, <1>3, <1>4, <1>5


\* The two folds the plan is made with: a sum, and rows of one stat merged.
Taken(how, acc, x) == IF how = "sum" THEN acc + x ELSE MergeInto(acc, x)
FoldsOne(f, how, base, s, u) == IF u = {} THEN base ELSE Taken(how, f[u \ {Max(u)}], s[Max(u)])
\* f is the fold of s on the sets of up to n positions.
Folds(f, how, base, s, n) ==
  \A u \in SUBSET (1..Len(s)) : Cardinality(u) <= n => f[u] = FoldsOne(f, how, base, s, u)

LEMMA FoldExists ==
  ASSUME NEW how, NEW base, NEW s, Len(s) \in Nat, NEW n \in Nat
  PROVE  \E f : Folds(f, how, base, s, n)
<1> DEFINE T == {m \in Nat : ~ \E f : Folds(f, how, base, s, m)}
           P == 1..Len(s)
<1>1. SUFFICES ASSUME T # {} PROVE FALSE
  OBVIOUS
<1>2. PICK m \in T : \A k \in T : m <= k
  BY <1>1, LeastMember
<1>3. CASE m = 0
  <2> DEFINE f == [u \in SUBSET P |-> base]
  <2>1. ASSUME NEW u \in SUBSET P, Cardinality(u) <= 0 PROVE f[u] = FoldsOne(f, how, base, s, u)
    <3>1. u # {} => Cardinality(u) \in Nat /\ Cardinality(u) # 0
      BY FewerPositions
    <3>2. u = {}
      BY <2>1, <3>1
    <3> QED
      BY <3>2 DEF FoldsOne
  <2>2. Folds(f, how, base, s, 0)
    BY <2>1 DEF Folds
  <2> QED
    BY <1>3, <2>2
<1>4. CASE m # 0
  <2>1. m - 1 \in Nat /\ m - 1 \notin T
    BY <1>2, <1>4
  <2>2. PICK g : Folds(g, how, base, s, m - 1)
    BY <2>1
  <2> DEFINE f == [u \in SUBSET P |-> IF Cardinality(u) <= m - 1 THEN g[u] ELSE FoldsOne(g, how, base, s, u)]
  <2>3. ASSUME NEW u \in SUBSET P, Cardinality(u) <= m PROVE f[u] = FoldsOne(f, how, base, s, u)
    <3>1. f[u] = FoldsOne(g, how, base, s, u)
      BY <2>2 DEF Folds
    <3>2. CASE u = {}
      BY <3>1, <3>2 DEF FoldsOne
    <3>3. CASE u # {}
      <4>1. PICK r : r = u \ {Max(u)}
        OBVIOUS
      <4>2. r \in SUBSET P /\ Cardinality(r) <= m - 1
        BY <2>3, <3>3, <4>1, FewerPositions
      <4>3. f[r] = g[r]
        BY <4>2
      <4> HIDE DEF f
      <4> QED
        BY <3>1, <3>3, <4>1, <4>3 DEF FoldsOne
    <3> QED
      BY <3>2, <3>3
  <2> HIDE DEF f
  <2>4. Folds(f, how, base, s, m)
    BY <2>3 DEF Folds
  <2> QED
    BY <2>4
<1> QED
  BY <1>3, <1>4

\* The fold function there is, and the one FoldLeft chooses.
LEMMA FoldChosen ==
  ASSUME NEW how, NEW base, NEW s, Len(s) \in Nat, DOMAIN s = 1..Len(s)
  PROVE  LET Is(f) == f = [u \in SUBSET DOMAIN s |->
                             IF u = {} THEN base ELSE LET x == Max(u) IN Taken(how, f[u \ {x}], s[x])]
         IN Folds(CHOOSE f : Is(f), how, base, s, Len(s))
<1> DEFINE D == DOMAIN s
           Is(f) == f = [u \in SUBSET D |->
                           IF u = {} THEN base ELSE LET x == Max(u) IN Taken(how, f[u \ {x}], s[x])]
<1>2. PICK g : Folds(g, how, base, s, Len(s))
  BY FoldExists
<1>3. \A u \in SUBSET (1..Len(s)) : Cardinality(u) <= Len(s)
  BY UpTo
<1>0. D = 1..Len(s)
  OBVIOUS
<1> HIDE DEF D
<1> DEFINE f0 == [u \in SUBSET D |-> g[u]]
<1>5. Is(f0)
  <2>1. ASSUME NEW u \in SUBSET D PROVE f0[u] = FoldsOne(f0, how, base, s, u)
    <3>1. f0[u] = FoldsOne(g, how, base, s, u)
      BY <1>0, <1>2, <1>3 DEF Folds
    <3>2. f0[u \ {Max(u)}] = g[u \ {Max(u)}]
      OBVIOUS
    <3> HIDE DEF f0
    <3> QED
      BY <3>1, <3>2 DEF FoldsOne
  <2> DEFINE f1 == [u \in SUBSET D |-> FoldsOne(f0, how, base, s, u)]
  <2>2. f0 = f1
    <3>1. f0 = [u \in SUBSET D |-> f0[u]]
      OBVIOUS
    <3> HIDE DEF f0
    <3> QED
      BY <2>1, <3>1
  <2> HIDE DEF f0
  <2> QED
    BY <2>2 DEF FoldsOne
<1> DEFINE f == CHOOSE f : Is(f)
<1>6. Is(f)
  <2> HIDE DEF Is
  <2> QED
    BY <1>5
<1> HIDE DEF f
<1>8. \A u \in SUBSET D : f[u] = FoldsOne(f, how, base, s, u)
  BY <1>6 DEF FoldsOne
<1>9. Folds(f, how, base, s, Len(s))
  BY <1>0, <1>8 DEF Folds
<1> QED
  BY <1>9 DEF f, D

\* A fold goes through its list from the first.
LEMMA FoldSteps ==
  ASSUME NEW how, NEW base, NEW s, Len(s) \in Nat, NEW f, Folds(f, how, base, s, Len(s))
  PROVE  /\ f[1..0] = base
         /\ \A k \in 1..Len(s) : f[1..k] = Taken(how, f[1..(k - 1)], s[k])
<1>1. ASSUME NEW k \in 0..Len(s) PROVE f[1..k] = FoldsOne(f, how, base, s, 1..k)
  <2>1. 1..k \in SUBSET (1..Len(s)) /\ k \in Nat
    OBVIOUS
  <2>2. Cardinality(1..k) <= Len(s)
    BY <2>1, UpTo
  <2> QED
    BY <2>1, <2>2 DEF Folds
<1>2. f[1..0] = base
  <2>1. 1..0 = {} /\ 0 \in 0..Len(s)
    OBVIOUS
  <2> QED
    BY <1>1, <2>1 DEF FoldsOne
<1>3. ASSUME NEW k \in 1..Len(s) PROVE f[1..k] = Taken(how, f[1..(k - 1)], s[k])
  <2>1. k \in 1..k /\ k \in 0..Len(s)
    OBVIOUS
  <2>2. 1..k # {}
    BY <2>1
  <2>3. Max(1..k) = k
    <3>1. 1..k \in SUBSET (1..Len(s))
      OBVIOUS
    <3>2. Max(1..k) \in 1..k /\ \A i \in 1..k : Max(1..k) >= i
      BY <2>2, <3>1, LastPosition
    <3> QED
      BY <2>1, <3>2
  <2>4. (1..k) \ {k} = 1..(k - 1)
    OBVIOUS
  <2> QED
    BY <1>1, <2>1, <2>2, <2>3, <2>4 DEF FoldsOne
<1> QED
  BY <1>2, <1>3

LEMMA SumIs ==
  ASSUME NEW s \in Seq(Int)
  PROVE  FoldLeft(LAMBDA a, b : a + b, 0, s) \in Int
<1>1. Len(s) \in Nat /\ DOMAIN s = 1..Len(s)
  OBVIOUS
<1> DEFINE Is(f) == f = [u \in SUBSET DOMAIN s |->
                           IF u = {} THEN 0 ELSE LET x == Max(u) IN Taken("sum", f[u \ {x}], s[x])]
           f == CHOOSE f : Is(f)
<1>2. FoldLeft(LAMBDA a, b : a + b, 0, s) = f[DOMAIN s]
  BY DEF FoldLeft, MapThenFoldSet, Taken
<1>3. Folds(f, "sum", 0, s, Len(s))
  BY <1>1, FoldChosen
<1> HIDE DEF f
<1>4. f[1..0] = 0 /\ \A k \in 1..Len(s) : f[1..k] = f[1..(k - 1)] + s[k]
  <2>1. f[1..0] = 0 /\ \A k \in 1..Len(s) : f[1..k] = Taken("sum", f[1..(k - 1)], s[k])
    BY <1>1, <1>3, FoldSteps
  <2> QED
    BY <2>1 DEF Taken
<1> DEFINE T == {m \in Nat : m <= Len(s) /\ f[1..m] \notin Int}
<1>5. T = {}
  <2>1. SUFFICES ASSUME T # {} PROVE FALSE
    OBVIOUS
  <2>2. PICK m \in T : \A k \in T : m <= k
    BY <2>1, LeastMember
  <2>3. m # 0
    BY <1>4, <2>2
  <2>4. m - 1 \in Nat /\ m - 1 <= Len(s) /\ m - 1 \notin T /\ m \in 1..Len(s)
    BY <1>1, <2>2, <2>3
  <2>5. f[1..(m - 1)] \in Int /\ s[m] \in Int
    BY <2>4
  <2>6. f[1..m] \in Int
    BY <1>4, <2>4, <2>5
  <2> QED
    BY <2>2, <2>6
<1>6. f[1..Len(s)] \in Int
  BY <1>1, <1>5
<1> QED
  BY <1>1, <1>2, <1>6

\* A modifier's roll and its range are numbers, or are not there.
LEMMA AverageIs == ASSUME NEW s \in Seq(Int), s # <<>> PROVE Average(s) \in Int
<1>1. Len(s) \in Nat /\ Len(s) # 0
  OBVIOUS
<1>2. PICK a \in Int : a = FoldLeft(LAMBDA x, y : x + y, 0, s)
  BY SumIs
<1>3. Average(s) = a \div Len(s)
  BY <1>2 DEF Average
<1>4. \A x \in Int, n \in Nat : n # 0 => x \div n \in Int
  OBVIOUS
<1> QED
  BY <1>1, <1>3, <1>4

LEMMA RollIs ==
  ASSUME NEW m, IsMod(m)
  PROVE  RollFor(m).value \in OptInt /\ RollFor(m).min \in OptInt /\ RollFor(m).max \in OptInt
<1>1. CASE m.rolls = <<>>
  <2>1. ~AveragedRoll(m)
    BY <1>1 DEF AveragedRoll
  <2> QED
    BY <1>1, <2>1 DEF RollFor, OptInt
<1>2. CASE m.rolls # <<>> /\ AveragedRoll(m)
  <2>1. Average(m.rolls) \in Int
    BY <1>2, AverageIs DEF IsMod
  <2> DEFINE lows == [i \in DOMAIN m.bounds |-> m.bounds[i][1]]
             highs == [i \in DOMAIN m.bounds |-> m.bounds[i][2]]
  <2>2. ASSUME Len(m.bounds) = Len(m.rolls) PROVE Average(lows) \in Int /\ Average(highs) \in Int
    <3>1. PICK n \in Nat : n = Len(m.bounds) /\ n # 0 /\ DOMAIN m.bounds = 1..n
      BY <1>2, <2>2 DEF IsMod
    <3>2. \A i \in 1..n : m.bounds[i] \in Int \X Int
      BY <3>1 DEF IsMod
    <3>3. lows \in [1..n -> Int] /\ highs \in [1..n -> Int]
      BY <3>1, <3>2
    <3>4. lows \in Seq(Int) /\ highs \in Seq(Int) /\ lows # <<>> /\ highs # <<>>
      <4> HIDE DEF lows, highs
      <4> QED
        BY <3>1, <3>3
    <3> HIDE DEF lows, highs
    <3> QED
      BY <3>4, AverageIs
  <2> QED
    BY <1>2, <2>1, <2>2 DEF RollFor, OptInt
<1>3. CASE m.rolls # <<>> /\ ~AveragedRoll(m)
  <2>1. m.rolls[1] \in Int
    BY <1>3 DEF IsMod
  <2>2. m.bounds # <<>> => m.bounds[1] \in Int \X Int
    BY DEF IsMod
  <2>3. m.bounds # <<>> => m.bounds[1][1] \in Int /\ m.bounds[1][2] \in Int
    BY <2>2
  <2> QED
    BY <1>3, <2>1, <2>3 DEF RollFor, OptInt
<1> QED
  BY <1>1, <1>2, <1>3

-----------------------------------------------------------------------------
(* Rows of one stat become one. *)

LEMMA MergeIs ==
  ASSUME NEW s, Len(s) \in Nat, DOMAIN s = 1..Len(s)
  PROVE  \E h : /\ h[0] = <<>> /\ \A k \in 1..Len(s) : h[k] = MergeInto(h[k - 1], s[k])
                /\ MergeSameStat(s) = h[Len(s)]
<1> DEFINE Is(f) == f = [u \in SUBSET DOMAIN s |->
                           IF u = {} THEN <<>> ELSE LET x == Max(u) IN Taken("merge", f[u \ {x}], s[x])]
           f == CHOOSE f : Is(f)
<1>1. MergeSameStat(s) = f[DOMAIN s]
  BY DEF MergeSameStat, FoldLeft, MapThenFoldSet, Taken
<1>2. Folds(f, "merge", <<>>, s, Len(s))
  BY FoldChosen
<1> HIDE DEF f
<1>3. f[1..0] = <<>> /\ \A k \in 1..Len(s) : f[1..k] = MergeInto(f[1..(k - 1)], s[k])
  BY <1>2, FoldSteps DEF Taken
<1> DEFINE h == [k \in 0..Len(s) |-> f[1..k]]
<1>4. h[0] = <<>>
  BY <1>3
<1>5. ASSUME NEW k \in 1..Len(s) PROVE h[k] = MergeInto(h[k - 1], s[k])
  <2>1. k \in 0..Len(s) /\ k - 1 \in 0..Len(s)
    OBVIOUS
  <2> QED
    BY <1>3, <2>1
<1>6. MergeSameStat(s) = h[Len(s)]
  BY <1>1
<1> HIDE DEF h
<1> QED
  BY <1>4, <1>5, <1>6

\* The modifiers a list of rows is about.
About(s) == UNION {Range(s[r].mods) : r \in DOMAIN s}
\* No two rows are about the same one.
Once(s) == \A r, q \in DOMAIN s : r # q => Range(s[r].mods) \cap Range(s[q].mods) = {}

LEMMA BothRange == ASSUME NEW a \in Seq(Nat), NEW b \in Seq(Nat) PROVE Range(a \o b) = Range(a) \cup Range(b)
<1>1. PICK c : c = a \o b
  OBVIOUS
<1>2. /\ Len(a) \in Nat /\ Len(b) \in Nat /\ DOMAIN a = 1..Len(a) /\ DOMAIN b = 1..Len(b)
      /\ DOMAIN c = 1..(Len(a) + Len(b))
      /\ \A i \in 1..(Len(a) + Len(b)) : c[i] = IF i <= Len(a) THEN a[i] ELSE b[i - Len(a)]
  BY <1>1
<1>3. ASSUME NEW x \in Range(c) PROVE x \in Range(a) \cup Range(b)
  <2>1. PICK i \in 1..(Len(a) + Len(b)) : c[i] = x
    BY <1>2, <1>3 DEF Range
  <2>2. CASE i <= Len(a)
    <3>1. i \in 1..Len(a)
      BY <1>2, <2>2
    <3> QED
      BY <1>2, <2>1, <2>2, <3>1 DEF Range
  <2>3. CASE ~(i <= Len(a))
    <3>1. i - Len(a) \in 1..Len(b)
      BY <1>2, <2>3
    <3> QED
      BY <1>2, <2>1, <2>3, <3>1 DEF Range
  <2> QED
    BY <2>2, <2>3
<1>4. ASSUME NEW x \in Range(a) PROVE x \in Range(c)
  <2>1. PICK i \in 1..Len(a) : a[i] = x
    BY <1>2, <1>4 DEF Range
  <2>2. i \in 1..(Len(a) + Len(b)) /\ i <= Len(a)
    BY <1>2
  <2> QED
    BY <1>2, <2>1, <2>2 DEF Range
<1>5. ASSUME NEW x \in Range(b) PROVE x \in Range(c)
  <2>1. PICK i \in 1..Len(b) : b[i] = x
    BY <1>2, <1>5 DEF Range
  <2>2. PICK j \in 1..(Len(a) + Len(b)) : j = i + Len(a) /\ ~(j <= Len(a)) /\ j - Len(a) = i
    <3>1. i + Len(a) \in 1..(Len(a) + Len(b)) /\ ~(i + Len(a) <= Len(a)) /\ (i + Len(a)) - Len(a) = i
      BY <1>2
    <3> QED
      BY <3>1
  <2> QED
    BY <1>2, <2>1, <2>2 DEF Range
<1> QED
  BY <1>1, <1>3, <1>4, <1>5

LEMMA FoldIs ==
  ASSUME NEW f, NEW g, IsRow(f, "stats"), IsRow(g, "stats")
  PROVE  IsRow(Fold(f, g), "stats") /\ Range(Fold(f, g).mods) = Range(f.mods) \cup Range(g.mods)
<1>1. PICK x : x = Fold(f, g)
  OBVIOUS
<1>2. /\ DOMAIN x = DOMAIN f
      /\ x.min = Plus(f.min, g.min) /\ x.max = Plus(f.max, g.max)
      /\ x.rmin = Plus(f.rmin, g.rmin) /\ x.rmax = Plus(f.rmax, g.rmax) /\ x.mods = f.mods \o g.mods
  BY <1>1 DEF Fold, IsRow, StatFields
<1>3. InOrder(x.min, x.max)
  BY <1>2, PlusInOrder DEF IsRow
<1>4. x.rmin \in OptInt /\ x.rmax \in OptInt
  <2>1. \A a, b \in OptInt : Plus(a, b) \in OptInt
    BY DEF Plus, OptInt
  <2> QED
    BY <1>2, <2>1 DEF IsRow
<1>5. x.mods \in Seq(Nat) /\ Range(x.mods) = Range(f.mods) \cup Range(g.mods)
  <2>1. f.mods \in Seq(Nat) /\ g.mods \in Seq(Nat)
    BY DEF IsRow
  <2> QED
    BY <1>2, <2>1, BothRange
<1> QED
  BY <1>1, <1>2, <1>3, <1>4, <1>5 DEF IsRow

LEMMA MergeIntoIs ==
  ASSUME NEW s, AreRows(s, "stats"), NEW f, IsRow(f, "stats")
  PROVE  /\ AreRows(MergeInto(s, f), "stats") /\ About(MergeInto(s, f)) = About(s) \cup Range(f.mods)
         /\ Once(s) /\ About(s) \cap Range(f.mods) = {} => Once(MergeInto(s, f))
<1>1. /\ Len(s) \in Nat /\ DOMAIN s = 1..Len(s) /\ \A i \in 1..Len(s) : IsRow(s[i], "stats")
      /\ s \in Seq(Range(s))
  BY RowsTo DEF AreRows
<1>2. PICK x : x = MergeInto(s, f)
  OBVIOUS
<1>3. CASE {k \in DOMAIN s : SameStat(s[k], f)} = {}
  <2>1. x = Append(s, f)
    BY <1>2, <1>3 DEF MergeInto
  <2>2. PICK X : X = Range(s) \cup {f}
    OBVIOUS
  <2>3. s \in Seq(X)
    <3>1. \A i \in 1..Len(s) : s[i] \in X
      BY <1>1, <2>2 DEF Range
    <3>2. s \in [1..Len(s) -> X]
      BY <1>1, <3>1
    <3> QED
      BY <1>1, <3>2
  <2>4. /\ x \in Seq(X) /\ Len(x) = Len(s) + 1 /\ x[Len(s) + 1] = f /\ \A i \in 1..Len(s) : x[i] = s[i]
        /\ DOMAIN x = 1..(Len(s) + 1)
    BY <2>1, <2>2, <2>3
  <2>5. \A i \in 1..(Len(s) + 1) : i = Len(s) + 1 \/ i \in 1..Len(s)
    BY <1>1
  <2>6. AreRows(x, "stats")
    <3>1. \A i \in 1..Len(x) : IsRow(x[i], "stats")
      BY <1>1, <2>4, <2>5
    <3> QED
      BY <2>4, <3>1, RowsSeq
  <2>7. About(x) = About(s) \cup Range(f.mods)
    <3>1. Len(s) + 1 \in 1..(Len(s) + 1) /\ 1..Len(s) \subseteq 1..(Len(s) + 1)
      BY <1>1
    <3> QED
      BY <1>1, <2>4, <2>5, <3>1 DEF About
  <2>8. ASSUME Once(s), About(s) \cap Range(f.mods) = {} PROVE Once(x)
    <3>1. SUFFICES ASSUME NEW r \in DOMAIN x, NEW q \in DOMAIN x, r # q
                   PROVE  Range(x[r].mods) \cap Range(x[q].mods) = {}
      BY DEF Once
    <3>2. \A i \in 1..Len(s) : Range(s[i].mods) \cap Range(f.mods) = {}
      BY <1>1, <2>8 DEF About
    <3>3. CASE r = Len(s) + 1
      <4>1. q \in 1..Len(s)
        BY <2>4, <2>5, <3>1, <3>3
      <4> QED
        BY <2>4, <3>2, <3>3, <4>1
    <3>4. CASE q = Len(s) + 1
      <4>1. r \in 1..Len(s)
        BY <2>4, <2>5, <3>1, <3>4
      <4> QED
        BY <2>4, <3>2, <3>4, <4>1
    <3>5. CASE r # Len(s) + 1 /\ q # Len(s) + 1
      <4>1. r \in 1..Len(s) /\ q \in 1..Len(s)
        BY <2>4, <2>5, <3>5
      <4> QED
        BY <1>1, <2>4, <2>8, <3>1, <4>1 DEF Once
    <3> QED
      BY <3>3, <3>4, <3>5
  <2> QED
    BY <1>2, <2>6, <2>7, <2>8
<1>4. CASE {k \in DOMAIN s : SameStat(s[k], f)} # {}
  <2>1. PICK k \in DOMAIN s : x = [s EXCEPT ![k] = Fold(@, f)]
    BY <1>2, <1>4 DEF MergeInto
  <2>2. PICK g : g = Fold(s[k], f)
    OBVIOUS
  <2>3. IsRow(g, "stats") /\ Range(g.mods) = Range(s[k].mods) \cup Range(f.mods)
    BY <1>1, <2>1, <2>2, FoldIs
  <2>4. /\ DOMAIN x = 1..Len(s) /\ x = [i \in 1..Len(s) |-> x[i]]
        /\ x[k] = g /\ \A i \in 1..Len(s) : i # k => x[i] = s[i]
    BY <1>1, <2>1, <2>2
  <2>5. AreRows(x, "stats")
    <3>1. \A i \in 1..Len(s) : IsRow(x[i], "stats")
      BY <1>1, <2>3, <2>4
    <3> QED
      BY <1>1, <2>4, <3>1, RowsAre
  <2>6. About(x) = About(s) \cup Range(f.mods)
    BY <1>1, <2>3, <2>4 DEF About
  <2>7. ASSUME Once(s), About(s) \cap Range(f.mods) = {} PROVE Once(x)
    <3>1. \A i \in 1..Len(s) : i # k => Range(s[i].mods) \cap Range(g.mods) = {}
      BY <1>1, <2>1, <2>3, <2>7 DEF About, Once
    <3> QED
      BY <1>1, <2>4, <2>7, <3>1 DEF Once
  <2> QED
    BY <1>2, <2>5, <2>6, <2>7
<1> QED
  BY <1>3, <1>4

LEMMA MergedRows ==
  ASSUME NEW s, AreRows(s, "stats")
  PROVE  /\ AreRows(MergeSameStat(s), "stats") /\ About(MergeSameStat(s)) = About(s)
         /\ Once(s) => Once(MergeSameStat(s))
<1>1. Len(s) \in Nat /\ DOMAIN s = 1..Len(s) /\ \A i \in 1..Len(s) : IsRow(s[i], "stats")
  BY RowsTo
<1>2. PICK h : /\ h[0] = <<>> /\ \A k \in 1..Len(s) : h[k] = MergeInto(h[k - 1], s[k])
               /\ MergeSameStat(s) = h[Len(s)]
  BY <1>1, MergeIs
<1> DEFINE First(k) == UNION {Range(s[j].mods) : j \in 1..k}
           Right(k) == AreRows(h[k], "stats") /\ About(h[k]) = First(k) /\ (Once(s) => Once(h[k]))
           T == {k \in Nat : k <= Len(s) /\ ~Right(k)}
<1>3. Right(0)
  <2>1. First(0) = {} /\ About(<<>>) = {} /\ Once(<<>>)
    BY DEF About, Once
  <2> QED
    BY <1>2, <2>1, NoRows
<1>4. ASSUME NEW k \in 1..Len(s), Right(k - 1) PROVE Right(k)
  <2>1. First(k) = First(k - 1) \cup Range(s[k].mods)
    <3>1. 1..k = 1..(k - 1) \cup {k}
      BY <1>1
    <3> QED
      BY <3>1
  <2>2. Once(s) => First(k - 1) \cap Range(s[k].mods) = {}
    <3>1. \A j \in 1..(k - 1) : j \in 1..Len(s) /\ j # k
      BY <1>1
    <3> QED
      BY <1>1, <3>1 DEF Once
  <2>3. h[k] = MergeInto(h[k - 1], s[k]) /\ IsRow(s[k], "stats")
    BY <1>1, <1>2
  <2>4. /\ AreRows(h[k], "stats") /\ About(h[k]) = About(h[k - 1]) \cup Range(s[k].mods)
        /\ Once(h[k - 1]) /\ About(h[k - 1]) \cap Range(s[k].mods) = {} => Once(h[k])
    BY <1>4, <2>3, MergeIntoIs
  <2> HIDE DEF First
  <2> QED
    BY <1>4, <2>1, <2>2, <2>4
<1>5. T = {}
  <2> HIDE DEF Right
  <2>1. SUFFICES ASSUME T # {} PROVE FALSE
    OBVIOUS
  <2>2. PICK m \in T : \A k \in T : m <= k
    BY <2>1, LeastMember
  <2>3. m # 0
    BY <1>3, <2>2
  <2>4. m - 1 \in Nat /\ m - 1 <= Len(s) /\ m - 1 \notin T /\ m \in 1..Len(s)
    BY <1>1, <2>2, <2>3
  <2> QED
    BY <1>4, <2>2, <2>4
<1>6. Right(Len(s))
  <2> HIDE DEF Right
  <2> QED
    BY <1>1, <1>5
<1>7. First(Len(s)) = About(s)
  BY <1>1 DEF About
<1> HIDE DEF First
<1> QED
  BY <1>2, <1>6, <1>7

LEMMA BothAbout ==
  ASSUME NEW s, NEW t, AreRows(s, "stats"), AreRows(t, "stats")
  PROVE  /\ About(s \o t) = About(s) \cup About(t)
         /\ Once(s) /\ Once(t) /\ About(s) \cap About(t) = {} => Once(s \o t)
<1>1. PICK X : X = Range(s) \cup Range(t)
  OBVIOUS
<1>2. PICK a \in Nat : a = Len(s) /\ DOMAIN s = 1..a
  BY RowsTo
<1>3. PICK b \in Nat : b = Len(t) /\ DOMAIN t = 1..b
  BY RowsTo
<1>4. s \in Seq(X) /\ t \in Seq(X)
  <2>1. s \in [1..a -> X] /\ t \in [1..b -> X]
    <3>1. s = [i \in 1..a |-> s[i]] /\ t = [i \in 1..b |-> t[i]]
      BY <1>2, <1>3, RowsTo
    <3>2. (\A i \in 1..a : s[i] \in X) /\ \A i \in 1..b : t[i] \in X
      BY <1>1, <1>2, <1>3 DEF Range
    <3> QED
      BY <3>1, <3>2
  <2> QED
    BY <2>1
<1>5. PICK c : c = s \o t
  OBVIOUS
<1>6. DOMAIN c = 1..(a + b) /\ \A i \in 1..(a + b) : c[i] = IF i <= a THEN s[i] ELSE t[i - a]
  BY <1>2, <1>3, <1>4, <1>5
<1>7. ASSUME NEW i \in 1..(a + b)
      PROVE  (i \in 1..a /\ c[i] = s[i]) \/ (i - a \in 1..b /\ i \notin 1..a /\ c[i] = t[i - a])
  BY <1>6
<1>8. \A i \in 1..a : i \in 1..(a + b) /\ c[i] = s[i]
  BY <1>6
<1>9. ASSUME NEW i \in 1..b PROVE i + a \in 1..(a + b) /\ c[i + a] = t[i]
  <2>1. i + a \in 1..(a + b) /\ ~(i + a <= a) /\ (i + a) - a = i
    OBVIOUS
  <2> QED
    BY <1>6, <2>1
<1>10. About(c) = About(s) \cup About(t)
  <2>1. \A i \in 1..(a + b) : Range(c[i].mods) \subseteq About(s) \cup About(t)
    BY <1>2, <1>3, <1>7 DEF About
  <2>2. (\A i \in 1..a : Range(s[i].mods) \subseteq About(c)) /\ \A i \in 1..b : Range(t[i].mods) \subseteq About(c)
    BY <1>6, <1>8, <1>9 DEF About
  <2>3. About(c) \subseteq About(s) \cup About(t)
    BY <1>6, <2>1 DEF About
  <2>4. About(s) \subseteq About(c)
    BY <1>2, <2>2 DEF About
  <2>5. About(t) \subseteq About(c)
    BY <1>3, <2>2 DEF About
  <2> QED
    BY <2>3, <2>4, <2>5
<1>11. ASSUME Once(s), Once(t), About(s) \cap About(t) = {} PROVE Once(c)
  <2>1. SUFFICES ASSUME NEW r \in 1..(a + b), NEW q \in 1..(a + b), r # q
                 PROVE  Range(c[r].mods) \cap Range(c[q].mods) = {}
    BY <1>6 DEF Once
  <2>2. \A i \in 1..a, j \in 1..b : Range(s[i].mods) \cap Range(t[j].mods) = {}
    <3>1. (\A i \in 1..a : Range(s[i].mods) \subseteq About(s)) /\ \A j \in 1..b : Range(t[j].mods) \subseteq About(t)
      BY <1>2, <1>3 DEF About
    <3> QED
      BY <1>11, <3>1
  <2>3. CASE r \in 1..a /\ q \in 1..a
    BY <1>2, <1>7, <1>11, <2>1, <2>3 DEF Once
  <2>4. CASE r \notin 1..a /\ q \notin 1..a
    <3>1. r - a \in 1..b /\ q - a \in 1..b /\ r - a # q - a /\ c[r] = t[r - a] /\ c[q] = t[q - a]
      BY <1>7, <2>1, <2>4
    <3> QED
      BY <1>3, <1>11, <3>1 DEF Once
  <2>5. CASE r \in 1..a /\ q \notin 1..a
    BY <1>7, <2>2, <2>5
  <2>6. CASE r \notin 1..a /\ q \in 1..a
    BY <1>7, <2>2, <2>6
  <2> QED
    BY <2>3, <2>4, <2>5, <2>6
<1> QED
  BY <1>5, <1>10, <1>11

LEMMA AboutAll ==
  ASSUME NEW n \in Nat, NEW seqs, seqs = [i \in 1..n |-> seqs[i]], \A i \in 1..n : AreRows(seqs[i], "stats")
  PROVE  /\ About(FlattenSeq(seqs)) = UNION {About(seqs[i]) : i \in 1..n}
         /\ /\ \A i \in 1..n : Once(seqs[i])
            /\ \A i, j \in 1..n : i # j => About(seqs[i]) \cap About(seqs[j]) = {}
            => Once(FlattenSeq(seqs))
<1> DEFINE Apart == /\ \A i \in 1..n : Once(seqs[i])
                    /\ \A i, j \in 1..n : i # j => About(seqs[i]) \cap About(seqs[j]) = {}
           Part1(k) == UNION {About(seqs[i]) : i \in 1..k}
<1>1. Len(seqs) = n
  OBVIOUS
<1>2. CASE n = 0
  <2>1. FlattenSeq(seqs) = seqs
    BY <1>1, <1>2 DEF FlattenSeq
  <2>2. DOMAIN seqs = {}
    BY <1>2
  <2> QED
    BY <1>2, <2>1, <2>2 DEF About, Once
<1>3. CASE n # 0
  <2>1. PICK f : Strings(f, seqs, n) /\ FlattenSeq(seqs) = f[n]
    BY <1>1, <1>3, FlattenIs
  <2> DEFINE Right(k) == AreRows(f[k], "stats") /\ About(f[k]) = Part1(k) /\ (Apart => Once(f[k]))
             T == {k \in Nat : k \in 1..n /\ ~Right(k)}
  <2>2. Right(1)
    <3>1. 1 \in 1..n /\ 1..1 = {1}
      BY <1>3
    <3>2. f[1] = seqs[1]
      BY <2>1, <3>1 DEF Strings
    <3> QED
      BY <3>1, <3>2
  <2>3. ASSUME NEW k \in 1..n, k # 1, Right(k - 1) PROVE Right(k)
    <3>1. f[k] = f[k - 1] \o seqs[k]
      BY <2>1, <2>3 DEF Strings
    <3>2. Part1(k) = Part1(k - 1) \cup About(seqs[k])
      <4>1. 1..k = 1..(k - 1) \cup {k}
        OBVIOUS
      <4> QED
        BY <4>1
    <3>3. Apart => Part1(k - 1) \cap About(seqs[k]) = {} /\ Once(seqs[k])
      <4>1. \A j \in 1..(k - 1) : j \in 1..n /\ j # k
        OBVIOUS
      <4> QED
        BY <4>1
    <3>4. /\ AreRows(f[k], "stats") /\ About(f[k]) = About(f[k - 1]) \cup About(seqs[k])
          /\ Once(f[k - 1]) /\ Once(seqs[k]) /\ About(f[k - 1]) \cap About(seqs[k]) = {} => Once(f[k])
      BY <2>3, <3>1, BothRows, BothAbout
    <3> HIDE DEF Part1, Apart
    <3> QED
      BY <2>3, <3>2, <3>3, <3>4
  <2>4. T = {}
    <3> HIDE DEF Right
    <3>1. SUFFICES ASSUME T # {} PROVE FALSE
      OBVIOUS
    <3>2. PICK m \in T : \A k \in T : m <= k
      BY <3>1, LeastMember
    <3>3. m # 1 /\ m \in 1..n /\ m - 1 \in 1..n
      BY <2>2, <3>2
    <3>4. m - 1 \notin T
      BY <3>2, <3>3
    <3> QED
      BY <2>3, <3>2, <3>3, <3>4
  <2>5. Right(n)
    <3> HIDE DEF Right
    <3> QED
      BY <1>3, <2>4
  <2> HIDE DEF Apart
  <2> QED
    BY <2>1, <2>5 DEF Apart
<1> QED
  BY <1>2, <1>3

-----------------------------------------------------------------------------
(* The rows of the modifiers.                                              *)

LEMMA Stat0Is == DOMAIN Stat0 = StatFields /\ IsRow(Stat0, "stats") /\ Stat0.mods = <<>>
<1>1. DOMAIN Stat0 = StatFields /\ Stat0.min = None /\ Stat0.max = None /\ Stat0.rmin = None /\ Stat0.rmax = None
      /\ Stat0.mods = <<>>
  BY DEF Stat0, StatFields
<1>2. <<>> \in Seq(Nat)
  OBVIOUS
<1> QED
  BY <1>1, <1>2, ExactlyInOrder DEF IsRow, OptInt

LEMMA ModsAre == ASSUME NEW it, IsItem(it)
                 PROVE  /\ Len(it.mods) \in Nat /\ DOMAIN it.mods = 1..Len(it.mods)
                        /\ \A i \in 1..Len(it.mods) : IsMod(it.mods[i])
BY DEF IsItem, Range

LEMMA RowIs ==
  ASSUME NEW it, NEW i \in Nat, NEW m, NEW r, NEW s, NEW ranges, NEW rm, IsMatch(rm),
         r.value \in OptInt, r.min \in OptInt, r.max \in OptInt
  PROVE  /\ IsRow(RowOf(it, i, m, r, s, ranges, rm), "stats")
         /\ RowOf(it, i, m, r, s, ranges, rm).mods = <<i>>
<1>1. PICK b : b = IF r.value = None \/ Fixed(m, r, s, ranges) THEN Unbounded
                   ELSE SeedBounds(rm, r.value, r.min, r.max, LowerIsBetter(m, r.value))
  OBVIOUS
<1>2. InOrder(b.min, b.max)
  <2>1. CASE r.value = None \/ Fixed(m, r, s, ranges)
    BY <1>1, <2>1, ExactlyInOrder DEF Unbounded, OptInt
  <2>2. CASE ~(r.value = None \/ Fixed(m, r, s, ranges))
    <3>1. r.value \in Int
      BY <2>2 DEF OptInt
    <3> QED
      BY <1>1, <2>2, <3>1, SeedsInOrder
  <2> QED
    BY <2>1, <2>2
<1>3. PICK f : f = SeededFilter(m, r, b)
  OBVIOUS
<1>4. DOMAIN f = StatFields /\ f.min = b.min /\ f.max = b.max /\ f.rmin = r.min /\ f.rmax = r.max
  BY <1>3, Stat0Is DEF SeededFilter, StatFields
<1>5. PICK g : g = [f EXCEPT !.mods = <<i>>, !.on = TickedFor(it, m, r, s)]
  OBVIOUS
<1>6. DOMAIN g = StatFields /\ g.min = b.min /\ g.max = b.max /\ g.rmin = r.min /\ g.rmax = r.max /\ g.mods = <<i>>
  BY <1>4, <1>5 DEF StatFields
<1>7. g = RowOf(it, i, m, r, s, ranges, rm)
  BY <1>1, <1>3, <1>5 DEF RowOf
<1>8. <<i>> \in Seq(Nat)
  OBVIOUS
<1>9. IsRow(g, "stats")
  BY <1>2, <1>6, <1>8 DEF IsRow
<1> QED
  BY <1>6, <1>7, <1>9

LEMMA PlacedIs ==
  ASSUME NEW it, NEW i, NEW s, NEW f, IsRow(f, "stats"), NEW v \in OptInt
  PROVE  IsRow(Placed(it, i, s, f, v), "stats") /\ Placed(it, i, s, f, v).mods = f.mods
<1>1. CASE LeftOut(it, i, s)
  <2>1. PICK g : g = [f EXCEPT !.hidden = TRUE, !.on = FALSE]
    OBVIOUS
  <2>2. /\ DOMAIN g = DOMAIN f
        /\ g.min = f.min /\ g.max = f.max /\ g.rmin = f.rmin /\ g.rmax = f.rmax /\ g.mods = f.mods
    BY <2>1 DEF IsRow, StatFields
  <2> QED
    BY <1>1, <2>1, <2>2 DEF Placed, IsRow
<1>2. CASE ~LeftOut(it, i, s) /\ s # "Ultimatum"
  BY <1>2 DEF Placed
<1>3. CASE ~LeftOut(it, i, s) /\ s = "Ultimatum"
  <2>1. PICK g : g = [f EXCEPT !.min = IF v = None THEN @ ELSE v, !.max = IF v = None THEN @ ELSE v,
                               !.tiered = FALSE, !.on = TRUE]
    OBVIOUS
  <2>2. /\ DOMAIN g = DOMAIN f /\ g.rmin = f.rmin /\ g.rmax = f.rmax /\ g.mods = f.mods
        /\ g.min = (IF v = None THEN f.min ELSE v) /\ g.max = (IF v = None THEN f.max ELSE v)
    BY <2>1 DEF IsRow, StatFields
  <2>3. InOrder(g.min, g.max)
    BY <2>2, ExactlyInOrder DEF IsRow
  <2> QED
    BY <1>3, <2>1, <2>2, <2>3 DEF Placed, IsRow
<1> QED
  BY <1>1, <1>2, <1>3

LEMMA OneAbout ==
  ASSUME NEW f, NEW i \in Nat, f.mods = <<i>>
  PROVE  About(<<f>>) = {i} /\ Once(<<f>>)
<1>1. PICK s : s = <<f>>
  OBVIOUS
<1>2. DOMAIN s = {1} /\ s[1] = f
  BY <1>1
<1>3. Range(f.mods) = {i}
  <2>1. DOMAIN <<i>> = {1} /\ <<i>>[1] = i
    OBVIOUS
  <2> QED
    BY <2>1 DEF Range
<1>4. About(s) = {i} /\ Once(s)
  BY <1>2, <1>3 DEF About, Once
<1> QED
  BY <1>1, <1>4

LEMMA NoneAbout == About(<<>>) = {} /\ Once(<<>>)
BY DEF About, Once

\* The modifiers the bundle has an id for.
Named(it) == {i \in DOMAIN it.mods : HasId(it.mods[i])}

\* Each modifier the bundle has an id for gets one row.
LEMMA ModRowsAre ==
  ASSUME NEW it, IsItem(it), NEW s, NEW rm, IsMatch(rm)
  PROVE  AreRows(ModRows(it, s, rm), "stats") /\ About(ModRows(it, s, rm)) = Named(it) /\ Once(ModRows(it, s, rm))
<1> DEFINE ranges == \E m \in Range(it.mods) : m.bounds # <<>>
           row(i) == Placed(it, i, s, ToFilter(it, i, s, ranges, rm), RollFor(it.mods[i]).value)
           seqs == [i \in DOMAIN it.mods |-> IF HasId(it.mods[i]) THEN <<row(i)>> ELSE <<>>]
<1>1. PICK n \in Nat : n = Len(it.mods) /\ DOMAIN it.mods = 1..n /\ \A i \in 1..n : IsMod(it.mods[i])
  BY ModsAre
<1>2. ModRows(it, s, rm) = FlattenSeq(seqs)
  BY DEF ModRows
<1>3. ASSUME NEW i \in 1..n PROVE IsRow(row(i), "stats") /\ row(i).mods = <<i>>
  <2>1. RollFor(it.mods[i]).value \in OptInt /\ RollFor(it.mods[i]).min \in OptInt /\ RollFor(it.mods[i]).max \in OptInt
    BY <1>1, RollIs
  <2>2. PICK f : f = ToFilter(it, i, s, ranges, rm)
    OBVIOUS
  <2> HIDE DEF ranges
  <2>3. IsRow(f, "stats") /\ f.mods = <<i>>
    BY <2>1, <2>2, RowIs DEF ToFilter
  <2> QED
    BY <2>1, <2>2, <2>3, PlacedIs
<1> HIDE DEF row
<1>4. ASSUME NEW i \in 1..n
      PROVE  /\ AreRows(seqs[i], "stats") /\ Once(seqs[i])
             /\ About(seqs[i]) = IF HasId(it.mods[i]) THEN {i} ELSE {}
  <2>1. seqs[i] = IF HasId(it.mods[i]) THEN <<row(i)>> ELSE <<>>
    BY <1>1
  <2>2. AreRows(<<row(i)>>, "stats") /\ About(<<row(i)>>) = {i} /\ Once(<<row(i)>>)
    BY <1>3, OneRow, OneAbout
  <2> HIDE DEF seqs
  <2> QED
    BY <2>1, <2>2, NoRows, NoneAbout
<1>5. seqs = [i \in 1..n |-> seqs[i]]
  BY <1>1
<1> HIDE DEF seqs
<1>6. AreRows(FlattenSeq(seqs), "stats")
  BY <1>4, <1>5, RowsOfAll
<1>7. About(FlattenSeq(seqs)) = UNION {About(seqs[i]) : i \in 1..n}
  BY <1>4, <1>5, AboutAll
<1>8. Once(FlattenSeq(seqs))
  <2>1. \A i, j \in 1..n : i # j => About(seqs[i]) \cap About(seqs[j]) = {}
    BY <1>4
  <2> QED
    BY <1>4, <1>5, <2>1, AboutAll
<1>9. UNION {About(seqs[i]) : i \in 1..n} = Named(it)
  <2>1. ASSUME NEW i \in 1..n PROVE About(seqs[i]) \subseteq Named(it)
    BY <1>1, <1>4 DEF Named
  <2>2. ASSUME NEW i \in Named(it) PROVE i \in 1..n /\ i \in About(seqs[i])
    BY <1>1, <1>4, <2>2 DEF Named
  <2> QED
    BY <2>1, <2>2
<1> QED
  BY <1>2, <1>6, <1>7, <1>8, <1>9

-----------------------------------------------------------------------------
(* The passes that change rows and leave what they are about.              *)

Reshapes(t, s) ==
  t = [i \in DOMAIN s |-> t[i]] /\ \A i \in DOMAIN s : IsRow(t[i], "stats") /\ t[i].mods = s[i].mods

LEMMA Reshaped ==
  ASSUME NEW s, AreRows(s, "stats"), NEW t, Reshapes(t, s)
  PROVE  AreRows(t, "stats") /\ About(t) = About(s) /\ (Once(s) => Once(t))
<1>1. PICK n \in Nat : n = Len(s) /\ DOMAIN s = 1..n
  BY RowsTo
<1>2. t = [i \in 1..n |-> t[i]] /\ \A i \in 1..n : IsRow(t[i], "stats") /\ t[i].mods = s[i].mods
  BY <1>1 DEF Reshapes
<1>3. AreRows(t, "stats") /\ DOMAIN t = 1..n
  BY <1>2, RowsAre
<1> QED
  BY <1>1, <1>2, <1>3 DEF About, Once

LEMMA RangeIs ==
  ASSUME NEW e, e.min \in OptInt, e.max \in OptInt, NEW v
  PROVE  UniqueRange(e, v).min \in OptInt /\ UniqueRange(e, v).max \in OptInt
BY DEF UniqueRange, Unbounded, OptInt

LEMMA RecordedIs ==
  ASSUME NEW f, IsRow(f, "stats"), NEW m, NEW v \in OptInt, NEW r, r.min \in OptInt, r.max \in OptInt,
         NEW pooled, NEW rm, IsMatch(rm)
  PROVE  IsRow(Recorded(f, m, v, r, pooled, rm), "stats") /\ Recorded(f, m, v, r, pooled, rm).mods = f.mods
<1> DEFINE rolls == r.min # None /\ r.min # r.max
           seeded == rolls /\ v # None /\ f.min = None /\ f.max = None
           untiered == f.rmin = None /\ f.rmax = None
<1>1. PICK b : b = IF seeded THEN SeedBounds(rm, v, r.min, r.max, LowerIsBetter(m, v)) ELSE f
  OBVIOUS
<1>2. InOrder(b.min, b.max)
  <2>1. CASE seeded
    <3>1. v \in Int
      BY <2>1 DEF OptInt
    <3> QED
      BY <1>1, <2>1, <3>1, SeedsInOrder
  <2>2. CASE ~seeded
    BY <1>1, <2>2 DEF IsRow
  <2> QED
    BY <2>1, <2>2
<1>3. PICK g : g = Recorded(f, m, v, r, pooled, rm)
  OBVIOUS
<1>4. g = [f EXCEPT !.rmin = IF untiered THEN r.min ELSE @, !.rmax = IF untiered THEN r.max ELSE @,
                    !.pooled = pooled, !.on = @ \/ pooled \/ rolls,
                    !.min = b.min, !.max = b.max, !.tiered = @ \/ seeded]
  BY <1>1, <1>3 DEF Recorded
<1>5. /\ DOMAIN g = DOMAIN f /\ g.min = b.min /\ g.max = b.max /\ g.mods = f.mods
      /\ g.rmin = (IF untiered THEN r.min ELSE f.rmin) /\ g.rmax = (IF untiered THEN r.max ELSE f.rmax)
  BY <1>4 DEF IsRow, StatFields
<1> QED
  BY <1>2, <1>3, <1>5 DEF IsRow

\* What the bundle lists of a unique.
IsEntry(entry) == \A id \in DOMAIN entry : entry[id].min \in OptInt /\ entry[id].max \in OptInt

\* A row about a modifier of the item has it.
LEMMA WithRecordIs ==
  ASSUME NEW it, IsItem(it), NEW entry, IsEntry(entry), NEW rm, IsMatch(rm), NEW f, IsRow(f, "stats"),
         Range(f.mods) \subseteq DOMAIN it.mods
  PROVE  IsRow(WithRecord(it, entry, rm, f), "stats") /\ WithRecord(it, entry, rm, f).mods = f.mods
<1>1. CASE f.mods = <<>>
  BY <1>1 DEF WithRecord
<1>2. CASE f.mods # <<>> /\ f.id \notin DOMAIN entry
  <2>1. PICK g : g = [f EXCEPT !.caveat = ~f.on /\ ~AddedToCopy(f.type)]
    OBVIOUS
  <2>2. /\ DOMAIN g = DOMAIN f
        /\ g.min = f.min /\ g.max = f.max /\ g.rmin = f.rmin /\ g.rmax = f.rmax /\ g.mods = f.mods
    BY <2>1 DEF IsRow, StatFields
  <2> QED
    BY <1>2, <2>1, <2>2 DEF WithRecord, IsRow
<1>3. CASE f.mods # <<>> /\ f.id \in DOMAIN entry
  <2>1. f.mods[1] \in DOMAIN it.mods
    <3>1. 1 \in DOMAIN f.mods
      BY <1>3 DEF IsRow
    <3> QED
      BY <3>1 DEF Range
  <2>2. PICK m : m = it.mods[f.mods[1]] /\ IsMod(m)
    BY <2>1, ModsAre
  <2>3. PICK v \in OptInt : v = RollFor(m).value
    BY <2>2, RollIs
  <2>4. PICK e : e = entry[f.id] /\ e.min \in OptInt /\ e.max \in OptInt
    BY <1>3 DEF IsEntry
  <2>5. PICK r : r = UniqueRange(e, v) /\ r.min \in OptInt /\ r.max \in OptInt
    BY <2>4, RangeIs
  <2>6. WithRecord(it, entry, rm, f) = Recorded(f, m, v, r, e.pooled, rm)
    BY <1>3, <2>2, <2>3, <2>4, <2>5 DEF WithRecord, WithValue
  <2> QED
    BY <2>3, <2>5, <2>6, RecordedIs
<1> QED
  BY <1>1, <1>2, <1>3

LEMMA CaveatIs ==
  ASSUME NEW f, IsRow(f, "stats"), NEW c
  PROVE  IsRow([f EXCEPT !.caveat = c], "stats") /\ [f EXCEPT !.caveat = c].mods = f.mods
<1>1. PICK g : g = [f EXCEPT !.caveat = c]
  OBVIOUS
<1>2. /\ DOMAIN g = DOMAIN f
      /\ g.min = f.min /\ g.max = f.max /\ g.rmin = f.rmin /\ g.rmax = f.rmax /\ g.mods = f.mods
  BY <1>1 DEF IsRow, StatFields
<1> QED
  BY <1>1, <1>2 DEF IsRow

LEMMA OnIs ==
  ASSUME NEW f, IsRow(f, "stats"), NEW c
  PROVE  IsRow([f EXCEPT !.on = c], "stats") /\ [f EXCEPT !.on = c].mods = f.mods
<1>1. PICK g : g = [f EXCEPT !.on = c]
  OBVIOUS
<1>2. /\ DOMAIN g = DOMAIN f
      /\ g.min = f.min /\ g.max = f.max /\ g.rmin = f.rmin /\ g.rmax = f.rmax /\ g.mods = f.mods
  BY <1>1 DEF IsRow, StatFields
<1> QED
  BY <1>1, <1>2 DEF IsRow

LEMMA UniqueRows ==
  ASSUME NEW it, IsItem(it), NEW gd, IsData(gd), NEW name, NEW rm, IsMatch(rm), NEW s, AreRows(s, "stats"),
         About(s) \subseteq DOMAIN it.mods
  PROVE  LET t == ApplyUniqueMods(gd, it, name, rm, s).stats
         IN AreRows(t, "stats") /\ About(t) = About(s) /\ (Once(s) => Once(t))
<1>1. CASE name = None
  BY <1>1 DEF ApplyUniqueMods
<1>2. CASE name # None /\ name \notin DOMAIN gd.uniques
  BY <1>2 DEF ApplyUniqueMods
<1>3. CASE name # None /\ name \in DOMAIN gd.uniques
  <2>1. PICK um : um = gd.uniques[name] /\ IsEntry(um.entry)
    BY <1>3 DEF IsData, IsEntry
  <2>2. PICK prose : prose = um.unlisted \ it.propertyLines
    OBVIOUS
  <2> DEFINE t == [i \in DOMAIN s |->
                     [WithRecord(it, um.entry, rm, s[i])
                        EXCEPT !.caveat = @ \/ \E l \in prose : FilterSaying(it, s, l) = i]]
  <2>3. ApplyUniqueMods(gd, it, name, rm, s).stats = t
    <3>1. ApplyUniqueMods(gd, it, name, rm, s) = Enumerated(it, um, rm, s, prose)
      BY <1>3, <2>1, <2>2 DEF ApplyUniqueMods
    <3>2. Enumerated(it, um, rm, s, prose).stats = t
      BY DEF Enumerated
    <3> HIDE DEF t
    <3> QED
      BY <3>1, <3>2
  <2>4. ASSUME NEW i \in DOMAIN s PROVE IsRow(t[i], "stats") /\ t[i].mods = s[i].mods
    <3>1. IsRow(s[i], "stats") /\ Range(s[i].mods) \subseteq DOMAIN it.mods
      BY DEF AreRows, About
    <3>2. PICK g : g = WithRecord(it, um.entry, rm, s[i]) /\ IsRow(g, "stats") /\ g.mods = s[i].mods
      BY <2>1, <3>1, WithRecordIs
    <3>3. PICK c : c = (g.caveat \/ \E l \in prose : FilterSaying(it, s, l) = i)
      OBVIOUS
    <3>4. t[i] = [g EXCEPT !.caveat = c]
      BY <3>2, <3>3
    <3> HIDE DEF t
    <3> QED
      BY <3>2, <3>4, CaveatIs
  <2>5. t = [i \in DOMAIN s |-> t[i]]
    OBVIOUS
  <2> HIDE DEF t
  <2>6. Reshapes(t, s)
    BY <2>4, <2>5 DEF Reshapes
  <2> QED
    BY <2>3, <2>6, Reshaped
<1> QED
  BY <1>1, <1>2, <1>3

LEMMA GroupedRows ==
  ASSUME NEW it, NEW s, AreRows(s, "stats")
  PROVE  LET t == GroupLogbookMods(it, s) IN AreRows(t, "stats") /\ About(t) = About(s) /\ (Once(s) => Once(t))
<1> DEFINE homes(f) == {d \in DOMAIN it.areas : f.mods[1] \in it.areas[d].mods}
           first(S) == CHOOSE d \in S : \A e \in S : d <= e
           better(f) == it.mods[f.mods[1]].stat.better
           moved(f) == [f EXCEPT !.choice = first(homes(f)), !.on = FALSE,
                                 !.min = IF better(f) < 0 THEN None ELSE @,
                                 !.max = IF better(f) < 0 THEN @ ELSE None]
           t == [i \in DOMAIN s |->
                   IF s[i].mods = <<>> \/ s[i].hidden \/ s[i].choice # None THEN s[i]
                   ELSE IF homes(s[i]) = {} THEN s[i] ELSE moved(s[i])]
<1>1. GroupLogbookMods(it, s) = t
  BY DEF GroupLogbookMods
<1>2. ASSUME NEW f, IsRow(f, "stats") PROVE IsRow(moved(f), "stats") /\ moved(f).mods = f.mods
  <2>1. PICK lower : lower <=> better(f) < 0
    OBVIOUS
  <2>2. PICK d : d = first(homes(f))
    OBVIOUS
  <2>3. PICK g : g = moved(f)
    OBVIOUS
  <2>4. g = [f EXCEPT !.choice = d, !.on = FALSE, !.min = IF lower THEN None ELSE @,
                      !.max = IF lower THEN @ ELSE None]
    BY <2>1, <2>2, <2>3
  <2>5. /\ DOMAIN g = DOMAIN f /\ g.rmin = f.rmin /\ g.rmax = f.rmax /\ g.mods = f.mods
        /\ g.min = (IF lower THEN None ELSE f.min) /\ g.max = (IF lower THEN f.max ELSE None)
    BY <1>2, <2>4 DEF IsRow, StatFields
  <2> HIDE DEF moved
  <2>6. InOrder(g.min, g.max)
    <3>1. f.min \in OptInt /\ f.max \in OptInt
      BY <1>2 DEF IsRow, InOrder
    <3> QED
      BY <2>5, <3>1, ExactlyInOrder
  <2> QED
    BY <1>2, <2>3, <2>5, <2>6 DEF IsRow
<1>3. ASSUME NEW i \in DOMAIN s PROVE IsRow(t[i], "stats") /\ t[i].mods = s[i].mods
  <2>1. IsRow(s[i], "stats")
    BY DEF AreRows
  <2>2. t[i] = s[i] \/ t[i] = moved(s[i])
    OBVIOUS
  <2> HIDE DEF t, moved
  <2> QED
    BY <1>2, <2>1, <2>2
<1>4. t = [i \in DOMAIN s |-> t[i]]
  OBVIOUS
<1> HIDE DEF t
<1>5. Reshapes(t, s)
  BY <1>3, <1>4 DEF Reshapes
<1> QED
  BY <1>1, <1>5, Reshaped

LEMMA UnimposedRows ==
  ASSUME NEW it, NEW nums, NEW s, AreRows(s, "stats")
  PROVE  LET t == UnimposeDerived(it, s, nums) IN AreRows(t, "stats") /\ About(t) = About(s) /\ (Once(s) => Once(t))
<1>1. PICK t : t = UnimposeDerived(it, s, nums)
  OBVIOUS
<1>2. t = [i \in DOMAIN s |-> t[i]] /\ \A i \in DOMAIN s : t[i] = s[i] \/ t[i] = [s[i] EXCEPT !.on = FALSE]
  BY <1>1 DEF UnimposeDerived
<1>3. ASSUME NEW i \in DOMAIN s PROVE IsRow(t[i], "stats") /\ t[i].mods = s[i].mods
  <2>1. IsRow(s[i], "stats")
    BY DEF AreRows
  <2>2. PICK g : g = [s[i] EXCEPT !.on = FALSE]
    OBVIOUS
  <2>3. IsRow(g, "stats") /\ g.mods = s[i].mods
    BY <2>1, <2>2, OnIs
  <2>4. t[i] = s[i] \/ t[i] = g
    BY <1>2, <2>2
  <2> QED
    BY <2>1, <2>3, <2>4
<1>4. Reshapes(t, s)
  BY <1>2, <1>3 DEF Reshapes
<1> QED
  BY <1>1, <1>4, Reshaped

-----------------------------------------------------------------------------
(* The numbers of the whole item.                                          *)

LEMMA NumericIs ==
  ASSUME NEW key, NEW min, NEW max, InOrder(min, max), NEW on
  PROVE  AreRows(Numeric(key, min, max, on), "nums")
<1>1. PICK f : f = [key |-> key, min |-> min, max |-> max, on |-> on, hidden |-> FALSE, smin |-> None, smax |-> None]
  OBVIOUS
<1>2. DOMAIN f = NumFields /\ f.min = min /\ f.max = max
  BY <1>1 DEF NumFields
<1>3. IsRow(f, "nums")
  BY <1>2 DEF IsRow
<1>4. Numeric(key, min, max, on) = OneIf(min # None \/ max # None, f)
  BY <1>1 DEF Numeric
<1> QED
  BY <1>3, <1>4, MaybeRow

LEMMA AtLeastIs ==
  ASSUME NEW key, NEW v \in OptInt, NEW on
  PROVE  AreRows(AtLeast(key, v, on), "nums") /\ AreRows(Exactly(key, v), "nums")
BY NumericIs, ExactlyInOrder DEF AtLeast, Exactly

LEMMA PropsAre ==
  ASSUME NEW it, IsItem(it), NEW key
  PROVE  /\ Num(it, key) \in OptInt /\ Total(it, key) \in OptInt /\ Derived(it, key) \in OptInt
         /\ Derived(it, key) # None => Derived(it, key) \in Int
BY DEF IsItem, Num, Total, Derived, HasLine, OptInt

LEMMA BonusesAre ==
  ASSUME NEW it, IsItem(it), NEW rarityOn, NEW on PROVE AreRows(Bonuses(it, rarityOn, on), "nums")
<1>1. AreRows(AtLeast("map_iiq", Num(it, "map_iiq"), on), "nums")
  BY PropsAre, AtLeastIs
<1>2. AreRows(AtLeast("map_packsize", Num(it, "map_packsize"), on), "nums")
  BY PropsAre, AtLeastIs
<1>3. AreRows(AtLeast("map_iir", Num(it, "map_iir"), rarityOn), "nums")
  BY PropsAre, AtLeastIs
<1> QED
  BY <1>1, <1>2, <1>3, BothRows DEF Bonuses

LEMMA DefencesAre ==
  ASSUME NEW it, IsItem(it), NEW s, NEW impose PROVE AreRows(AddDefences(it, s, impose), "nums")
<1> DEFINE seqs == [i \in 1..4 |-> LET k == <<"ar", "ev", "es", "ward">>[i] IN AtLeast(k, Derived(it, k), impose)]
<1>1. ASSUME NEW i \in 1..4 PROVE AreRows(seqs[i], "nums")
  <2>1. PICK k : k = <<"ar", "ev", "es", "ward">>[i]
    OBVIOUS
  <2>2. seqs[i] = AtLeast(k, Derived(it, k), impose)
    BY <2>1
  <2> QED
    BY <2>2, PropsAre, AtLeastIs
<1>2. seqs = [i \in 1..4 |-> seqs[i]]
  OBVIOUS
<1>3. AreRows(FlattenSeq(seqs), "nums")
  <2>1. 4 \in Nat
    OBVIOUS
  <2> HIDE DEF seqs
  <2> QED
    BY <1>1, <1>2, <2>1, RowsOfAll
<1>4. PICK v : v = IF Derived(it, "base_pct") = None THEN None ELSE FloorTo(Derived(it, "base_pct"))
  OBVIOUS
<1>5. v \in OptInt
  <2>1. \A x \in Int : FloorTo(x) \in Int
    BY DEF FloorTo
  <2> QED
    BY <1>4, <2>1, PropsAre DEF OptInt
<1>6. AreRows(AtLeast("base_defence_percentile", v, s = "BaseItem"), "nums")
  BY <1>5, AtLeastIs
<1>7. AddDefences(it, s, impose) = FlattenSeq(seqs) \o AtLeast("base_defence_percentile", v, s = "BaseItem")
  BY <1>4 DEF AddDefences
<1> HIDE DEF seqs
<1> QED
  BY <1>3, <1>6, <1>7, BothRows

LEMMA WeaponIs ==
  ASSUME NEW it, IsItem(it), NEW impose PROVE AreRows(AddWeapon(it, impose), "nums")
<1>1. \A key, on : AreRows(AtLeast(key, Derived(it, key), on), "nums")
  BY PropsAre, AtLeastIs
<1>2. CASE "weapon" \notin it.is
  BY <1>2, NoRows DEF AddWeapon
<1>3. CASE "weapon" \in it.is
  <2>1. PICK a : a = AtLeast("dps", Derived(it, "dps"), impose)
    OBVIOUS
  <2>2. PICK b : b = AtLeast("pdps", Derived(it, "pdps"), impose)
    OBVIOUS
  <2>3. PICK c : c = AtLeast("edps", Derived(it, "edps"), impose)
    OBVIOUS
  <2>4. PICK d : d = AtLeast("aps", Derived(it, "aps"), impose /\ Augmented(it, "aps"))
    OBVIOUS
  <2>5. PICK e : e = AtLeast("crit", Derived(it, "crit"), impose /\ Augmented(it, "crit"))
    OBVIOUS
  <2>6. AreRows(a, "nums") /\ AreRows(b, "nums") /\ AreRows(c, "nums") /\ AreRows(d, "nums") /\ AreRows(e, "nums")
    BY <1>1, <2>1, <2>2, <2>3, <2>4, <2>5
  <2>7. AddWeapon(it, impose) = a \o b \o c \o d \o e
    BY <1>3, <2>1, <2>2, <2>3, <2>4, <2>5 DEF AddWeapon
  <2> QED
    BY <2>6, <2>7, BothRows
<1> QED
  BY <1>2, <1>3

LEMMA SocketsAre ==
  ASSUME NEW it, IsItem(it) PROVE AreRows(AddSockets(it), "nums")
<1> DEFINE row(key, n) ==
             [i \in 1..(IF n > 0 THEN 1 ELSE 0) |->
                [AtLeast(key, n, n >= SocketsWorthAsking)[1] EXCEPT !.hidden = n < SocketsWorthAsking]]
<1>1. ASSUME NEW key, NEW n \in Int PROVE AreRows(row(key, n), "nums")
  <2>1. PICK s : s = AtLeast(key, n, n >= SocketsWorthAsking)
    OBVIOUS
  <2>2. n # None
    BY NoneAssumption
  <2>3. IsRow(s[1], "nums")
    <3>1. AreRows(s, "nums")
      BY <2>1, AtLeastIs DEF OptInt
    <3>2. s # <<>>
      BY <2>1, <2>2 DEF AtLeast, Numeric, OneIf
    <3>3. 1 \in DOMAIN s
      BY <3>1, <3>2 DEF AreRows
    <3> QED
      BY <3>1, <3>3 DEF AreRows
  <2>4. PICK g : g = [s[1] EXCEPT !.hidden = n < SocketsWorthAsking]
    OBVIOUS
  <2>5. DOMAIN g = DOMAIN s[1] /\ g.min = s[1].min /\ g.max = s[1].max
    BY <2>3, <2>4 DEF IsRow, NumFields
  <2>6. IsRow(g, "nums")
    BY <2>3, <2>5 DEF IsRow
  <2>7. PICK m \in Nat : m = IF n > 0 THEN 1 ELSE 0
    OBVIOUS
  <2>8. row(key, n) = [i \in 1..m |-> g]
    BY <2>1, <2>4, <2>7
  <2>9. PICK t : t = [i \in 1..m |-> g]
    OBVIOUS
  <2>10. t = [i \in 1..m |-> t[i]] /\ \A i \in 1..m : IsRow(t[i], "nums")
    BY <2>6, <2>9
  <2> QED
    BY <2>8, <2>9, <2>10, RowsAre
<1>2. AreRows(row("sockets", it.sockets), "nums") /\ AreRows(row("links", it.links), "nums")
  BY <1>1 DEF IsItem
<1>3. AddSockets(it) = row("sockets", it.sockets) \o row("links", it.links)
  BY DEF AddSockets
<1> HIDE DEF row
<1> QED
  BY <1>2, <1>3, BothRows

LEMMA PropertiesAre ==
  ASSUME NEW it, IsItem(it) PROVE AreRows(AddPropertyFilters(it), "nums")
<1>1. AreRows(AtLeast("memory_level", Num(it, "memory_level"), TRUE), "nums")
  BY PropsAre, AtLeastIs
<1>2. AreRows(Numeric("intangibility", None, Num(it, "intangibility"), FALSE), "nums")
  BY PropsAre, NumericIs, ExactlyInOrder
<1>3. AreRows(AtLeast("stored_experience", Num(it, "stored_experience"), TRUE), "nums")
  BY PropsAre, AtLeastIs
<1> QED
  BY <1>1, <1>2, <1>3, BothRows DEF AddPropertyFilters

-----------------------------------------------------------------------------
(* What each strategy contributes.                                         *)

\* A strategy's rows.
IsPart(p) == AreRows(p.nums, "nums") /\ AreRows(p.stats, "stats")
\* No row of it is about a modifier.
IsApart(p) == About(p.stats) = {} /\ Once(p.stats)

LEMMA EmptyPart == ASSUME NEW p, AreRows(p.nums, "nums"), p.stats = <<>> PROVE IsPart(p) /\ IsApart(p)
BY NoRows, NoneAbout DEF IsPart, IsApart

LEMMA GemIs == ASSUME NEW it, IsItem(it) PROVE IsPart(PlanGem(it)) /\ IsApart(PlanGem(it))
<1>1. CASE it.base = None
  BY <1>1, EmptyPart, NoRows DEF PlanGem, Part
<1>2. CASE it.base # None
  <2>1. AreRows(Exactly("gem_level", it.gemLevel), "nums") /\ AreRows(Exactly("quality", it.quality), "nums")
    BY AtLeastIs DEF IsItem, OptInt
  <2>2. /\ PlanGem(it).nums = Exactly("gem_level", it.gemLevel) \o Exactly("quality", it.quality)
        /\ PlanGem(it).stats = <<>>
    BY <1>2 DEF PlanGem, Part
  <2> QED
    BY <2>1, <2>2, BothRows, EmptyPart
<1> QED
  BY <1>1, <1>2

LEMMA BeastIs == ASSUME NEW it, IsItem(it) PROVE IsPart(PlanBeast(it)) /\ IsApart(PlanBeast(it))
<1>1. PlanBeast(it).nums = AtLeast("ilvl", it.ilvl, TRUE) /\ PlanBeast(it).stats = <<>>
  BY DEF PlanBeast, Part
<1>2. AreRows(AtLeast("ilvl", it.ilvl, TRUE), "nums")
  BY AtLeastIs DEF IsItem
<1> QED
  BY <1>1, <1>2, EmptyPart

LEMMA UltimatumIs == ASSUME NEW it, IsItem(it) PROVE IsPart(PlanUltimatum(it)) /\ IsApart(PlanUltimatum(it))
<1>1. PlanUltimatum(it).nums = Exactly("area_level", Num(it, "area_level")) /\ PlanUltimatum(it).stats = <<>>
  BY DEF PlanUltimatum, Part
<1>2. AreRows(Exactly("area_level", Num(it, "area_level")), "nums")
  BY AtLeastIs, PropsAre
<1> QED
  BY <1>1, <1>2, EmptyPart

LEMMA HeistIs == ASSUME NEW it, IsItem(it) PROVE IsPart(PlanHeist(it)) /\ IsApart(PlanHeist(it))
<1> DEFINE reveal(r) == IF Total(it, r.prop) = None THEN <<>>
                        ELSE AtLeast(r.key, Num(it, r.prop), TRUE)
                             \o IF r.total = None THEN <<>> ELSE Exactly(r.total, Total(it, r.prop))
           reveals == [i \in DOMAIN Reveals |-> reveal(Reveals[i])]
           jobs == [i \in DOMAIN Jobs |-> AtLeast(Jobs[i], Num(it, Jobs[i]), TRUE)]
<1>1. /\ PlanHeist(it).nums = Exactly("area_level", Num(it, "area_level")) \o FlattenSeq(reveals) \o FlattenSeq(jobs)
      /\ PlanHeist(it).stats = <<>>
  BY DEF PlanHeist, Part
<1>2. AreRows(Exactly("area_level", Num(it, "area_level")), "nums")
  BY AtLeastIs, PropsAre
<1>3. ASSUME NEW r PROVE AreRows(reveal(r), "nums")
  <2>1. AreRows(AtLeast(r.key, Num(it, r.prop), TRUE), "nums") /\ AreRows(Exactly(r.total, Total(it, r.prop)), "nums")
    BY AtLeastIs, PropsAre
  <2>2. AreRows(IF r.total = None THEN <<>> ELSE Exactly(r.total, Total(it, r.prop)), "nums")
    BY <2>1, NoRows
  <2> QED
    BY <2>1, <2>2, NoRows, BothRows
<1>4. AreRows(FlattenSeq(reveals), "nums")
  <2>1. DOMAIN Reveals = 1..3 /\ 3 \in Nat
    BY DEF Reveals
  <2>2. reveals = [i \in 1..3 |-> reveals[i]] /\ \A i \in 1..3 : AreRows(reveals[i], "nums")
    <3> HIDE DEF reveal
    <3> QED
      BY <1>3, <2>1
  <2> HIDE DEF reveals
  <2> QED
    BY <2>1, <2>2, RowsOfAll
<1>5. AreRows(FlattenSeq(jobs), "nums")
  <2>1. DOMAIN Jobs = 1..9 /\ 9 \in Nat
    BY DEF Jobs
  <2>2. jobs = [i \in 1..9 |-> jobs[i]] /\ \A i \in 1..9 : AreRows(jobs[i], "nums")
    BY <2>1, AtLeastIs, PropsAre
  <2> HIDE DEF jobs
  <2> QED
    BY <2>1, <2>2, RowsOfAll
<1>6. AreRows(PlanHeist(it).nums, "nums")
  <2> HIDE DEF jobs, reveals
  <2> QED
    BY <1>1, <1>2, <1>4, <1>5, BothRows
<1> QED
  BY <1>1, <1>6, EmptyPart

LEMMA MaybeAbout ==
  ASSUME NEW f, IsRow(f, "stats"), f.mods = <<>>, NEW cond
  PROVE  AreRows(OneIf(cond, f), "stats") /\ About(OneIf(cond, f)) = {} /\ Once(OneIf(cond, f))
<1>1. AreRows(OneIf(cond, f), "stats")
  BY MaybeRow
<1>2. OneIf(cond, f) = <<f>> \/ OneIf(cond, f) = <<>>
  BY DEF OneIf
<1>3. About(<<f>>) = {} /\ Once(<<f>>)
  <2>1. PICK s : s = <<f>>
    OBVIOUS
  <2>2. DOMAIN s = {1} /\ s[1] = f
    BY <2>1
  <2>3. Range(f.mods) = {}
    BY DEF Range
  <2> QED
    BY <2>1, <2>2, <2>3 DEF About, Once
<1> QED
  BY <1>1, <1>2, <1>3, NoneAbout

LEMMA AllApart ==
  ASSUME NEW n \in Nat, NEW seqs, seqs = [i \in 1..n |-> seqs[i]],
         \A i \in 1..n : AreRows(seqs[i], "stats") /\ About(seqs[i]) = {} /\ Once(seqs[i])
  PROVE  AreRows(FlattenSeq(seqs), "stats") /\ About(FlattenSeq(seqs)) = {} /\ Once(FlattenSeq(seqs))
<1>1. AreRows(FlattenSeq(seqs), "stats")
  BY RowsOfAll
<1>2. About(FlattenSeq(seqs)) = UNION {About(seqs[i]) : i \in 1..n}
  BY AboutAll
<1>3. Once(FlattenSeq(seqs))
  <2>1. \A i, j \in 1..n : i # j => About(seqs[i]) \cap About(seqs[j]) = {}
    OBVIOUS
  <2> QED
    BY <2>1, AboutAll
<1> QED
  BY <1>1, <1>2, <1>3

LEMMA SanctumIs == ASSUME NEW it, IsItem(it) PROVE IsPart(PlanSanctum(it)) /\ IsApart(PlanSanctum(it))
<1>1. PICK a : a = Exactly("area_level", Num(it, "area_level"))
  OBVIOUS
<1>2. PICK b : b = AtLeast("sanctum_resolve", Num(it, "resolve"), TRUE)
  OBVIOUS
<1>3. PICK c : c = AtLeast("sanctum_max_resolve", Total(it, "resolve"), FALSE)
  OBVIOUS
<1>4. PICK d : d = AtLeast("sanctum_inspiration", Num(it, "inspiration"), TRUE)
  OBVIOUS
<1>5. PICK e : e = AtLeast("sanctum_gold", Num(it, "aureus"), TRUE)
  OBVIOUS
<1>6. AreRows(a, "nums") /\ AreRows(b, "nums") /\ AreRows(c, "nums") /\ AreRows(d, "nums") /\ AreRows(e, "nums")
  BY <1>1, <1>2, <1>3, <1>4, <1>5, AtLeastIs, PropsAre
<1>7. PlanSanctum(it).nums = a \o b \o c \o d \o e /\ PlanSanctum(it).stats = AddSanctumEffects(it)
  BY <1>1, <1>2, <1>3, <1>4, <1>5 DEF PlanSanctum, Part
<1>8. AreRows(PlanSanctum(it).nums, "nums")
  BY <1>6, <1>7, BothRows
<1> DEFINE row(i) == [Stat0 EXCEPT !.id = it.effects[i], !.type = "sanctum", !.on = TRUE]
           seqs == [i \in DOMAIN it.effects |-> OneIf(it.effects[i] # None, row(i))]
<1>9. AddSanctumEffects(it) = FlattenSeq(seqs)
  BY DEF AddSanctumEffects
<1>10. ASSUME NEW i PROVE IsRow(row(i), "stats") /\ row(i).mods = <<>>
  <2>1. PICK g : g = row(i)
    OBVIOUS
  <2>2. /\ DOMAIN g = StatFields /\ g.min = Stat0.min /\ g.max = Stat0.max /\ g.rmin = Stat0.rmin
        /\ g.rmax = Stat0.rmax /\ g.mods = Stat0.mods
    BY <2>1, Stat0Is DEF StatFields
  <2>3. IsRow(g, "stats") /\ g.mods = <<>>
    BY <2>2, Stat0Is DEF IsRow
  <2> QED
    BY <2>1, <2>3
<1> HIDE DEF row
<1>11. PICK n \in Nat : DOMAIN it.effects = 1..n
  BY DEF IsItem
<1>12. seqs = [i \in 1..n |-> seqs[i]]
  BY <1>11
<1>13. \A i \in 1..n : AreRows(seqs[i], "stats") /\ About(seqs[i]) = {} /\ Once(seqs[i])
  BY <1>10, <1>11, MaybeAbout
<1> HIDE DEF seqs
<1>14. AreRows(FlattenSeq(seqs), "stats") /\ About(FlattenSeq(seqs)) = {} /\ Once(FlattenSeq(seqs))
  BY <1>12, <1>13, AllApart
<1> QED
  BY <1>7, <1>8, <1>9, <1>14 DEF IsPart, IsApart

LEMMA LogbookIs == ASSUME NEW it, IsItem(it) PROVE IsPart(PlanLogbook(it)) /\ IsApart(PlanLogbook(it))
<1>1. PICK a : a = AtLeast("area_level", Num(it, "area_level"), TRUE)
  OBVIOUS
<1>2. PICK b : b = AtLeast("ilvl", it.ilvl, FALSE)
  OBVIOUS
<1>3. PICK c : c = Bonuses(it, FALSE, FALSE)
  OBVIOUS
<1> DEFINE row(d, id, primary) == [Stat0 EXCEPT !.id = id, !.choice = d, !.primary = primary]
           ask(d, id, primary) == OneIf(id # None, row(d, id, primary))
           seqs == [d \in DOMAIN it.areas |-> ask(d, it.areas[d].faction, TRUE) \o ask(d, it.areas[d].area, FALSE)]
<1>4. PlanLogbook(it).nums = a \o b \o c /\ PlanLogbook(it).stats = FlattenSeq(seqs)
  BY <1>1, <1>2, <1>3 DEF PlanLogbook, Part
<1>5. AreRows(a \o b \o c, "nums")
  <2>1. AreRows(a, "nums") /\ AreRows(b, "nums") /\ AreRows(c, "nums")
    BY <1>1, <1>2, <1>3, AtLeastIs, PropsAre, BonusesAre DEF IsItem
  <2> QED
    BY <2>1, BothRows
<1>6. ASSUME NEW d, NEW id, NEW primary
      PROVE  IsRow(row(d, id, primary), "stats") /\ row(d, id, primary).mods = <<>>
  <2>1. PICK g : g = row(d, id, primary)
    OBVIOUS
  <2>2. /\ DOMAIN g = StatFields /\ g.min = Stat0.min /\ g.max = Stat0.max /\ g.rmin = Stat0.rmin
        /\ g.rmax = Stat0.rmax /\ g.mods = Stat0.mods
    BY <2>1, Stat0Is DEF StatFields
  <2>3. IsRow(g, "stats") /\ g.mods = <<>>
    BY <2>2, Stat0Is DEF IsRow
  <2> QED
    BY <2>1, <2>3
<1> HIDE DEF row
<1>7. \A d, id, primary : /\ AreRows(ask(d, id, primary), "stats")
                          /\ About(ask(d, id, primary)) = {} /\ Once(ask(d, id, primary))
  BY <1>6, MaybeAbout
<1> HIDE DEF ask
<1>8. PICK n \in Nat : DOMAIN it.areas = 1..n
  BY DEF IsItem
<1>9. ASSUME NEW i \in 1..n PROVE AreRows(seqs[i], "stats") /\ About(seqs[i]) = {} /\ Once(seqs[i])
  <2>1. PICK s : s = ask(i, it.areas[i].faction, TRUE)
    OBVIOUS
  <2>2. PICK t : t = ask(i, it.areas[i].area, FALSE)
    OBVIOUS
  <2>3. seqs[i] = s \o t
    BY <1>8, <2>1, <2>2
  <2>4. /\ AreRows(s, "stats") /\ About(s) = {} /\ Once(s)
        /\ AreRows(t, "stats") /\ About(t) = {} /\ Once(t)
    BY <1>7, <2>1, <2>2
  <2>5. AreRows(s \o t, "stats") /\ About(s \o t) = {} /\ Once(s \o t)
    BY <2>4, BothRows, BothAbout
  <2> QED
    BY <2>3, <2>5
<1>10. seqs = [i \in 1..n |-> seqs[i]]
  BY <1>8
<1> HIDE DEF seqs
<1>11. AreRows(FlattenSeq(seqs), "stats") /\ About(FlattenSeq(seqs)) = {} /\ Once(FlattenSeq(seqs))
  BY <1>9, <1>10, AllApart
<1> QED
  BY <1>4, <1>5, <1>11 DEF IsPart, IsApart

LEMMA ChartIs == ASSUME NEW it, IsItem(it) PROVE AreRows(PlanChart(it).nums, "nums") /\ PlanChart(it).stats = <<>>
<1>1. PICK a : a = Exactly("area_level", Num(it, "area_level"))
  OBVIOUS
<1>2. PICK b : b = AtLeast("chart_sulphur", Num(it, "sulphur"), TRUE)
  OBVIOUS
<1>3. PlanChart(it).nums = a \o b /\ PlanChart(it).stats = <<>>
  BY <1>1, <1>2 DEF PlanChart, Part
<1>4. AreRows(a, "nums") /\ AreRows(b, "nums")
  BY <1>1, <1>2, AtLeastIs, PropsAre
<1> QED
  BY <1>3, <1>4, BothRows

\* The rule of a map is a row about the modifier that says it, if there is one.
LEMMA VoidRuleIs ==
  ASSUME NEW it, IsItem(it), NEW gd
  PROVE  AreRows(AddVoidRule(gd, it), "stats") /\ About(AddVoidRule(gd, it)) \subseteq DOMAIN it.mods
<1> DEFINE at == {i \in DOMAIN it.mods : it.mods[i].stat # None /\ it.mods[i].stat.void}
           k == CHOOSE x \in at : \A y \in at : x <= y
           row == [Stat0 EXCEPT !.id = gd.voidId, !.type = "explicit", !.on = TRUE,
                                !.mods = IF at = {} THEN <<>> ELSE <<k>>, !.negated = at = {}]
<1>1. AddVoidRule(gd, it) = OneIf(gd.voidId # None, row)
  BY DEF AddVoidRule
<1>2. PICK g : g = row
  <2> HIDE DEF row
  <2> QED
    OBVIOUS
<1>3. /\ DOMAIN g = StatFields /\ g.min = Stat0.min /\ g.max = Stat0.max /\ g.rmin = Stat0.rmin
      /\ g.rmax = Stat0.rmax /\ g.mods = IF at = {} THEN <<>> ELSE <<k>>
  <2>1. PICK ms : ms = IF at = {} THEN <<>> ELSE <<k>>
    <3> HIDE DEF at, k
    <3> QED
      OBVIOUS
  <2>2. PICK absent : absent = (at = {})
    OBVIOUS
  <2>3. PICK id : id = gd.voidId
    OBVIOUS
  <2>4. g = [Stat0 EXCEPT !.id = id, !.type = "explicit", !.on = TRUE, !.mods = ms, !.negated = absent]
    BY <1>2, <2>1, <2>2, <2>3
  <2> HIDE DEF at, k, row
  <2> QED
    BY <2>1, <2>4, Stat0Is DEF StatFields
<1>4. at # {} => k \in DOMAIN it.mods /\ k \in Nat
  <2>1. at \subseteq DOMAIN it.mods /\ DOMAIN it.mods \subseteq Nat
    BY ModsAre
  <2> HIDE DEF at
  <2>2. at # {} => \E x \in at : \A y \in at : x <= y
    BY <2>1, LeastMember
  <2> QED
    BY <2>1, <2>2
<1> HIDE DEF at, k
<1>5. g.mods \in Seq(Nat) /\ Range(g.mods) \subseteq DOMAIN it.mods
  <2>1. CASE at = {}
    BY <1>3, <2>1 DEF Range
  <2>2. CASE at # {}
    <3>1. g.mods = <<k>> /\ k \in Nat /\ k \in DOMAIN it.mods
      BY <1>3, <1>4, <2>2
    <3>2. DOMAIN g.mods = {1} /\ g.mods[1] = k
      BY <3>1
    <3> QED
      BY <3>1, <3>2 DEF Range
  <2> QED
    BY <2>1, <2>2
<1>6. IsRow(g, "stats")
  BY <1>3, <1>5, Stat0Is DEF IsRow
<1>7. AreRows(<<g>>, "stats")
  BY <1>6, OneRow
<1>8. About(<<g>>) \subseteq DOMAIN it.mods
  <2>1. PICK s : s = <<g>>
    OBVIOUS
  <2>2. DOMAIN s = {1} /\ s[1] = g
    BY <2>1
  <2>3. About(s) \subseteq DOMAIN it.mods
    BY <1>5, <2>2 DEF About
  <2> QED
    BY <2>1, <2>3
<1>9. AddVoidRule(gd, it) = <<g>> \/ AddVoidRule(gd, it) = <<>>
  BY <1>1, <1>2 DEF OneIf
<1> QED
  BY <1>7, <1>8, <1>9, NoRows, NoneAbout

LEMMA MapIs ==
  ASSUME NEW it, IsItem(it), NEW gd
  PROVE  IsPart(PlanMap(gd, it)) /\ About(PlanMap(gd, it).stats) \subseteq DOMAIN it.mods
<1>1. PICK reward : reward <=> ("chart" \notin it.is /\ HasLine(it, "reward"))
  OBVIOUS
<1>2. PICK a : /\ "chart" \in it.is => a = PlanChart(it).nums
               /\ "chart" \notin it.is => a = Exactly("map_tier", it.mapTier)
  OBVIOUS
<1>3. AreRows(a, "nums")
  BY <1>2, ChartIs, AtLeastIs DEF IsItem
<1>4. PICK b : b = Bonuses(it, FALSE, ~("chart" \notin it.is /\ HasLine(it, "reward")))
  OBVIOUS
<1>5. AreRows(b, "nums")
  BY <1>4, BonusesAre
<1>6. DOMAIN PlanChart(it) = DOMAIN Part /\ DOMAIN Part = {"category", "name", "type", "disc", "rarity", "opts",
                                                           "nums", "stats", "choices", "notes"}
  BY DEF PlanChart, Part
<1>7. PlanMap(gd, it).nums = a \o b
  <2>1. CASE "chart" \in it.is
    BY <1>2, <1>4, <1>6, <2>1 DEF PlanMap
  <2>2. CASE "chart" \notin it.is
    BY <1>2, <1>4, <1>6, <2>2 DEF PlanMap
  <2> QED
    BY <2>1, <2>2
<1>8. PlanMap(gd, it).stats = <<>> \/ PlanMap(gd, it).stats = AddVoidRule(gd, it)
  <2>1. CASE "chart" \in it.is
    BY <1>6, <2>1, ChartIs DEF PlanMap
  <2>2. CASE "chart" \notin it.is
    BY <1>6, <2>2 DEF PlanMap
  <2> QED
    BY <2>1, <2>2
<1>9. AreRows(a \o b, "nums")
  BY <1>3, <1>5, BothRows
<1> QED
  BY <1>7, <1>8, <1>9, NoRows, NoneAbout, VoidRuleIs DEF IsPart

LEMMA UniqueIs ==
  ASSUME NEW it, IsItem(it), NEW gd PROVE IsPart(PlanUnique(gd, it)) /\ IsApart(PlanUnique(gd, it))
<1>1. PlanUnique(gd, it).stats = <<>>
  BY DEF PlanUnique, Part
<1>2. PlanUnique(gd, it).nums = <<>> \/ PlanUnique(gd, it).nums = AtLeast("ilvl", it.ilvl, TRUE)
  BY DEF PlanUnique, PlanUnidentified, Part
<1>3. AreRows(AtLeast("ilvl", it.ilvl, TRUE), "nums")
  BY AtLeastIs DEF IsItem
<1> QED
  BY <1>1, <1>2, <1>3, NoRows, EmptyPart

LEMMA GearIs ==
  ASSUME NEW it, IsItem(it), NEW s PROVE IsPart(PlanGear(it, s)) /\ IsApart(PlanGear(it, s))
<1>1. PlanGear(it, s).stats = <<>> /\ PlanGear(it, s).nums = AtLeast("ilvl", it.ilvl, s = "BaseItem")
  BY DEF PlanGear, Part
<1>2. AreRows(AtLeast("ilvl", it.ilvl, s = "BaseItem"), "nums")
  BY AtLeastIs DEF IsItem
<1> QED
  BY <1>1, <1>2, EmptyPart

LEMMA OtherIs == ASSUME NEW it, NEW s PROVE IsPart(PlanOther(it, s)) /\ IsApart(PlanOther(it, s))
<1>1. CASE s = "Currency" /\ HasLine(it, "stored_experience")
  <2>1. PlanOther(it, s).stats = <<>> /\ PlanOther(it, s).nums = <<>>
    BY <1>1 DEF PlanOther, Part
  <2> QED
    BY <2>1, NoRows, EmptyPart
<1>2. CASE ~(s = "Currency" /\ HasLine(it, "stored_experience")) /\ s = "Unsupported"
  <2>1. PlanOther(it, s).stats = <<>> /\ PlanOther(it, s).nums = <<>>
    BY <1>2 DEF PlanOther, Part
  <2> QED
    BY <2>1, NoRows, EmptyPart
<1>3. CASE ~(s = "Currency" /\ HasLine(it, "stored_experience")) /\ s # "Unsupported"
  <2>1. PlanOther(it, s).stats = <<>> /\ PlanOther(it, s).nums = <<>>
    BY <1>3 DEF PlanOther, Part
  <2> QED
    BY <2>1, NoRows, EmptyPart
<1> QED
  BY <1>1, <1>2, <1>3

\* Whatever the strategy, what it contributes is rows; only a map's is about a modifier.
LEMMA PartForIs ==
  ASSUME NEW it, IsItem(it), NEW gd, NEW s
  PROVE  /\ IsPart(PartFor(gd, it, s)) /\ About(PartFor(gd, it, s).stats) \subseteq DOMAIN it.mods
         /\ s # "Map" => IsApart(PartFor(gd, it, s))
<1> DEFINE Right(p) == IsPart(p) /\ About(p.stats) \subseteq DOMAIN it.mods /\ (s # "Map" => IsApart(p))
<1>0. \A p : IsPart(p) /\ IsApart(p) => Right(p)
  BY DEF IsApart
<1>1. CASE s = "Unique"
  <2>1. PartFor(gd, it, s) = PlanUnique(gd, it)
    BY <1>1 DEF PartFor
  <2> QED
    BY <1>0, <2>1, UniqueIs
<1>2. CASE s \in {"BaseItem", "Modifiers"}
  <2>1. PartFor(gd, it, s) = PlanGear(it, s)
    BY <1>2 DEF PartFor
  <2> QED
    BY <1>0, <2>1, GearIs
<1>3. CASE s = "Map"
  <2>1. PartFor(gd, it, s) = PlanMap(gd, it)
    BY <1>3 DEF PartFor
  <2> QED
    BY <1>3, <2>1, MapIs
<1>4. CASE s = "Gem"
  <2>1. PartFor(gd, it, s) = PlanGem(it)
    BY <1>4 DEF PartFor
  <2> QED
    BY <1>0, <2>1, GemIs
<1>5. CASE s = "Beast"
  <2>1. PartFor(gd, it, s) = PlanBeast(it)
    BY <1>5 DEF PartFor
  <2> QED
    BY <1>0, <2>1, BeastIs
<1>6. CASE s = "Ultimatum"
  <2>1. PartFor(gd, it, s) = PlanUltimatum(it)
    BY <1>6 DEF PartFor
  <2> QED
    BY <1>0, <2>1, UltimatumIs
<1>7. CASE s = "Heist"
  <2>1. PartFor(gd, it, s) = PlanHeist(it)
    BY <1>7 DEF PartFor
  <2> QED
    BY <1>0, <2>1, HeistIs
<1>8. CASE s = "Sanctum"
  <2>1. PartFor(gd, it, s) = PlanSanctum(it)
    BY <1>8 DEF PartFor
  <2> QED
    BY <1>0, <2>1, SanctumIs
<1>9. CASE s = "Logbook"
  <2>1. PartFor(gd, it, s) = PlanLogbook(it)
    BY <1>9 DEF PartFor
  <2> QED
    BY <1>0, <2>1, LogbookIs
<1>10. CASE s \notin {"Unique", "BaseItem", "Modifiers", "Map", "Gem", "Beast", "Ultimatum", "Heist", "Sanctum",
                      "Logbook"}
  <2>1. PartFor(gd, it, s) = PlanOther(it, s)
    BY <1>10 DEF PartFor
  <2> QED
    BY <1>0, <2>1, OtherIs
<1> QED
  BY <1>1, <1>2, <1>3, <1>4, <1>5, <1>6, <1>7, <1>8, <1>9, <1>10

LEMMA AffixCountIs == ASSUME NEW it, IsItem(it) PROVE MapAffixCount(it) \in OptInt
<1> DEFINE explicits == {i \in DOMAIN it.mods : it.mods[i].type = "explicit"}
           S == {i \in explicits : ~it.mods[i].continuation /\ it.mods[i].affix}
<1>1. PICK n \in Nat : DOMAIN it.mods = 1..n
  BY ModsAre
<1>2. IsFiniteSet(1..n)
  BY FS_Interval
<1>3. S \subseteq 1..n
  BY <1>1
<1> HIDE DEF S
<1>4. IsFiniteSet(S)
  BY <1>2, <1>3, FS_Subset
<1>5. Cardinality(S) \in Nat
  BY <1>4, FS_CardinalityType
<1>6. MapAffixCount(it) = IF explicits # {} /\ Cardinality(S) = 0 THEN None ELSE Cardinality(S)
  BY DEF MapAffixCount, S
<1> HIDE DEF explicits
<1> QED
  BY <1>5, <1>6 DEF OptInt

LEMMA MapPseudoIs ==
  ASSUME NEW it, IsItem(it)
  PROVE  LET t == AddMapPseudo(it).stats IN AreRows(t, "stats") /\ About(t) = {} /\ Once(t)
<1> DEFINE row(id, n) == [Stat0 EXCEPT !.id = id, !.min = n, !.on = TRUE]
           ask(id, n) == OneIf(n # None, row(id, n))
           seqs == [i \in DOMAIN Drops |-> ask(Drops[i], Num(it, Drops[i]))]
           Right(t) == AreRows(t, "stats") /\ About(t) = {} /\ Once(t)
<1>1. ASSUME NEW id, NEW n \in OptInt PROVE IsRow(row(id, n), "stats") /\ row(id, n).mods = <<>>
  <2>1. PICK g : g = row(id, n)
    OBVIOUS
  <2>2. /\ DOMAIN g = StatFields /\ g.min = n /\ g.max = Stat0.max /\ g.rmin = Stat0.rmin
        /\ g.rmax = Stat0.rmax /\ g.mods = Stat0.mods /\ Stat0.max = None
    BY <2>1, Stat0Is DEF StatFields, Stat0
  <2>3. IsRow(g, "stats") /\ g.mods = <<>>
    BY <2>2, Stat0Is, ExactlyInOrder DEF IsRow
  <2> QED
    BY <2>1, <2>3
<1> HIDE DEF row
<1>2. ASSUME NEW id, NEW n \in OptInt PROVE Right(ask(id, n))
  BY <1>1, MaybeAbout
<1> HIDE DEF ask
<1>3. DOMAIN Drops = 1..4 /\ 4 \in Nat
  BY DEF Drops
<1>4. \A i \in 1..4 : Right(seqs[i])
  BY <1>2, <1>3, PropsAre
<1>5. seqs = [i \in 1..4 |-> seqs[i]]
  BY <1>3
<1> HIDE DEF seqs
<1>6. Right(FlattenSeq(seqs))
  BY <1>3, <1>4, <1>5, AllApart
<1>7. PICK n \in OptInt : n = MapAffixCount(it)
  BY AffixCountIs
<1>8. PICK t : t = IF "corrupted" \in it.flags /\ n # 0 THEN ask("affix_count", n) ELSE <<>>
  OBVIOUS
<1>9. Right(t)
  BY <1>2, <1>8, NoRows, NoneAbout
<1>10. AddMapPseudo(it).stats = FlattenSeq(seqs) \o t
  BY <1>7, <1>8 DEF AddMapPseudo, seqs, ask, row
<1>11. PICK u : u = FlattenSeq(seqs)
  OBVIOUS
<1>12. Right(u \o t)
  BY <1>6, <1>9, <1>11, BothRows, BothAbout
<1> QED
  BY <1>10, <1>11, <1>12

-----------------------------------------------------------------------------
(* The plan.                                                               *)

\* The bounds a row can be reset to are those it was made with.
AsMade(s) == \A i \in DOMAIN s : s[i].smin = s[i].min /\ s[i].smax = s[i].max

LEMMA SeededIs ==
  ASSUME NEW l, NEW s, AreRows(s, l)
  PROVE  /\ AreRows(Seeded(s), l) /\ AsMade(Seeded(s))
         /\ l = "stats" => About(Seeded(s)) = About(s) /\ (Once(s) => Once(Seeded(s)))
<1>1. PICK n \in Nat : n = Len(s) /\ DOMAIN s = 1..n /\ \A i \in 1..n : IsRow(s[i], l)
  BY RowsTo
<1>2. PICK t : t = Seeded(s)
  OBVIOUS
<1>3. t = [i \in 1..n |-> [s[i] EXCEPT !.smin = s[i].min, !.smax = s[i].max]]
  BY <1>1, <1>2 DEF Seeded
<1>4. DOMAIN t = 1..n /\ t = [i \in 1..n |-> t[i]]
  BY <1>3
<1>5. ASSUME NEW i \in 1..n
      PROVE  /\ IsRow(t[i], l) /\ t[i].smin = t[i].min /\ t[i].smax = t[i].max
             /\ l = "stats" => t[i].mods = s[i].mods
  <2>1. PICK f : f = s[i] /\ IsRow(f, l)
    BY <1>1
  <2>2. PICK g : g = [f EXCEPT !.smin = f.min, !.smax = f.max]
    OBVIOUS
  <2>3. t[i] = g
    BY <1>3, <2>1, <2>2
  <2>5. /\ DOMAIN g = DOMAIN f /\ g.smin = f.min /\ g.smax = f.max /\ g.min = f.min /\ g.max = f.max
        /\ l = "stats" => g.rmin = f.rmin /\ g.rmax = f.rmax /\ g.mods = f.mods
    <3>1. /\ {"smin", "smax", "min", "max"} \subseteq DOMAIN f
          /\ l = "stats" => {"rmin", "rmax", "mods"} \subseteq DOMAIN f
      BY <2>1 DEF IsRow, StatFields, NumFields
    <3> QED
      BY <2>2, <3>1
  <2>6. IsRow(g, l)
    BY <2>1, <2>5 DEF IsRow
  <2> QED
    BY <2>1, <2>3, <2>5, <2>6
<1>6. AreRows(t, l) /\ AsMade(t)
  BY <1>4, <1>5, RowsAre DEF AsMade
<1>7. ASSUME l = "stats" PROVE About(t) = About(s) /\ (Once(s) => Once(t))
  <2>1. Reshapes(t, s)
    BY <1>1, <1>4, <1>5, <1>7 DEF Reshapes
  <2> QED
    BY <1>7, <2>1, Reshaped
<1> QED
  BY <1>2, <1>6, <1>7

LEMMA NumbersAre ==
  ASSUME NEW it, IsItem(it), NEW s, NEW part, IsPart(part) PROVE AreRows(Numbers(it, s, part), "nums")
<1>1. PICK q : q = IF it.quality > 20 THEN it.quality ELSE None
  OBVIOUS
<1>2. q \in OptInt
  BY <1>1 DEF IsItem, OptInt
<1>3. PICK a : a = AtLeast("quality", q, TRUE)
  OBVIOUS
<1>4. PICK b : b = AddDefences(it, s, s # "Unique")
  OBVIOUS
<1>5. PICK c : c = AddWeapon(it, s # "Unique")
  OBVIOUS
<1>6. PICK d : d = AddSockets(it)
  OBVIOUS
<1>7. AreRows(a, "nums") /\ AreRows(b, "nums") /\ AreRows(c, "nums") /\ AreRows(d, "nums")
  BY <1>2, <1>3, <1>4, <1>5, <1>6, AtLeastIs, DefencesAre, WeaponIs, SocketsAre
<1>8. AreRows(a \o b \o c \o d, "nums")
  BY <1>7, BothRows
<1>9. PICK e : e = part.nums /\ AreRows(e, "nums")
  BY DEF IsPart
<1>10. PICK g : g = IF GearStrategy(s) THEN a \o b \o c \o d ELSE <<>>
  OBVIOUS
<1>11. AreRows(g, "nums")
  BY <1>8, <1>10, NoRows
<1>12. Numbers(it, s, part) = e \o g
  BY <1>1, <1>3, <1>4, <1>5, <1>6, <1>9, <1>10 DEF Numbers
<1> QED
  BY <1>9, <1>11, <1>12, BothRows

\* Every modifier the bundle has an id for is in a row, and outside maps in one only.
LEMMA AllRowsAre ==
  ASSUME NEW it, IsItem(it), NEW s, NEW rm, IsMatch(rm), NEW part, IsPart(part),
         About(part.stats) \subseteq DOMAIN it.mods, s # "Map" => IsApart(part)
  PROVE  LET t == AllRows(it, s, rm, part)
         IN /\ AreRows(t, "stats") /\ About(t) \subseteq DOMAIN it.mods
            /\ s # "Unsupported" => Named(it) \subseteq About(t)
            /\ s # "Map" => Once(t)
<1>1. PICK a : a = part.stats /\ AreRows(a, "stats")
  BY DEF IsPart
<1>2. PICK b : b = IF s = "Unsupported" THEN <<>> ELSE ModRows(it, s, rm)
  OBVIOUS
<1>3. AllRows(it, s, rm, part) = a \o b
  BY <1>1, <1>2 DEF AllRows
<1>4. /\ AreRows(b, "stats") /\ About(b) \subseteq Named(it) /\ Once(b)
      /\ s # "Unsupported" => About(b) = Named(it)
  BY <1>2, ModRowsAre, NoRows, NoneAbout
<1>5. Named(it) \subseteq DOMAIN it.mods
  BY DEF Named
<1>6. s # "Map" => About(a) = {} /\ Once(a)
  BY <1>1 DEF IsApart
<1>7. /\ AreRows(a \o b, "stats") /\ About(a \o b) = About(a) \cup About(b)
      /\ Once(a) /\ Once(b) /\ About(a) \cap About(b) = {} => Once(a \o b)
  BY <1>1, <1>4, BothRows, BothAbout
<1> QED
  BY <1>1, <1>3, <1>4, <1>5, <1>6, <1>7

LEMMA RecordAppliedIs ==
  ASSUME NEW it, IsItem(it), NEW gd, IsData(gd), NEW s, NEW rm, IsMatch(rm), NEW part,
         AreRows(AllRows(it, s, rm, part), "stats"), About(AllRows(it, s, rm, part)) \subseteq DOMAIN it.mods
  PROVE  LET t == RecordApplied(gd, it, s, rm, part).stats
             u == AllRows(it, s, rm, part)
         IN AreRows(t, "stats") /\ About(t) = About(u) /\ (Once(u) => Once(t))
<1>1. PICK u : u = AllRows(it, s, rm, part)
  OBVIOUS
<1>2. CASE s = "Unique"
  <2>1. RecordApplied(gd, it, s, rm, part) = ApplyUniqueMods(gd, it, part.name, rm, u)
    BY <1>1, <1>2 DEF RecordApplied
  <2> QED
    BY <1>1, <2>1, UniqueRows
<1>3. CASE s # "Unique"
  <2>1. RecordApplied(gd, it, s, rm, part).stats = u
    BY <1>1, <1>3 DEF RecordApplied
  <2> QED
    BY <1>1, <2>1
<1> QED
  BY <1>2, <1>3

LEMMA MergedIs ==
  ASSUME NEW it, NEW s, NEW a, NEW b, AreRows(a, "stats"), AreRows(b, "stats"), About(b) = {}, Once(b)
  PROVE  LET t == Merged(it, s, a, b)
         IN AreRows(t, "stats") /\ About(t) = About(a) /\ (Once(a) => Once(t))
<1>1. PICK g : g = IF s = "Logbook" THEN GroupLogbookMods(it, a) ELSE a
  OBVIOUS
<1>2. AreRows(g, "stats") /\ About(g) = About(a) /\ (Once(a) => Once(g))
  BY <1>1, GroupedRows
<1>3. PICK c : c = g \o b
  OBVIOUS
<1>4. AreRows(c, "stats") /\ About(c) = About(a) /\ (Once(a) => Once(c))
  BY <1>2, <1>3, BothRows, BothAbout
<1>5. Merged(it, s, a, b) = MergeSameStat(c)
  BY <1>1, <1>3 DEF Merged
<1> QED
  BY <1>4, <1>5, MergedRows

\* The fields of a plan, and the list of rows of either kind.
PlanFields == {"strategy", "category", "name", "type", "disc", "rarity", "influences", "opts", "nums", "stats",
               "choices", "choice", "notes"}
\* A modifier of the item is in a row, in a note, or left out by the strategy.
Accounted(it, p) ==
  \A i \in DOMAIN it.mods :
    \/ i \in About(p.stats) \/ <<"not searched", i>> \in p.notes
    \/ p.strategy = "Unsupported" \/ LeftOut(it, i, p.strategy)
IsPlan(it, p) ==
  /\ DOMAIN p = PlanFields
  /\ AreRows(p.stats, "stats") /\ AreRows(p.nums, "nums") /\ AsMade(p.stats) /\ AsMade(p.nums)
  /\ Accounted(it, p) /\ (p.strategy # "Map" => Once(p.stats))

LEMMA AssembledIs ==
  ASSUME NEW it, IsItem(it), NEW s, NEW part, NEW um, AreRows(um.stats, "stats"),
         s # "Unsupported" => Named(it) \subseteq About(um.stats), s # "Map" => Once(um.stats),
         NEW drop, AreRows(drop.stats, "stats"), About(drop.stats) = {}, Once(drop.stats),
         NEW nums, AreRows(nums, "nums")
  PROVE  IsPlan(it, Assembled(it, s, part, um, drop, nums))
<1>1. PICK m : m = Merged(it, s, um.stats, drop.stats)
  OBVIOUS
<1>2. AreRows(m, "stats") /\ About(m) = About(um.stats) /\ (s # "Map" => Once(m))
  BY <1>1, MergedIs
<1>3. PICK t : t = IF GearStrategy(s) THEN UnimposeDerived(it, m, nums) ELSE m
  OBVIOUS
<1>4. AreRows(t, "stats") /\ About(t) = About(um.stats) /\ (s # "Map" => Once(t))
  BY <1>2, <1>3, UnimposedRows
<1>5. PICK more : more = IF s = "Unsupported" THEN <<>> ELSE AddPropertyFilters(it)
  OBVIOUS
<1>6. AreRows(more, "nums")
  BY <1>5, NoRows, PropertiesAre
<1>7. PICK n : n = nums \o more
  OBVIOUS
<1>8. AreRows(n, "nums")
  BY <1>6, <1>7, BothRows
<1>9. PICK p : p = Assembled(it, s, part, um, drop, nums)
  OBVIOUS
<1>10. DOMAIN p = PlanFields /\ p.strategy = s /\ p.stats = Seeded(t) /\ p.nums = Seeded(n)
  BY <1>1, <1>3, <1>5, <1>7, <1>9 DEF Assembled, PlanFields
<1>11. s # "Unsupported" => Unread(it, s) \subseteq p.notes
  BY <1>9 DEF Assembled
<1>12. /\ AreRows(p.stats, "stats") /\ AsMade(p.stats) /\ About(p.stats) = About(um.stats)
       /\ s # "Map" => Once(p.stats)
  BY <1>4, <1>10, SeededIs
<1>13. AreRows(p.nums, "nums") /\ AsMade(p.nums)
  BY <1>8, <1>10, SeededIs
<1>14. Accounted(it, p)
  <2>1. SUFFICES ASSUME NEW i \in DOMAIN it.mods, s # "Unsupported", ~LeftOut(it, i, s)
                 PROVE  i \in About(p.stats) \/ <<"not searched", i>> \in p.notes
    BY <1>10 DEF Accounted
  <2>2. CASE HasId(it.mods[i])
    BY <1>12, <2>1, <2>2 DEF Named
  <2>3. CASE ~HasId(it.mods[i])
    <3>1. <<"not searched", i>> \in Unread(it, s)
      BY <2>1, <2>3 DEF Unread
    <3> QED
      BY <1>11, <2>1, <3>1
  <2> QED
    BY <2>2, <2>3
<1> QED
  BY <1>9, <1>10, <1>12, <1>13, <1>14 DEF IsPlan

LEMMA ChosenPlanIs ==
  ASSUME NEW it, NEW p, IsPlan(it, p), NEW c PROVE IsPlan(it, SelectChoice(p, c))
<1>1. CASE c \notin DOMAIN p.choices
  BY <1>1 DEF SelectChoice
<1>2. CASE c \in DOMAIN p.choices
  <2>1. PICK s : s = p.stats /\ AreRows(s, "stats") /\ AsMade(s)
    BY DEF IsPlan
  <2>2. PICK t : t = [i \in DOMAIN s |-> IF s[i].choice = None THEN s[i]
                                         ELSE [s[i] EXCEPT !.on = s[i].choice = c /\ s[i].primary]]
    OBVIOUS
  <2>3. PICK w : w = SelectChoice(p, c)
    OBVIOUS
  <2>4. w = [p EXCEPT !.choice = c, !.stats = t]
    BY <1>2, <2>1, <2>2, <2>3 DEF SelectChoice
  <2>5. /\ DOMAIN w = PlanFields /\ w.stats = t /\ w.nums = p.nums /\ w.notes = p.notes /\ w.strategy = p.strategy
    BY <2>4 DEF IsPlan, PlanFields
  <2>6. ASSUME NEW i \in DOMAIN s
        PROVE  IsRow(t[i], "stats") /\ t[i].mods = s[i].mods /\ t[i].smin = t[i].min /\ t[i].smax = t[i].max
    <3>1. PICK f : f = s[i] /\ IsRow(f, "stats") /\ f.smin = f.min /\ f.smax = f.max
      BY <2>1 DEF AreRows, AsMade
    <3>2. PICK on : on = (f.choice = c /\ f.primary)
      OBVIOUS
    <3>3. PICK g : g = [f EXCEPT !.on = on]
      OBVIOUS
    <3>4. t[i] = f \/ t[i] = g
      BY <2>2, <3>1, <3>2, <3>3
    <3>5. IsRow(g, "stats") /\ g.mods = f.mods
      BY <3>1, <3>3, OnIs
    <3>6. g.smin = f.smin /\ g.smax = f.smax /\ g.min = f.min /\ g.max = f.max
      BY <3>1, <3>3 DEF IsRow, StatFields
    <3> QED
      BY <3>1, <3>4, <3>5, <3>6
  <2>7. DOMAIN t = DOMAIN s /\ t = [i \in DOMAIN s |-> t[i]]
    BY <2>2
  <2>8. Reshapes(t, s) /\ AsMade(t)
    BY <2>6, <2>7 DEF Reshapes, AsMade
  <2>9. AreRows(t, "stats") /\ About(t) = About(s) /\ (Once(s) => Once(t))
    BY <2>1, <2>8, Reshaped
  <2> QED
    BY <2>1, <2>3, <2>5, <2>8, <2>9 DEF IsPlan, Accounted
<1> QED
  BY <1>1, <1>2

\* What BuildPlan builds, of any item and under any strategy.
LEMMA BuiltIs ==
  ASSUME NEW it, IsItem(it), NEW gd, IsData(gd), NEW force, NEW rm, IsMatch(rm)
  PROVE  IsPlan(it, BuildPlan(gd, it, force, rm))
<1>1. PICK s : s = StrategyOf(it, force)
  OBVIOUS
<1>2. PICK part : part = PartFor(gd, it, s)
  OBVIOUS
<1>3. /\ IsPart(part) /\ About(part.stats) \subseteq DOMAIN it.mods /\ (s # "Map" => IsApart(part))
  BY <1>2, PartForIs
<1>4. PICK u : u = AllRows(it, s, rm, part)
  OBVIOUS
<1>5. /\ AreRows(u, "stats") /\ About(u) \subseteq DOMAIN it.mods
      /\ s # "Unsupported" => Named(it) \subseteq About(u)
      /\ s # "Map" => Once(u)
  BY <1>3, <1>4, AllRowsAre
<1>6. PICK um : um = RecordApplied(gd, it, s, rm, part)
  OBVIOUS
<1>7. AreRows(um.stats, "stats") /\ About(um.stats) = About(u) /\ (Once(u) => Once(um.stats))
  BY <1>4, <1>5, <1>6, RecordAppliedIs
<1>8. PICK drop : drop = MapDrops(it, s)
  OBVIOUS
<1>9. AreRows(drop.stats, "stats") /\ About(drop.stats) = {} /\ Once(drop.stats)
  <2>1. CASE s = "Map"
    BY <1>8, <2>1, MapPseudoIs DEF MapDrops
  <2>2. CASE s # "Map"
    BY <1>8, <2>2, NoRows, NoneAbout DEF MapDrops
  <2> QED
    BY <2>1, <2>2
<1>10. PICK nums : nums = Numbers(it, s, part) /\ AreRows(nums, "nums")
  BY <1>3, NumbersAre
<1>11. PICK p : p = Assembled(it, s, part, um, drop, nums)
  OBVIOUS
<1>12. IsPlan(it, p)
  BY <1>5, <1>7, <1>9, <1>10, <1>11, AssembledIs
<1>13. BuildPlan(gd, it, force, rm) = SelectChoice(p, 1)
  BY <1>1, <1>2, <1>6, <1>8, <1>10, <1>11 DEF BuildPlan, PlanAs, PlanFrom
<1> QED
  BY <1>12, <1>13, ChosenPlanIs

LEMMA ReadIs ==
  ASSUME NEW t \in Texts, NEW b \in Bundles, NEW u
  PROVE  IsItem(Read(t, b, u)) /\ Read(t, b, u).candidates = Item[t][b].candidates
<1>1. PICK it : it = Item[t][b] /\ IsItem(it)
  BY ItemAssumption
<1>2. PICK g : g = Read(t, b, u)
  OBVIOUS
<1>3. g = it \/ \E c : g = [it EXCEPT !.unique = c]
  BY <1>1, <1>2 DEF Read
<1>4. ASSUME NEW c, g = [it EXCEPT !.unique = c] PROVE IsItem(g) /\ g.candidates = it.candidates
  <2>1. "unique" \in DOMAIN it
    BY <1>1 DEF IsItem
  <2>2. /\ DOMAIN g = DOMAIN it /\ g.mods = it.mods /\ g.areas = it.areas /\ g.effects = it.effects
        /\ g.ilvl = it.ilvl /\ g.gemLevel = it.gemLevel /\ g.mapTier = it.mapTier /\ g.quality = it.quality
        /\ g.sockets = it.sockets /\ g.links = it.links /\ g.prop = it.prop /\ g.derived = it.derived
        /\ g.candidates = it.candidates
    BY <1>4, <2>1
  <2> QED
    BY <1>1, <2>2 DEF IsItem
<1> QED
  BY <1>1, <1>2, <1>3, <1>4

LEMMA PlannedIs ==
  ASSUME NEW t \in Texts, NEW b \in Bundles, NEW s \in Forced, NEW u \in Names
  PROVE  IsPlan(Read(t, b, u), Planned(t, b, s, u))
<1>1. Planned(t, b, s, u) = BuildPlan(GameData[b], Read(t, b, u), s, Match)
  BY DEF Planned, Plans
<1>2. IsMatch(Match) /\ IsData(GameData[b])
  BY MatchAssumption, DataAssumption DEF IsMatch
<1> QED
  BY <1>1, <1>2, ReadIs, BuiltIs

-----------------------------------------------------------------------------
(* What the reader does to the rows.                                       *)

List(p, l) == IF l = "stats" THEN p.stats ELSE p.nums

\* f is the row g, whatever has become of its tick and its interval.
Still(f, g, l) ==
  /\ (IF l = "stats" THEN StatFields ELSE NumFields) \subseteq DOMAIN f
  /\ f.min \in OptInt /\ f.max \in OptInt
  /\ f.smin = g.smin /\ f.smax = g.smax
  /\ l = "stats" => f.id = g.id /\ f.mods = g.mods
  /\ l = "nums" => f.key = g.key

\* p is the plan q, whatever the reader has done to its rows.
Descends(p, q) ==
  /\ DOMAIN p = PlanFields /\ p.strategy = q.strategy /\ p.name = q.name /\ p.type = q.type /\ p.notes = q.notes
  /\ \A l \in Lists : /\ List(p, l) = [r \in DOMAIN List(q, l) |-> List(p, l)[r]]
                      /\ \A r \in DOMAIN List(q, l) : Still(List(p, l)[r], List(q, l)[r], l)

LEMMA FreshPlan ==
  ASSUME NEW it, NEW q, IsPlan(it, q)
  PROVE  /\ Descends(q, q)
         /\ \A l \in Lists : \A r \in DOMAIN List(q, l) :
              ~Crossed(List(q, l)[r]) /\ InOrder(List(q, l)[r].smin, List(q, l)[r].smax)
<1>1. ASSUME NEW l \in Lists
      PROVE  AreRows(List(q, l), l) /\ AsMade(List(q, l))
  BY DEF Lists, List, IsPlan
<1>2. ASSUME NEW l \in Lists, NEW r \in DOMAIN List(q, l)
      PROVE  /\ Still(List(q, l)[r], List(q, l)[r], l) /\ ~Crossed(List(q, l)[r])
             /\ InOrder(List(q, l)[r].smin, List(q, l)[r].smax)
  <2>1. PICK f : f = List(q, l)[r] /\ IsRow(f, l) /\ f.smin = f.min /\ f.smax = f.max
    BY <1>1 DEF AreRows, AsMade
  <2>2. Still(f, f, l)
    BY <2>1 DEF Still, IsRow, InOrder
  <2>3. ~Crossed(f)
    <3>1. f.min # None /\ f.max # None => f.min \in Int /\ f.max \in Int /\ f.min <= f.max
      BY <2>1 DEF IsRow, InOrder, OptInt
    <3> QED
      BY <3>1 DEF Crossed
  <2> QED
    BY <2>1, <2>2, <2>3 DEF IsRow
<1>3. \A l \in Lists : List(q, l) = [r \in DOMAIN List(q, l) |-> List(q, l)[r]]
  BY <1>1 DEF AreRows
<1> QED
  BY <1>2, <1>3 DEF Descends, IsPlan

\* w is p with the row f in that place.
Rewrites(w, p, l, r, f) == w = [p EXCEPT ![l][r] = f]

LEMMA WriteIs ==
  ASSUME NEW p, NEW q, Descends(p, q), NEW l \in Lists, NEW r \in DOMAIN List(q, l), NEW f,
         Still(f, List(q, l)[r], l), NEW w, Rewrites(w, p, l, r, f)
  PROVE  /\ Descends(w, q) /\ List(w, l)[r] = f
         /\ \A k \in Lists : \A j \in DOMAIN List(q, k) : (k # l \/ j # r) => List(w, k)[j] = List(p, k)[j]
<1>1. p[l] = List(p, l) /\ l \in DOMAIN p
  BY DEF Lists, List, Descends, PlanFields
<1>2. PICK s : s = [List(p, l) EXCEPT ![r] = f]
  OBVIOUS
<1>3. w = [p EXCEPT ![l] = s]
  BY <1>1, <1>2 DEF Rewrites
<1>4. /\ DOMAIN w = PlanFields /\ w.strategy = p.strategy /\ w.name = p.name /\ w.type = p.type /\ w.notes = p.notes
      /\ List(w, l) = s /\ \A k \in Lists : k # l => List(w, k) = List(p, k)
  BY <1>1, <1>3 DEF Lists, List, Descends, PlanFields
<1>5. DOMAIN List(p, l) = DOMAIN List(q, l) /\ List(p, l) = [j \in DOMAIN List(q, l) |-> List(p, l)[j]]
  BY DEF Descends
<1>6. /\ s = [j \in DOMAIN List(q, l) |-> s[j]] /\ s[r] = f
      /\ \A j \in DOMAIN List(q, l) : j # r => s[j] = List(p, l)[j]
  BY <1>2, <1>5
<1>7. ASSUME NEW k \in Lists
      PROVE  /\ List(w, k) = [j \in DOMAIN List(q, k) |-> List(w, k)[j]]
             /\ \A j \in DOMAIN List(q, k) : Still(List(w, k)[j], List(q, k)[j], k)
  <2>1. CASE k = l
    BY <1>4, <1>6, <2>1 DEF Descends
  <2>2. CASE k # l
    <3>1. List(w, k) = List(p, k)
      BY <1>4, <2>2
    <3> QED
      BY <3>1 DEF Descends
  <2> QED
    BY <2>1, <2>2
<1>8. Descends(w, q)
  BY <1>4, <1>7 DEF Descends
<1>9. \A k \in Lists : \A j \in DOMAIN List(q, k) : (k # l \/ j # r) => List(w, k)[j] = List(p, k)[j]
  <2>1. ASSUME NEW k \in Lists, NEW j \in DOMAIN List(q, k), k # l \/ j # r PROVE List(w, k)[j] = List(p, k)[j]
    <3>1. CASE k = l
      BY <1>4, <1>6, <2>1, <3>1
    <3>2. CASE k # l
      BY <1>4, <3>2
    <3> QED
      BY <3>1, <3>2
  <2> QED
    BY <2>1
<1> QED
  BY <1>4, <1>6, <1>8, <1>9

\* A tick changes nothing else of a row.
LEMMA TickIs ==
  ASSUME NEW f, NEW g, NEW l \in Lists, Still(f, g, l), NEW on
  PROVE  LET w == [f EXCEPT !.on = on] IN Still(w, g, l) /\ w.min = f.min /\ w.max = f.max
<1>1. PICK w : w = [f EXCEPT !.on = on]
  OBVIOUS
<1>2. /\ DOMAIN w = DOMAIN f /\ w.min = f.min /\ w.max = f.max /\ w.smin = f.smin /\ w.smax = f.smax
      /\ (l = "stats" => w.id = f.id /\ w.mods = f.mods) /\ (l = "nums" => w.key = f.key)
  BY <1>1 DEF Still, StatFields, NumFields, Lists
<1>3. Still(w, g, l)
  BY <1>2 DEF Still
<1> QED
  BY <1>1, <1>2, <1>3

LEMMA ChoiceIs ==
  ASSUME NEW p, NEW q, Descends(p, q), NEW c, NEW w, w = SelectChoice(p, c)
  PROVE  /\ Descends(w, q)
         /\ \A l \in Lists : \A r \in DOMAIN List(q, l) :
              List(w, l)[r].min = List(p, l)[r].min /\ List(w, l)[r].max = List(p, l)[r].max
<1>1. CASE c \notin DOMAIN p.choices
  BY <1>1 DEF SelectChoice
<1>2. CASE c \in DOMAIN p.choices
  <2>1. PICK s : s = p.stats
    OBVIOUS
  <2>2. PICK t : t = [i \in DOMAIN s |-> IF s[i].choice = None THEN s[i]
                                         ELSE [s[i] EXCEPT !.on = s[i].choice = c /\ s[i].primary]]
    OBVIOUS
  <2>3. w = [p EXCEPT !.choice = c, !.stats = t]
    BY <1>2, <2>1, <2>2 DEF SelectChoice
  <2>4. /\ DOMAIN w = PlanFields /\ w.strategy = p.strategy /\ w.name = p.name /\ w.type = p.type
        /\ w.notes = p.notes /\ w.stats = t /\ w.nums = p.nums
    BY <2>3 DEF Descends, PlanFields
  <2>5. /\ "stats" \in Lists /\ List(p, "stats") = s /\ List(w, "stats") = t /\ List(q, "stats") = q.stats
        /\ \A l \in Lists : l # "stats" => List(w, l) = List(p, l)
    BY <2>1, <2>4 DEF Lists, List
  <2>6. DOMAIN s = DOMAIN q.stats /\ \A r \in DOMAIN s : Still(s[r], q.stats[r], "stats")
    BY <2>5 DEF Descends
  <2>7. ASSUME NEW r \in DOMAIN s
        PROVE  Still(t[r], q.stats[r], "stats") /\ t[r].min = s[r].min /\ t[r].max = s[r].max
    <3>1. PICK f : f = s[r] /\ Still(f, q.stats[r], "stats")
      BY <2>6
    <3>2. PICK on : on = (f.choice = c /\ f.primary)
      OBVIOUS
    <3>3. PICK g : g = [f EXCEPT !.on = on]
      OBVIOUS
    <3>4. t[r] = f \/ t[r] = g
      BY <2>2, <3>1, <3>2, <3>3
    <3>5. Still(g, q.stats[r], "stats") /\ g.min = f.min /\ g.max = f.max
      BY <2>5, <3>1, <3>3, TickIs
    <3> QED
      BY <3>1, <3>4, <3>5
  <2>8. DOMAIN t = DOMAIN q.stats /\ t = [r \in DOMAIN q.stats |-> t[r]]
    BY <2>2, <2>6
  <2>9. ASSUME NEW l \in Lists
        PROVE  /\ List(w, l) = [r \in DOMAIN List(q, l) |-> List(w, l)[r]]
               /\ \A r \in DOMAIN List(q, l) :
                    /\ Still(List(w, l)[r], List(q, l)[r], l)
                    /\ List(w, l)[r].min = List(p, l)[r].min /\ List(w, l)[r].max = List(p, l)[r].max
    <3>1. CASE l = "stats"
      BY <2>5, <2>6, <2>7, <2>8, <3>1
    <3>2. CASE l # "stats"
      <4>1. List(w, l) = List(p, l)
        BY <2>5, <3>2
      <4> QED
        BY <4>1 DEF Descends
    <3> QED
      BY <3>1, <3>2
  <2> QED
    BY <2>4, <2>9 DEF Descends
<1> QED
  BY <1>1, <1>2

\* One bound written into a row.
LEMMA BoundsIs ==
  ASSUME NEW f, NEW g, NEW l \in Lists, Still(f, g, l), NEW lo \in OptInt, NEW hi \in OptInt,
         NEW w, (w = [f EXCEPT !.min = lo] /\ hi = f.max) \/ (w = [f EXCEPT !.max = hi] /\ lo = f.min)
  PROVE  Still(w, g, l) /\ w.min = lo /\ w.max = hi
<1> DEFINE Right == /\ DOMAIN w = DOMAIN f /\ w.min = lo /\ w.max = hi /\ w.smin = f.smin /\ w.smax = f.smax
                    /\ (l = "stats" => w.id = f.id /\ w.mods = f.mods) /\ (l = "nums" => w.key = f.key)
<1>1. Right
  <2>1. CASE w = [f EXCEPT !.min = lo] /\ hi = f.max
    BY <2>1 DEF Still, StatFields, NumFields, Lists
  <2>2. CASE w = [f EXCEPT !.max = hi] /\ lo = f.min
    BY <2>2 DEF Still, StatFields, NumFields, Lists
  <2> QED
    BY <2>1, <2>2
<1> QED
  BY <1>1 DEF Still

\* w is f with that interval.
Bounded(w, f, lo, hi) == w = [f EXCEPT !.min = lo, !.max = hi]

LEMMA BothBounds ==
  ASSUME NEW f, NEW g, NEW l \in Lists, Still(f, g, l), NEW lo \in OptInt, NEW hi \in OptInt,
         NEW w, Bounded(w, f, lo, hi)
  PROVE  Still(w, g, l) /\ w.min = lo /\ w.max = hi
<1>1. /\ DOMAIN w = DOMAIN f /\ w.min = lo /\ w.max = hi /\ w.smin = f.smin /\ w.smax = f.smax
      /\ (l = "stats" => w.id = f.id /\ w.mods = f.mods) /\ (l = "nums" => w.key = f.key)
  BY DEF Bounded, Still, StatFields, NumFields, Lists
<1> QED
  BY <1>1 DEF Still

LEMMA OrderedIs ==
  ASSUME NEW f, NEW g, NEW l \in Lists, Still(f, g, l), NEW maxTyped
  PROVE  Still(OrderBounds(f, maxTyped), g, l) /\ ~Crossed(OrderBounds(f, maxTyped))
<1>1. PICK w : w = OrderBounds(f, maxTyped)
  OBVIOUS
<1>2. CASE ~Crossed(f)
  BY <1>2 DEF OrderBounds
<1>3. CASE Crossed(f)
  <2>1. f.min \in Int /\ f.max \in Int
    BY <1>3 DEF Crossed, Still, OptInt
  <2>2. w = [f EXCEPT !.min = f.max] \/ w = [f EXCEPT !.max = f.min]
    BY <1>1, <1>3 DEF OrderBounds
  <2>4. f.min \in OptInt /\ f.max \in OptInt
    BY <2>1 DEF OptInt
  <2>5. Still(w, g, l) /\ w.min = w.max /\ w.min \in Int
    <3>1. /\ DOMAIN w = DOMAIN f /\ w.min = w.max /\ w.min \in {f.min, f.max} /\ w.smin = f.smin /\ w.smax = f.smax
          /\ (l = "stats" => w.id = f.id /\ w.mods = f.mods) /\ (l = "nums" => w.key = f.key)
      <4>1. CASE w = [f EXCEPT !.min = f.max]
        BY <4>1 DEF Still, StatFields, NumFields, Lists
      <4>2. CASE w = [f EXCEPT !.max = f.min]
        BY <4>2 DEF Still, StatFields, NumFields, Lists
      <4> QED
        BY <2>2, <4>1, <4>2
    <3>2. w.min \in OptInt /\ w.max \in OptInt /\ w.min \in Int
      BY <2>1, <2>4, <3>1
    <3> QED
      BY <3>1, <3>2 DEF Still
  <2>6. ~Crossed(w)
    <3>1. \A x \in Int : ~(x > x)
      OBVIOUS
    <3> QED
      BY <2>5, <3>1 DEF Crossed
  <2> QED
    BY <1>1, <2>5, <2>6
<1> QED
  BY <1>2, <1>3

\* Only the row under the editor, its caret in a box, and the rows Escape left may be crossed.
Ordered(p, q, e, b, esc) ==
  \A l \in Lists : \A r \in DOMAIN List(q, l) :
    Crossed(List(p, l)[r]) => (e = [list |-> l, row |-> r] /\ b # None) \/ [list |-> l, row |-> r] \in esc

\* The plan of the item in hand under the choices in force.
OfItem == Planned(text, bundle, override, chosen)
PanelInv ==
  /\ text \in Texts /\ bundle \in Bundles /\ override \in Forced /\ chosen \in Names
  /\ edit # None => \E l \in Lists : \E r \in DOMAIN List(OfItem, l) : edit = [list |-> l, row |-> r]
  /\ box \in {None, "min", "max"} /\ (edit = None => box = None)
  /\ Descends(plan, OfItem) /\ Ordered(plan, OfItem, edit, box, escaped)

LEMMA OfItemIs ==
  ASSUME NEW t \in Texts, NEW b \in Bundles, NEW s \in Forced, NEW u \in Names, NEW q, q = Planned(t, b, s, u)
  PROVE  /\ Descends(q, q) /\ \A e, x, esc : Ordered(q, q, e, x, esc)
         /\ \A l \in Lists : \A r \in DOMAIN List(q, l) : InOrder(List(q, l)[r].smin, List(q, l)[r].smax)
<1>1. IsPlan(Read(t, b, u), q)
  BY PlannedIs
<1> QED
  BY <1>1, FreshPlan DEF Ordered

\* The row under the editor is rewritten; what else is crossed was left so.
LEMMA RewriteIs ==
  ASSUME NEW p, NEW q, Descends(p, q), NEW l \in Lists, NEW r \in DOMAIN List(q, l), NEW f,
         Still(f, List(q, l)[r], l), NEW w, Rewrites(w, p, l, r, f),
         NEW e, e = [list |-> l, row |-> r], NEW b, NEW esc, Ordered(p, q, e, b, esc), NEW e2, NEW b2,
         Crossed(f) => (e2 = e /\ b2 # None) \/ e \in esc
  PROVE  Descends(w, q) /\ Ordered(w, q, e2, b2, esc)
<1>1. /\ Descends(w, q) /\ List(w, l)[r] = f
      /\ \A k \in Lists : \A j \in DOMAIN List(q, k) : (k # l \/ j # r) => List(w, k)[j] = List(p, k)[j]
  BY WriteIs
<1>2. ASSUME NEW k \in Lists, NEW j \in DOMAIN List(q, k), Crossed(List(w, k)[j])
      PROVE  (e2 = [list |-> k, row |-> j] /\ b2 # None) \/ [list |-> k, row |-> j] \in esc
  <2>1. CASE k = l /\ j = r
    BY <1>1, <1>2, <2>1
  <2>2. CASE k # l \/ j # r
    <3>1. e # [list |-> k, row |-> j]
      <4>1. e.list = l /\ e.row = r
        OBVIOUS
      <4> QED
        BY <2>2, <4>1
    <3>2. Crossed(List(p, k)[j])
      BY <1>1, <1>2, <2>2
    <3> QED
      BY <3>1, <3>2 DEF Ordered
  <2> QED
    BY <2>1, <2>2
<1> QED
  BY <1>1, <1>2 DEF Ordered

LEMMA RebuiltKeeps ==
  ASSUME NEW t \in Texts, NEW b \in Bundles, NEW s \in Forced, NEW u \in Names, Rebuilt(t, b, s, u)
  PROVE  PanelInv'
<1>1. PICK q : q = Planned(t, b, s, u)
  OBVIOUS
<1>2. /\ text' = t /\ bundle' = b /\ override' = s /\ chosen' = u /\ plan' = q /\ edit' = None /\ box' = None
      /\ OfItem' = q
  BY <1>1 DEF Rebuilt, OfItem
<1>3. Descends(q, q) /\ \A e, x, esc : Ordered(q, q, e, x, esc)
  BY <1>1, OfItemIs
<1> QED
  BY <1>2, <1>3 DEF PanelInv

\* A step that leaves the item and the choices alone, in the terms of its plan.
LEMMA SamePanel ==
  ASSUME PanelInv, UNCHANGED Panel, NEW q, q = OfItem,
         edit' # None => \E l \in Lists : \E r \in DOMAIN List(q, l) : edit' = [list |-> l, row |-> r],
         box' \in {None, "min", "max"}, edit' = None => box' = None,
         Descends(plan', q), Ordered(plan', q, edit', box', escaped')
  PROVE  PanelInv'
<1>1. text' = text /\ bundle' = bundle /\ override' = override /\ chosen' = chosen
  BY DEF Panel
<1>2. OfItem' = q
  BY <1>1 DEF OfItem
<1> QED
  BY <1>1, <1>2 DEF PanelInv

LEMMA RowsOf == ASSUME NEW l PROVE Rows(l) = List(plan, l)
BY DEF Rows, List

\* The row under the editor, and a step that rewrites it.
LEMMA EditKeeps ==
  ASSUME PanelInv, edit # None, UNCHANGED Panel, escaped' = escaped, NEW f, Write(edit, f),
         \A g : \A l \in Lists : Still(Row, g, l) /\ InOrder(g.smin, g.smax) => Still(f, g, l),
         edit' = edit \/ edit' = None, box' \in {None, "min", "max"}, edit' = None => box' = None,
         Crossed(f) => (edit' = edit /\ box' # None) \/ edit \in escaped
  PROVE  PanelInv'
<1>1. PICK q : q = OfItem
  OBVIOUS
<1>0. PICK l \in Lists : \E r \in DOMAIN List(q, l) : edit = [list |-> l, row |-> r]
  BY <1>1 DEF PanelInv
<1>2. PICK r \in DOMAIN List(q, l) : edit = [list |-> l, row |-> r]
  BY <1>0
<1>3. edit.list = l /\ edit.row = r
  BY <1>2
<1>4. /\ Rewrites(plan', plan, l, r, f) /\ Row = List(plan, l)[r]
      /\ Descends(plan, q) /\ Ordered(plan, q, edit, box, escaped)
  BY <1>1, <1>3, RowsOf DEF PanelInv, Write, Row, Rewrites
<1>5. Still(f, List(q, l)[r], l)
  <2>1. Still(Row, List(q, l)[r], l)
    BY <1>4 DEF Descends
  <2>2. InOrder(List(q, l)[r].smin, List(q, l)[r].smax)
    BY <1>1, OfItemIs DEF PanelInv, OfItem
  <2> QED
    BY <2>1, <2>2
<1>6. Descends(plan', q) /\ Ordered(plan', q, edit', box', escaped)
  BY <1>2, <1>4, <1>5, RewriteIs
<1>7. edit' # None => \E k \in Lists : \E j \in DOMAIN List(q, k) : edit' = [list |-> k, row |-> j]
  BY <1>2
<1> QED
  BY <1>1, <1>6, <1>7, SamePanel

-----------------------------------------------------------------------------
(* The steps. *)

LEMMA InitIs == ASSUME Init PROVE PanelInv
<1>1. None \in Forced /\ None \in Names
  BY DEF Forced, Names
<1>2. PICK q : q = OfItem
  OBVIOUS
<1>3. /\ text \in Texts /\ bundle \in Bundles /\ override = None /\ chosen = None /\ plan = q
      /\ edit = None /\ box = None /\ q = Planned(text, bundle, None, None)
  BY <1>2 DEF Init, OfItem
<1>4. Descends(q, q) /\ Ordered(q, q, edit, box, escaped)
  BY <1>1, <1>3, OfItemIs
<1> QED
  BY <1>1, <1>2, <1>3, <1>4 DEF PanelInv

LEMMA RebuildsKeep ==
  ASSUME PanelInv, Copy \/ SwapBundle \/ SetStrategy \/ SetUnique PROVE PanelInv'
<1>1. None \in Forced /\ None \in Names /\ {"Modifiers", "BaseItem"} \subseteq Forced
  BY DEF Forced, Names
<1>2. text \in Texts /\ bundle \in Bundles /\ override \in Forced /\ chosen \in Names
  BY DEF PanelInv
<1>3. CASE Copy
  <2>1. PICK t \in After[text] : Rebuilt(t, bundle, None, None)
    BY <1>3 DEF Copy
  <2>2. t \in Texts
    BY <1>2, <2>1, InputAssumption
  <2> QED
    BY <1>1, <1>2, <2>1, <2>2, RebuiltKeeps
<1>4. CASE SwapBundle
  <2>1. PICK b \in Bundles : Rebuilt(text, b, override, chosen)
    BY <1>4 DEF SwapBundle
  <2> QED
    BY <1>2, <2>1, RebuiltKeeps
<1>5. CASE SetStrategy
  <2>1. PICK s \in {"Modifiers", "BaseItem"} : Rebuilt(text, bundle, s, chosen)
    BY <1>5 DEF SetStrategy
  <2> QED
    BY <1>1, <1>2, <2>1, RebuiltKeeps
<1>6. CASE SetUnique
  <2>1. PICK u \in {c.name : c \in Hand.candidates} \cup {None} : Rebuilt(text, bundle, override, u)
    BY <1>6 DEF SetUnique
  <2>2. Hand.candidates = Item[text][bundle].candidates
    BY <1>2, ReadIs DEF Hand
  <2>3. u \in Names
    <3>1. \A c \in Item[text][bundle].candidates : c.name \in Names
      BY <1>2 DEF Names
    <3> QED
      BY <1>1, <2>1, <2>2, <3>1
  <2> QED
    BY <1>2, <2>1, <2>3, RebuiltKeeps
<1> QED
  BY <1>3, <1>4, <1>5, <1>6

LEMMA TickRowKeeps == ASSUME PanelInv, TickRow PROVE PanelInv'
<1>1. PICK q : q = OfItem
  OBVIOUS
<1>2. /\ UNCHANGED Panel /\ edit = None /\ edit' = edit /\ box' = None /\ escaped' = escaped
      /\ Descends(plan, q) /\ Ordered(plan, q, edit, None, escaped)
  BY <1>1 DEF TickRow, Editor, PanelInv
<1>3. CASE \E l \in Lists : \E r \in DOMAIN Rows(l) : Drawn(l, r) /\ plan' = [plan EXCEPT ![l][r].on = ~@]
  <2>1. PICK l \in Lists : \E r \in DOMAIN Rows(l) : plan' = [plan EXCEPT ![l][r].on = ~@]
    BY <1>3
  <2>2. PICK r \in DOMAIN Rows(l) : plan' = [plan EXCEPT ![l][r].on = ~@]
    BY <2>1
  <2>3. r \in DOMAIN List(q, l)
    BY <1>2, RowsOf DEF Descends
  <2>4. plan[l] = List(plan, l)
    BY <1>2 DEF Lists, List, Descends, PlanFields
  <2>5. PICK f : f = [List(plan, l)[r] EXCEPT !.on = ~@]
    OBVIOUS
  <2>6. Rewrites(plan', plan, l, r, f)
    BY <2>2, <2>4, <2>5 DEF Rewrites
  <2>7. PICK on : f = [List(plan, l)[r] EXCEPT !.on = on]
    BY <2>5
  <2>8. Still(f, List(q, l)[r], l) /\ f.min = List(plan, l)[r].min /\ f.max = List(plan, l)[r].max
    <3>1. Still(List(plan, l)[r], List(q, l)[r], l)
      BY <1>2, <2>3 DEF Descends
    <3> QED
      BY <2>7, <3>1, TickIs
  <2>9. /\ Descends(plan', q) /\ List(plan', l)[r] = f
        /\ \A k \in Lists : \A j \in DOMAIN List(q, k) :
             (k # l \/ j # r) => List(plan', k)[j] = List(plan, k)[j]
    BY <1>2, <2>3, <2>6, <2>8, WriteIs
  <2>10. ASSUME NEW k \in Lists, NEW j \in DOMAIN List(q, k), Crossed(List(plan', k)[j])
         PROVE  [list |-> k, row |-> j] \in escaped
    <3>1. CASE k = l /\ j = r
      BY <1>2, <2>3, <2>8, <2>9, <2>10, <3>1 DEF Ordered, Crossed
    <3>2. CASE k # l \/ j # r
      BY <1>2, <2>9, <2>10, <3>2 DEF Ordered
    <3> QED
      BY <3>1, <3>2
  <2>11. Ordered(plan', q, edit', box', escaped')
    BY <1>2, <2>10 DEF Ordered
  <2> QED
    BY <1>1, <1>2, <2>9, <2>11, SamePanel
<1>4. CASE \E o \in DOMAIN plan.opts : plan.opts[o].shown /\ plan' = [plan EXCEPT !.opts[o].on = ~@]
  <2>1. PICK o : plan' = [plan EXCEPT !.opts = o]
    BY <1>4
  <2>2. /\ DOMAIN plan' = PlanFields /\ plan'.strategy = plan.strategy /\ plan'.name = plan.name
        /\ plan'.type = plan.type /\ plan'.notes = plan.notes
        /\ plan'.stats = plan.stats /\ plan'.nums = plan.nums
    BY <1>2, <2>1 DEF Descends, PlanFields
  <2>3. \A l \in Lists : List(plan', l) = List(plan, l)
    BY <2>2 DEF List
  <2>4. Descends(plan', q) /\ Ordered(plan', q, edit', box', escaped')
    BY <1>2, <2>2, <2>3 DEF Descends, Ordered
  <2> QED
    BY <1>1, <1>2, <2>4, SamePanel
<1> QED
  BY <1>3, <1>4 DEF TickRow

LEMMA ChooseKeeps == ASSUME PanelInv, Choose PROVE PanelInv'
<1>1. PICK q : q = OfItem
  OBVIOUS
<1>2. /\ UNCHANGED Panel /\ edit = None /\ edit' = edit /\ box' = None /\ escaped' = escaped
      /\ Descends(plan, q) /\ Ordered(plan, q, edit, None, escaped)
  BY <1>1 DEF Choose, Editor, PanelInv
<1>3. PICK c : plan' = SelectChoice(plan, c)
  BY DEF Choose
<1>4. /\ Descends(plan', q)
      /\ \A l \in Lists : \A r \in DOMAIN List(q, l) :
           List(plan', l)[r].min = List(plan, l)[r].min /\ List(plan', l)[r].max = List(plan, l)[r].max
  BY <1>2, <1>3, ChoiceIs
<1>5. Ordered(plan', q, edit', box', escaped')
  BY <1>2, <1>4 DEF Ordered, Crossed
<1> QED
  BY <1>1, <1>2, <1>4, <1>5, SamePanel

LEMMA LookKeeps == ASSUME PanelInv, ToggleHidden \/ OpenEditor \/ Escape PROVE PanelInv'
<1>1. PICK q : q = OfItem
  OBVIOUS
<1>2. Descends(plan, q) /\ Ordered(plan, q, edit, box, escaped)
  BY <1>1 DEF PanelInv
<1>3. CASE ToggleHidden
  <2>1. UNCHANGED <<Panel, Editor, plan, escaped>>
    BY <1>3 DEF ToggleHidden
  <2>2. edit' = edit /\ box' = box /\ plan' = plan /\ escaped' = escaped /\ UNCHANGED Panel
    BY <2>1 DEF Editor
  <2> QED
    BY <1>1, <1>2, <2>2, SamePanel DEF PanelInv
<1>4. CASE OpenEditor
  <2>1. edit = None /\ box = None /\ box' = None /\ UNCHANGED Panel /\ plan' = plan /\ escaped' = escaped
    BY <1>4 DEF OpenEditor, PanelInv
  <2>2. \E l \in Lists : \E r \in DOMAIN Rows(l) : edit' = [list |-> l, row |-> r]
    BY <1>4 DEF OpenEditor
  <2>3. \E l \in Lists : \E r \in DOMAIN List(q, l) : edit' = [list |-> l, row |-> r]
    BY <1>2, <2>2, RowsOf DEF Descends
  <2>4. Ordered(plan', q, edit', box', escaped')
    BY <1>2, <2>1 DEF Ordered
  <2> QED
    BY <1>1, <1>2, <2>1, <2>3, <2>4, SamePanel
<1>5. CASE Escape
  <2>1. edit' = None /\ box' = None /\ UNCHANGED Panel /\ plan' = plan /\ escaped' = escaped \cup {edit}
    BY <1>5 DEF Escape, CloseEditor
  <2>2. Ordered(plan', q, edit', box', escaped')
    BY <1>2, <2>1 DEF Ordered
  <2> QED
    BY <1>1, <1>2, <2>1, <2>2, SamePanel
<1> QED
  BY <1>3, <1>4, <1>5

\* The row under the editor is still one the plan was made with.
LEMMA RowStill == 
  ASSUME PanelInv, edit # None
  PROVE  \E g : \E l \in Lists : Still(Row, g, l) /\ InOrder(g.smin, g.smax)
<1>1. PICK q : q = OfItem
  OBVIOUS
<1>2. PICK l \in Lists : \E r \in DOMAIN List(q, l) : edit = [list |-> l, row |-> r]
  BY <1>1 DEF PanelInv
<1>3. PICK r \in DOMAIN List(q, l) : edit = [list |-> l, row |-> r]
  BY <1>2
<1>4. edit.list = l /\ edit.row = r
  BY <1>3
<1>5. Row = List(plan, l)[r] /\ Descends(plan, q)
  BY <1>1, <1>4, RowsOf DEF PanelInv, Row
<1>6. InOrder(List(q, l)[r].smin, List(q, l)[r].smax)
  BY <1>1, OfItemIs DEF PanelInv, OfItem
<1> QED
  BY <1>5, <1>6 DEF Descends

LEMMA TypeKeeps == ASSUME PanelInv, Type PROVE PanelInv'
<1>1. PICK b \in {"min", "max"}, v \in Typable \cup {None} :
        Write(edit, [Row EXCEPT ![b] = v]) /\ box' = b
  BY DEF Type
<1>2. UNCHANGED Panel /\ edit # None /\ edit' = edit /\ escaped' = escaped
  BY DEF Type
<1>3. v \in OptInt /\ b # None
  BY InputAssumption, NoneAssumption DEF OptInt
<1>4. PICK f : f = [Row EXCEPT ![b] = v]
  OBVIOUS
<1>5. ASSUME NEW g, NEW l \in Lists, Still(Row, g, l) PROVE Still(f, g, l)
  <2>0. Row.min \in OptInt /\ Row.max \in OptInt
    BY <1>5 DEF Still
  <2>1. CASE b = "min"
    <3>1. f = [Row EXCEPT !.min = v]
      BY <1>4, <2>1
    <3> QED
      BY <1>3, <1>5, <2>0, <3>1, BoundsIs
  <2>2. CASE b = "max"
    <3>1. f = [Row EXCEPT !.max = v]
      BY <1>4, <2>2
    <3> QED
      BY <1>3, <1>5, <2>0, <3>1, BoundsIs
  <2> QED
    BY <2>1, <2>2
<1> QED
  BY <1>1, <1>2, <1>3, <1>4, <1>5, EditKeeps

LEMMA DragKeeps == ASSUME PanelInv, Drag PROVE PanelInv'
<1>1. UNCHANGED Panel /\ edit # None /\ edit' = edit /\ escaped' = escaped /\ box' = None
  BY DEF Drag
<1>2. PICK v \in Typable :
        \/ Write(edit, [Row EXCEPT !.min = v, !.max = IF @ # None /\ @ < v THEN v ELSE @])
        \/ Write(edit, [Row EXCEPT !.max = v, !.min = IF @ # None /\ @ > v THEN v ELSE @])
  BY DEF Drag
<1>3. v \in Int /\ v \in OptInt
  BY InputAssumption DEF OptInt
<1>4. PICK g0 : \E l \in Lists : Still(Row, g0, l) /\ InOrder(g0.smin, g0.smax)
  BY <1>1, RowStill
<1>5. CASE Write(edit, [Row EXCEPT !.min = v, !.max = IF @ # None /\ @ < v THEN v ELSE @])
  <2>1. PICK hi : hi = IF Row.max # None /\ Row.max < v THEN v ELSE Row.max
    OBVIOUS
  <2>2. PICK f : f = [Row EXCEPT !.min = v, !.max = hi]
    OBVIOUS
  <2>3. Write(edit, f)
    BY <1>5, <2>1, <2>2 DEF Write
  <2>4. ASSUME NEW g, NEW l \in Lists, Still(Row, g, l) PROVE Still(f, g, l) /\ ~Crossed(f)
    <3>1. Row.max \in OptInt
      BY <2>4 DEF Still
    <3>2. hi \in OptInt /\ (hi # None => hi \in Int /\ v <= hi)
      BY <1>3, <2>1, <3>1 DEF OptInt
    <3>3. Still(f, g, l) /\ f.min = v /\ f.max = hi
      <4>1. Bounded(f, Row, v, hi)
        BY <2>2 DEF Bounded
      <4> QED
        BY <1>3, <2>4, <3>2, <4>1, BothBounds
    <3>4. ~Crossed(f)
      BY <1>3, <3>2, <3>3 DEF Crossed
    <3> QED
      BY <3>3, <3>4
  <2> QED
    BY <1>1, <1>4, <2>3, <2>4, EditKeeps
<1>6. CASE Write(edit, [Row EXCEPT !.max = v, !.min = IF @ # None /\ @ > v THEN v ELSE @])
  <2>1. PICK lo : lo = IF Row.min # None /\ Row.min > v THEN v ELSE Row.min
    OBVIOUS
  <2>2. PICK f : f = [Row EXCEPT !.max = v, !.min = lo]
    OBVIOUS
  <2>3. Write(edit, f)
    BY <1>6, <2>1, <2>2 DEF Write
  <2>5. f = [Row EXCEPT !.min = lo, !.max = v]
    BY <2>2
  <2>4. ASSUME NEW g, NEW l \in Lists, Still(Row, g, l) PROVE Still(f, g, l) /\ ~Crossed(f)
    <3>1. Row.min \in OptInt
      BY <2>4 DEF Still
    <3>2. lo \in OptInt /\ (lo # None => lo \in Int /\ lo <= v)
      BY <1>3, <2>1, <3>1 DEF OptInt
    <3>3. Still(f, g, l) /\ f.min = lo /\ f.max = v
      <4>1. Bounded(f, Row, lo, v)
        BY <2>5 DEF Bounded
      <4> QED
        BY <1>3, <2>4, <3>2, <4>1, BothBounds
    <3>4. ~Crossed(f)
      BY <1>3, <3>2, <3>3 DEF Crossed
    <3> QED
      BY <3>3, <3>4
  <2> QED
    BY <1>1, <1>4, <2>3, <2>4, EditKeeps
<1> QED
  BY <1>2, <1>5, <1>6

LEMMA ResetKeeps == ASSUME PanelInv, Reset PROVE PanelInv'
<1>1. UNCHANGED Panel /\ edit # None /\ edit' = edit /\ escaped' = escaped /\ box' = box
  BY DEF Reset, Editor
<1>2. PICK f : f = [Row EXCEPT !.min = Row.smin, !.max = Row.smax]
  OBVIOUS
<1>3. Write(edit, f)
  BY <1>2 DEF Reset
<1>4. ASSUME NEW g, NEW l \in Lists, Still(Row, g, l), InOrder(g.smin, g.smax) PROVE Still(f, g, l) /\ ~Crossed(f)
  <2>1. Row.smin = g.smin /\ Row.smax = g.smax
    BY <1>4 DEF Still
  <2>2. f = [Row EXCEPT !.min = g.smin, !.max = g.smax] /\ g.smin \in OptInt /\ g.smax \in OptInt
    BY <1>2, <1>4, <2>1 DEF InOrder
  <2>3. Still(f, g, l) /\ f.min = g.smin /\ f.max = g.smax
    <3>1. Bounded(f, Row, g.smin, g.smax)
      BY <2>2 DEF Bounded
    <3> QED
      BY <1>4, <2>2, <3>1, BothBounds
  <2>4. ~Crossed(f)
    <3>1. g.smin # None /\ g.smax # None => g.smin \in Int /\ g.smax \in Int /\ g.smin <= g.smax
      BY <1>4 DEF InOrder, OptInt
    <3> QED
      BY <2>3, <3>1 DEF Crossed
  <2> QED
    BY <2>3, <2>4
<1>5. ~Crossed(f)
  BY <1>1, <1>4, RowStill
<1>6. box' \in {None, "min", "max"}
  BY <1>1 DEF PanelInv
<1> QED
  BY <1>1, <1>3, <1>4, <1>5, <1>6, EditKeeps

\* Leaving the box, confirming and pressing away all leave the row in order.
LEMMA LeaveKeeps == ASSUME PanelInv, LeaveBox \/ Confirm \/ ClickAway PROVE PanelInv'
<1>1. edit # None /\ UNCHANGED Panel /\ escaped' = escaped /\ box' = None /\ (edit' = edit \/ edit' = None)
  BY DEF LeaveBox, Confirm, ClickAway, CloseEditor
<1>2. ASSUME NEW m, Write(edit, OrderBounds(Row, m)) PROVE PanelInv'
  <2>1. PICK f : f = OrderBounds(Row, m)
    OBVIOUS
  <2>2. ASSUME NEW g, NEW l \in Lists, Still(Row, g, l) PROVE Still(f, g, l) /\ ~Crossed(f)
    BY <2>1, <2>2, OrderedIs
  <2>3. ~Crossed(f)
    BY <1>1, <2>2, RowStill
  <2> QED
    BY <1>1, <1>2, <2>1, <2>2, <2>3, EditKeeps
<1>3. CASE Confirm /\ box = None
  <2>1. Write(edit, Row)
    BY <1>3 DEF Confirm
  <2>2. Crossed(Row) => edit \in escaped
    <3>1. PICK q : q = OfItem
      OBVIOUS
    <3>2. PICK l \in Lists : \E r \in DOMAIN List(q, l) : edit = [list |-> l, row |-> r]
      BY <1>1, <3>1 DEF PanelInv
    <3>3. PICK r \in DOMAIN List(q, l) : edit = [list |-> l, row |-> r]
      BY <3>2
    <3>4. edit.list = l /\ edit.row = r
      BY <3>3
    <3>5. Row = List(plan, l)[r] /\ Ordered(plan, q, edit, box, escaped)
      BY <3>1, <3>4, RowsOf DEF PanelInv, Row
    <3> QED
      BY <1>3, <3>3, <3>5 DEF Ordered
  <2> QED
    BY <1>1, <2>1, <2>2, EditKeeps
<1>4. CASE Confirm /\ box # None
  BY <1>2, <1>4 DEF Confirm
<1>5. CASE ClickAway
  BY <1>2, <1>5 DEF ClickAway
<1>6. CASE LeaveBox
  BY <1>2, <1>6 DEF LeaveBox
<1> QED
  BY <1>3, <1>4, <1>5, <1>6

\* The invariant of the filter list: whatever has been ticked, typed, chosen or
\* swapped, the rows on screen descend from the plan of the item in hand under
\* the choices in force, and only the row under the editor with the caret in a
\* box, or one Escape left, can be crossed.
THEOREM PanelKept == Spec => []PanelInv
<1>1. Init => PanelInv
  BY InitIs
<1>2. PanelInv /\ [Next]_vars => PanelInv'
  <2>1. SUFFICES ASSUME PanelInv, [Next]_vars PROVE PanelInv'
    OBVIOUS
  <2>2. CASE Copy \/ SwapBundle \/ SetStrategy \/ SetUnique
    BY <2>1, <2>2, RebuildsKeep
  <2>3. CASE TickRow
    BY <2>1, <2>3, TickRowKeeps
  <2>4. CASE Choose
    BY <2>1, <2>4, ChooseKeeps
  <2>5. CASE ToggleHidden \/ OpenEditor \/ Escape
    BY <2>1, <2>5, LookKeeps
  <2>6. CASE Type
    BY <2>1, <2>6, TypeKeeps
  <2>7. CASE Drag
    BY <2>1, <2>7, DragKeeps
  <2>8. CASE Reset
    BY <2>1, <2>8, ResetKeeps
  <2>9. CASE LeaveBox \/ Confirm \/ ClickAway
    BY <2>1, <2>9, LeaveKeeps
  <2>10. CASE UNCHANGED vars
    <3>1. UNCHANGED <<text, bundle, override, chosen, plan, edit, box, escaped>>
      BY <2>10 DEF vars
    <3>2. OfItem' = OfItem
      BY <3>1 DEF OfItem
    <3> QED
      BY <2>1, <3>1, <3>2 DEF PanelInv
  <2> QED
    BY <2>1, <2>2, <2>3, <2>4, <2>5, <2>6, <2>7, <2>8, <2>9, <2>10 DEF Next
<1> QED
  BY <1>1, <1>2, PTL DEF Spec

\* The plan's strategy, name, type and rows are always those of the item in
\* hand, read with the bundle, the strategy and the unique now in force: no
\* handler leaves rows of another item or another bundle behind.
THEOREM PlanStaysOfItem == Spec => []PlanIsOfItem
<1>1. PanelInv => PlanIsOfItem
  <2>1. SUFFICES ASSUME PanelInv PROVE PlanIsOfItem
    OBVIOUS
  <2>2. PICK q : q = OfItem /\ Descends(plan, q)
    BY <2>1 DEF PanelInv
  <2>3. /\ DOMAIN plan.stats = DOMAIN q.stats
        /\ \A i \in DOMAIN q.stats : /\ plan.stats[i].id = q.stats[i].id
                                     /\ plan.stats[i].smin = q.stats[i].smin
                                     /\ plan.stats[i].smax = q.stats[i].smax
    <3>1. "stats" \in Lists /\ List(plan, "stats") = plan.stats /\ List(q, "stats") = q.stats
      BY DEF Lists, List
    <3> QED
      BY <2>2, <3>1 DEF Descends, Still
  <2>4. /\ DOMAIN plan.nums = DOMAIN q.nums
        /\ \A i \in DOMAIN q.nums : /\ plan.nums[i].key = q.nums[i].key
                                    /\ plan.nums[i].smin = q.nums[i].smin
                                    /\ plan.nums[i].smax = q.nums[i].smax
    <3>1. "nums" \in Lists /\ List(plan, "nums") = plan.nums /\ List(q, "nums") = q.nums
      BY DEF Lists, List
    <3> QED
      BY <2>2, <3>1 DEF Descends, Still
  <2>5. /\ [i \in DOMAIN plan.stats |-> <<plan.stats[i].id, plan.stats[i].smin, plan.stats[i].smax>>]
           = [i \in DOMAIN q.stats |-> <<q.stats[i].id, q.stats[i].smin, q.stats[i].smax>>]
        /\ [i \in DOMAIN plan.nums |-> <<plan.nums[i].key, plan.nums[i].smin, plan.nums[i].smax>>]
           = [i \in DOMAIN q.nums |-> <<q.nums[i].key, q.nums[i].smin, q.nums[i].smax>>]
    BY <2>3, <2>4
  <2>6. plan.strategy = q.strategy /\ plan.name = q.name /\ plan.type = q.type
    BY <2>2 DEF Descends
  <2>7. Shape(plan) = Shape(q)
    BY <2>5, <2>6 DEF Shape
  <2> QED
    BY <2>2, <2>7 DEF PlanIsOfItem, OfItem
<1> QED
  BY <1>1, PanelKept, PTL

\* An interval is crossed only while its box still holds the caret, or where
\* Escape closed the editor on it: every other way out of the range editor puts
\* the two bounds in order before the search can read them.
THEOREM OnlyEscapeLeavesCrossed == Spec => []CrossedOnlyByEscape
<1>1. PanelInv => CrossedOnlyByEscape
  <2>1. SUFFICES ASSUME PanelInv PROVE CrossedOnlyByEscape
    OBVIOUS
  <2>2. PICK q : q = OfItem /\ Descends(plan, q) /\ Ordered(plan, q, edit, box, escaped)
    BY <2>1 DEF PanelInv
  <2>3. \A l \in Lists : DOMAIN Rows(l) = DOMAIN List(q, l) /\ Rows(l) = List(plan, l)
    BY <2>2, RowsOf DEF Descends
  <2> QED
    BY <2>2, <2>3 DEF Ordered, CrossedOnlyByEscape
<1> QED
  BY <1>1, PanelKept, PTL

\* Every modifier of the item in hand is in a row, is named in a note, or is
\* one the strategy is not about; and outside maps no two rows carry the same
\* one, so no search asks for it twice.
THEOREM EveryModifierAccounted == Spec => []NothingSilentlyDropped
<1>1. PanelInv => NothingSilentlyDropped
  <2>1. SUFFICES ASSUME PanelInv PROVE NothingSilentlyDropped
    OBVIOUS
  <2>2. PICK q : q = OfItem /\ Descends(plan, q) /\ IsPlan(Hand, q)
    BY <2>1, PlannedIs DEF PanelInv, OfItem, Hand
  <2>3. /\ DOMAIN plan.stats = DOMAIN q.stats /\ \A r \in DOMAIN q.stats : plan.stats[r].mods = q.stats[r].mods
        /\ plan.strategy = q.strategy /\ plan.notes = q.notes
    <3>1. "stats" \in Lists /\ List(plan, "stats") = plan.stats /\ List(q, "stats") = q.stats
      BY DEF Lists, List
    <3> QED
      BY <2>2, <3>1 DEF Descends, Still
  <2>4. ASSUME NEW i \in DOMAIN Hand.mods, NEW carriers,
               carriers = {r \in DOMAIN plan.stats : i \in Range(plan.stats[r].mods)}
        PROVE  /\ \/ carriers # {} \/ <<"not searched", i>> \in plan.notes
                  \/ plan.strategy = "Unsupported" \/ LeftOut(Hand, i, plan.strategy)
               /\ plan.strategy # "Map" => Cardinality(carriers) <= 1
    <3>1. carriers = {r \in DOMAIN q.stats : i \in Range(q.stats[r].mods)}
      BY <2>3, <2>4
    <3>2. i \in About(q.stats) => carriers # {}
      BY <3>1 DEF About
    <3>3. \/ i \in About(q.stats) \/ <<"not searched", i>> \in q.notes
          \/ q.strategy = "Unsupported" \/ LeftOut(Hand, i, q.strategy)
      BY <2>2 DEF IsPlan, Accounted
    <3>4. ASSUME q.strategy # "Map" PROVE Cardinality(carriers) <= 1
      <4>1. Once(q.stats)
        BY <2>2, <3>4 DEF IsPlan
      <4>2. \A r, s \in carriers : r = s
        BY <3>1, <4>1 DEF Once
      <4>3. carriers = {} \/ \E r : carriers = {r}
        BY <4>2
      <4>4. CASE carriers = {}
        <5>1. Cardinality(carriers) = 0
          BY <4>4, FS_EmptySet
        <5> QED
          BY <5>1
      <4>5. CASE \E r : carriers = {r}
        <5>1. PICK r : carriers = {r}
          BY <4>5
        <5>2. Cardinality(carriers) = 1
          BY <5>1, FS_Singleton
        <5> QED
          BY <5>2
      <4> QED
        BY <4>3, <4>4, <4>5
    <3> QED
      BY <2>3, <3>2, <3>3, <3>4
  <2> QED
    BY <2>4 DEF NothingSilentlyDropped
<1> QED
  BY <1>1, PanelKept, PTL

-----------------------------------------------------------------------------
(* What is asked of a modifier's own roll.                                 *)

\* A row whose interval holds the number.
Holds(f, v) ==
  /\ IsRow(f, "stats")
  /\ f.min # None => f.min <= v
  /\ f.max # None => f.max >= v

LEMMA SeedsHold ==
  ASSUME NEW rm, IsMatch(rm), NEW v \in Int, NEW lo \in OptInt, NEW hi \in OptInt, NEW lower,
         NEW b, b = SeedBounds(rm, v, lo, hi, lower)
  PROVE  (b.min # None => b.min <= v) /\ (b.max # None => b.max >= v)
<1>1. PICK below : below = IF lower THEN rm.max ELSE rm.min
  OBVIOUS
<1>2. PICK above : above = IF lower THEN rm.min ELSE rm.max
  OBVIOUS
<1>3. below.pct \in Nat /\ above.pct \in Nat
  BY <1>1, <1>2 DEF IsMatch
<1>4. b.min = Bound(below, v, lo, FALSE) /\ b.max = Bound(above, v, hi, TRUE)
  BY <1>1, <1>2 DEF SeedBounds
<1> QED
  BY <1>3, <1>4, BoundIs

LEMMA RowHolds ==
  ASSUME NEW it, NEW i \in Nat, NEW m, NEW r, NEW s, NEW ranges, NEW rm, IsMatch(rm),
         r.value \in Int, r.min \in OptInt, r.max \in OptInt
  PROVE  /\ Holds(RowOf(it, i, m, r, s, ranges, rm), r.value)
         /\ RowOf(it, i, m, r, s, ranges, rm).mods = <<i>>
<1>1. PICK b : b = IF r.value = None \/ Fixed(m, r, s, ranges) THEN Unbounded
                   ELSE SeedBounds(rm, r.value, r.min, r.max, LowerIsBetter(m, r.value))
  OBVIOUS
<1>2. (b.min # None => b.min <= r.value) /\ (b.max # None => b.max >= r.value)
  <2>1. CASE r.value = None \/ Fixed(m, r, s, ranges)
    BY <1>1, <2>1 DEF Unbounded
  <2>2. CASE ~(r.value = None \/ Fixed(m, r, s, ranges))
    BY <1>1, <2>2, SeedsHold
  <2> QED
    BY <2>1, <2>2
<1>3. PICK f : f = SeededFilter(m, r, b)
  OBVIOUS
<1>4. DOMAIN f = StatFields /\ f.min = b.min /\ f.max = b.max
  BY <1>3, Stat0Is DEF SeededFilter, StatFields
<1>5. PICK g : g = [f EXCEPT !.mods = <<i>>, !.on = TickedFor(it, m, r, s)]
  OBVIOUS
<1>6. g.min = b.min /\ g.max = b.max
  BY <1>4, <1>5 DEF StatFields
<1>7. g = RowOf(it, i, m, r, s, ranges, rm)
  BY <1>1, <1>3, <1>5 DEF RowOf
<1>8. r.value \in OptInt
  BY DEF OptInt
<1>9. IsRow(g, "stats") /\ g.mods = <<i>>
  BY <1>7, <1>8, RowIs
<1> QED
  BY <1>2, <1>6, <1>7, <1>9 DEF Holds

LEMMA PlacedHolds ==
  ASSUME NEW it, NEW i, NEW s, NEW v \in Int, NEW f, Holds(f, v)
  PROVE  Holds(Placed(it, i, s, f, v), v) /\ Placed(it, i, s, f, v).mods = f.mods
<1>1. PICK g : g = Placed(it, i, s, f, v)
  OBVIOUS
<1>2. IsRow(g, "stats") /\ g.mods = f.mods
  BY <1>1, PlacedIs DEF Holds, OptInt
<1>3. CASE LeftOut(it, i, s)
  <2>1. g = [f EXCEPT !.hidden = TRUE, !.on = FALSE]
    BY <1>1, <1>3 DEF Placed
  <2>2. g.min = f.min /\ g.max = f.max
    BY <2>1 DEF Holds, IsRow, StatFields
  <2> QED
    BY <1>1, <1>2, <2>2 DEF Holds
<1>4. CASE ~LeftOut(it, i, s) /\ s # "Ultimatum"
  BY <1>4 DEF Placed
<1>5. CASE ~LeftOut(it, i, s) /\ s = "Ultimatum"
  <2>1. g = [f EXCEPT !.min = IF v = None THEN @ ELSE v, !.max = IF v = None THEN @ ELSE v,
                      !.tiered = FALSE, !.on = TRUE]
    BY <1>1, <1>5 DEF Placed
  <2>2. g.min \in {f.min, v} /\ g.max \in {f.max, v}
    BY <2>1 DEF Holds, IsRow, StatFields
  <2> QED
    BY <1>1, <1>2, <2>2 DEF Holds
<1> QED
  BY <1>3, <1>4, <1>5

LEMMA RecordedHolds ==
  ASSUME NEW v \in Int, NEW f, Holds(f, v), NEW m, NEW r, r.min \in OptInt, r.max \in OptInt,
         NEW pooled, NEW rm, IsMatch(rm)
  PROVE  Holds(Recorded(f, m, v, r, pooled, rm), v)
<1> DEFINE rolls == r.min # None /\ r.min # r.max
           seeded == rolls /\ v # None /\ f.min = None /\ f.max = None
           untiered == f.rmin = None /\ f.rmax = None
<1>1. PICK b : b = IF seeded THEN SeedBounds(rm, v, r.min, r.max, LowerIsBetter(m, v)) ELSE f
  OBVIOUS
<1>2. (b.min # None => b.min <= v) /\ (b.max # None => b.max >= v)
  <2>1. CASE seeded
    BY <1>1, <2>1, SeedsHold
  <2>2. CASE ~seeded
    BY <1>1, <2>2 DEF Holds
  <2> QED
    BY <2>1, <2>2
<1>3. PICK g : g = Recorded(f, m, v, r, pooled, rm)
  OBVIOUS
<1>4. g = [f EXCEPT !.rmin = IF untiered THEN r.min ELSE @, !.rmax = IF untiered THEN r.max ELSE @,
                    !.pooled = pooled, !.on = @ \/ pooled \/ rolls,
                    !.min = b.min, !.max = b.max, !.tiered = @ \/ seeded]
  BY <1>1, <1>3 DEF Recorded
<1>5. g.min = b.min /\ g.max = b.max
  BY <1>4 DEF Holds, IsRow, StatFields
<1>6. IsRow(g, "stats")
  BY <1>3, RecordedIs DEF Holds, OptInt
<1> QED
  BY <1>2, <1>3, <1>5, <1>6 DEF Holds

LEMMA RecordHolds ==
  ASSUME NEW it, IsItem(it), NEW i \in DOMAIN it.mods, NEW v \in Int, v = RollFor(it.mods[i]).value,
         NEW entry, IsEntry(entry), NEW rm, IsMatch(rm), NEW f, Holds(f, v), f.mods = <<i>>
  PROVE  Holds(WithRecord(it, entry, rm, f), v)
<1>1. f.mods # <<>> /\ f.mods[1] = i /\ IsRow(f, "stats")
  BY DEF Holds
<1>2. CASE f.id \notin DOMAIN entry
  <2>1. PICK g : g = [f EXCEPT !.caveat = ~f.on /\ ~AddedToCopy(f.type)]
    OBVIOUS
  <2>2. /\ DOMAIN g = DOMAIN f
        /\ g.min = f.min /\ g.max = f.max /\ g.rmin = f.rmin /\ g.rmax = f.rmax /\ g.mods = f.mods
    BY <1>1, <2>1 DEF IsRow, StatFields
  <2>3. g = WithRecord(it, entry, rm, f)
    BY <1>1, <1>2, <2>1 DEF WithRecord
  <2> QED
    BY <2>2, <2>3 DEF Holds, IsRow
<1>3. CASE f.id \in DOMAIN entry
  <2>1. PICK e : e = entry[f.id] /\ e.min \in OptInt /\ e.max \in OptInt
    BY <1>3 DEF IsEntry
  <2>2. PICK r : r = UniqueRange(e, v) /\ r.min \in OptInt /\ r.max \in OptInt
    BY <2>1, RangeIs
  <2>3. WithRecord(it, entry, rm, f) = Recorded(f, it.mods[i], v, r, e.pooled, rm)
    BY <1>1, <1>3, <2>1, <2>2 DEF WithRecord, WithValue
  <2> QED
    BY <2>2, <2>3, RecordedHolds
<1> QED
  BY <1>2, <1>3

\* A negated stat is asked for with the sign and the sides the other way round.
LEMMA HeldIsSent ==
  ASSUME NEW v \in Int, NEW f, Holds(f, v)
  PROVE  Within(IF f.inverted THEN -v ELSE v, StatTerm(f).min, StatTerm(f).max)
<1>1. f.min \in OptInt /\ f.max \in OptInt /\ (f.min # None => f.min <= v) /\ (f.max # None => f.max >= v)
  BY DEF Holds, IsRow, InOrder
<1>2. \A n \in Int : n # None
  BY NoneAssumption
<1>3. CASE f.inverted
  <2>1. StatTerm(f).min = Neg(f.max) /\ StatTerm(f).max = Neg(f.min)
    BY <1>3 DEF StatTerm
  <2>2. Neg(f.max) # None => Neg(f.max) <= -v
    BY <1>1 DEF Neg, OptInt
  <2>3. Neg(f.min) # None => -v <= Neg(f.min)
    BY <1>1 DEF Neg, OptInt
  <2>4. -v \in Int
    OBVIOUS
  <2>5. -v # None
    BY <1>2, <2>4
  <2> QED
    BY <1>3, <2>1, <2>2, <2>3, <2>5 DEF Within
<1>4. CASE ~f.inverted
  <2>1. StatTerm(f).min = f.min /\ StatTerm(f).max = f.max
    BY <1>4 DEF StatTerm
  <2>2. v # None
    BY <1>2
  <2> QED
    BY <1>1, <1>4, <2>1, <2>2 DEF Within
<1> QED
  BY <1>3, <1>4

\* An item satisfies what its own modifiers ask: the interval SeedBounds makes of a roll (item/plan.cpp),
\* as the strategy places the row and as the bundle's record of a unique changes it, still holds the
\* roll when BuildQuery has turned a negated stat round, whatever the setting and the tiers.
THEOREM RollIsSearched ==
  ASSUME NEW it, IsItem(it), NEW i \in DOMAIN it.mods, RollFor(it.mods[i]).value # None,
         NEW s, NEW ranges, NEW rm, IsMatch(rm), NEW entry, IsEntry(entry)
  PROVE  LET v == RollFor(it.mods[i]).value
             row == Placed(it, i, s, ToFilter(it, i, s, ranges, rm), v)
             Asks(f) == Within(IF f.inverted THEN -v ELSE v, StatTerm(f).min, StatTerm(f).max)
         IN Asks(row) /\ Asks(WithRecord(it, entry, rm, row))
<1>1. i \in Nat /\ IsMod(it.mods[i])
  BY ModsAre
<1>2. PICK r : r = RollFor(it.mods[i])
  OBVIOUS
<1>3. r.value \in Int /\ r.min \in OptInt /\ r.max \in OptInt
  BY <1>1, <1>2, RollIs DEF OptInt
<1>4. PICK f : f = ToFilter(it, i, s, ranges, rm)
  OBVIOUS
<1>5. Holds(f, r.value) /\ f.mods = <<i>>
  BY <1>1, <1>2, <1>3, <1>4, RowHolds DEF ToFilter
<1>6. PICK g : g = Placed(it, i, s, f, r.value)
  OBVIOUS
<1>7. Holds(g, r.value) /\ g.mods = <<i>>
  BY <1>3, <1>5, <1>6, PlacedHolds
<1>8. PICK h : h = WithRecord(it, entry, rm, g)
  OBVIOUS
<1>9. Holds(h, r.value)
  BY <1>2, <1>3, <1>7, <1>8, RecordHolds
<1>10. Within(IF g.inverted THEN -r.value ELSE r.value, StatTerm(g).min, StatTerm(g).max)
  BY <1>3, <1>7, HeldIsSent
<1>11. Within(IF h.inverted THEN -r.value ELSE r.value, StatTerm(h).min, StatTerm(h).max)
  BY <1>3, <1>9, HeldIsSent
<1> QED
  BY <1>2, <1>4, <1>6, <1>8, <1>10, <1>11
=============================================================================
