---------------------------- MODULE NinjaService ----------------------------
(***************************************************************************)
(* NinjaService (src/ninja_service.cpp) and what its worker runs           *)
(* (ninja/client.cpp, ninja/cache.cpp): the overviews an item is priced    *)
(* from, kept in memory, in files and at poe.ninja, and one download at a  *)
(* time however many checks are made meanwhile.                            *)
(*                                                                         *)
(* What poe.ninja publishes does not change here, so an overview is its    *)
(* key and when it was fetched.  A run that is killed while it writes      *)
(* leaves a file whose header is whole and whose body is not.              *)
(***************************************************************************)
EXTENDS MarketPrices

CONSTANTS
  Body,       \* what each overview's response holds, by key
  Checked,    \* what can be checked: an item, and the league it is checked in
  Ttl,        \* kTtlSeconds
  Keep,       \* kKeepSeconds
  MaxNow,     \* bound: the clock
  MaxAsks,    \* bound: checks made
  MaxKills,   \* bound: runs killed
  PushFails   \* SDL_PushEvent can find the queue full

ASSUME TtlAssumption == Ttl \in Nat
ASSUME BodyAssumption ==
  \A c \in Checked : ToSet(KeysFor(QueryFor(c.item, c.league))) \subseteq DOMAIN Body

VARIABLES
  now,        \* the clock, in units a list goes stale by
  ninja,      \* the service's members
  nWorker,    \* what the worker was told to fetch, and when; <<>> without one
  nResults,   \* the Result pushed and not yet handled
  nDisk,      \* the cache files: when fetched and whether the body parses
  asks, kills,
  since,      \* when the query in hand was asked about
  tried,      \* the lists fetched for the query in hand
  relied,     \* a file that was fresh and did not parse was built on
  nDropped    \* a Result found the event queue full

nVars == <<now, ninja, nWorker, nResults, nDisk, asks, kills, since, tried, relied, nDropped>>

AllKeys == DOMAIN Body
NoFile == [fetched |-> 0, whole |-> FALSE]
NoQuery == [strategy |-> "Unsupported", category |-> "", names |-> <<>>, league |-> ""]
NewNinja == [query |-> NoQuery, state |-> "Idle", ref |-> NoReference, error |-> FALSE,
             held |-> <<>>, busy |-> FALSE, restart |-> FALSE]

NinjaInit ==
  /\ now = 1 /\ ninja = NewNinja /\ nWorker = <<>> /\ nResults = <<>>
  /\ nDisk = [k \in AllKeys |-> NoFile]
  /\ asks = 0 /\ kills = 0 /\ since = 0 /\ tried = {} /\ relied = FALSE /\ nDropped = FALSE

\* cache::fresh: a time in the future is not one.
Fresh(fetched) == fetched > 0 /\ fetched <= now /\ now - fetched < Ttl
FreshAt(fetched, t) == fetched > 0 /\ fetched <= t /\ t - fetched < Ttl

OverviewOf(k, fetched) ==
  LET read == ParseOverview(Body[k], k.type)
  IN  [rate |-> read.rate, lines |-> read.lines, type |-> k.type, fetched |-> fetched]

\* resolve()
Resolved(n) ==
  LET held == SelectSeq(KeysFor(n.query), LAMBDA k : k \in DOMAIN n.held)
  IN  [n EXCEPT !.ref = ReferenceFor(n.query, [i \in DOMAIN held |->
                                                 OverviewOf(held[i], n.held[held[i]])])]

\* held(), for each list the query needs: what start() has to fetch.
Wanted(n) == {k \in ToSet(KeysFor(n.query)) : ~(k \in DOMAIN n.held /\ Fresh(n.held[k]))}

\* start(): a check that lands on a download of other lists is repeated after it.
Forgotten(n) == [n EXCEPT !.state = "Loading"]  \* altered: the download under way will do
Repeated(n) == [n EXCEPT !.state = "Loading", !.restart = TRUE]

Started(n) ==
  IF KeysFor(n.query) = <<>> THEN [n EXCEPT !.state = "Idle"]
  ELSE IF Wanted(n) = {} THEN [Resolved(n) EXCEPT !.state = "Ok"]
  ELSE IF n.busy THEN Repeated(n)
  ELSE [n EXCEPT !.state = "Loading", !.busy = TRUE]

Spawns(n) == Wanted(n) # {} /\ ~n.busy

Start(n, seen) ==
  /\ ninja' = Started(n)
  /\ IF Spawns(n)
     THEN nWorker' = [want |-> Wanted(n), at |-> now] /\ tried' = Wanted(n)
     ELSE tried' = seen /\ UNCHANGED nWorker

\* price(), from App::price_reference.
Price(c) ==
  /\ asks < MaxAsks /\ asks' = asks + 1
  /\ Start([ninja EXCEPT !.query = QueryFor(c.item, c.league), !.ref = NoReference, !.error = FALSE], {})
  /\ since' = now
  /\ UNCHANGED <<now, nResults, nDisk, kills, relied, nDropped>>

-----------------------------------------------------------------------------
(* The worker.                                                             *)

\* The copy on disk that load_overview goes on with: a fresh one that does not
\* parse is dropped, and asked for in full.
KeptAnyway(file, t) == file  \* altered: an unreadable fresh copy stays in hand
HaveOnDisk(file, t) == IF FreshAt(file.fetched, t) /\ ~file.whole THEN NoFile ELSE file

\* load_overview(): what it answers, whether it failed, and the file it leaves.
\* 304 moves the clock of the copy in hand, whatever is in it.
Loads(file, t) ==
  LET have == HaveOnDisk(file, t)
      Stored(whole) == [fetched |-> t, whole |-> whole]
      Answer(f, failed, reached) ==
        [at |-> IF f.whole THEN f.fetched ELSE 0, error |-> failed, file |-> f, reached |-> reached]
  IN  IF FreshAt(have.fetched, t) /\ have.whole
      THEN {Answer(have, FALSE, FALSE)}
      ELSE {Answer(Stored(TRUE), FALSE, TRUE), Answer(Stored(FALSE), TRUE, FALSE),
            [Answer(have, TRUE, FALSE) EXCEPT !.file = file]}
           \cup (IF have.fetched > 0
                 THEN {Answer(Stored(have.whole), ~have.whole, TRUE)} ELSE {})

\* The list is loaded key by key; nothing of it is seen before the Result is.
NinjaWorker ==
  /\ nWorker # <<>> /\ nWorker' = <<>>
  /\ \E got \in [nWorker.want -> UNION {Loads(nDisk[k], nWorker.at) : k \in AllKeys}] :
       /\ \A k \in DOMAIN got : got[k] \in Loads(nDisk[k], nWorker.at)
       /\ nDisk' = [k \in AllKeys |-> IF k \in DOMAIN got THEN got[k].file ELSE nDisk[k]]
       /\ relied' = (relied \/ \E k \in DOMAIN got :
            got[k].reached /\ got[k].at = 0 /\ FreshAt(nDisk[k].fetched, nWorker.at))
       /\ \/ nResults' = Append(nResults, [held |-> [k \in {j \in DOMAIN got : got[j].at > 0} |-> got[k].at],
                                           error |-> \E k \in DOMAIN got : got[k].error])
             /\ UNCHANGED nDropped
          \/ PushFails /\ nDropped' = TRUE /\ UNCHANGED nResults
  /\ UNCHANGED <<now, ninja, asks, kills, since, tried>>

StaysBusy(n) == n  \* altered: still busy when it starts over
Freed(n) == [n EXCEPT !.busy = FALSE]

\* on_done(): an overview is kept whatever the panel has moved on to.
Held(got, held) ==
  [k \in DOMAIN got \cup DOMAIN held |-> IF k \in DOMAIN got THEN got[k] ELSE held[k]]

NinjaDone ==
  /\ nResults # <<>> /\ nResults' = Tail(nResults)
  /\ LET r == Head(nResults)
         kept == [Freed(ninja) EXCEPT !.held = Held(r.held, @)]
         answered == Resolved([kept EXCEPT !.error = r.error])
     IN  IF ninja.restart
         THEN Start([kept EXCEPT !.restart = FALSE], tried)
         ELSE /\ ninja' = [answered EXCEPT !.state =
                             IF r.error /\ answered.ref.state = "None" THEN "Error" ELSE "Ok"]
              /\ UNCHANGED <<nWorker, tried>>
  /\ UNCHANGED <<now, nDisk, asks, kills, since, relied, nDropped>>

Tick ==
  /\ now < MaxNow /\ now' = now + 1
  /\ UNCHANGED <<ninja, nWorker, nResults, nDisk, asks, kills, since, tried, relied, nDropped>>

\* init() of the next run: prune() goes by when a file was last written.
Pruned(disk) == [k \in AllKeys |-> IF disk[k].fetched < now - Keep THEN NoFile ELSE disk[k]]

\* The run ends and another starts.  A worker is joined, or killed as it
\* writes what it had fetched.
Relaunch ==
  /\ kills < MaxKills /\ kills' = kills + 1
  /\ \/ nWorker = <<>> /\ nDisk' = Pruned(nDisk)
     \/ /\ nWorker # <<>>
        /\ \E k \in nWorker.want :
             nDisk' = Pruned([nDisk EXCEPT ![k] = [fetched |-> nWorker.at, whole |-> FALSE]])
  /\ nDropped' = FALSE
  /\ ninja' = NewNinja /\ nWorker' = <<>> /\ nResults' = <<>> /\ tried' = {} /\ since' = 0
  /\ UNCHANGED <<now, asks, relied>>

NinjaNext ==
  \/ \E c \in Checked : Price(c)
  \/ NinjaWorker
  \/ NinjaDone
  \/ Tick
  \/ Relaunch

NinjaSpec == NinjaInit /\ [][NinjaNext]_nVars

\* The worker ends, by its requests' timeouts if nothing else, and the event
\* loop comes round to its result.
NinjaFairness ==
  /\ WF_nWorker(nWorker # <<>> /\ nWorker' = <<>>)
  /\ WF_nResults(nResults # <<>> /\ nResults' = Tail(nResults))

-----------------------------------------------------------------------------
(* What it promises.                                                       *)

Shown == ninja.state \in {"Ok", "Error"}

\* An answer is about the query in hand: every list that query needs is in
\* memory and was fresh when it was asked, or was fetched for it and failed
\* (start, on_done).  A check that arrives during a download of other lists is
\* not answered by that download.
EveryListAsked ==
  Shown => \A k \in ToSet(KeysFor(ninja.query)) :
             k \in tried \/ (k \in DOMAIN ninja.held /\ ninja.held[k] > since - Ttl)

\* A copy known to be current and found unreadable is fetched in full, never
\* answered with its own 304 (load_overview).
TornIsReplaced == ~relied

\* The lines a copy of the item would be sold as, going by all it prints.
PrintedName(it) == IF it.gem # <<>> THEN it.gem ELSE IF it.name # <<>> THEN it.name ELSE it.base

OwnLines(it, lines) ==
  CASE it.strategy \in {"BaseItem", "Modifiers"} ->
         {l \in lines : /\ l.name = it.base /\ l.variant = it.influences \ Eldritch
                       /\ l.level <= it.level
                       /\ \A m \in lines : m.name = l.name /\ m.variant = l.variant
                                          /\ m.level <= it.level => m.level <= l.level}
    [] it.strategy = "Gem" ->
         {l \in lines : l.name = it.gem /\ l.corrupted = it.corrupted
                       /\ l.gemLevel = it.gemLevel /\ l.gemQuality = it.gemQuality}
    [] OTHER ->
         {l \in lines : /\ l.name = PrintedName(it) /\ l.base \in {<<>>, it.base}
                       /\ l.corrupted = it.corrupted /\ l.links = MaxLinks(it.gaps)
                       /\ \A i \in DOMAIN l.mods : Prints(it.mods, l.mods[i])}

HeldLines(n) ==
  UNION {ToSet(OverviewOf(k, n.held[k]).lines) : k \in DOMAIN n.held \cap ToSet(KeysFor(n.query))}

\* The price drawn takes in every line the item could be sold as, so that a
\* filter meant to tell variants apart never drops the right one; and a base
\* is never drawn at the price of other influences (reference_for).
PricedAs(it) ==
  Shown /\ ninja.query = QueryFor(it, ninja.query.league) /\ ninja.ref.state # "None" =>
    LET own == OwnLines(it, HeldLines(ninja))
    IN  /\ \A l \in own : l.id \in {"chaos", "divine"}
                         \/ (ninja.ref.low <= l.chaos /\ l.chaos <= ninja.ref.top)
        /\ it.strategy \in {"BaseItem", "Modifiers"} => own # {}

PricedAsItself == \A c \in Checked : PricedAs(c.item)

\* The row stops saying it is loading, whatever is checked meanwhile, unless a
\* result was lost to a full event queue.
NinjaEnds == ninja.state = "Loading" ~> ninja.state # "Loading" \/ nDropped
=============================================================================
