-------------------------- MODULE ExchangeService --------------------------
(***************************************************************************)
(* The in-game currency exchange: ExchangeService (exchange_service.cpp),  *)
(* its worker (exchange/client.cpp, exchange/cache.cpp) and what a digest  *)
(* is read as (exchange/exchange.cpp).                                     *)
(*                                                                         *)
(* The feed is one file an hour, published some time after the hour ends   *)
(* and never changed.  The clock here counts hours, so the newest hour     *)
(* there can be is the one before now.                                     *)
(***************************************************************************)
EXTENDS Integers, Sequences, FiniteSets, SequencesExt

CONSTANTS
  Digests,     \* what each hour's file holds: a sequence of markets
  Leagues,
  Ids,         \* metadata ids; "" is a base that has none
  StepBack,    \* kStepBackHours
  KeepHours,   \* kKeepHours
  MaxHour,     \* bound: the clock
  MaxLookups,  \* bound: lookups made
  MaxRestarts, \* bound: runs killed
  LosesPush    \* SDL_PushEvent can find the queue full

\* The empty name is that of a digest not fetched yet (digest_).
ASSUME LeagueAssumption == "" \notin Leagues
ASSUME StepAssumption == StepBack \in Nat

VARIABLES
  hour,        \* the hour in progress
  published,   \* the hours the feed has
  xchg,        \* the service's members
  xWorker,     \* the league the worker was told, <<>> without one
  xResults,    \* the Result pushed and not yet handled
  xDisk,       \* the digests on disk: hour to "whole", "torn" or "empty"
  lookups, restarts,
  xDropped     \* a Result found the event queue full

xVars == <<hour, published, xchg, xWorker, xResults, xDisk, lookups, restarts, xDropped>>

-----------------------------------------------------------------------------
(* A digest.  A rate is the price of one item at the two ends of the hour, *)
(* as counts of each side, and how much of each side changed hands.        *)

Denominators == {"chaos", "divine"}

\* ratio: a side that saw no trade is published as zero.
Traded(r) == r.of > 0 /\ r.for > 0
Dearer(a, b) == a.for * b.of > b.for * a.of

\* fill(): the ends are ordered here, since the feed's "lowest" is the lowest of
\* item over price.
Ends(m, i) ==
  IF Dearer(m.lowest[i], m.highest[i])
  THEN [low |-> m.highest[i], high |-> m.lowest[i]]
  ELSE [low |-> m.lowest[i], high |-> m.highest[i]]

\* The halves of the pair that are quoted against chaos or divine.
Halves(m) == {i \in 1..2 : m.pair[3 - i] \in Denominators /\ Traded(m.lowest[i]) /\ Traded(m.highest[i])}

\* parse_digest: one listing an item, joined from its markets; a later market
\* of the same pair replaces an earlier one.
Listing(markets, league, id) ==
  LET Quotes(d) == {j \in DOMAIN markets : /\ markets[j].league = league
                                           /\ \E i \in Halves(markets[j]) :
                                                markets[j].pair = IF i = 1 THEN <<id, d>> ELSE <<d, id>>}
      Latest(d) == CHOOSE j \in Quotes(d) : \A k \in Quotes(d) : k <= j
      Side(j) == CHOOSE i \in Halves(markets[j]) : markets[j].pair[i] = id
  IN  [d \in {e \in Denominators : Quotes(e) # {}} |->
         Ends(markets[Latest(d)], Side(Latest(d))) @@
         [volume |-> markets[Latest(d)].volume[Side(Latest(d))],
          against |-> markets[Latest(d)].volume[3 - Side(Latest(d))]]]

\* read(): quoted against whichever is worth more, by the average where there
\* is one and by the top of the band where there is not.
Inverted(rate) ==
  IF rate.volume > 0 /\ rate.against > 0 THEN rate.against < rate.volume
  ELSE rate.high.for < rate.high.of

Turned(r) == [of |-> r.for, for |-> r.of]
Reading(rate) ==
  IF Inverted(rate) THEN [low |-> Turned(rate.high), high |-> Turned(rate.low), inverted |-> TRUE]
  ELSE [low |-> rate.low, high |-> rate.high, inverted |-> FALSE]

-----------------------------------------------------------------------------
NoDigest == [hour |-> 0, league |-> "", kind |-> "empty"]
Markets(d) == IF d.kind = "whole" THEN Digests[d.hour] ELSE <<>>

NewXchg == [league |-> "", id |-> "", state |-> "Idle", error |-> FALSE, digest |-> NoDigest,
            listing |-> <<>>, busy |-> FALSE, restart |-> FALSE]
XchgInit ==
  /\ hour = StepBack + 1 /\ published \in SUBSET (1..StepBack)
  /\ xchg = NewXchg
  /\ xWorker = <<>> /\ xResults = <<>> /\ xDisk = <<>> /\ lookups = 0 /\ restarts = 0 /\ xDropped = FALSE

LatestHour == IF hour < 1 THEN 0 ELSE hour - 1

\* resolve(): a digest of another league says nothing.
Answered(x) ==
  [x EXCEPT !.listing = IF x.digest.hour > 0 /\ x.digest.league = x.league
                        THEN Listing(Markets(x.digest), x.league, x.id) ELSE <<>>]

Current(x) == x.digest.hour > 0 /\ x.digest.league = x.league /\ x.digest.hour >= LatestHour

\* start()
AgainAfter(x) == [x EXCEPT !.state = "Loading", !.restart = TRUE]
Begun(x) ==
  IF Current(x) THEN [Answered(x) EXCEPT !.state = "Ok"]
  ELSE IF x.busy THEN AgainAfter(x)
  ELSE [x EXCEPT !.state = "Loading", !.busy = TRUE]
Sends(x) == ~Current(x) /\ ~x.busy
Begin(x) == xchg' = Begun(x) /\ xWorker' = IF Sends(x) THEN <<x.league>> ELSE xWorker

\* lookup(), from App::price_reference.
Lookup(league, id) ==
  /\ lookups < MaxLookups /\ lookups' = lookups + 1
  /\ LET x == [xchg EXCEPT !.league = league, !.id = id, !.listing = <<>>, !.error = FALSE]
     IN  IF id = "" THEN xchg' = [x EXCEPT !.state = "Idle"] /\ UNCHANGED xWorker
         ELSE Begin(x)
  /\ UNCHANGED <<hour, published, xResults, xDisk, restarts, xDropped>>

-----------------------------------------------------------------------------
(* The worker: load_digest.                                                *)

\* store(), or what is left of one.
With(disk, h, kind) == [k \in DOMAIN disk \cup {h} |-> IF k = h THEN kind ELSE disk[k]]

\* prune(): the newest KeepHours stay.
PrunedHours(disk) ==
  [h \in {k \in DOMAIN disk : Cardinality({j \in DOMAIN disk : j > k}) < KeepHours} |-> disk[h]]

\* What the feed answers for an hour, when it answers with anything: a digest, or
\* well formed and empty.  A 404, a body that cannot be read and no answer are
\* all failures here.
KeepsEmpty(kind) == TRUE  \* altered: an unpublished hour is an answer
IsPublished(kind) == kind = "whole"
OfFeed(h) == IF h \in published THEN "whole" ELSE "empty"

\* load_digest(): the way back from the newest hour, given the hours it
\* fails for.  A download clears what the hours before it came to; a hit on disk,
\* final whatever is in it, does not.
Walk(league, fails) ==
  LET OnDisk(h) == h \in DOMAIN xDisk /\ xDisk[h] # "torn"
      walked == {h \in 1..LatestHour : h > LatestHour - StepBack}
      stops == {h \in walked : OnDisk(h) \/ (h \notin fails /\ IsPublished(OfFeed(h)))}
      h == CHOOSE k \in stops : \A j \in stops : j <= k
      failed == \E k \in fails : k > h
      Digest(kind) == [hour |-> h, league |-> league, kind |-> kind]
  IN  IF stops = {} THEN [digest |-> NoDigest, error |-> TRUE, disk |-> xDisk]
      ELSE IF OnDisk(h) THEN [digest |-> Digest(xDisk[h]), error |-> failed, disk |-> xDisk]
      ELSE [digest |-> Digest(OfFeed(h)), error |-> FALSE,
            disk |-> PrunedHours(With(xDisk, h, OfFeed(h)))]

XchgWorker ==
  /\ xWorker # <<>> /\ xWorker' = <<>>
  /\ \E fails \in SUBSET {h \in 1..LatestHour : h > LatestHour - StepBack} :
       LET w == Walk(Head(xWorker), fails)
       IN  /\ xDisk' = w.disk
           /\ \/ xResults' = <<[digest |-> w.digest, error |-> w.error]>> /\ UNCHANGED xDropped
              \/ LosesPush /\ xDropped' = TRUE /\ UNCHANGED xResults
  /\ UNCHANGED <<hour, published, xchg, lookups, restarts>>

\* on_done()
XchgDone ==
  /\ xResults # <<>> /\ xResults' = <<>>
  /\ LET r == Head(xResults)
         x == [xchg EXCEPT !.busy = FALSE,
                           !.digest = IF r.digest.hour > 0 THEN r.digest ELSE @,
                           !.listing = IF r.digest.hour > 0 THEN <<>> ELSE @]
         answered == Answered([x EXCEPT !.error = r.error])
     IN  IF xchg.restart THEN Begin([x EXCEPT !.restart = FALSE])
         ELSE /\ xchg' = [answered EXCEPT !.state =
                            IF r.error /\ answered.listing = <<>> THEN "Error" ELSE "Ok"]
              /\ UNCHANGED xWorker
  /\ UNCHANGED <<hour, published, xDisk, lookups, restarts, xDropped>>

\* The feed puts an hour up some time after it has ended.
Publish ==
  /\ \E h \in 1..LatestHour : h \notin published /\ published' = published \cup {h}
  /\ UNCHANGED <<hour, xchg, xWorker, xResults, xDisk, lookups, restarts, xDropped>>

HourPasses ==
  /\ hour < MaxHour /\ hour' = hour + 1
  /\ UNCHANGED <<published, xchg, xWorker, xResults, xDisk, lookups, restarts, xDropped>>

\* The run ends, a worker perhaps halfway through a file, and another starts.
XchgRelaunch ==
  /\ restarts < MaxRestarts /\ restarts' = restarts + 1
  /\ \/ UNCHANGED xDisk
     \/ /\ xWorker # <<>>
        /\ \E h \in published : /\ h <= LatestHour /\ h > LatestHour - StepBack
                                /\ xDisk' = With(xDisk, h, "torn")
  /\ xDropped' = FALSE /\ xchg' = NewXchg /\ xWorker' = <<>> /\ xResults' = <<>>
  /\ UNCHANGED <<hour, published, lookups>>

XchgNext ==
  \/ \E league \in Leagues, id \in Ids : Lookup(league, id)
  \/ XchgWorker
  \/ XchgDone
  \/ Publish
  \/ HourPasses
  \/ XchgRelaunch

XchgSpec == XchgInit /\ [][XchgNext]_xVars

XchgFairness ==
  /\ WF_xWorker(xWorker # <<>> /\ xWorker' = <<>>)
  /\ WF_xResults(xResults # <<>> /\ xResults' = <<>>)

-----------------------------------------------------------------------------
(* What it promises.                                                       *)

\* What is said of an hour is what a published digest of that hour holds: one
\* not up yet is never read as one in which nothing traded, and what is drawn
\* is in the digest in hand (load_digest, on_done, resolve).
HourIsPublished ==
  xchg.state = "Ok" /\ xchg.id # "" =>
    IF xchg.digest.league = xchg.league
    THEN /\ xchg.digest.hour \in published
         /\ xchg.listing = Listing(Digests[xchg.digest.hour], xchg.league, xchg.id)
    ELSE xchg.listing = <<>>

\* The section stops saying it is loading, unless a result was lost to a full
\* event queue.
XchgEnds == xchg.state = "Loading" ~> xchg.state # "Loading" \/ xDropped
=============================================================================
