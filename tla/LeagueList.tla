----------------------------- MODULE LeagueList -----------------------------
(***************************************************************************)
(* The drop-down of leagues: LeagueService (src/league_service.cpp), its   *)
(* file (leagues.cpp) and the button and the page of Settings that ask for *)
(* another list.                                                           *)
(*                                                                         *)
(* A list is the number of the season it is of, 0 for the one built in.    *)
(* The wall clock may be set back.                                         *)
(***************************************************************************)
EXTENDS Integers, Sequences

CONSTANTS
  LeagueTtl,    \* kLeagueTtlSeconds
  Cooldown,     \* kRefreshCooldownSeconds
  MaxTime,      \* bound: the clock
  MaxAsked,     \* bound: requests made
  MaxStarts,    \* bound: runs that end
  FullQueue     \* SDL_PushEvent can find the queue full

VARIABLES
  time, season, \* the clock, and the season the trade site lists
  leagues,      \* the service's members
  lWorker,      \* the worker is fetching
  lResults,     \* the Result pushed and not yet handled: a season, or Failed
  lFile,        \* leagues.json
  asked, starts,
  lDropped      \* a Result found the event queue full

lVars == <<time, season, leagues, lWorker, lResults, lFile, asked, starts, lDropped>>

Failed == -1
Fallback == 0
NoFileOf == [list |-> Fallback, at |-> 0]  \* none, or half of one: load() tells them not apart

\* What load_cache() leaves a run with.
Launched(file) ==
  [state |-> IF file = NoFileOf THEN "Idle" ELSE "Ok", list |-> file.list, cachedAt |-> file.at,
   lastFetch |-> 0, busy |-> FALSE]

LeaguesInit ==
  /\ time = 1 /\ season = 1 /\ lFile = NoFileOf /\ leagues = Launched(lFile)
  /\ lWorker = FALSE /\ lResults = <<>> /\ asked = 0 /\ starts = 0 /\ lDropped = FALSE

StillGood == leagues.cachedAt # 0 /\ time - leagues.cachedAt < LeagueTtl
OnCooldown == leagues.lastFetch # 0 /\ time - leagues.lastFetch < Cooldown

\* refresh(): Settings was opened, or its button was pressed, which is drawn
\* disabled while a list is on its way or another was just asked for.
Refresh(force) ==
  /\ asked < MaxAsked
  /\ IF force THEN leagues.state # "Loading" /\ ~OnCooldown ELSE ~StillGood
  /\ ~leagues.busy
  /\ leagues' = [leagues EXCEPT !.busy = TRUE, !.state = "Loading", !.lastFetch = time]
  /\ lWorker' = TRUE /\ asked' = asked + 1
  /\ UNCHANGED <<time, season, lResults, lFile, starts, lDropped>>

LeagueWorker ==
  /\ lWorker /\ lWorker' = FALSE
  /\ \/ \E r \in {season, Failed} : lResults' = Append(lResults, r) /\ UNCHANGED lDropped
     \/ FullQueue /\ lDropped' = TRUE /\ UNCHANGED lResults
  /\ UNCHANGED <<time, season, leagues, lFile, asked, starts>>

\* on_done(): a failure changes the line under the drop-down, not the list.
LeaguesDone ==
  /\ lResults # <<>> /\ lResults' = Tail(lResults)
  /\ LET r == Head(lResults)
     IN  IF r = Failed
         THEN leagues' = [leagues EXCEPT !.busy = FALSE, !.state = "Error"] /\ UNCHANGED lFile
         ELSE /\ leagues' = [leagues EXCEPT !.busy = FALSE, !.state = "Ok", !.list = r,
                                            !.cachedAt = time]
              /\ lFile' \in {[list |-> r, at |-> time], lFile}
  /\ UNCHANGED <<time, season, lWorker, asked, starts, lDropped>>

\* The run ends and another starts.  A worker is joined and what it answers
\* is thrown away; a run killed as it stores a list leaves half a file.
LeaguesRelaunch ==
  /\ starts < MaxStarts /\ starts' = starts + 1
  /\ \/ UNCHANGED lFile
     \/ lResults # <<>> /\ Head(lResults) # Failed /\ lFile' = NoFileOf
  /\ leagues' = Launched(lFile') /\ lWorker' = FALSE /\ lResults' = <<>> /\ lDropped' = FALSE
  /\ UNCHANGED <<time, season, asked>>

Clock == time < MaxTime /\ time' = time + 1 /\ UNCHANGED season
SetBack == time > 1 /\ time' = 1 /\ UNCHANGED season
NewSeason == season = 1 /\ season' = 2 /\ UNCHANGED time
Outside ==
  (Clock \/ SetBack \/ NewSeason)
  /\ UNCHANGED <<leagues, lWorker, lResults, lFile, asked, starts, lDropped>>

LeaguesNext ==
  \/ \E force \in BOOLEAN : Refresh(force)
  \/ LeagueWorker
  \/ LeaguesDone
  \/ LeaguesRelaunch
  \/ Outside

\* The request has a timeout, and the event loop comes round to its result.
LeaguesFairness == WF_lVars(LeagueWorker) /\ WF_lVars(LeaguesDone)

\* Settings stops saying that it is fetching, unless the result was lost to a
\* full event queue.
LeaguesEnd == leagues.state = "Loading" ~> leagues.state # "Loading" \/ lDropped
=============================================================================
