-------------------------- MODULE SelfUpdateProofs --------------------------
(***************************************************************************)
(* What holds of SelfUpdate for every number of versions, every set of     *)
(* flavours and every wait: its types; that a program remains, on a disk   *)
(* that does not fill up; that nothing is started unasked, that no older   *)
(* version comes back, and that the notice is true.                        *)
(***************************************************************************)
EXTENDS SelfUpdate, TLAPS

\* A download has a version, and was compared with its digest before it is staged.
JobIsThere == pc \in {"downloading", "unstaging", "staging"} => job \in Release
JobIsWhole == pc \in {"unstaging", "staging"} => job.whole

\* A notice stands only while the worker rests; only a program that is up looks for news, and
\* one that is down has no worker.
Settled == /\ state = "Ready" \/ phase = "down" => pc = "idle"
           /\ asking => phase = "up"

\* Between the two renames nothing else is at it, and what is needed to finish is there.
SwapIsOwned ==
  swap # "no" => /\ phase # "down" /\ pc = "idle" /\ ~asking /\ flavour = "WinPortable"
                 /\ staged \in Release /\ staged # None /\ aside \in Program /\ target.is = "gone"
MovedIsWhole == swap # "no" => aside.is = "whole"

\* A copy that waits has a whole program, which nothing is going to move aside.
HeirIsSafe ==
  heir # None => /\ phase # "up" /\ swap = "no" /\ pc = "idle" /\ ~asking
                 /\ target.is = "whole" /\ (flavour = "WinPortable" => staged = None)

\* On such a disk `staged`, and what an installer was started from, is all of a release.
StagedIsWhole == (staged # None => staged.whole) /\ (setup # None => setup.whole)

\* Only an installed copy has an installer run.
SetupIsInstalled == setup # None => flavour = "WinInstalled"

Typed == TypeOK /\ JobIsThere /\ Settled /\ SwapIsOwned
Kept == JobIsWhole /\ MovedIsWhole /\ HeirIsSafe /\ SetupIsInstalled /\ StagedIsWhole /\ ProgramIsThere

\* What is waiting to be the program is newer than it, or once more the same when a kill came
\* before its remove: staged, downloaded or with an installer.
NewerWaits == /\ staged # None => staged.version >= target.version
              /\ pc \in {"downloading", "unstaging", "staging"} => job.version > target.version
              /\ setup # None => /\ setup.version >= target.version
                                /\ staged = None /\ pc = "idle" /\ phase # "up"

\* The program that looks for news is the one on the disk; after a swap that started nothing it
\* is not, and then its notice stands and nothing is staged.
LooksFromHere == image # None /\ image # target.version =>
  pc = "idle" /\ staged = None /\ ~asking /\ (phase = "up" => state = "Ready")

\* What was moved aside can only come back as what it was, and the notice stands meanwhile.
AsideIsSame == swap # "no" => /\ aside.version = target.version
                              /\ phase = "up" => state = "Ready"

\* A copy that waits is of the program on the disk, which nothing is going to replace.
HeirIsSame == heir # None => /\ heir.version = target.version
                             /\ phase # "up" /\ pc = "idle" /\ setup = None
                             /\ phase = "down" \/ staged = None

Ordered == NewerWaits /\ LooksFromHere /\ AsideIsSame /\ HeirIsSame /\ SetupIsInstalled

IInv == Typed /\ Kept /\ Ordered

-----------------------------------------------------------------------------
(* The types, and what keeps them.                                         *)

LEMMA TypedInit == Init => Typed
<1> SUFFICES ASSUME Init PROVE Typed
  OBVIOUS
<1> USE VersionAssumption, WaitAssumption DEF Init
<1>1. published \in Versions /\ flavour \in Flavours /\ DiskTypes
  <2>1. 1 \in Versions
    BY SMT DEF Versions
  <2> QED
    BY <2>1 DEF DiskTypes, Program
<1>2. ProcessTypes /\ NextTypes
  BY DEF ProcessTypes, NextTypes
<1>3. WorkerTypes
  BY DEF WorkerTypes
<1>4. JobIsThere /\ Settled /\ SwapIsOwned
  BY DEF JobIsThere, Settled, SwapIsOwned
<1> QED
  BY <1>1, <1>2, <1>3, <1>4 DEF Typed, TypeOK

LEMMA TypedStep == Typed /\ [Next]_vars => Typed'
<1> SUFFICES ASSUME Typed, [Next]_vars PROVE Typed'
  OBVIOUS
<1> USE VersionAssumption, WaitAssumption
    DEF Typed, TypeOK, DiskTypes, ProcessTypes, WorkerTypes, NextTypes, JobIsThere, Settled,
        SwapIsOwned, Program, Release, disk, worker, next
<1>1. CASE Ask
  <2>1. DiskTypes' /\ published' \in Versions /\ flavour' \in Flavours
    BY <1>1 DEF Ask, Fail, Done, Named, Elsewhere
  <2>2. ProcessTypes' /\ Settled'
    BY <1>1 DEF Ask, Fail, Done, Named, Elsewhere
  <2>3. WorkerTypes' /\ JobIsThere'
    <3>1. CASE pc' = "idle" /\ job' = None /\ busy' = FALSE
               /\ available' \in Versions \cup {None} /\ state' \in {"Failed", "UpToDate", "Offer"}
      BY <1>1, <3>1
    <3>2. CASE /\ pc' = "downloading" /\ job' = [version |-> published, whole |-> FALSE]
               /\ busy' /\ available' = published /\ state' = "Downloading"
      <4>1. job' \in Release
        BY <1>1, <3>2
      <4> QED
        BY <1>1, <3>2, <4>1
    <3>3. pc = "asking" /\ busy
      BY <1>1 DEF Ask
    <3>4. CASE Fail
      BY <1>1, <3>1, <3>4 DEF Fail
    <3> QED
      BY <1>1, <3>1, <3>2, <3>3, <3>4 DEF Ask, Done, Named
  <2>4. NextTypes'
    BY <1>1 DEF Ask, Fail, Done, Named, Elsewhere
  <2>5. SwapIsOwned'
    BY <1>1 DEF Ask, Fail, Done, Named, Elsewhere
  <2> QED
    BY <2>1, <2>2, <2>3, <2>4, <2>5 DEF Typed, TypeOK
<1>2. CASE Download
  <2>1. DiskTypes' /\ published' \in Versions /\ flavour' \in Flavours
    BY <1>2 DEF Download, Fail, Elsewhere
  <2>2. ProcessTypes' /\ Settled'
    BY <1>2 DEF Download, Fail, Elsewhere
  <2>3. WorkerTypes' /\ JobIsThere'
    BY <1>2 DEF Download, Fail, Elsewhere
  <2>4. NextTypes'
    BY <1>2 DEF Download, Fail, Elsewhere
  <2>5. SwapIsOwned'
    BY <1>2 DEF Download, Fail, Elsewhere
  <2> QED
    BY <2>1, <2>2, <2>3, <2>4, <2>5 DEF Typed, TypeOK
<1>3. CASE Unstage
  BY <1>3 DEF Unstage, Elsewhere
<1>4. CASE Stage
  <2>1. DiskTypes' /\ published' \in Versions /\ flavour' \in Flavours
    BY <1>4 DEF Stage, Fail, Done, Elsewhere
  <2>2. ProcessTypes' /\ Settled'
    BY <1>4 DEF Stage, Fail, Done, Elsewhere
  <2>3. WorkerTypes' /\ JobIsThere'
    BY <1>4 DEF Stage, Fail, Done, Elsewhere
  <2>4. NextTypes'
    BY <1>4 DEF Stage, Fail, Done, Elsewhere
  <2>5. SwapIsOwned'
    BY <1>4 DEF Stage, Fail, Done, Elsewhere
  <2> QED
    BY <2>1, <2>2, <2>3, <2>4, <2>5 DEF Typed, TypeOK
<1>5. CASE Start
  BY <1>5 DEF Start, Up
<1>6. CASE LookForNews
  BY <1>6 DEF LookForNews
<1>7. CASE StartCheck
  <2>1. DiskTypes' /\ published' \in Versions /\ flavour' \in Flavours
    BY <1>7 DEF StartCheck
  <2>2. ProcessTypes' /\ Settled'
    BY <1>7 DEF StartCheck
  <2>3. WorkerTypes' /\ JobIsThere'
    <3>1. CASE UNCHANGED worker
      BY <1>7, <3>1
    <3>2. CASE /\ ~busy /\ busy' = TRUE /\ pc' = "asking" /\ state' = "Checking"
               /\ UNCHANGED <<job, available>>
      BY <1>7, <3>2
    <3> QED
      BY <1>7, <3>1, <3>2 DEF StartCheck
  <2>4. NextTypes'
    BY <1>7 DEF StartCheck
  <2>5. SwapIsOwned'
    BY <1>7 DEF StartCheck
  <2> QED
    BY <2>1, <2>2, <2>3, <2>4, <2>5 DEF Typed, TypeOK
<1>8. CASE Quit
  BY <1>8 DEF Quit, MayAct
<1>9. CASE Crash
  <2>1. DiskTypes' /\ published' \in Versions /\ flavour' \in Flavours
    BY <1>9 DEF Crash, Down
  <2>2. ProcessTypes' /\ Settled'
    BY <1>9 DEF Crash, Down
  <2>3. WorkerTypes' /\ JobIsThere'
    BY <1>9 DEF Crash, Down
  <2>4. NextTypes'
    BY <1>9 DEF Crash, Down
  <2>5. SwapIsOwned'
    BY <1>9 DEF Crash, Down
  <2> QED
    BY <2>1, <2>2, <2>3, <2>4, <2>5 DEF Typed, TypeOK
<1>23. CASE SwapCutOff /\ staged # None /\ phase # "down"
  <2>1. DiskTypes' /\ published' \in Versions /\ flavour' \in Flavours
    BY <1>23 DEF SwapCutOff, Landed, Down
  <2>2. ProcessTypes' /\ Settled'
    BY <1>23 DEF SwapCutOff, Landed, Down
  <2>3. WorkerTypes' /\ JobIsThere'
    BY <1>23 DEF SwapCutOff, Landed, Down
  <2>4. NextTypes'
    BY <1>23 DEF SwapCutOff, Landed, Down
  <2>5. SwapIsOwned'
    BY <1>23 DEF SwapCutOff, Landed, Down
  <2> QED
    BY <2>1, <2>2, <2>3, <2>4, <2>5 DEF Typed, TypeOK
<1>10. CASE RestartNow /\ RestartBySetup
  <2>1. DiskTypes' /\ published' \in Versions /\ flavour' \in Flavours
    BY <1>10 DEF RestartNow, RestartBySetup, MayAct, HandOver, Launch, NotStarted, Outside
  <2>2. ProcessTypes' /\ Settled'
    BY <1>10 DEF RestartNow, RestartBySetup, MayAct, HandOver, Launch, NotStarted, Outside
  <2>3. WorkerTypes' /\ JobIsThere'
    BY <1>10 DEF RestartNow, RestartBySetup, MayAct, HandOver, Launch, NotStarted, Outside
  <2>4. NextTypes'
    <3>1. CASE UNCHANGED next
      BY <1>10, <3>1
    <3>2. CASE HandOver(TRUE) /\ UNCHANGED heir
      <4>1. staged \in Release
        BY <1>10 DEF RestartNow
      <4>2. setup' = [version |-> staged.version, whole |-> staged.whole, launch |-> TRUE]
        BY <1>10, <3>2 DEF HandOver, Launch
      <4> QED
        BY <1>10, <3>2, <4>1, <4>2
    <3> QED
      BY <1>10, <3>1, <3>2 DEF RestartBySetup, NotStarted
  <2>5. SwapIsOwned'
    BY <1>10 DEF RestartNow, RestartBySetup, MayAct, HandOver, Launch, NotStarted, Outside
  <2> QED
    BY <2>1, <2>2, <2>3, <2>4, <2>5 DEF Typed, TypeOK
<1>11. CASE RestartNow /\ RestartBySwap
  <2>1. DiskTypes' /\ published' \in Versions /\ flavour' \in Flavours
    BY <1>11
    DEF RestartNow, RestartBySwap, MayAct, SwapOver, Refused, Relaunch, NotStarted, Landed, Posix,
        Outside
  <2>2. ProcessTypes' /\ Settled'
    BY <1>11
    DEF RestartNow, RestartBySwap, MayAct, SwapOver, Refused, Relaunch, NotStarted, Landed, Posix,
        Outside
  <2>3. WorkerTypes' /\ JobIsThere'
    BY <1>11
    DEF RestartNow, RestartBySwap, MayAct, SwapOver, Refused, Relaunch, NotStarted, Landed, Posix,
        Outside
  <2>4. NextTypes'
    BY <1>11
    DEF RestartNow, RestartBySwap, MayAct, SwapOver, Refused, Relaunch, NotStarted, Landed, Posix,
        Outside
  <2>5. SwapIsOwned'
    BY <1>11
    DEF RestartNow, RestartBySwap, MayAct, SwapOver, Refused, Relaunch, NotStarted, Landed, Posix,
        Outside
  <2> QED
    BY <2>1, <2>2, <2>3, <2>4, <2>5 DEF Typed, TypeOK
<1>12. CASE RestartNow /\ RestartAside
  BY <1>12 DEF RestartNow, RestartAside, MayAct, MoveAside, MovedAside, Refused, Outside
<1>13. CASE RestartMovesIn
  <2>1. DiskTypes' /\ published' \in Versions /\ flavour' \in Flavours
    BY <1>13 DEF RestartMovesIn, PutBack, Refused, Relaunch, NotStarted, Landed, Outside
  <2>2. ProcessTypes' /\ Settled'
    BY <1>13 DEF RestartMovesIn, PutBack, Refused, Relaunch, NotStarted, Landed, Outside
  <2>3. WorkerTypes' /\ JobIsThere'
    BY <1>13 DEF RestartMovesIn, PutBack, Refused, Relaunch, NotStarted, Landed, Outside
  <2>4. NextTypes'
    BY <1>13 DEF RestartMovesIn, PutBack, Refused, Relaunch, NotStarted, Landed, Outside
  <2>5. SwapIsOwned'
    BY <1>13 DEF RestartMovesIn, PutBack, Refused, Relaunch, NotStarted, Landed, Outside
  <2> QED
    BY <2>1, <2>2, <2>3, <2>4, <2>5 DEF Typed, TypeOK
<1>14. CASE LeaveAsIs
  <2>1. DiskTypes' /\ published' \in Versions /\ flavour' \in Flavours
    BY <1>14 DEF LeaveAsIs, MayLeave, Down
  <2>2. ProcessTypes' /\ Settled'
    BY <1>14 DEF LeaveAsIs, MayLeave, Down
  <2>3. WorkerTypes' /\ JobIsThere'
    BY <1>14 DEF LeaveAsIs, MayLeave, Down
  <2>4. NextTypes'
    BY <1>14 DEF LeaveAsIs, MayLeave, Down
  <2>5. SwapIsOwned'
    BY <1>14 DEF LeaveAsIs, MayLeave, Down
  <2> QED
    BY <2>1, <2>2, <2>3, <2>4, <2>5 DEF Typed, TypeOK
<1>15. CASE LeaveBySetup
  <2>1. DiskTypes' /\ published' \in Versions /\ flavour' \in Flavours
    BY <1>15 DEF LeaveBySetup, MayLeave, HandOver, Launch, Down
  <2>2. ProcessTypes' /\ Settled'
    BY <1>15 DEF LeaveBySetup, MayLeave, HandOver, Launch, Down
  <2>3. WorkerTypes' /\ JobIsThere'
    BY <1>15 DEF LeaveBySetup, MayLeave, HandOver, Launch, Down
  <2>4. NextTypes'
    <3>1. CASE UNCHANGED <<heir, setup>>
      BY <1>15, <3>1
    <3>2. CASE HandOver(FALSE) /\ UNCHANGED heir
      <4>1. staged \in Release
        BY <1>15 DEF LeaveBySetup
      <4>2. setup' = [version |-> staged.version, whole |-> staged.whole, launch |-> FALSE]
        BY <1>15, <3>2 DEF HandOver, Launch
      <4> QED
        BY <1>15, <3>2, <4>1, <4>2
    <3> QED
      BY <1>15, <3>1, <3>2 DEF LeaveBySetup
  <2>5. SwapIsOwned'
    BY <1>15 DEF LeaveBySetup, MayLeave, HandOver, Launch, Down
  <2> QED
    BY <2>1, <2>2, <2>3, <2>4, <2>5 DEF Typed, TypeOK
<1>16. CASE MayLeave /\ staged # None /\ Posix /\ SwapOver /\ Down /\ UNCHANGED next
  <2>1. DiskTypes' /\ published' \in Versions /\ flavour' \in Flavours
    BY <1>16 DEF MayLeave, SwapOver, Landed, Posix, Down
  <2>2. ProcessTypes' /\ Settled'
    BY <1>16 DEF MayLeave, SwapOver, Landed, Posix, Down
  <2>3. WorkerTypes' /\ JobIsThere'
    BY <1>16 DEF MayLeave, SwapOver, Landed, Posix, Down
  <2>4. NextTypes'
    BY <1>16 DEF MayLeave, SwapOver, Landed, Posix, Down
  <2>5. SwapIsOwned'
    BY <1>16 DEF MayLeave, SwapOver, Landed, Posix, Down
  <2> QED
    BY <2>1, <2>2, <2>3, <2>4, <2>5 DEF Typed, TypeOK
<1>17. CASE LeaveAside
  BY <1>17 DEF LeaveAside, MayLeave, MoveAside, MovedAside
<1>18. CASE LeaveMovesIn
  <2>1. DiskTypes' /\ published' \in Versions /\ flavour' \in Flavours
    BY <1>18 DEF LeaveMovesIn, PutBack, Landed, Down
  <2>2. ProcessTypes' /\ Settled'
    BY <1>18 DEF LeaveMovesIn, PutBack, Landed, Down
  <2>3. WorkerTypes' /\ JobIsThere'
    BY <1>18 DEF LeaveMovesIn, PutBack, Landed, Down
  <2>4. NextTypes'
    BY <1>18 DEF LeaveMovesIn, PutBack, Landed, Down
  <2>5. SwapIsOwned'
    BY <1>18 DEF LeaveMovesIn, PutBack, Landed, Down
  <2> QED
    BY <2>1, <2>2, <2>3, <2>4, <2>5 DEF Typed, TypeOK
<1>19. CASE TryForTheLock
  <2>1. DiskTypes' /\ published' \in Versions /\ flavour' \in Flavours
    BY <1>19 DEF TryForTheLock, Waits, Up
  <2>2. ProcessTypes' /\ Settled'
    <3>1. CASE Up(heir.version)
      BY <1>19, <3>1 DEF TryForTheLock, Up
    <3>2. CASE UNCHANGED <<phase, swap, image, asking, asked, worker>>
      BY <1>19, <3>2
    <3> QED
      BY <1>19, <3>1, <3>2 DEF TryForTheLock
  <2>3. WorkerTypes' /\ JobIsThere'
    <3>1. CASE Up(heir.version)
      BY <1>19, <3>1 DEF TryForTheLock, Up
    <3>2. CASE UNCHANGED worker
      BY <1>19, <3>2
    <3> QED
      BY <1>19, <3>1, <3>2 DEF TryForTheLock
  <2>4. NextTypes'
    BY <1>19 DEF TryForTheLock, Waits, Up
  <2>5. SwapIsOwned'
    BY <1>19 DEF TryForTheLock, Waits, Up
  <2> QED
    BY <2>1, <2>2, <2>3, <2>4, <2>5 DEF Typed, TypeOK
<1>20. CASE SetupInstalls
  BY <1>20 DEF SetupInstalls, Landed
<1>21. CASE Publish
  BY <1>21 DEF Publish
<1>22. CASE UNCHANGED vars
  BY <1>22 DEF vars
<1> QED
  BY <1>1, <1>2, <1>3, <1>4, <1>5, <1>6, <1>7, <1>8, <1>9, <1>10, <1>11, <1>12, <1>13, <1>14,
     <1>15, <1>16, <1>17, <1>18, <1>19, <1>20, <1>21, <1>22, <1>23
  DEF Next, Worker, RestartNow, MayAct, Leave, LeaveBySwap, MayLeave

-----------------------------------------------------------------------------
(* What was verified stays so, and a program remains.                      *)

LEMMA KeptInit == Init => Kept
BY
DEF Init, Kept, JobIsWhole, MovedIsWhole, HeirIsSafe, SetupIsInstalled, StagedIsWhole,
    ProgramIsThere

LEMMA KeptStep == ~DiskFills /\ Typed /\ Kept /\ [Next]_vars => Kept'
<1> SUFFICES ASSUME ~DiskFills, Typed, Kept, [Next]_vars PROVE Kept'
  OBVIOUS
<1> USE VersionAssumption
    DEF Typed, TypeOK, DiskTypes, ProcessTypes, WorkerTypes, NextTypes, JobIsThere, Settled,
        SwapIsOwned, Program, Release, disk, worker, next,
        Kept, JobIsWhole, MovedIsWhole, HeirIsSafe, SetupIsInstalled, StagedIsWhole, ProgramIsThere
<1>1. CASE Ask
  BY <1>1 DEF Ask, Fail, Done, Named, Elsewhere
<1>2. CASE Download
  BY <1>2 DEF Download, Fail, Elsewhere, Matches
<1>3. CASE Unstage
  BY <1>3 DEF Unstage, Elsewhere
<1>4. CASE Stage
  BY <1>4 DEF Stage, Fail, Done, Elsewhere
<1>5. CASE Start
  BY <1>5 DEF Start, Up
<1>6. CASE LookForNews
  BY <1>6 DEF LookForNews
<1>7. CASE StartCheck
  BY <1>7 DEF StartCheck
<1>8. CASE Quit
  BY <1>8 DEF Quit, MayAct
<1>9. CASE Crash
  BY <1>9 DEF Crash, Down
<1>23. CASE SwapCutOff /\ staged # None /\ phase # "down"
  BY <1>23 DEF SwapCutOff, Landed, Posix, Down
<1>10. CASE RestartNow /\ RestartBySetup
  BY <1>10 DEF RestartNow, RestartBySetup, MayAct, HandOver, Launch, NotStarted, Outside
<1>11. CASE RestartNow /\ RestartBySwap
  BY <1>11
  DEF RestartNow, RestartBySwap, MayAct, SwapOver, Refused, Relaunch, NotStarted, Landed, Posix,
      Outside
<1>12. CASE RestartNow /\ RestartAside
  BY <1>12 DEF RestartNow, RestartAside, MayAct, MoveAside, MovedAside, Refused, Outside
<1>13. CASE RestartMovesIn
  BY <1>13 DEF RestartMovesIn, PutBack, Refused, Relaunch, NotStarted, Landed, Outside
<1>14. CASE LeaveAsIs
  BY <1>14 DEF LeaveAsIs, MayLeave, Down
<1>15. CASE LeaveBySetup
  BY <1>15 DEF LeaveBySetup, MayLeave, HandOver, Launch, Down
<1>16. CASE MayLeave /\ staged # None /\ Posix /\ SwapOver /\ Down /\ UNCHANGED next
  BY <1>16 DEF MayLeave, SwapOver, Landed, Posix, Down
<1>17. CASE LeaveAside
  BY <1>17 DEF LeaveAside, MayLeave, MoveAside, MovedAside
<1>18. CASE LeaveMovesIn
  BY <1>18 DEF LeaveMovesIn, PutBack, Landed, Down
<1>19. CASE TryForTheLock
  BY <1>19 DEF TryForTheLock, Waits, Up
<1>20. CASE SetupInstalls
  BY <1>20 DEF SetupInstalls, Landed
<1>21. CASE Publish
  BY <1>21 DEF Publish
<1>22. CASE UNCHANGED vars
  BY <1>22 DEF vars
<1> QED
  BY <1>1, <1>2, <1>3, <1>4, <1>5, <1>6, <1>7, <1>8, <1>9, <1>10, <1>11, <1>12, <1>13, <1>14,
     <1>15, <1>16, <1>17, <1>18, <1>19, <1>20, <1>21, <1>22, <1>23
  DEF Next, Worker, RestartNow, MayAct, Leave, LeaveBySwap, MayLeave

-----------------------------------------------------------------------------
(* The versions.                                                           *)

LEMMA OrderedInit == Init => Ordered
BY DEF Init, Ordered, NewerWaits, LooksFromHere, AsideIsSame, HeirIsSame, SetupIsInstalled

LEMMA OrderedStep == ~RemoveFails /\ Typed /\ Ordered /\ [Next]_vars => Ordered'
<1> SUFFICES ASSUME ~RemoveFails, Typed, Ordered, [Next]_vars PROVE Ordered'
  OBVIOUS
<1> USE VersionAssumption
    DEF Typed, TypeOK, DiskTypes, ProcessTypes, WorkerTypes, NextTypes, JobIsThere, Settled,
        SwapIsOwned, Program, Release, Versions, disk, worker, next,
        Ordered, NewerWaits, LooksFromHere, AsideIsSame, HeirIsSame, SetupIsInstalled
<1>1. CASE Ask
  <2>1. image = target.version /\ pc = "asking" /\ setup = None /\ heir = None /\ swap = "no"
    BY <1>1 DEF Ask
  <2>2. CASE /\ pc' = "idle"
             /\ UNCHANGED <<target, staged, setup, swap, aside, phase, image, asking, heir, flavour>>
    BY <1>1, <2>1, <2>2
  <2>3. CASE /\ job' = [version |-> published, whole |-> FALSE] /\ published > image
             /\ UNCHANGED <<target, staged, setup, swap, aside, phase, image, asking, heir, flavour>>
    BY <1>1, <2>1, <2>3
  <2> QED
    BY <1>1, <2>2, <2>3 DEF Ask, Fail, Done, Named, Elsewhere, Newer
<1>2. CASE Download
  BY <1>2 DEF Download, Fail, Elsewhere, Matches
<1>3. CASE Unstage
  BY <1>3 DEF Unstage, Elsewhere
<1>4. CASE Stage
  <2>1. image = target.version /\ swap = "no" /\ heir = heir'
    BY <1>4 DEF Stage, Elsewhere
  <2>2. NewerWaits'
    BY <1>4 DEF Stage, Fail, Done, Elsewhere
  <2>3. LooksFromHere' /\ AsideIsSame' /\ SetupIsInstalled'
    BY <1>4, <2>1 DEF Stage, Fail, Done, Elsewhere
  <2>4. HeirIsSame'
    BY <1>4 DEF Stage, Fail, Done, Elsewhere
  <2> QED
    BY <2>2, <2>3, <2>4
<1>5. CASE Start
  BY <1>5 DEF Start, Up
<1>6. CASE LookForNews
  BY <1>6 DEF LookForNews, HasNews
<1>7. CASE StartCheck
  BY <1>7 DEF StartCheck
<1>8. CASE Quit
  BY <1>8 DEF Quit, MayAct
<1>9. CASE Crash
  BY <1>9 DEF Crash, Down
<1>23. CASE SwapCutOff /\ staged # None /\ phase # "down"
  <2>1. /\ target'.version = staged.version /\ staged' = staged /\ staged \in Release
        /\ setup' = setup /\ heir' = heir /\ flavour' = flavour /\ pc' = "idle" /\ swap' = "no"
        /\ image' = None
    BY <1>23 DEF SwapCutOff, Landed, Down
  <2>2. setup = None
    BY <1>23
  <2>3. heir = None
    BY <1>23
  <2>4. NewerWaits' /\ SetupIsInstalled'
    BY <2>1, <2>2
  <2>5. LooksFromHere' /\ AsideIsSame'
    BY <2>1
  <2> QED
    BY <1>23, <2>1, <2>2, <2>3, <2>4, <2>5
<1>10. CASE RestartNow /\ RestartBySetup
  BY <1>10 DEF RestartNow, RestartBySetup, MayAct, HandOver, Launch, NotStarted, Outside
<1>11. CASE RestartNow /\ RestartBySwap
  BY <1>11
  DEF RestartNow, RestartBySwap, MayAct, SwapOver, Refused, Relaunch, NotStarted, Landed, Posix,
      Outside
<1>12. CASE RestartNow /\ RestartAside
  BY <1>12 DEF RestartNow, RestartAside, MayAct, MoveAside, MovedAside, Refused, Outside
<1>13. CASE RestartMovesIn
  <2>1. AsideIsSame' /\ SetupIsInstalled'
    BY <1>13 DEF RestartMovesIn, PutBack, Refused, Relaunch, NotStarted, Landed, Outside
  <2>2. NewerWaits'
    BY <1>13 DEF RestartMovesIn, PutBack, Refused, Relaunch, NotStarted, Landed, Outside
  <2>3. LooksFromHere'
    BY <1>13 DEF RestartMovesIn, PutBack, Refused, Relaunch, NotStarted, Landed, Outside
  <2>4. HeirIsSame'
    BY <1>13 DEF RestartMovesIn, PutBack, Refused, Relaunch, NotStarted, Landed, Outside
  <2> QED
    BY <2>1, <2>2, <2>3, <2>4
<1>14. CASE LeaveAsIs
  BY <1>14 DEF LeaveAsIs, MayLeave, Down
<1>15. CASE LeaveBySetup
  BY <1>15 DEF LeaveBySetup, MayLeave, HandOver, Launch, Down
<1>16. CASE MayLeave /\ staged # None /\ Posix /\ SwapOver /\ Down /\ UNCHANGED next
  BY <1>16 DEF MayLeave, SwapOver, Landed, Posix, Down
<1>17. CASE LeaveAside
  BY <1>17 DEF LeaveAside, MayLeave, MoveAside, MovedAside
<1>18. CASE LeaveMovesIn
  BY <1>18 DEF LeaveMovesIn, PutBack, Landed, Down
<1>19. CASE TryForTheLock
  BY <1>19 DEF TryForTheLock, Waits, Up
<1>20. CASE SetupInstalls
  <2>1. AsideIsSame' /\ SetupIsInstalled'
    BY <1>20 DEF SetupInstalls, Landed
  <2>2. NewerWaits'
    BY <1>20 DEF SetupInstalls, Landed
  <2>3. LooksFromHere'
    BY <1>20 DEF SetupInstalls, Landed
  <2>4. HeirIsSame'
    BY <1>20 DEF SetupInstalls, Landed
  <2> QED
    BY <2>1, <2>2, <2>3, <2>4
<1>21. CASE Publish
  BY <1>21 DEF Publish
<1>22. CASE UNCHANGED vars
  BY <1>22 DEF vars
<1> QED
  BY <1>1, <1>2, <1>3, <1>4, <1>5, <1>6, <1>7, <1>8, <1>9, <1>10, <1>11, <1>12, <1>13, <1>14,
     <1>15, <1>16, <1>17, <1>18, <1>19, <1>20, <1>21, <1>22, <1>23
  DEF Next, Worker, RestartNow, MayAct, Leave, LeaveBySwap, MayLeave

LEMMA StepIsNotDown == Typed /\ Ordered /\ Next => target'.version >= target.version
<1> SUFFICES ASSUME Typed, Ordered, Next PROVE target'.version >= target.version
  OBVIOUS
<1> USE VersionAssumption
    DEF Typed, TypeOK, DiskTypes, SwapIsOwned, Program, Release, Versions, NextTypes, disk,
        Ordered, NewerWaits, AsideIsSame
<1>1. target.version \in Nat
  OBVIOUS
<1>2. CASE target' = target
  BY <1>1, <1>2
<1>3. CASE target' = [target EXCEPT !.is = "gone"]
  BY <1>1, <1>3
<1>4. CASE staged # None /\ target' = Landed(staged)
  BY <1>1, <1>4 DEF Landed
<1>5. CASE swap # "no" /\ target' = aside
  BY <1>1, <1>5
<1>6. CASE setup # None /\ target' = Landed(setup)
  BY <1>1, <1>6 DEF Landed
<1> QED
  BY <1>2, <1>3, <1>4, <1>5, <1>6
  DEF Next, Worker, Ask, Download, Unstage, Stage, Elsewhere, Start, Up, LookForNews, StartCheck,
      Quit, Crash, RestartNow, RestartBySetup, RestartBySwap, RestartAside, RestartMovesIn, PutBack,
      SwapOver, SwapCutOff, MoveAside, HandOver, Leave, LeaveAsIs, LeaveBySetup, LeaveBySwap, LeaveAside,
      LeaveMovesIn, TryForTheLock, SetupInstalls, Publish

-----------------------------------------------------------------------------
(* The theorems.                                                           *)

LEMMA Types == Spec => []Typed
<1> QED
  BY TypedInit, TypedStep, PTL DEF Spec

\* Every variable keeps its type, and what the worker's program counter says of the others
\* (update/updater, update/install, App::run).
THEOREM UpdateTypes == Spec => []TypeOK
<1>1. Typed => TypeOK
  BY DEF Typed
<1> QED
  BY <1>1, Types, PTL

LEMMA KeepsAll == ~DiskFills => (Spec => []Kept)
<1> SUFFICES ASSUME ~DiskFills PROVE Spec => []Kept
  OBVIOUS
<1>1. Typed /\ Kept /\ [Next]_vars => Kept'
  BY KeptStep
<1> QED
  BY <1>1, KeptInit, Types, PTL DEF Spec

\* On a disk that stores what is written to it, a whole program is at its path, or beside it where Windows had it moved out of
\* the way (apply_swap).
THEOREM ProgramSurvives == ~DiskFills => (Spec => []ProgramIsThere)
<1>1. Kept => ProgramIsThere
  BY DEF Kept
<1> QED
  BY <1>1, KeepsAll, PTL

\* The program on the disk never goes back to an older version, whatever releases come and go
\* and however long one has been staged, where a staged file can be removed once it was copied
\* into place (Updater::run's comparison).
THEOREM NoDowngrade == ~RemoveFails => (Spec => NeverDowngrades)
<1> SUFFICES ASSUME ~RemoveFails PROVE Spec => NeverDowngrades
  OBVIOUS
<1>2. Typed /\ Ordered /\ [Next]_vars => Ordered'
  BY OrderedStep
<1>1. Typed /\ Ordered /\ [Next]_vars => [target'.version >= target.version]_vars
  BY StepIsNotDown
<1> QED
  BY <1>1, <1>2, Types, OrderedInit, PTL DEF Spec, NeverDowngrades

\* An exit that applies an update starts nothing afterwards (apply_on_exit,
\* hand_over_to_installer).
THEOREM NothingUnasked == Spec => OnlyWhenAsked
<1>1. Next => (~Summoned /\ Summoned' => asked')
  <2> SUFFICES ASSUME Next, ~Summoned, Summoned' PROVE asked'
    OBVIOUS
  <2>1. CASE UNCHANGED <<heir, setup>>
    BY <2>1 DEF Summoned
  <2> QED
    BY <2>1
    DEF Summoned, next, Next, Worker, Ask, Download, Unstage, Stage, Elsewhere, Start, Up,
        LookForNews,
        StartCheck, Quit, Crash, RestartNow, RestartBySetup, RestartBySwap, RestartAside, RestartMovesIn,
        SwapCutOff, Relaunch, NotStarted, Refused, MoveAside, HandOver, Launch, Leave, LeaveAsIs, LeaveBySetup,
        LeaveBySwap, LeaveAside, LeaveMovesIn, TryForTheLock, SetupInstalls, Publish
<1>2. [Next]_vars => [~Summoned /\ Summoned' => asked']_vars
  BY <1>1
<1> QED
  BY <1>2, PTL DEF Spec, OnlyWhenAsked
-----------------------------------------------------------------------------
(* The notice.                                                             *)

\* What is on its way to be staged is the release that was named, which is newer than the
\* program that asked; and it is a program that runs that says Ready.
NamedIsNewer ==
  pc \in {"downloading", "unstaging", "staging"} => job.version = available /\ available > image
ReadyRuns == state = "Ready" => phase # "down"
Noticed == NamedIsNewer /\ ReadyRuns /\ NoticeIsTrue

LEMMA NoticedStep == Typed /\ Noticed /\ [Next]_vars => Noticed'
<1> SUFFICES ASSUME Typed, Noticed, [Next]_vars PROVE Noticed'
  OBVIOUS
<1> USE VersionAssumption
    DEF Noticed, NamedIsNewer, ReadyRuns, NoticeIsTrue, disk, worker, next
<1>1. CASE Ask
  <2>1. phase # "down" /\ image \in Versions /\ published \in Versions
    BY <1>1 DEF Ask, Typed, TypeOK, Settled, ProcessTypes
  <2>2. image' = image /\ phase' = phase /\ staged' = staged
    BY <1>1 DEF Ask, Elsewhere
  <2>3. CASE pc' = "idle" /\ state' # "Ready"
    BY <2>2, <2>3
  <2>4. CASE /\ Newer(published) /\ available' = published /\ pc' = "downloading"
             /\ job' = [version |-> published, whole |-> FALSE] /\ state' = "Downloading"
    BY <2>1, <2>2, <2>4 DEF Newer
  <2> QED
    BY <1>1, <2>3, <2>4 DEF Ask, Fail, Done, Named
<1>2. CASE Download
  <2>1. image' = image /\ phase' = phase /\ staged' = staged
    BY <1>2 DEF Download, Elsewhere
  <2>2. job \in Release
    BY <1>2 DEF Download, Typed, JobIsThere
  <2>3. CASE Fail
    BY <2>1, <2>3 DEF Fail
  <2>4. CASE /\ pc' = "unstaging" /\ state' = "Verifying" /\ available' = available
             /\ job'.version = job.version
    BY <1>2, <2>1, <2>4 DEF Download
  <2> QED
    BY <1>2, <2>2, <2>3, <2>4 DEF Download, Release
<1>3. CASE Unstage
  BY <1>3 DEF Unstage, Elsewhere
<1>4. CASE Stage
  <2>1. image' = image /\ phase' = phase /\ pc = "staging" /\ phase # "down"
    BY <1>4 DEF Stage, Elsewhere, Typed, Settled
  <2>2. CASE Fail
    BY <2>1, <2>2 DEF Fail
  <2>3. CASE staged' = job /\ Done("Ready") /\ available' = available
    BY <2>1, <2>3 DEF Done
  <2> QED
    BY <1>4, <2>2, <2>3 DEF Stage
<1>5. ASSUME NEW v, Up(v) PROVE Noticed'
  BY <1>5 DEF Up
<1>6. CASE Start \/ TryForTheLock
  BY <1>5, <1>6 DEF Start, TryForTheLock
<1>7. CASE LookForNews \/ Quit \/ Publish
  BY <1>7 DEF LookForNews, Quit, Publish
<1>8. CASE StartCheck
  BY <1>8 DEF StartCheck
<1>9. ASSUME Down PROVE Noticed'
  BY <1>9 DEF Down
<1>10. CASE Crash
  BY <1>9, <1>10 DEF Crash
<1>11. ASSUME NEW why, MoveAside(why) PROVE Noticed'
  BY <1>11 DEF MoveAside
<1>12. ASSUME Outside, Relaunch, staged' \in {None, staged}, phase # "down" PROVE Noticed'
  BY <1>12 DEF Outside, Relaunch, NotStarted
<1>13. ASSUME Outside, Refused PROVE Noticed'
  BY <1>13 DEF Outside, Refused
<1>14. CASE RestartNow
  <2>1. phase = "up"
    BY <1>14 DEF RestartNow, MayAct
  <2>2. CASE RestartBySetup
    BY <1>14, <2>1, <2>2 DEF RestartBySetup, Outside, HandOver, NotStarted
  <2>3. CASE RestartBySwap
    BY <1>12, <1>13, <2>1, <2>3 DEF RestartBySwap, SwapOver
  <2>4. CASE RestartAside
    BY <1>11, <1>13, <2>4 DEF RestartAside
  <2>5. CASE SwapCutOff
    BY <1>9, <2>5 DEF SwapCutOff
  <2> QED
    BY <1>14, <2>2, <2>3, <2>4, <2>5 DEF RestartNow
<1>15. CASE RestartMovesIn
  <2>1. phase # "down"
    BY <1>15 DEF RestartMovesIn, Typed, SwapIsOwned
  <2> QED
    BY <1>12, <1>13, <1>15, <2>1 DEF RestartMovesIn
<1>16. CASE Leave
  BY <1>9, <1>11, <1>16
     DEF Leave, LeaveAsIs, LeaveBySetup, LeaveBySwap, SwapCutOff, LeaveAside, LeaveMovesIn
<1>17. CASE SetupInstalls
  BY <1>17 DEF SetupInstalls
<1>18. CASE UNCHANGED vars
  BY <1>18 DEF vars
<1> QED
  BY <1>1, <1>2, <1>3, <1>4, <1>6, <1>7, <1>8, <1>10, <1>14, <1>15, <1>16, <1>17, <1>18
     DEF Next, Worker

\* The notice of a program that runs names what Restart now would bring, newer than it, for
\* every number of versions and flavour, whatever is published, killed or refused meanwhile.
THEOREM NoticeSaysSo == Spec => []NoticeIsTrue
<1>1. Init => Noticed
  BY DEF Init, Noticed, NamedIsNewer, ReadyRuns, NoticeIsTrue
<1>2. Noticed => NoticeIsTrue
  BY DEF Noticed
<1> QED
  BY <1>1, <1>2, Types, NoticedStep, PTL DEF Spec
=============================================================================
