----------------------------- MODULE SelfUpdate -----------------------------
(***************************************************************************)
(* The program replacing itself: update/updater's worker, which stages a   *)
(* release; update/install, which puts it where the program is; the two    *)
(* ways that happens, Restart now and the exit; and the copy that is       *)
(* started in its place and waits for the lock the old one still holds     *)
(* (App::run).  The process can be killed between any two steps.           *)
(*                                                                         *)
(* A version is its place in the order Version compares by.                *)
(***************************************************************************)
EXTENDS Naturals

CONSTANTS
  Newest,    \* the versions are 1..Newest, and the program is installed as the first
  Flavours,  \* how this copy got here, as detect_flavour() tells it
  Patience,  \* the 30 times a copy started with --updated waits for the lock
  Drain,     \* the waits an exit outlasts
  DiskFills, \* a file can be closed with less in it than was written
  RemoveFails, \* a staged file that was copied into place cannot be removed for a while
  None

AllFlavours == {"WinInstalled", "WinPortable", "AppImage", "LinuxBinary", "Unknown"}
Versions == 1..Newest

ASSUME VersionAssumption == Newest \in Nat \ {0} /\ None \notin Versions
ASSUME FlavourAssumption == Flavours \subseteq AllFlavours /\ Flavours # {}
ASSUME WaitAssumption == Patience \in Nat /\ Drain \in Nat
ASSUME DiskAssumption == DiskFills \in BOOLEAN /\ RemoveFails \in BOOLEAN

VARIABLES
  published,  \* outside: the version latest.json names
  flavour,    \* outside: how it was installed
  target,     \* the file the program is started from: its version, and how much of it is there
  aside,      \* the same with .old appended, or None
  staged,     \* <cache>/update/staged: a version, and whether every byte of it was stored; or None
  phase,      \* the process: down, up, or leaving (App::run past its loop)
  swap,       \* why the program is moved aside just now, on Windows
  image,      \* the version that runs
  asking,     \* refresh_checks() has looked for news and is about to start a check
  pc, job,    \* Updater::run, and what it has downloaded
  busy, state, available,
  heir,       \* the copy started with --updated: its version and the waits behind it, or None
  setup,      \* the installer that was started, and whether it is to start the program
  asked       \* Restart now is on its way

disk == <<target, aside, staged>>
worker == <<pc, job, busy, state, available>>
next == <<heir, setup, asked>>
vars == <<published, flavour, disk, phase, swap, image, asking, worker, next>>

-----------------------------------------------------------------------------
(* Updater::run.                                                           *)

AnyOther(v) == v # image  \* altered: different is enough
Newer(v) == v > image

NamedOnce(v) == IF available = None THEN v ELSE available  \* altered: the first news stays
Named(v) == v

Fail == state' = "Failed" /\ pc' = "idle" /\ job' = None /\ busy' = FALSE /\ UNCHANGED available
Done(s) == state' = s /\ pc' = "idle" /\ job' = None /\ busy' = FALSE

Elsewhere == UNCHANGED <<published, flavour, target, aside, phase, swap, image, asking, next>>

\* latest.json: not there, nothing newer, newer but not for us to apply, or to be fetched.
Ask ==
  /\ pc = "asking"
  /\ \/ Fail
     \/ ~Newer(published) /\ available' = None /\ Done("UpToDate")
     \/ Newer(published) /\ available' = Named(published) /\ Done("Offer")
     \/ /\ Newer(published) /\ flavour # "Unknown"
        /\ available' = Named(published) /\ job' = [version |-> published, whole |-> FALSE]
        /\ pc' = "downloading" /\ state' = "Downloading" /\ UNCHANGED busy
  /\ Elsewhere /\ UNCHANGED staged

\* What came over the network is hashed as it comes, and written beside that.
Matches(arrived) == arrived

Download ==
  /\ pc = "downloading"
  /\ \/ Fail
     \/ \E arrived, stored \in BOOLEAN :
          /\ Matches(arrived) /\ (stored \/ DiskFills)
          /\ job' = [job EXCEPT !.whole = arrived /\ stored]
          /\ pc' = "unstaging" /\ state' = "Verifying" /\ UNCHANGED <<busy, available>>
  /\ Elsewhere /\ UNCHANGED staged

Unstage ==
  /\ pc = "unstaging"
  /\ staged' = None /\ pc' = "staging"
  /\ Elsewhere /\ UNCHANGED <<job, busy, state, available>>

Stage ==
  /\ pc = "staging"
  /\ \/ Fail /\ UNCHANGED staged
     \/ staged' = job /\ Done("Ready") /\ UNCHANGED available
  /\ Elsewhere

Worker == Ask \/ Download \/ Unstage \/ Stage

-----------------------------------------------------------------------------
(* Starting, checking and leaving.                                         *)

\* What a process starts with; start_check() follows unless auto_update is off.
Up(v) ==
  /\ phase' = "up" /\ image' = v /\ asked' = FALSE
  /\ aside' = None  \* sweep_old()
  /\ \/ busy' = TRUE /\ pc' = "asking" /\ state' = "Checking"
     \/ busy' = FALSE /\ pc' = "idle" /\ state' = "Idle"
  /\ UNCHANGED <<published, flavour, target, staged, swap, asking, job, available, setup>>

Down ==
  /\ phase' = "down" /\ swap' = "no" /\ asking' = FALSE /\ image' = None
  /\ pc' = "idle" /\ job' = None /\ busy' = FALSE /\ state' = "Idle" /\ available' = None
  /\ UNCHANGED <<published, flavour>>

\* By the user, who leaves an installer or a copy that is about to take over its few seconds.
Start == /\ phase = "down" /\ heir = None /\ setup = None /\ target.is = "whole"
         /\ Up(target.version) /\ UNCHANGED heir

\* refresh_checks(), and the button that is there when there is no news: status() first,
\* start_check() after it.
HasNews == state \in {"Ready", "Offer"}
LookForNews ==
  /\ phase = "up" /\ swap = "no" /\ ~asking /\ ~HasNews /\ asking' = TRUE
  /\ UNCHANGED <<published, flavour, disk, phase, swap, image, worker, next>>

StartCheck ==
  /\ asking /\ asking' = FALSE
  /\ \/ busy /\ UNCHANGED worker
     \/ ~busy /\ busy' = TRUE /\ pc' = "asking" /\ state' = "Checking" /\ UNCHANGED <<job, available>>
  /\ UNCHANGED <<published, flavour, disk, phase, swap, image, next>>

MayAct == phase = "up" /\ swap = "no" /\ ~asking

Quit ==
  /\ MayAct /\ phase' = "leaving"
  /\ UNCHANGED <<published, flavour, disk, swap, image, asking, worker, next>>

Crash == phase # "down" /\ Down /\ UNCHANGED <<disk, next>>

-----------------------------------------------------------------------------
(* update/install: how what is staged becomes the program.                 *)

Posix == flavour \in {"AppImage", "LinuxBinary"}
Landed(s) == [version |-> s.version, is |-> IF s.whole THEN "whole" ELSE "short"]

\* A rename, or from another filesystem a copy beside the program, a rename of that, and a
\* remove, whose failure is not looked at and which a kill can come before.
SwapOver == /\ target' = Landed(staged) /\ UNCHANGED aside
            /\ staged' = None \/ (RemoveFails /\ staged' = staged)
SwapCutOff == Posix /\ target' = Landed(staged) /\ UNCHANGED <<aside, staged, next>> /\ Down

\* Windows: the running program is renamed out of the way first.
OverwrittenBy == None  \* altered: nothing is kept of it
MovedAside == target
MoveAside(why) ==
  /\ target.is # "gone" /\ aside' = MovedAside /\ target' = [target EXCEPT !.is = "gone"]
  /\ swap' = why
  /\ UNCHANGED <<published, flavour, staged, phase, image, asking, worker, next>>

\* The second rename fails, and the first is undone, if that works.
PutBack == \/ target' = aside /\ aside' = None
           \/ UNCHANGED <<target, aside>>

\* hand_over_to_installer(): the staged file is renamed, and started.
Launch(relaunch) == relaunch
HandOver(relaunch) ==
  /\ staged' = None /\ setup' = [version |-> staged.version, whole |-> staged.whole,
                                 launch |-> Launch(relaunch)]
  /\ UNCHANGED <<target, aside>>

-----------------------------------------------------------------------------
(* restart_now(), and the application quitting on its answer.              *)

Outside == UNCHANGED <<published, flavour, image, asking>>
Refused == /\ state' = "Failed" /\ UNCHANGED <<pc, job, busy, available, phase, next>>
NotStarted == UNCHANGED <<phase, worker, next>>

\* spawn_detached(), with --updated; a program that is not whole does not start.
Relaunch ==
  \/ NotStarted
  \/ /\ heir' = IF target'.is = "whole" THEN [version |-> target'.version, waits |-> 0] ELSE None
     /\ phase' = "leaving" /\ asked' = TRUE /\ UNCHANGED <<worker, setup>>

RestartBySetup ==
  /\ flavour = "WinInstalled"
  /\ \/ UNCHANGED <<disk, phase, worker, next>>
     \/ HandOver(TRUE) /\ phase' = "leaving" /\ asked' = TRUE /\ UNCHANGED <<worker, heir>>
     \/ staged' = None /\ NotStarted /\ UNCHANGED <<target, aside>>
  /\ Outside /\ UNCHANGED swap

RestartBySwap ==
  /\ Posix
  /\ \/ Refused /\ UNCHANGED disk
     \/ SwapOver /\ Relaunch
  /\ Outside /\ UNCHANGED swap

RestartAside ==
  /\ flavour = "WinPortable"
  /\ \/ Refused /\ UNCHANGED <<disk, swap>> /\ Outside
     \/ MoveAside("restart")

RestartNow == /\ MayAct /\ state = "Ready" /\ staged # None
              /\ RestartBySetup \/ RestartBySwap \/ SwapCutOff \/ RestartAside

RestartMovesIn ==
  /\ swap = "restart" /\ swap' = "no"
  /\ \/ target' = Landed(staged) /\ staged' = None /\ UNCHANGED aside /\ Relaunch
     \/ PutBack /\ Refused /\ UNCHANGED staged
  /\ Outside

-----------------------------------------------------------------------------
(* apply_on_exit(), after the worker is joined; then the lock goes.        *)

MayLeave == phase = "leaving" /\ pc = "idle" /\ swap = "no"

LeaveAsIs == MayLeave /\ Down /\ UNCHANGED <<disk, next>>  \* nothing staged, or it cannot be applied
\* An installer that is renamed and then not started lies where the next start removes it.
LeaveBySetup == /\ MayLeave /\ staged # None /\ flavour = "WinInstalled"
                /\ \/ HandOver(FALSE)
                   \/ staged' = None /\ UNCHANGED <<target, aside, setup>>
                /\ Down /\ UNCHANGED <<heir, asked>>
LeaveBySwap == /\ MayLeave /\ staged # None /\ Posix
               /\ \/ SwapOver /\ Down /\ UNCHANGED next
                  \/ SwapCutOff
LeaveAside == MayLeave /\ staged # None /\ flavour = "WinPortable" /\ MoveAside("exit")
LeaveMovesIn ==
  /\ swap = "exit"
  /\ \/ target' = Landed(staged) /\ staged' = None /\ UNCHANGED aside
     \/ PutBack /\ UNCHANGED staged
  /\ Down /\ UNCHANGED next

Leave == LeaveAsIs \/ LeaveBySetup \/ LeaveBySwap \/ LeaveAside \/ LeaveMovesIn

-----------------------------------------------------------------------------
(* The copy that takes over, and the world.                                *)

\* App::run(relaunched): it tries for the lock, and waits, and tries, 30 waits in all; an exit,
\* which joins workers that may sit in a request, takes no more than Drain of them.
OneWait == 1  \* altered: it tries once more at most
Waits == Patience
TryForTheLock ==
  /\ heir # None
  /\ \/ phase = "down" /\ Up(heir.version) /\ heir' = None
     \/ /\ phase # "down" /\ (phase = "leaving" => heir.waits < Drain)
        /\ \/ heir.waits >= Waits /\ heir' = None /\ asked' = FALSE
           \/ heir.waits < Waits /\ heir' = [heir EXCEPT !.waits = @ + 1] /\ UNCHANGED asked
        /\ UNCHANGED <<published, flavour, disk, phase, swap, image, asking, worker, setup>>

SetupInstalls ==
  /\ setup # None /\ phase = "down"
  /\ target' = IF setup.whole THEN Landed(setup) ELSE target
  /\ heir' = IF setup.launch THEN [version |-> target'.version, waits |-> 0] ELSE heir
  /\ setup' = None
  /\ UNCHANGED <<published, flavour, aside, staged, phase, swap, image, asking, worker, asked>>

Publish == /\ published' \in Versions \ {published}
           /\ UNCHANGED <<flavour, disk, phase, swap, image, asking, worker, next>>

Init ==
  /\ published \in Versions /\ flavour \in Flavours
  /\ target = [version |-> 1, is |-> "whole"] /\ aside = None /\ staged = None
  /\ phase = "down" /\ swap = "no" /\ image = None /\ asking = FALSE
  /\ pc = "idle" /\ job = None /\ busy = FALSE /\ state = "Idle" /\ available = None
  /\ heir = None /\ setup = None /\ asked = FALSE

Next == \/ Worker
        \/ Start \/ LookForNews \/ StartCheck \/ Quit \/ Crash
        \/ RestartNow \/ RestartMovesIn \/ Leave
        \/ TryForTheLock \/ SetupInstalls
        \/ Publish

Spec == Init /\ [][Next]_vars

\* Every request has a timeout, a process that has begun to leave does, the new copy's loop
\* runs, and an installer that was started gets its work done.
FairSpec == /\ Spec /\ WF_vars(Worker) /\ WF_vars(StartCheck) /\ WF_vars(RestartMovesIn)
            /\ WF_vars(Leave) /\ WF_vars(TryForTheLock) /\ WF_vars(SetupInstalls)

-----------------------------------------------------------------------------
Program == [version : Versions, is : {"whole", "short", "gone"}]
Release == [version : Versions, whole : BOOLEAN]

DiskTypes == target \in Program /\ aside \in Program \cup {None} /\ staged \in Release \cup {None}
ProcessTypes ==
  /\ phase \in {"down", "up", "leaving"} /\ swap \in {"no", "restart", "exit"}
  /\ image \in Versions \cup {None} /\ (image = None <=> phase = "down")
  /\ asking \in BOOLEAN /\ asked \in BOOLEAN
WorkerTypes ==
  /\ pc \in {"idle", "asking", "downloading", "unstaging", "staging"} /\ job \in Release \cup {None}
  /\ busy \in BOOLEAN /\ (busy <=> pc # "idle")
  /\ state \in {"Idle", "Checking", "Downloading", "Verifying", "UpToDate", "Ready", "Offer", "Failed"}
  /\ available \in Versions \cup {None}
NextTypes ==
  /\ heir \in [version : Versions, waits : 0..Patience] \cup {None}
  /\ setup \in [version : Versions, whole : BOOLEAN, launch : BOOLEAN] \cup {None}

TypeOK == /\ published \in Versions /\ flavour \in Flavours
          /\ DiskTypes /\ ProcessTypes /\ WorkerTypes /\ NextTypes

\* There is a whole program at its path; a Windows swap that was cut off or could not be
\* undone has left it beside that path (apply_swap).
ProgramIsThere == \/ target.is = "whole"
                  \/ target.is = "gone" /\ flavour = "WinPortable" /\ aside \in Program /\ aside.is = "whole"

\* The notice names what Restart now would bring: the release that is staged, and newer than
\* the one that runs (Updater::State::Ready).
NoticeIsTrue ==
  state = "Ready" => available > image /\ (staged # None => staged.version = available)

\* The program on the disk never goes back to an older version by itself, although the
\* releases do and a staged file outlives the run that staged it (Updater::run's comparison).
NeverDowngrades == [][target'.version >= target.version]_vars

\* Nothing is started that the user did not ask to be: an update applied by an exit stays
\* applied and no more (apply_on_exit, hand_over_to_installer).
Summoned == heir # None \/ (setup # None /\ setup.launch)
OnlyWhenAsked == [][~Summoned /\ Summoned' => asked']_vars

\* After Restart now the program comes back by itself, whoever publishes, quits or is killed
\* meanwhile; the one excuse is an exit that outlasts every wait of the copy that takes over,
\* and then what is on the disk is the release that was asked for (App::run's wait).
Outlasted == /\ phase = "leaving" /\ heir # None /\ heir.waits = Patience
             /\ target = [version |-> heir.version, is |-> "whole"]
ComesBack == asked ~> (phase = "up" /\ ~asked) \/ Outlasted
=============================================================================
