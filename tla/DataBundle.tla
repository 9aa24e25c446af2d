----------------------------- MODULE DataBundle -----------------------------
(***************************************************************************)
(* The game-data bundle: data/updater's worker, the directory data/install *)
(* keeps it in, and the part of App that starts checks and takes what is   *)
(* ready.  The process can be killed between any two steps that touch the  *)
(* disk, and starts again on what is there.                                *)
(*                                                                         *)
(* A bundle is a directory of files; a file is good, short (the write      *)
(* reported success and stored less), or not there.                        *)
(***************************************************************************)
EXTENDS Naturals

CONSTANTS
  Versions,  \* the data_versions that get published
  Files,     \* the files a manifest names
  Opens,     \* the versions GameData::open accepts: the others lack the client's language
  None

ASSUME VersionsAssumption == Opens \subseteq Versions /\ None \notin Versions
ASSUME FilesAssumption == Files # {}

VARIABLES
  published,  \* outside: the version the manifest on the server names
  current,    \* <root>/current
  installed,  \* <root>/<version>/, each a directory or None
  staging,    \* <root>/.tmp-<version>/
  running,    \* the process
  quitting,   \* App::run has left its loop: cancel_ is set and the worker is being joined
  pc,         \* DataUpdater::run
  job,        \* the version it is fetching
  todo,       \* the files still to fetch
  busy, state, version, ready,  \* busy_, status_.state, status_.data_version, ready_
  pending,    \* data_event_: "queued", or "refused" by a full queue, or "none"
  data        \* App::data_

disk == <<current, installed, staging>>
status == <<state, version, ready>>
volatile == <<pc, job, todo, busy, status, pending, data>>
vars == <<published, disk, running, quitting, volatile>>

Dir == [Files -> {"good", "short", "absent"}]
Empty == [f \in Files |-> "absent"]
Whole == [f \in Files |-> "good"]

\* publish(): SDL's queue may refuse the event, and nobody looks.
Pushed == pending' \in {"queued", IF pending = "queued" THEN "queued" ELSE "refused"}

-----------------------------------------------------------------------------
(* The main thread.                                                        *)

\* start_check() of App::refresh_checks: nothing happens while a worker is at it.
StartCheck ==
  /\ running /\ ~quitting /\ ~busy
  /\ busy' = TRUE /\ pc' = "manifest"
  /\ state' = "Checking" /\ Pushed
  /\ UNCHANGED <<published, disk, running, quitting, job, todo, version, ready, data>>

\* The data_event_ handler, which takes what is ready whatever the event was pushed for.
TakeFresh ==  \* altered: only when the last check was the one that got it
  /\ running /\ ~quitting /\ pending = "queued" /\ pending' = "none"
  /\ ready' = IF state = "UpToDate" THEN None ELSE ready
  /\ data' = IF ready = None \/ state # "UpToDate" THEN data ELSE ready
  /\ UNCHANGED <<published, disk, running, quitting, pc, job, todo, busy, state, version>>

TakeReady ==
  /\ running /\ ~quitting /\ pending = "queued"
  /\ pending' = "none" /\ ready' = None
  /\ data' = IF ready = None THEN data ELSE ready
  /\ UNCHANGED <<published, disk, running, quitting, pc, job, todo, busy, state, version>>

\* shutdown(): cancel_, then the join.
Quit ==
  /\ running /\ ~quitting /\ quitting' = TRUE
  /\ UNCHANGED <<published, disk, running, volatile>>

Gone ==
  /\ running' = FALSE /\ quitting' = FALSE
  /\ pc' = "idle" /\ job' = None /\ todo' = {} /\ busy' = FALSE
  /\ state' = "Idle" /\ version' = None /\ ready' = None /\ pending' = "none" /\ data' = None
  /\ UNCHANGED <<published, disk>>

Exit == running /\ quitting /\ pc = "idle" /\ Gone
Crash == running /\ Gone

\* load_installed(): prune() keeps what `current` names, and that is mapped; then the
\* check every start makes.
Usable(v) == v \in Opens /\ installed[v] = Whole

Start ==
  /\ ~running /\ running' = TRUE
  /\ installed' = [v \in Versions |-> IF v = current THEN installed[v] ELSE None]
  /\ staging' = [v \in Versions |-> None]
  /\ data' = IF current \in Versions /\ Usable(current) THEN current ELSE None
  /\ version' = data'
  /\ busy' = TRUE /\ pc' = "manifest" /\ state' = "Checking" /\ Pushed
  /\ UNCHANGED <<published, current, quitting, job, todo, ready>>

-----------------------------------------------------------------------------
(* DataUpdater::run.                                                       *)

Fail == /\ state' = "Failed" /\ pc' = "ending"
        /\ UNCHANGED <<job, todo, busy, version, ready, pending>>

Elsewhere == UNCHANGED <<published, running, quitting, data>>

SameAsStatus(v) == version = v  \* altered: compared with what the status line says
Same(v) == current = v

\* The manifest: not there or not usable, nothing new in it, or a list of files.
FetchManifest ==
  /\ pc = "manifest"
  /\ \/ Fail
     \/ /\ Same(published)
        /\ state' = "UpToDate" /\ version' = published /\ pc' = "ending"
        /\ UNCHANGED <<job, todo, busy, ready, pending>>
     \/ /\ ~Same(published)
        /\ job' = published /\ todo' = Files /\ pc' = "files"
        /\ state' = "Downloading" /\ Pushed
        /\ UNCHANGED <<busy, version, ready>>
  /\ Elsewhere /\ UNCHANGED disk

\* stage(): the bytes are checked before they are written, and not after.
FetchFile ==
  /\ pc = "files" /\ todo # {}
  /\ \/ Fail /\ UNCHANGED disk
     \/ \E f \in todo, stored \in {"good", "short"} :
          /\ ~quitting
          /\ staging' = [staging EXCEPT ![job] = [(IF @ = None THEN Empty ELSE @) EXCEPT ![f] = stored]]
          /\ todo' = todo \ {f} /\ Pushed
          /\ UNCHANGED <<pc, job, busy, status, current, installed>>
  /\ Elsewhere

\* commit(), one step for every change it makes to the disk.
VerifiedInFlight == TRUE  \* altered: what stage() checked is not read back
Verified == staging[job] = Whole

Verify ==
  /\ pc = "files" /\ todo = {}
  /\ \/ Fail
     \/ /\ Verified
        /\ pc' = "clear" /\ state' = "Installing" /\ Pushed
        /\ UNCHANGED <<job, todo, busy, version, ready>>
  /\ Elsewhere /\ UNCHANGED disk

\* remove_all() of a directory that has the name already: all of it, or as far as it got.
Clear ==
  /\ pc = "clear"
  /\ installed' = [installed EXCEPT ![job] = None]
       \/ /\ installed[job] # None
          /\ \E f \in Files : installed' = [installed EXCEPT ![job][f] = "absent"]
  /\ pc' = "rename"
  /\ Elsewhere /\ UNCHANGED <<current, staging, job, todo, busy, status, pending>>

Rename ==
  /\ pc = "rename"
  /\ \/ Fail /\ UNCHANGED disk
     \/ /\ installed[job] = None
        /\ installed' = [installed EXCEPT ![job] = staging[job]]
        /\ staging' = [staging EXCEPT ![job] = None]
        /\ pc' = "flip"
        /\ UNCHANGED <<current, job, todo, busy, status, pending>>
  /\ Elsewhere

Flip ==
  /\ pc = "flip"
  /\ \/ Fail /\ UNCHANGED disk
     \/ /\ current' = job /\ pc' = "open"
        /\ UNCHANGED <<installed, staging, job, todo, busy, status, pending>>
  /\ Elsewhere

Open ==
  /\ pc = "open"
  /\ \/ Fail /\ ~Usable(job)
     \/ /\ Usable(job)
        /\ ready' = job /\ state' = "UpToDate" /\ version' = job /\ pc' = "ending"
        /\ UNCHANGED <<job, todo, busy, pending>>
  /\ Elsewhere /\ UNCHANGED disk

\* busy_ = false, and the main loop is woken.
EndUnseen == /\ pc = "ending" /\ pc' = "idle"  \* altered: nobody is told
             /\ busy' = FALSE /\ job' = None /\ todo' = {}
             /\ Elsewhere /\ UNCHANGED <<disk, status, pending>>
End == /\ pc = "ending" /\ pc' = "idle"
       /\ busy' = FALSE /\ job' = None /\ todo' = {} /\ Pushed
       /\ Elsewhere /\ UNCHANGED <<disk, status>>

Worker == FetchManifest \/ FetchFile \/ Verify \/ Clear \/ Rename \/ Flip \/ Open \/ End

\* Outside: another version is published, an older one too.
Publish == \E v \in Versions : /\ published' = v /\ v # published
                               /\ UNCHANGED <<disk, running, quitting, volatile>>

Init ==
  /\ published \in Versions /\ current = None
  /\ installed = [v \in Versions |-> None] /\ staging = [v \in Versions |-> None]
  /\ running = FALSE /\ quitting = FALSE /\ pc = "idle" /\ job = None /\ todo = {}
  /\ busy = FALSE /\ state = "Idle" /\ version = None /\ ready = None
  /\ pending = "none" /\ data = None

Next == \/ Worker
        \/ StartCheck \/ TakeReady \/ Quit \/ Exit \/ Crash \/ Start
        \/ Publish

Spec == Init /\ [][Next]_vars

\* Every request has a timeout, and the main loop goes on handling its events.
FairSpec == Spec /\ WF_vars(Worker) /\ WF_vars(TakeReady)

-----------------------------------------------------------------------------
TypeOK ==
  /\ published \in Versions /\ {current, job, version, ready, data} \subseteq Versions \cup {None}
  /\ installed \in [Versions -> Dir \cup {None}] /\ staging \in [Versions -> Dir \cup {None}]
  /\ todo \subseteq Files /\ {running, quitting, busy} \subseteq BOOLEAN
  /\ pending \in {"none", "queued", "refused"}
  /\ pc \in {"idle", "manifest", "files", "clear", "rename", "flip", "open", "ending"}
  /\ state \in {"Idle", "Checking", "Downloading", "Installing", "UpToDate", "Failed"}
  /\ busy <=> pc # "idle"

\* Whatever `current` names is on the disk with every byte the manifest asked for, at
\* every instant a crash could leave it at (BundleStore::commit and its rename order).
CurrentIsWhole == current # None => installed[current] = Whole

\* "Up to date" is said of the version on the disk, and when that one can be opened it
\* is also the one in use or the one about to be (DataUpdater::run).
InUse == IF ready # None THEN ready ELSE data
UpToDateIsTrue ==
  state = "UpToDate" => version = current /\ (current \in Opens => InUse = current)

\* A bundle that is ready gets to the application, or the application is going, or the
\* queue was full when it was told (take_ready_bundle, DataUpdater::publish).
ReadyIsTaken == (ready # None) ~> (ready = None \/ quitting \/ pending = "refused")

\* And no bundle is lost with its event: if checks go on being made and one event in many
\* gets through, the next check brings it in whatever comes of that check, a failure too,
\* unless a later bundle takes its place first (App::run's data_event_, refresh_checks).
ChecksGoOn == WF_vars(StartCheck) /\ SF_vars(End /\ pending' = "queued")
NextCheckDelivers ==
  ChecksGoOn => \A v \in Versions :
    (ready = v) ~> (data = v \/ ready \notin {v, None} \/ quitting \/ ~running)
=============================================================================
