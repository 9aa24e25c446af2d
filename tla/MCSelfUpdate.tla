---------------------------- MODULE MCSelfUpdate ----------------------------
(***************************************************************************)
(* SelfUpdate for TLC, and what the repository says of it that does not    *)
(* hold under one trouble or another (README, other disagreements).        *)
(***************************************************************************)
EXTENDS SelfUpdate

\* "so `staged` never names a partial file" (update/updater.cpp), on a disk that fills up as
\* the file is closed.
NeverPartial == staged # None => staged.whole

\* "Waiting is the whole difference between an update that lands and one that looks like it
\* broke the application" (App::run), with an exit that outlasts the waits.
AlwaysComesBack == asked ~> phase = "up" /\ ~asked

\* "a machine that loses power mid-update still has one whole executable at the path"
\* (docs/updater.md).
AtThePath == target.is = "whole"

\* "verified and staged; waiting for a restart" (update/updater.hpp).
ReadyIsStaged == state = "Ready" /\ phase = "up" => staged # None \/ swap # "no"

\* "False means nothing was started and nothing was changed" (update/updater.hpp).
FalseChangesNothing == [][RestartNow /\ phase' = "up" /\ swap' = "no" => UNCHANGED disk]_vars

\* "It is skipped while has_news()" (docs/updater.md), of the check that rides on a hotkey.
NoticeStays == [][HasNews => state' # "Checking" \/ phase = "down"]_vars

\* "a binary downgrade would fight the release the user chose" (docs/updater.md), with a user
\* who installs the one they choose.
ByHand == /\ phase = "down" /\ heir = None /\ setup = None
          /\ \E v \in Versions : target' = [version |-> v, is |-> "whole"]
          /\ UNCHANGED <<published, flavour, aside, staged, phase, swap, image, asking, worker, next>>
SpecByHand == Init /\ [][Next \/ ByHand]_vars
KeepsChosen == [][Leave => target'.version >= target.version]_vars

\* The same words, of a program that goes on after a remove that failed.
NeverOlder == NeverDowngrades
=============================================================================
