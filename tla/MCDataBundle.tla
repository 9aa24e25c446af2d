---------------------------- MODULE MCDataBundle ----------------------------
(***************************************************************************)
(* DataBundle for TLC, and what the repository says of it that the code    *)
(* does not do.                                                            *)
(***************************************************************************)
EXTENDS DataBundle

CONSTANTS first, second, stats, items

Two == {first, second}
OnlyFirst == {first}
TwoFiles == {stats, items}

\* "Installed bundle is unusable; will re-download" (data/updater.cpp, load_installed):
\* a session that could map nothing does not settle for what is installed.
WillRedownload == state = "UpToDate" => InUse # None
=============================================================================
