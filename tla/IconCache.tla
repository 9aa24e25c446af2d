------------------------------ MODULE IconCache ------------------------------
(***************************************************************************)
(* The pictures beside a price (src/icon_cache.cpp): a frame asks for one  *)
(* and is told "not yet", a thread that lives as long as the program does  *)
(* reads or fetches it and decodes it, and the top of a later frame makes  *)
(* it a texture.  The two threads share a queue and a list of what is      *)
(* ready, under one mutex.                                                 *)
(***************************************************************************)
EXTENDS Integers, Sequences

CONSTANTS
  Urls,         \* the pictures there are
  Thread,       \* the state of a thread that has no picture in hand
  MaxEnds       \* bound: runs that end

VARIABLES
  entries,      \* [Urls -> what the main thread knows of it]
  queue, ready, \* what is asked for, and what came of it: [url, decoded]
  iWorker,      \* the picture the thread has in hand, or Thread
  iDisk,        \* the cached file: "none", "whole", or "bad", which does not decode
  ends

iVars == <<entries, queue, ready, iWorker, iDisk, ends>>

IconsInit ==
  /\ entries = [u \in Urls |-> "unknown"] /\ queue = <<>> /\ ready = <<>> /\ iWorker = Thread
  /\ iDisk = [u \in Urls |-> "none"] /\ ends = 0

\* texture(), for a price that is drawn with `u': asked for once.
Texture(u) ==
  /\ entries[u] = "unknown"
  /\ entries' = [entries EXCEPT ![u] = "pending"] /\ queue' = Append(queue, u)
  /\ UNCHANGED <<ready, iWorker, iDisk, ends>>

Take ==
  /\ iWorker = Thread /\ queue # <<>>
  /\ iWorker' = Head(queue) /\ queue' = Tail(queue)
  /\ UNCHANGED <<entries, ready, iDisk, ends>>

Pushed(decoded) ==
  /\ iWorker' = Thread /\ ready' = Append(ready, [url |-> iWorker, decoded |-> decoded])
  /\ UNCHANGED <<entries, queue, ends>>

FromDisk ==
  /\ iWorker # Thread /\ iDisk[iWorker] # "none"
  /\ Pushed(iDisk[iWorker] = "whole") /\ UNCHANGED iDisk

\* A response that is not a picture is stored like one; what the disk takes of
\* a picture is not looked at.
Fetch ==
  /\ iWorker # Thread /\ iDisk[iWorker] = "none"
  /\ \/ Pushed(FALSE) /\ iDisk' \in {iDisk, [iDisk EXCEPT ![iWorker] = "bad"]}
     \/ Pushed(TRUE) /\ \E file \in {"none", "bad", "whole"} : iDisk' = [iDisk EXCEPT ![iWorker] = file]

\* pump(), at the top of a frame: everything that is ready.
Uploaded ==
  [u \in Urls |->
     LET of == {i \in DOMAIN ready : ready[i].url = u}
     IN  IF of = {} THEN entries[u]
         ELSE IF \E i \in of : ready[i].decoded THEN "texture" ELSE "failed"]
Pump ==
  /\ ready # <<>> /\ ready' = <<>> /\ entries' = Uploaded
  /\ UNCHANGED <<queue, iWorker, iDisk, ends>>

\* The run ends: shutdown() lets the thread finish what it has in hand, a kill
\* can cut off the file it writes.  What was ready is thrown away.
IconsRelaunch ==
  /\ ends < MaxEnds /\ ends' = ends + 1
  /\ \/ iWorker = Thread /\ UNCHANGED iDisk
     \/ /\ iWorker # Thread /\ iDisk[iWorker] = "none"
        /\ iDisk' \in {iDisk, [iDisk EXCEPT ![iWorker] = "bad"]}
  /\ entries' = [u \in Urls |-> "unknown"] /\ queue' = <<>> /\ ready' = <<>>
  /\ iWorker' = Thread

IconsNext ==
  \/ \E u \in Urls : Texture(u)
  \/ Take
  \/ FromDisk
  \/ Fetch
  \/ Pump
  \/ IconsRelaunch

\* A download has a timeout; frames are drawn while a panel is up.
IconsFairness == WF_iVars(Take) /\ WF_iVars(FromDisk \/ Fetch) /\ WF_iVars(Pump)

\* What was asked for is answered, with a texture or a failure.
IconsEnd == \A u \in Urls : entries[u] = "pending" ~> entries[u] # "pending"
=============================================================================
