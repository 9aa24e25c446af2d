------------------------------ MODULE Clipboard ------------------------------
(***************************************************************************)
(* The X11 clipboard (platform/clipboard_x11.cpp) under the copy and the   *)
(* paste of app.cpp.  There is no store: a selection is owned by a window, *)
(* which is asked for its text and answers when it likes.  The main thread *)
(* watches who takes it and asks the owner; a thread of its own holds what *)
(* the program put there and answers the others.                           *)
(*                                                                         *)
(* Each client handles what the server sends it in order.  The log of who  *)
(* took the selection stands for its timestamps, and a window's text is    *)
(* the entry of the log it took the selection with.  What the server tells *)
(* us of a change has reached us by the next thing the user asks for.      *)
(***************************************************************************)
EXTENDS Naturals, Sequences, FiniteSets, SequencesExt

CONSTANTS
  Windows,     \* the other clients that copy and paste
  Offers,      \* [Windows -> SUBSET formats]: what each can render
  None,
  MaxLog,      \* bound: how often the selection changes hands
  MaxMoves,    \* bound: checks and pastes the user asks for
  MaxPastes    \* bound: pastes into a window

ASSUME ClientsAssumption == "us" \notin Windows /\ None \notin Windows \cup {"us"} /\ None \notin Nat
ASSUME LogAssumption == MaxLog \in Nat

VARIABLES
  log,         \* who took the selection, None for a drop: [by, put]
  mail,        \* what each client has not handled yet
  holds,       \* the entry of the log a window would render, 0 for nothing
  \* the check, and the read behind it
  copyPending, copyStamp, changes, poked,
  target,      \* the format asked for, 0 outside clipboard_text()
  requests,    \* conversions asked for so far
  notes,       \* SelectionNotify events queued for our window
  prop,        \* PPC_CLIPBOARD: [by, n, id]
  \* the put: the main thread and the owner's
  waiting,     \* the put set() waits for, or None
  pending, requested, taken, owned,
  pc, seq, stamp, served,
  \* history
  since,       \* the log at the last hotkey
  first,       \* the first request of the last read
  got,         \* what that read returned
  gaveUp,      \* puts whose set() stopped waiting
  promised,    \* puts whose set() returned true
  wiped,       \* what was served was cleared for an ownership before it
  pasted,      \* the last paste we answered: [asked, served, wiped]
  moves, pastes

logVars   == <<log, holds>>
checkVars == <<copyPending, copyStamp, changes, poked, since>>
readVars  == <<target, requests, notes, prop, first, got>>
putVars   == <<waiting, pending, requested, gaveUp, promised>>
ownVars   == <<taken, owned, pc, seq, stamp, served, wiped>>
pasteVars == <<pasted, pastes>>
vars == <<moves, logVars, mail, checkVars, readVars, putVars, ownVars, pasteVars>>

Formats == <<"utf8", "plain", "string">>
Clients == Windows \cup {"us"}
Owner == IF log = <<>> THEN None ELSE Last(log).by
Nothing == [by |-> None, n |-> 0, id |-> 0]

Init ==
  /\ log = <<>> /\ holds = [w \in Windows |-> 0] /\ mail = [c \in Clients |-> <<>>]
  /\ copyPending = FALSE /\ copyStamp = 0 /\ changes = 0 /\ poked = FALSE
  /\ target = 0 /\ requests = 0 /\ notes = <<>> /\ prop = Nothing
  /\ waiting = None /\ pending = 0 /\ requested = 0 /\ taken = 0 /\ owned = FALSE
  /\ pc = "select" /\ seq = 0 /\ stamp = 0 /\ served = 0
  /\ since = 0 /\ first = 0 /\ got = Nothing /\ gaveUp = {} /\ promised = {}
  /\ wiped = FALSE /\ pasted = None /\ moves = 0 /\ pastes = 0

-----------------------------------------------------------------------------
(* The server. *)

(* Whoever loses the selection to another is told so.                      *)
Told(new) ==
  IF Owner \in {None, new} THEN mail
  ELSE [mail EXCEPT ![Owner] = Append(@, [kind |-> "clear", under |-> Len(log)])]

TakenBy(c, put) == log' = Append(log, [by |-> c, put |-> put]) /\ mail' = Told(c)

(* A request goes to the owner; without one it is refused at once.         *)
Asked(t) ==
  /\ requests' = requests + 1
  /\ IF Owner = None
     THEN notes' = <<[target |-> t, ok |-> FALSE]>> /\ UNCHANGED mail
     ELSE notes' = <<>> /\ mail' = [mail EXCEPT ![Owner] = Append(@, [kind |-> "read", target |-> t, id |-> requests + 1])]

(* The answer to a request of ours: the text first, then the notice of it. *)
Answered(m, ok, text) ==
  /\ prop' = IF ok THEN text ELSE prop
  /\ notes' = Append(notes, [target |-> m.target, ok |-> ok])

-----------------------------------------------------------------------------
(* Other windows. *)

Take(w) ==
  /\ Len(log) < MaxLog /\ TakenBy(w, 0) /\ holds' = [holds EXCEPT ![w] = Len(log) + 1]
  /\ UNCHANGED <<moves, checkVars, readVars, putVars, ownVars, pasteVars>>

Drop(w) ==
  /\ Len(log) < MaxLog /\ Owner = w
  /\ log' = Append(log, [by |-> None, put |-> 0]) /\ holds' = [holds EXCEPT ![w] = 0]
  /\ UNCHANGED <<moves, mail, checkVars, readVars, putVars, ownVars, pasteVars>>

(* A list of formats is no text, and a window that lost the selection and  *)
(* was told has none.                                                      *)
Handle(w) ==
  /\ mail[w] # <<>> /\ mail' = [mail EXCEPT ![w] = Tail(@)]
  /\ LET m == Head(mail[w])
     IN IF m.kind = "clear"
        THEN /\ holds' = [holds EXCEPT ![w] = IF @ <= m.under THEN 0 ELSE @]
             /\ UNCHANGED <<notes, prop>>
        ELSE /\ UNCHANGED holds
             /\ IF m.target = "targets" THEN Answered(m, TRUE, [Nothing EXCEPT !.id = m.id])
                ELSE Answered(m, m.target \in Offers[w] /\ holds[w] # 0,
                              [by |-> w, n |-> holds[w], id |-> m.id])
  /\ UNCHANGED <<moves, log, checkVars, target, requests, first, got, putVars, ownVars, pasteVars>>

(* Somebody pastes while the selection is ours.                            *)
Paste ==
  /\ Owner = "us" /\ pastes < MaxPastes /\ pastes' = pastes + 1
  /\ mail' = [mail EXCEPT !["us"] =
                Append(@, [kind |-> "paste", under |-> Len(log)])]
  /\ UNCHANGED <<moves, logVars, checkVars, readVars, putVars, ownVars, pasted>>

-----------------------------------------------------------------------------
(* The main thread: the check. *)

Free == target = 0 /\ waiting = None

(* A drop is not a write. *)
Pumped == Cardinality({i \in DOMAIN log : log[i].by # None})
LastSeen == changes  \* altered: what was seen when somebody last asked
ClipboardStamp == Pumped

StartCheck ==
  /\ Free /\ moves < MaxMoves /\ moves' = moves + 1
  /\ copyStamp' = ClipboardStamp /\ changes' = ClipboardStamp
  /\ copyPending' = TRUE /\ poked' = FALSE /\ since' = Len(log) /\ got' = Nothing
  /\ UNCHANGED <<logVars, mail, target, requests, notes, prop, first, putVars, ownVars, pasteVars>>

(* Nothing was written yet: the owner is asked, so that it wakes up, and   *)
(* the answer is left to the next request to drain.                        *)
Poke ==
  /\ Free /\ copyPending /\ Pumped = copyStamp /\ ~poked
  /\ changes' = Pumped /\ poked' = TRUE
  /\ IF Owner = None THEN UNCHANGED <<requests, notes, mail>> ELSE Asked("targets")
  /\ UNCHANGED <<moves, logVars, copyPending, copyStamp, since, target, prop, first, got,
                 putVars, ownVars, pasteVars>>

TimeOut ==
  /\ Free /\ copyPending /\ Pumped = copyStamp
  /\ changes' = Pumped /\ copyPending' = FALSE
  /\ UNCHANGED <<moves, logVars, mail, copyStamp, poked, since, readVars, putVars, ownVars,
                 pasteVars>>

(* convert(): what was queued is drained, what was left behind deleted.    *)
Convert(k) == target' = k /\ prop' = Nothing /\ Asked(Formats[k])
Return(text) == target' = 0 /\ got' = text

PollWritten ==
  /\ Free /\ copyPending /\ Pumped # copyStamp
  /\ changes' = Pumped /\ copyPending' = FALSE
  /\ first' = requests + 1
  /\ IF Owner = None THEN Return(Nothing) /\ UNCHANGED <<mail, requests, notes, prop>>
                     ELSE Convert(1) /\ got' = Nothing
  /\ UNCHANGED <<moves, logVars, copyStamp, poked, since, putVars, ownVars, pasteVars>>

NextFormat ==
  IF target < Len(Formats) THEN Convert(target + 1) /\ UNCHANGED got
  ELSE Return(Nothing) /\ UNCHANGED <<mail, requests, notes, prop>>

(* A notice for another format is skipped, and an empty text is none.      *)
Read ==
  /\ target # 0 /\ notes # <<>>
  /\ LET e == Head(notes)
     IN IF e.target # Formats[target]
        THEN notes' = Tail(notes) /\ UNCHANGED <<mail, target, requests, prop, got>>
        ELSE IF e.ok /\ prop.n # 0
          THEN Return(prop) /\ prop' = Nothing /\ notes' = Tail(notes) /\ UNCHANGED <<mail, requests>>
          ELSE NextFormat
  /\ UNCHANGED <<moves, logVars, checkVars, first, putVars, ownVars, pasteVars>>

Deadline ==
  /\ target # 0 /\ notes = <<>> /\ NextFormat
  /\ UNCHANGED <<moves, logVars, checkVars, first, putVars, ownVars, pasteVars>>

-----------------------------------------------------------------------------
(* The main thread: set(), called by pick_paste(), which then hides the    *)
(* list and so stops a check that was waiting for the clipboard.  Opening  *)
(* the list and picking from it are one step; both stop the check.         *)

Put ==
  /\ Free /\ moves < MaxMoves /\ moves' = moves + 1
  /\ requested' = requested + 1 /\ pending' = requested + 1 /\ waiting' = requested + 1
  /\ UNCHANGED <<logVars, mail, checkVars, readVars, gaveUp, promised, ownVars, pasteVars>>

ResumedWatching == waiting' = None /\ UNCHANGED copyPending  \* altered
Resumed == waiting' = None /\ copyPending' = FALSE

Answer ==
  /\ waiting # None /\ taken >= waiting /\ Resumed
  /\ promised' = IF owned THEN promised \cup {waiting} ELSE promised
  /\ UNCHANGED <<moves, logVars, mail, copyStamp, changes, poked, since, readVars, pending,
                 requested, gaveUp, ownVars, pasteVars>>

GiveUp ==
  /\ waiting # None /\ taken < waiting /\ Resumed
  /\ gaveUp' = gaveUp \cup {waiting}
  /\ UNCHANGED <<moves, logVars, mail, copyStamp, changes, poked, since, readVars, pending,
                 requested, promised, ownVars, pasteVars>>

-----------------------------------------------------------------------------
(* The owner's thread: run() and take_pending(). *)

Serve ==
  /\ pc = "select" /\ mail["us"] # <<>> /\ Head(mail["us"]).kind # "clear"
  /\ mail' = [mail EXCEPT !["us"] = Tail(@)]
  /\ LET m == Head(mail["us"])
     IN IF m.kind = "paste"
        THEN /\ pasted' = [asked |-> log[m.under].put, served |-> served, wiped |-> wiped]
             /\ UNCHANGED <<notes, prop>>
        ELSE /\ Answered(m, TRUE, [by |-> "us", id |-> m.id,
                                   n |-> IF m.target = "targets" THEN 0 ELSE served])
             /\ UNCHANGED pasted
  /\ UNCHANGED <<moves, logVars, checkVars, target, requests, first, got, putVars, ownVars, pastes>>

Clear ==
  /\ pc = "select" /\ mail["us"] # <<>> /\ Head(mail["us"]).kind = "clear"
  /\ mail' = [mail EXCEPT !["us"] = Tail(@)]
  /\ served' = 0
  /\ wiped' = (\E i \in DOMAIN log : i > Head(mail["us"]).under /\ log[i].by = "us")
  /\ UNCHANGED <<moves, logVars, checkVars, readVars, putVars, taken, owned, pc, seq, stamp, pasteVars>>

(* The pipe may be ready before what the server sent has been handled.     *)
TakePending ==
  /\ pc = "select" /\ requested # taken
  /\ served' = pending /\ pending' = 0 /\ seq' = requested /\ wiped' = FALSE /\ pc' = "time"
  /\ UNCHANGED <<moves, logVars, mail, checkVars, readVars, waiting, requested, gaveUp, promised, taken,
                 owned, stamp, pasteVars>>

(* The server's time, or CurrentTime when it does not answer.              *)
ServerTime ==
  /\ pc = "time" /\ stamp' \in {Len(log), MaxLog} /\ pc' = "take"
  /\ UNCHANGED <<moves, logVars, mail, checkVars, readVars, putVars, taken, owned, seq, served, wiped,
                 pasteVars>>

(* A selection that changed hands since is not ours to take.               *)
SetSelectionOwner ==
  /\ pc = "take" /\ pc' = "ask"
  /\ Len(log) < MaxLog
  /\ IF stamp >= Len(log) THEN TakenBy("us", seq) ELSE UNCHANGED <<log, mail>>
  /\ UNCHANGED <<moves, holds, checkVars, readVars, putVars, taken, owned, seq, stamp, served, wiped,
                 pasteVars>>

AssumedOurs == TRUE  \* altered
AskedWhetherOurs == Owner = "us"

Tell ==
  /\ pc = "ask" /\ pc' = "select"
  /\ taken' = seq /\ owned' = AskedWhetherOurs /\ stamp' = 0
  /\ UNCHANGED <<moves, logVars, mail, checkVars, readVars, putVars, seq, served, wiped, pasteVars>>

Next ==
  \/ \E w \in Windows : Take(w) \/ Drop(w) \/ Handle(w)
  \/ Paste
  \/ StartCheck \/ Poke \/ TimeOut \/ PollWritten \/ Read \/ Deadline
  \/ Put \/ Answer \/ GiveUp
  \/ Serve \/ Clear \/ TakePending \/ ServerTime \/ SetSelectionOwner \/ Tell

Spec == Init /\ [][Next]_vars

-----------------------------------------------------------------------------
(* What a check reads was put on the clipboard after its hotkey, and by    *)
(* somebody else (app.cpp:1237-1239, :1267-1273); but for the answer to a  *)
(* request an earlier read had given up on, and for a paste whose set()    *)
(* had stopped waiting before the thread took the selection.               *)
ReadIsOfThisCheck ==
  target = 0 /\ got.n # 0 /\ got.id >= first =>
    IF got.by = "us" THEN got.n \in gaveUp ELSE got.n > since

(* A paste is of what was put there, or of what was put there since, never *)
(* of the one before, and never empty but when a SelectionClear for an     *)
(* earlier ownership was still queued as the selection was taken; and what *)
(* set() returned true for had been taken.                                 *)
PasteIsThePut ==
  /\ pasted # None => pasted.served >= pasted.asked \/ (pasted.served = 0 /\ pasted.wiped)
  /\ \A p \in promised : \E i \in DOMAIN log : log[i].by = "us" /\ log[i].put >= p
=============================================================================
