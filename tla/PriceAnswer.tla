---------------------------- MODULE PriceAnswer ----------------------------
(***************************************************************************)
(* What the listings under a price check promise: they are always of the   *)
(* item the panel is about, an answer only ever adds to them, each row at  *)
(* most once and in the order of the search, and they only go away because *)
(* the user asked again or moved on to another item.                       *)
(***************************************************************************)
EXTENDS Naturals, Sequences

CONSTANTS Items, None

VARIABLES
  subject,  \* the item the panel is about
  rows,     \* the listings under it: whose they are, and their place in the search
  waiting   \* an answer has been promised

vars == <<subject, rows, waiting>>

Rows == [of : Items, place : Nat]

\* Nothing is listed twice, and the cheapest stays first.
InOrder(s) == \A i, j \in 1..Len(s) : i < j => s[i].place < s[j].place

Init == subject = None /\ rows = <<>> /\ waiting = FALSE

\* Another item, or another reading of this one; a search may start with it.
MoveOn == /\ subject' \in Items \cup {None} /\ rows' = <<>>
          /\ waiting' \in BOOLEAN

\* A search starts over; a page leaves what is there in place.
Ask == /\ waiting' = TRUE /\ rows' \in {<<>>, rows}
       /\ UNCHANGED subject

Answer == /\ waiting /\ waiting' = FALSE
          /\ Len(rows') >= Len(rows) /\ SubSeq(rows', 1, Len(rows)) = rows
          /\ \A i \in 1..Len(rows') : rows'[i].of = subject
          /\ InOrder(rows')
          /\ UNCHANGED subject

Next == MoveOn \/ Ask \/ Answer

Spec == Init /\ [][Next]_vars
=============================================================================
