--------------------------- MODULE ClipboardProofs ---------------------------
(***************************************************************************)
(* Proofs about the clipboard, for any number of other windows, any        *)
(* formats they offer and a selection that changes hands however often.    *)
(*                                                                         *)
(* Neither property is inductive: what a paste is answered with, and what  *)
(* a check reads, was settled by the requests still in a mailbox and by    *)
(* how far the owner's thread had come.  Letters says what may be in the   *)
(* mailboxes, Served relates the text the thread holds to what it has put  *)
(* on the clipboard, and Checked what a read can still return to the log   *)
(* at its hotkey.                                                          *)
(***************************************************************************)
EXTENDS Clipboard, SequenceTheorems, TLAPS

Targets == {"utf8", "plain", "string", "targets"}
Entry == [by : Clients \cup {None}, put : Nat]
Letter == [kind : {"clear", "paste"}, under : Nat] \cup [kind : {"read"}, target : Targets, id : Nat]
Text == [by : Clients \cup {None}, n : Nat, id : Nat]
Notice == [target : Targets, ok : BOOLEAN]
Reply == [asked : Nat, served : Nat, wiped : BOOLEAN]

LogType == log \in Seq(Entry) /\ Len(log) <= MaxLog /\ holds \in [Windows -> Nat]
MailType == mail \in [Clients -> Seq(Letter)]
ReadType ==
  /\ copyPending \in BOOLEAN /\ since \in 0..Len(log)
  /\ target \in 0..Len(Formats) /\ requests \in Nat /\ first \in Nat
  /\ notes \in Seq(Notice) /\ prop \in Text /\ got \in Text
PutType ==
  /\ waiting \in 1..requested \cup {None}
  /\ pending \in Nat /\ requested \in Nat /\ gaveUp \subseteq Nat /\ promised \subseteq Nat
OwnType ==
  /\ pc \in {"select", "time", "take", "ask"}
  /\ taken \in 0..requested /\ seq \in 0..requested /\ served \in Nat /\ stamp \in Nat
  /\ owned \in BOOLEAN /\ wiped \in BOOLEAN
  /\ pasted = None \/ pasted \in Reply
TypeOK == LogType /\ MailType /\ ReadType /\ PutType /\ OwnType

Ours(i) == i \in DOMAIN log /\ log[i].by = "us"

\* What is in the mailboxes: a paste asked us while we were the owner, nothing asks
\* another window for a paste, no loss of the selection is told of before it, and a
\* paste behind one was asked of a later ownership.
Letters ==
  /\ \A w \in Windows : \A k \in DOMAIN mail[w] : mail[w][k].kind # "paste"
  /\ \A c \in Clients : \A k \in DOMAIN mail[c] :
       /\ mail[c][k].kind = "clear" => mail[c][k].under < Len(log)
       /\ mail[c][k].kind = "read" => mail[c][k].id <= requests
  /\ \A k \in DOMAIN mail["us"] : mail["us"][k].kind = "paste" => Ours(mail["us"][k].under)
  /\ \A j, k \in DOMAIN mail["us"] :
       j < k /\ mail["us"][j].kind = "clear" /\ mail["us"][k].kind = "paste"
         => mail["us"][j].under < mail["us"][k].under

\* What the owner's thread holds is the latest put it has put up, unless it was
\* cleared; and a text cleared for good can be asked for by nobody.
Served ==
  /\ IF pc = "select"
     THEN taken = seq /\ (requested # taken => pending = requested)
     ELSE taken < seq /\ served = seq /\ (requested # seq => pending = requested)
  /\ \A i \in DOMAIN log : Ours(i) => log[i].put <= seq
  /\ served # 0 => \A i \in DOMAIN log : Ours(i) => log[i].put <= served
  /\ served = 0 /\ ~wiped =>
       Owner # "us" /\ \A k \in DOMAIN mail["us"] : mail["us"][k].kind # "paste"
  /\ pc = "take" /\ stamp < Len(log) => Owner # "us"
  /\ pc = "ask" /\ Owner = "us" => log[Len(log)].put = seq
  /\ owned => \E i \in DOMAIN log : Ours(i) /\ log[i].put >= taken

\* What a read in hand may come to: of another window it is later than the hotkey,
\* of ours it is of a put that was given up on.
Fine(t) == IF t.by = "us" THEN t.n \in gaveUp ELSE t.n > since
Watching == (copyPending \/ target # 0) /\ waiting = None
Busy == target # 0 => waiting = None /\ Len(log) > since
Settled == \A p \in 1..requested : p = waiting \/ p \in gaveUp \/ p <= taken
Current == \A w \in Windows : Owner = w => holds[w] = Len(log)
Stamped == copyPending /\ since = Len(log) => Pumped = copyStamp
Retaken == \E i \in DOMAIN log : Ours(i) /\ i > since
Spared == Watching /\ Retaken => served = 0 \/ served \in gaveUp
Coming ==
  target # 0 =>
    /\ \A w \in Windows : \A k \in DOMAIN mail[w] :
         mail[w][k].kind = "read" /\ mail[w][k].id >= first => holds[w] = 0 \/ holds[w] > since
    /\ \A k \in DOMAIN mail["us"] :
         mail["us"][k].kind = "read" /\ mail["us"][k].id >= first => Retaken
    /\ prop.n # 0 /\ prop.id >= first => Fine(prop)
Checked == Busy /\ Settled /\ Current /\ Stamped /\ Spared /\ Coming

Inv == TypeOK /\ Letters /\ Served /\ Checked /\ ReadIsOfThisCheck /\ PasteIsThePut

-----------------------------------------------------------------------------
(* The log and the mailboxes.                                              *)

\* Whoever took the selection last owns it.
LEMMA OwnerIsLast ==
  ASSUME LogType
  PROVE  /\ Len(log) \in Nat /\ DOMAIN log = 1..Len(log)
         /\ Owner = IF Len(log) = 0 THEN None ELSE log[Len(log)].by
         /\ \A i \in DOMAIN log : log[i] \in Entry
  BY DEF LogType, Owner, Last

\* The log grows at its end, and whoever is there owns the selection (TakenBy, Drop).
LEMMA Growing ==
  ASSUME LogType, NEW e \in Entry, log' = Append(log, e)
  PROVE  /\ log' \in Seq(Entry) /\ Len(log') = Len(log) + 1 /\ DOMAIN log' = 1..(Len(log) + 1)
         /\ \A i \in DOMAIN log : i \in DOMAIN log' /\ log'[i] = log[i]
         /\ log'[Len(log) + 1] = e
         /\ Owner' = e.by
<1>1. /\ log' \in Seq(Entry) /\ Len(log') = Len(log) + 1 /\ log' # <<>>
      /\ \A i \in 1..Len(log) : log'[i] = log[i]
      /\ log'[Len(log) + 1] = e
  BY AppendProperties DEF LogType
<1>2. Len(log) \in Nat /\ DOMAIN log = 1..Len(log) /\ DOMAIN log' = 1..(Len(log) + 1)
  BY <1>1 DEF LogType
<1>3. Owner' = e.by
  BY <1>1 DEF Owner, Last
<1> QED BY <1>1, <1>2, <1>3

\* A letter is put at the end of one mailbox.
LEMMA Adding ==
  ASSUME MailType, NEW c \in Clients, NEW m \in Letter,
         mail' = [mail EXCEPT ![c] = Append(@, m)]
  PROVE  /\ MailType'
         /\ \A d \in Clients \ {c} : mail'[d] = mail[d]
         /\ Len(mail[c]) \in Nat /\ DOMAIN mail[c] = 1..Len(mail[c])
         /\ DOMAIN mail'[c] = 1..(Len(mail[c]) + 1)
         /\ \A k \in DOMAIN mail[c] : mail'[c][k] = mail[c][k]
         /\ mail'[c][Len(mail[c]) + 1] = m
<1>1. mail[c] \in Seq(Letter)
  BY DEF MailType
<1>2. mail'[c] = Append(mail[c], m) /\ \A d \in Clients \ {c} : mail'[d] = mail[d]
  BY DEF MailType
<1>3. /\ Append(mail[c], m) \in Seq(Letter) /\ Len(Append(mail[c], m)) = Len(mail[c]) + 1
      /\ \A k \in 1..Len(mail[c]) : Append(mail[c], m)[k] = mail[c][k]
      /\ Append(mail[c], m)[Len(mail[c]) + 1] = m
  BY <1>1, AppendProperties
<1>4. MailType'
  BY <1>2, <1>3 DEF MailType
<1>5. Len(mail[c]) \in Nat /\ DOMAIN mail[c] = 1..Len(mail[c])
      /\ DOMAIN mail'[c] = 1..(Len(mail[c]) + 1)
  BY <1>1, <1>2, <1>3, LenProperties
<1> QED BY <1>2, <1>3, <1>4, <1>5

\* One is taken from the front of it.
LEMMA Removing ==
  ASSUME MailType, NEW c \in Clients, mail[c] # <<>>, mail' = [mail EXCEPT ![c] = Tail(@)]
  PROVE  /\ MailType'
         /\ \A d \in Clients \ {c} : mail'[d] = mail[d]
         /\ Head(mail[c]) = mail[c][1] /\ Head(mail[c]) \in Letter /\ 1 \in DOMAIN mail[c]
         /\ DOMAIN mail'[c] \subseteq Nat \ {0}
         /\ \A k \in DOMAIN mail'[c] : k + 1 \in DOMAIN mail[c] /\ mail'[c][k] = mail[c][k + 1]
<1>1. mail[c] \in Seq(Letter)
  BY DEF MailType
<1>2. mail'[c] = Tail(mail[c]) /\ \A d \in Clients \ {c} : mail'[d] = mail[d]
  BY DEF MailType
<1>3. /\ Tail(mail[c]) \in Seq(Letter) /\ Head(mail[c]) \in Letter
      /\ Len(Tail(mail[c])) = Len(mail[c]) - 1
      /\ \A k \in 1..Len(Tail(mail[c])) : Tail(mail[c])[k] = mail[c][k + 1]
  BY <1>1, HeadTailProperties
<1>4. MailType'
  BY <1>2, <1>3 DEF MailType
<1>5. Len(mail[c]) \in Nat \ {0} /\ DOMAIN mail[c] = 1..Len(mail[c])
  BY <1>1, LenProperties, EmptySeq
<1>6. DOMAIN mail'[c] = 1..(Len(mail[c]) - 1)
  BY <1>2, <1>3, <1>5, LenProperties
<1>7. Head(mail[c]) = mail[c][1]
  BY <1>1
<1> QED BY <1>2, <1>3, <1>4, <1>5, <1>6, <1>7

LEMMA LettersRemoved ==
  ASSUME TypeOK, Letters, NEW c \in Clients, mail[c] # <<>>,
         mail' = [mail EXCEPT ![c] = Tail(@)], log' = log, requests' = requests
  PROVE  Letters'
<1>1. /\ \A d \in Clients \ {c} : mail'[d] = mail[d]
      /\ DOMAIN mail'[c] \subseteq Nat \ {0}
      /\ \A k \in DOMAIN mail'[c] : k + 1 \in DOMAIN mail[c] /\ mail'[c][k] = mail[c][k + 1]
  BY Removing DEF TypeOK
<1>2. \A d \in Clients : \A k \in DOMAIN mail'[d] :
        \E j \in DOMAIN mail[d] : mail'[d][k] = mail[d][j]
  BY <1>1
<1>3. Windows \subseteq Clients /\ "us" \in Clients
  BY DEF Clients
<1>4. \A w \in Windows : \A k \in DOMAIN mail'[w] : mail'[w][k].kind # "paste"
  BY <1>2, <1>3 DEF Letters
<1>5. \A d \in Clients : \A k \in DOMAIN mail'[d] :
        /\ mail'[d][k].kind = "clear" => mail'[d][k].under < Len(log')
        /\ mail'[d][k].kind = "read" => mail'[d][k].id <= requests'
  BY <1>2 DEF Letters
<1>6. (\A k \in DOMAIN mail["us"] : mail["us"][k].kind = "paste" => Ours(mail["us"][k].under))'
  <2> SUFFICES ASSUME NEW k \in DOMAIN mail'["us"], mail'["us"][k].kind = "paste"
               PROVE  Ours(mail["us"][k].under)'
    OBVIOUS
  <2>1. PICK j \in DOMAIN mail["us"] : mail'["us"][k] = mail["us"][j]
    BY <1>2, <1>3
  <2> QED BY <2>1 DEF Letters, Ours
<1>7. ASSUME NEW j \in DOMAIN mail'["us"], NEW k \in DOMAIN mail'["us"], j < k,
             mail'["us"][j].kind = "clear", mail'["us"][k].kind = "paste"
      PROVE  mail'["us"][j].under < mail'["us"][k].under
  <2>1. CASE c = "us"
    <3>1. /\ j + 1 \in DOMAIN mail["us"] /\ k + 1 \in DOMAIN mail["us"] /\ j + 1 < k + 1
          /\ mail'["us"][j] = mail["us"][j + 1] /\ mail'["us"][k] = mail["us"][k + 1]
      BY <1>1, <1>7, <2>1
    <3> QED BY <1>7, <3>1 DEF Letters
  <2>2. CASE c # "us"
    <3>1. mail'["us"] = mail["us"]
      BY <1>1, <1>3, <2>2
    <3> QED BY <1>7, <3>1 DEF Letters
  <2> QED BY <2>1, <2>2
<1> QED BY <1>4, <1>5, <1>6, <1>7 DEF Letters

\* Whoever takes the selection, what is in the mailboxes stays, and what is new
\* there is that the owner before is told.
LEMMA Telling ==
  ASSUME TypeOK, Letters, Len(log) < MaxLog, requests' = requests,
         NEW c \in Clients, NEW put \in Nat, TakenBy(c, put)
  PROVE  /\ MailType' /\ Letters'
         /\ log' = Append(log, [by |-> c, put |-> put]) /\ [by |-> c, put |-> put] \in Entry
         /\ \A d \in Clients : \A k \in DOMAIN mail'[d] :
              mail'[d][k].kind = "clear" \/ (k \in DOMAIN mail[d] /\ mail'[d][k] = mail[d][k])
<1> DEFINE m == [kind |-> "clear", under |-> Len(log)]
<1> DEFINE e == [by |-> c, put |-> put]
<1>1. log' = Append(log, e) /\ e \in Entry /\ m \in Letter
  BY OwnerIsLast DEF TakenBy, Entry, Letter, TypeOK
<1>2. /\ Len(log') = Len(log) + 1 /\ Len(log) \in Nat
      /\ \A i \in DOMAIN log : i \in DOMAIN log' /\ log'[i] = log[i]
  BY <1>1, Growing, OwnerIsLast DEF TypeOK
<1>3. \A i : Ours(i) => Ours(i)'
  BY <1>2 DEF Ours
<1>4. Windows \subseteq Clients /\ "us" \in Clients /\ "us" \notin Windows
  BY ClientsAssumption DEF Clients
<1>5. CASE Owner \in {None, c}
  <2>1. mail' = mail
    BY <1>5 DEF TakenBy, Told
  <2>2. Letters'
    BY <1>2, <1>3, <1>4, <2>1 DEF Letters, TypeOK, MailType, Letter
  <2> QED BY <1>1, <2>1, <2>2 DEF TypeOK, MailType
<1>6. CASE Owner \notin {None, c}
  <2>1. Owner \in Clients
    BY <1>6, OwnerIsLast DEF TypeOK, Entry
  <2>2. mail' = [mail EXCEPT ![Owner] = Append(@, m)]
    BY <1>6 DEF TakenBy, Told
  <2>3. /\ MailType'
        /\ \A d \in Clients \ {Owner} : mail'[d] = mail[d]
        /\ Len(mail[Owner]) \in Nat /\ DOMAIN mail[Owner] = 1..Len(mail[Owner])
        /\ DOMAIN mail'[Owner] = 1..(Len(mail[Owner]) + 1)
        /\ \A k \in DOMAIN mail[Owner] : mail'[Owner][k] = mail[Owner][k]
        /\ mail'[Owner][Len(mail[Owner]) + 1] = m
    BY <1>1, <2>1, <2>2, Adding DEF TypeOK
  <2>4. \A d \in Clients : \A k \in DOMAIN mail'[d] :
          (d = Owner /\ mail'[d][k] = m) \/ (k \in DOMAIN mail[d] /\ mail'[d][k] = mail[d][k])
    BY <2>1, <2>3
  <2>5. \A w \in Windows : \A k \in DOMAIN mail'[w] : mail'[w][k].kind # "paste"
    BY <1>4, <2>4 DEF Letters
  <2>6. \A d \in Clients : \A k \in DOMAIN mail'[d] :
          /\ mail'[d][k].kind = "clear" => mail'[d][k].under < Len(log')
          /\ mail'[d][k].kind = "read" => mail'[d][k].id <= requests'
    <3> SUFFICES ASSUME NEW d \in Clients, NEW k \in DOMAIN mail'[d]
                 PROVE  /\ mail'[d][k].kind = "clear" => mail'[d][k].under < Len(log')
                        /\ mail'[d][k].kind = "read" => mail'[d][k].id <= requests'
      OBVIOUS
    <3>1. CASE mail'[d][k] = m
      BY <1>2, <3>1
    <3>2. CASE k \in DOMAIN mail[d] /\ mail'[d][k] = mail[d][k]
      <4>1. mail[d][k] \in Letter
        BY <3>2, ElementOfSeq, LenProperties DEF TypeOK, MailType
      <4> QED BY <1>2, <3>2, <4>1 DEF Letters, Letter
    <3> QED BY <2>4, <3>1, <3>2
  <2>7. \A k \in DOMAIN mail'["us"] :
          mail'["us"][k].kind = "paste" => k \in DOMAIN mail["us"] /\ mail'["us"][k] = mail["us"][k]
    BY <1>4, <2>4
  <2>8. (\A k \in DOMAIN mail["us"] : mail["us"][k].kind = "paste" => Ours(mail["us"][k].under))'
    <3> SUFFICES ASSUME NEW k \in DOMAIN mail'["us"], mail'["us"][k].kind = "paste"
                 PROVE  Ours(mail["us"][k].under)'
      OBVIOUS
    <3>1. k \in DOMAIN mail["us"] /\ mail'["us"][k] = mail["us"][k]
      BY <2>7
    <3>2. Ours(mail["us"][k].under)
      BY <3>1 DEF Letters
    <3> QED BY <1>2, <3>1, <3>2 DEF Ours
  <2>9. ASSUME NEW j \in DOMAIN mail'["us"], NEW k \in DOMAIN mail'["us"], j < k,
               mail'["us"][j].kind = "clear", mail'["us"][k].kind = "paste"
        PROVE  mail'["us"][j].under < mail'["us"][k].under
    <3>1. k \in DOMAIN mail["us"] /\ mail'["us"][k] = mail["us"][k]
      BY <2>7, <2>9
    <3>2. j \in DOMAIN mail["us"] /\ mail'["us"][j] = mail["us"][j]
      <4>1. CASE Owner = "us"
        <5>1. j \in 1..(Len(mail["us"]) + 1) /\ k \in 1..Len(mail["us"])
          BY <2>3, <2>9, <3>1, <4>1
        <5> QED BY <2>3, <2>9, <4>1, <5>1
      <4>2. CASE Owner # "us"
        BY <1>4, <2>3, <2>9, <4>2
      <4> QED BY <4>1, <4>2
    <3> QED BY <2>9, <3>1, <3>2 DEF Letters
  <2>10. Letters'
    BY <2>5, <2>6, <2>8, <2>9 DEF Letters
  <2> QED BY <1>1, <2>3, <2>4, <2>10
<1> QED BY <1>5, <1>6

\* A letter to one client that is not a loss of the selection, after all the others.
LEMMA Posting ==
  ASSUME TypeOK, Letters, log' = log, requests' >= requests, requests' \in Nat,
         NEW c \in Clients, NEW m \in Letter, mail' = [mail EXCEPT ![c] = Append(@, m)],
         m.kind = "paste" => c = "us" /\ Owner = "us" /\ m.under = Len(log),
         m.kind = "read" => m.id <= requests',
         m.kind # "clear"
  PROVE  /\ MailType' /\ Letters'
         /\ \A d \in Clients : \A k \in DOMAIN mail'[d] :
              (d = c /\ mail'[d][k] = m) \/ (k \in DOMAIN mail[d] /\ mail'[d][k] = mail[d][k])
<1>1. /\ MailType'
      /\ \A d \in Clients \ {c} : mail'[d] = mail[d]
      /\ Len(mail[c]) \in Nat /\ DOMAIN mail[c] = 1..Len(mail[c])
      /\ DOMAIN mail'[c] = 1..(Len(mail[c]) + 1)
      /\ \A k \in DOMAIN mail[c] : mail'[c][k] = mail[c][k]
      /\ mail'[c][Len(mail[c]) + 1] = m
  BY Adding DEF TypeOK
<1>2. \A d \in Clients : \A k \in DOMAIN mail'[d] :
        (d = c /\ mail'[d][k] = m) \/ (k \in DOMAIN mail[d] /\ mail'[d][k] = mail[d][k])
  BY <1>1
<1>3. Windows \subseteq Clients /\ "us" \in Clients /\ "us" \notin Windows
  BY ClientsAssumption DEF Clients
<1>4. \A w \in Windows : \A k \in DOMAIN mail'[w] : mail'[w][k].kind # "paste"
  BY <1>2, <1>3 DEF Letters
<1>5. \A d \in Clients : \A k \in DOMAIN mail'[d] :
        /\ mail'[d][k].kind = "clear" => mail'[d][k].under < Len(log')
        /\ mail'[d][k].kind = "read" => mail'[d][k].id <= requests'
  <2> SUFFICES ASSUME NEW d \in Clients, NEW k \in DOMAIN mail'[d]
               PROVE  /\ mail'[d][k].kind = "clear" => mail'[d][k].under < Len(log')
                      /\ mail'[d][k].kind = "read" => mail'[d][k].id <= requests'
    OBVIOUS
  <2>1. CASE mail'[d][k] = m
    BY <2>1
  <2>2. CASE k \in DOMAIN mail[d] /\ mail'[d][k] = mail[d][k]
    <3>1. mail[d][k] \in Letter
      BY <2>2, ElementOfSeq, LenProperties DEF TypeOK, MailType
    <3>2. requests \in Nat
      BY DEF TypeOK, ReadType
    <3> QED BY <2>2, <3>1, <3>2 DEF Letters, Letter
  <2> QED BY <1>2, <2>1, <2>2
<1>6. (\A k \in DOMAIN mail["us"] : mail["us"][k].kind = "paste" => Ours(mail["us"][k].under))'
  <2> SUFFICES ASSUME NEW k \in DOMAIN mail'["us"], mail'["us"][k].kind = "paste"
               PROVE  Ours(mail["us"][k].under)'
    OBVIOUS
  <2>1. CASE mail'["us"][k] = m
    <3>1. Owner = "us" /\ m.under = Len(log)
      BY <2>1
    <3>2. Ours(Len(log))
      BY <3>1, OwnerIsLast, ClientsAssumption DEF Ours, TypeOK
    <3> QED BY <2>1, <3>1, <3>2 DEF Ours
  <2>2. CASE k \in DOMAIN mail["us"] /\ mail'["us"][k] = mail["us"][k]
    BY <2>2 DEF Letters, Ours
  <2> QED BY <1>2, <1>3, <2>1, <2>2
<1>7. ASSUME NEW j \in DOMAIN mail'["us"], NEW k \in DOMAIN mail'["us"], j < k,
             mail'["us"][j].kind = "clear", mail'["us"][k].kind = "paste"
      PROVE  mail'["us"][j].under < mail'["us"][k].under
  <2>1. j \in DOMAIN mail["us"] /\ mail'["us"][j] = mail["us"][j]
    BY <1>2, <1>3, <1>7
  <2>2. CASE mail'["us"][k] = m
    <3>1. m.under = Len(log) /\ mail["us"][j].under < Len(log)
      BY <1>3, <1>7, <2>1, <2>2 DEF Letters
    <3> QED BY <2>1, <2>2, <3>1
  <2>3. CASE k \in DOMAIN mail["us"] /\ mail'["us"][k] = mail["us"][k]
    BY <1>7, <2>1, <2>3 DEF Letters
  <2> QED BY <1>2, <1>3, <2>2, <2>3
<1> QED BY <1>1, <1>2, <1>4, <1>5, <1>6, <1>7 DEF Letters

\* The owner is asked for the selection; nobody is when there is none.
LEMMA Asking ==
  ASSUME TypeOK, Letters, log' = log, NEW t \in Targets, Asked(t)
  PROVE  /\ MailType' /\ Letters' /\ requests' = requests + 1 /\ notes' \in Seq(Notice)
         /\ \A d \in Clients : \A k \in DOMAIN mail'[d] :
              \/ d = Owner /\ mail'[d][k].kind = "read"
              \/ k \in DOMAIN mail[d] /\ mail'[d][k] = mail[d][k]
         /\ \A d \in Clients : \A k \in DOMAIN mail'[d] :
              mail'[d][k].kind = "read" /\ mail'[d][k].id > requests => d = Owner
<1> DEFINE m == [kind |-> "read", target |-> t, id |-> requests + 1]
<1>1. requests \in Nat /\ requests' = requests + 1
  BY DEF Asked, TypeOK, ReadType
<1>2. notes' \in Seq(Notice)
  <2>1. [target |-> t, ok |-> FALSE] \in Notice
    BY DEF Notice
  <2>2. <<>> \in Seq(Notice) /\ <<[target |-> t, ok |-> FALSE]>> \in Seq(Notice)
    BY <2>1
  <2> QED BY <2>2 DEF Asked
<1>3. CASE Owner = None
  <2>1. mail' = mail
    BY <1>3 DEF Asked
  <2>2. \A d \in Clients : \A k \in DOMAIN mail[d] : mail[d][k] \in Letter
    BY ElementOfSeq, LenProperties DEF TypeOK, MailType
  <2>3. Letters'
    BY <1>1, <2>1, <2>2 DEF Letters, Ours, Letter
  <2>4. \A d \in Clients : \A k \in DOMAIN mail[d] :
          mail[d][k].kind = "read" => mail[d][k].id <= requests /\ mail[d][k].id \in Nat
    BY <2>2 DEF Letters, Letter
  <2> QED BY <1>1, <1>2, <2>1, <2>3, <2>4 DEF TypeOK, MailType
<1>4. CASE Owner # None
  <2>1. Owner \in Clients
    BY <1>4, OwnerIsLast DEF TypeOK, Entry
  <2>2. mail' = [mail EXCEPT ![Owner] = Append(@, m)]
    BY <1>4 DEF Asked
  <2>3. m \in Letter /\ m.kind = "read" /\ m.id = requests + 1
    BY <1>1 DEF Letter
  <2> HIDE DEF m
  <2>4. /\ MailType' /\ Letters'
        /\ \A d \in Clients : \A k \in DOMAIN mail'[d] :
             (d = Owner /\ mail'[d][k] = m) \/ (k \in DOMAIN mail[d] /\ mail'[d][k] = mail[d][k])
    <3>1. requests' >= requests /\ requests' \in Nat /\ m.id <= requests'
      BY <1>1, <2>3
    <3> QED BY <2>1, <2>2, <2>3, <3>1, Posting
  <2>5. \A d \in Clients : \A k \in DOMAIN mail[d] : mail[d][k] \in Letter
    BY ElementOfSeq, LenProperties DEF TypeOK, MailType
  <2>6. \A d \in Clients : \A k \in DOMAIN mail[d] :
          mail[d][k].kind = "read" => mail[d][k].id <= requests /\ mail[d][k].id \in Nat
    BY <2>5 DEF Letters, Letter
  <2> QED BY <1>1, <1>2, <2>3, <2>4, <2>6
<1> QED BY <1>3, <1>4

-----------------------------------------------------------------------------
(* What is left alone.                                                     *)

LEMMA LettersFrame ==
  ASSUME TypeOK, Letters, UNCHANGED <<log, mail, requests>>
  PROVE  Letters' /\ MailType'
  BY DEF Letters, Ours, TypeOK, MailType

\* The thread's part, while no paste is added to its mailbox.
LEMMA ServedFrame ==
  ASSUME TypeOK, Served,
         UNCHANGED <<log, taken, owned, pc, seq, stamp, served, wiped, pending, requested>>,
         \A k \in DOMAIN mail'["us"] :
           mail'["us"][k].kind = "paste" => \E j \in DOMAIN mail["us"] : mail["us"][j].kind = "paste"
  PROVE  Served'
<1>1. Owner' = Owner /\ \A i : Ours(i)' <=> Ours(i)
  BY DEF Owner, Ours
<1> QED BY <1>1 DEF Served

\* Nor when another window takes the selection or drops it.
LEMMA ServedByOther ==
  ASSUME TypeOK, Served, NEW e \in Entry, e.by # "us", log' = Append(log, e),
         UNCHANGED <<taken, owned, pc, seq, stamp, served, wiped, pending, requested>>,
         \A k \in DOMAIN mail'["us"] :
           mail'["us"][k].kind = "paste" => \E j \in DOMAIN mail["us"] : mail["us"][j].kind = "paste"
  PROVE  Served'
<1>1. /\ Len(log') = Len(log) + 1 /\ DOMAIN log' = 1..(Len(log) + 1)
      /\ \A i \in DOMAIN log : i \in DOMAIN log' /\ log'[i] = log[i]
      /\ log'[Len(log) + 1] = e /\ Owner' = e.by
      /\ DOMAIN log = 1..Len(log) /\ Len(log) \in Nat
  BY Growing, OwnerIsLast DEF TypeOK
<1>2. \A i : Ours(i)' <=> Ours(i)
  BY <1>1 DEF Ours
<1>3. \A i : Ours(i) => i \in DOMAIN log /\ log'[i] = log[i]
  BY <1>1 DEF Ours
<1>4. \A i \in DOMAIN log' : Ours(i)' => i \in DOMAIN log /\ Ours(i) /\ log'[i] = log[i]
  BY <1>2, <1>3
<1>5. (IF pc = "select"
       THEN taken = seq /\ (requested # taken => pending = requested)
       ELSE taken < seq /\ served = seq /\ (requested # seq => pending = requested))'
  BY DEF Served
<1>6. (\A i \in DOMAIN log : Ours(i) => log[i].put <= seq)'
  BY <1>4 DEF Served
<1>7. (served # 0 => \A i \in DOMAIN log : Ours(i) => log[i].put <= served)'
  BY <1>4 DEF Served
<1>8. (served = 0 /\ ~wiped =>
         Owner # "us" /\ \A k \in DOMAIN mail["us"] : mail["us"][k].kind # "paste")'
  BY <1>1 DEF Served
<1>9. (pc = "take" /\ stamp < Len(log) => Owner # "us")' /\ (pc = "ask" /\ Owner = "us" => log[Len(log)].put = seq)'
  BY <1>1
<1>10. (owned => \E i \in DOMAIN log : Ours(i) /\ log[i].put >= taken)'
  BY <1>1, <1>2 DEF Served
<1> QED BY <1>5, <1>6, <1>7, <1>8, <1>9, <1>10 DEF Served

LEMMA ReadFrame ==
  ASSUME ReadIsOfThisCheck, UNCHANGED <<target, got, first, since>>, gaveUp \subseteq gaveUp'
  PROVE  ReadIsOfThisCheck'
  BY DEF ReadIsOfThisCheck

LEMMA PasteFrame ==
  ASSUME PasteIsThePut, UNCHANGED <<pasted, promised>>,
         \A i \in DOMAIN log : i \in DOMAIN log' /\ log'[i] = log[i]
  PROVE  PasteIsThePut'
  BY DEF PasteIsThePut

\* The check's part, while the log, the check, the put and the thread stand still.
LEMMA CheckedFrame ==
  ASSUME TypeOK, Checked,
         UNCHANGED <<log, holds, copyPending, copyStamp, since, target, first, prop, waiting,
                     requested, gaveUp, taken, served>>,
         \A d \in Clients : \A k \in DOMAIN mail'[d] :
           mail'[d][k].kind = "read" => \E j \in DOMAIN mail[d] : mail'[d][k] = mail[d][j]
  PROVE  Checked'
<1>1. Owner' = Owner /\ Pumped' = Pumped /\ Retaken' = Retaken /\ Watching' = Watching
      /\ (Fine(prop)' <=> Fine(prop))
  BY DEF Owner, Pumped, Retaken, Watching, Fine, Ours
<1>2. (Busy /\ Settled /\ Current /\ Stamped /\ Spared)'
  BY <1>1 DEF Checked, Busy, Settled, Current, Stamped, Spared
<1>3. Windows \subseteq Clients /\ "us" \in Clients
  BY DEF Clients
<1>4. Coming'
  BY <1>1, <1>3 DEF Checked, Coming
<1> QED BY <1>2, <1>4 DEF Checked

\* As the log grows, what is read is only later still.
LEMMA CheckedGrowing ==
  ASSUME TypeOK, Checked, NEW e \in Entry, log' = Append(log, e),
         UNCHANGED <<copyPending, copyStamp, since, target, first, prop, waiting, requested,
                     gaveUp, taken, served>>,
         \A w \in Windows : /\ holds'[w] \in {holds[w], 0, Len(log) + 1}
                            /\ e.by = w => holds'[w] = Len(log) + 1,
         Watching /\ e.by = "us" => served = 0 \/ served \in gaveUp,
         \A d \in Clients : \A k \in DOMAIN mail'[d] :
           mail'[d][k].kind = "read" => \E j \in DOMAIN mail[d] : mail'[d][k] = mail[d][j]
  PROVE  Checked'
<1>1. /\ Len(log') = Len(log) + 1 /\ DOMAIN log' = 1..(Len(log) + 1)
      /\ \A i \in DOMAIN log : i \in DOMAIN log' /\ log'[i] = log[i]
      /\ log'[Len(log) + 1] = e /\ Owner' = e.by
      /\ DOMAIN log = 1..Len(log) /\ Len(log) \in Nat
  BY Growing, OwnerIsLast DEF TypeOK
<1>2. since \in Nat /\ since <= Len(log)
  BY <1>1 DEF TypeOK, ReadType
<1>3. Retaken => Retaken'
  BY <1>1 DEF Retaken, Ours
<1>4. Retaken' => Retaken \/ e.by = "us"
  BY <1>1 DEF Retaken, Ours
<1>5. Watching' = Watching /\ (Fine(prop)' <=> Fine(prop))
  BY DEF Watching, Fine
<1>6. Busy' /\ Settled' /\ Stamped'
  <2>1. Busy'
    BY <1>1, <1>2 DEF Checked, Busy
  <2>2. Settled'
    BY DEF Checked, Settled
  <2>3. since' # Len(log')
    BY <1>1, <1>2
  <2> QED BY <2>1, <2>2, <2>3 DEF Stamped
<1>7. Current'
  BY <1>1 DEF Current
<1>8. Spared'
  BY <1>4, <1>5 DEF Checked, Spared
<1>9. Windows \subseteq Clients /\ "us" \in Clients
  BY DEF Clients
<1>10. Coming'
  <2> SUFFICES ASSUME target # 0
               PROVE  (/\ \A w \in Windows : \A k \in DOMAIN mail[w] :
                           mail[w][k].kind = "read" /\ mail[w][k].id >= first
                             => holds[w] = 0 \/ holds[w] > since
                       /\ \A k \in DOMAIN mail["us"] :
                           mail["us"][k].kind = "read" /\ mail["us"][k].id >= first => Retaken
                       /\ prop.n # 0 /\ prop.id >= first => Fine(prop))'
    BY DEF Coming
  <2>1. ASSUME NEW w \in Windows, NEW k \in DOMAIN mail'[w],
               mail'[w][k].kind = "read", mail'[w][k].id >= first
        PROVE  holds'[w] = 0 \/ holds'[w] > since
    <3>1. holds[w] = 0 \/ holds[w] > since
      BY <1>9, <2>1 DEF Checked, Coming
    <3> QED BY <1>1, <1>2, <3>1
  <2>2. ASSUME NEW k \in DOMAIN mail'["us"], mail'["us"][k].kind = "read", mail'["us"][k].id >= first
        PROVE  Retaken'
    BY <1>3, <1>9, <2>2 DEF Checked, Coming
  <2>3. prop'.n # 0 /\ prop'.id >= first' => Fine(prop)'
    BY <1>5 DEF Checked, Coming
  <2> QED BY <2>1, <2>2, <2>3
<1> QED BY <1>6, <1>7, <1>8, <1>10 DEF Checked

-----------------------------------------------------------------------------
(* Other windows.                                                          *)

LEMMA WindowsAreClients == Windows \subseteq Clients /\ "us" \in Clients /\ "us" \notin Windows
                           /\ None \notin Clients
  BY ClientsAssumption DEF Clients

LEMMA TakeKeeps == ASSUME Inv, NEW w \in Windows, Take(w) PROVE Inv'
<1> USE WindowsAreClients
<1> DEFINE e == [by |-> w, put |-> 0]
<1>1. /\ MailType' /\ Letters' /\ log' = Append(log, e) /\ e \in Entry
      /\ \A d \in Clients : \A k \in DOMAIN mail'[d] :
           mail'[d][k].kind = "clear" \/ (k \in DOMAIN mail[d] /\ mail'[d][k] = mail[d][k])
  BY Telling DEF Inv, Take, readVars
<1>2. /\ log' \in Seq(Entry) /\ Len(log') = Len(log) + 1
      /\ \A i \in DOMAIN log : i \in DOMAIN log' /\ log'[i] = log[i]
      /\ Len(log) \in Nat
  BY <1>1, Growing, OwnerIsLast DEF Inv, TypeOK
<1>3. Len(log) < MaxLog /\ holds' = [holds EXCEPT ![w] = Len(log) + 1]
  BY DEF Take
<1>4. TypeOK'
  <2>1. LogType'
    BY <1>2, <1>3, LogAssumption DEF Inv, TypeOK, LogType
  <2>2. ReadType'
    BY <1>2 DEF Inv, TypeOK, ReadType, Take, checkVars, readVars
  <2>3. PutType' /\ OwnType'
    BY DEF Inv, TypeOK, PutType, OwnType, Take, putVars, ownVars, pasteVars
  <2> QED BY <1>1, <2>1, <2>2, <2>3 DEF TypeOK
<1>5. Served'
  BY <1>1, ServedByOther DEF Inv, Take, putVars, ownVars
<1>6. Checked'
  <2>1. \A v \in Windows : /\ holds'[v] \in {holds[v], 0, Len(log) + 1}
                           /\ e.by = v => holds'[v] = Len(log) + 1
    BY <1>3 DEF Inv, TypeOK, LogType
  <2> QED BY <1>1, <2>1, CheckedGrowing DEF Inv, Take, checkVars, readVars, putVars, ownVars
<1>7. ReadIsOfThisCheck' /\ PasteIsThePut'
  BY <1>2, ReadFrame, PasteFrame DEF Inv, Take, checkVars, readVars, putVars, pasteVars
<1> QED BY <1>1, <1>4, <1>5, <1>6, <1>7 DEF Inv

LEMMA DropKeeps == ASSUME Inv, NEW w \in Windows, Drop(w) PROVE Inv'
<1> USE WindowsAreClients
<1> DEFINE e == [by |-> None, put |-> 0]
<1>1. log' = Append(log, e) /\ e \in Entry /\ mail' = mail /\ requests' = requests
  BY DEF Drop, Entry, readVars
<1>2. /\ log' \in Seq(Entry) /\ Len(log') = Len(log) + 1
      /\ \A i \in DOMAIN log : i \in DOMAIN log' /\ log'[i] = log[i]
      /\ Len(log) \in Nat
  BY <1>1, Growing, OwnerIsLast DEF Inv, TypeOK
<1>3. Len(log) < MaxLog /\ holds' = [holds EXCEPT ![w] = 0]
  BY DEF Drop
<1>4. TypeOK'
  <2>1. LogType'
    BY <1>2, <1>3, LogAssumption DEF Inv, TypeOK, LogType
  <2>2. ReadType'
    BY <1>2 DEF Inv, TypeOK, ReadType, Drop, checkVars, readVars
  <2>3. PutType' /\ OwnType' /\ MailType'
    BY <1>1 DEF Inv, TypeOK, PutType, OwnType, MailType, Drop, putVars, ownVars, pasteVars
  <2> QED BY <2>1, <2>2, <2>3 DEF TypeOK
<1>5. Letters'
  <2>1. \A i : Ours(i) => Ours(i)'
    BY <1>2 DEF Ours
  <2>2. \A d \in Clients : \A k \in DOMAIN mail[d] : mail[d][k] \in Letter
    BY ElementOfSeq, LenProperties DEF Inv, TypeOK, MailType
  <2> QED BY <1>1, <1>2, <2>1, <2>2 DEF Inv, Letters, Letter
<1>6. Served'
  BY <1>1, ServedByOther DEF Inv, Drop, putVars, ownVars
<1>7. Checked'
  <2>1. \A v \in Windows : /\ holds'[v] \in {holds[v], 0, Len(log) + 1}
                           /\ e.by = v => holds'[v] = Len(log) + 1
    BY <1>3 DEF Inv, TypeOK, LogType
  <2> QED BY <1>1, <2>1, CheckedGrowing DEF Inv, Drop, checkVars, readVars, putVars, ownVars
<1>8. ReadIsOfThisCheck' /\ PasteIsThePut'
  BY <1>2, ReadFrame, PasteFrame DEF Inv, Drop, checkVars, readVars, putVars, pasteVars
<1> QED BY <1>4, <1>5, <1>6, <1>7, <1>8 DEF Inv

\* A letter of another window, and what it may do with it: the check's part when a
\* mailbox shrinks and an answer arrives.
LEMMA HandleKeeps == ASSUME Inv, NEW w \in Windows, Handle(w) PROVE Inv'
<1> USE WindowsAreClients
<1> DEFINE m == Head(mail[w])
<1>1. /\ mail[w] # <<>> /\ mail' = [mail EXCEPT ![w] = Tail(@)]
      /\ UNCHANGED <<log, requests, target, first, got>>
  BY DEF Handle
<1>2. /\ MailType' /\ \A d \in Clients \ {w} : mail'[d] = mail[d]
      /\ m = mail[w][1] /\ m \in Letter /\ 1 \in DOMAIN mail[w]
      /\ \A k \in DOMAIN mail'[w] : k + 1 \in DOMAIN mail[w] /\ mail'[w][k] = mail[w][k + 1]
  BY <1>1, Removing DEF Inv, TypeOK
<1>3. Letters'
  BY <1>1, LettersRemoved DEF Inv
<1>4. m.kind # "paste" /\ (m.kind = "clear" => m.under < Len(log))
  BY <1>2 DEF Inv, Letters
<1>5. \A d \in Clients : \A k \in DOMAIN mail'[d] : \E j \in DOMAIN mail[d] : mail'[d][k] = mail[d][j]
  BY <1>2
<1>6. Served'
  BY <1>1, <1>5, ServedFrame DEF Inv, Handle, putVars, ownVars
<1>7. CASE m.kind = "clear"
  <2>1. holds' = [holds EXCEPT ![w] = IF @ <= m.under THEN 0 ELSE @] /\ UNCHANGED <<notes, prop>>
    BY <1>7 DEF Handle
  <2>2. m.under \in Nat
    BY <1>2, <1>7 DEF Letter
  <2>3. TypeOK'
    <3>1. holds' \in [Windows -> Nat]
      BY <2>1 DEF Inv, TypeOK, LogType
    <3>2. LogType'
      BY <1>1, <3>1 DEF Inv, TypeOK, LogType
    <3>3. ReadType' /\ PutType' /\ OwnType'
      BY <1>1, <2>1 DEF Inv, TypeOK, ReadType, PutType, OwnType, Handle, checkVars, putVars, ownVars,
                        pasteVars
    <3> QED BY <1>2, <3>2, <3>3 DEF TypeOK
  <2>4. \A v \in Windows : holds'[v] \in {0, holds[v]}
    BY <2>1 DEF Inv, TypeOK, LogType
  <2>5. Owner' = Owner /\ Pumped' = Pumped /\ Retaken' = Retaken /\ Watching' = Watching
        /\ (Fine(prop)' <=> Fine(prop))
    BY <1>1, <2>1 DEF Owner, Pumped, Retaken, Watching, Fine, Ours, Handle, checkVars, putVars
  <2>6. Current'
    <3> SUFFICES ASSUME NEW v \in Windows, Owner = v PROVE holds'[v] = Len(log)
      BY <1>1, <2>5 DEF Current
    <3>1. holds[v] = Len(log) /\ Len(log) \in Nat
      BY OwnerIsLast DEF Inv, TypeOK, Checked, Current
    <3> QED BY <1>4, <1>7, <2>1, <2>2, <3>1 DEF Inv, TypeOK, LogType
  <2>7. (Busy /\ Settled /\ Stamped /\ Spared)'
    BY <1>1, <2>5 DEF Inv, Checked, Busy, Settled, Stamped, Spared, Handle, checkVars, putVars, ownVars
  <2>8. Coming'
    <3> SUFFICES ASSUME target # 0
                 PROVE  (/\ \A v \in Windows : \A k \in DOMAIN mail[v] :
                             mail[v][k].kind = "read" /\ mail[v][k].id >= first
                               => holds[v] = 0 \/ holds[v] > since
                         /\ \A k \in DOMAIN mail["us"] :
                             mail["us"][k].kind = "read" /\ mail["us"][k].id >= first => Retaken
                         /\ prop.n # 0 /\ prop.id >= first => Fine(prop))'
      BY <1>1 DEF Coming
    <3>1. since' = since
      BY DEF Handle, checkVars
    <3> QED BY <1>1, <1>5, <2>1, <2>4, <2>5, <3>1 DEF Inv, Checked, Coming
  <2>9. ReadIsOfThisCheck' /\ PasteIsThePut'
    BY <1>1, ReadFrame, PasteFrame DEF Inv, Handle, checkVars, readVars, putVars, pasteVars
  <2> QED BY <1>3, <1>6, <2>3, <2>6, <2>7, <2>8, <2>9 DEF Inv, Checked
<1>8. CASE m.kind # "clear"
  <2>1. m.kind = "read" /\ m.target \in Targets /\ m.id \in Nat
    BY <1>2, <1>4, <1>8 DEF Letter
  <2>2. holds' = holds
    BY <1>8 DEF Handle
  <2>3. PICK ok \in BOOLEAN, text \in Text :
          /\ Answered(m, ok, text)
          /\ text.n # 0 => text.by = w /\ text.n = holds[w] /\ text.id = m.id
    <3>1. CASE m.target = "targets"
      <4>1. [Nothing EXCEPT !.id = m.id] \in Text /\ [Nothing EXCEPT !.id = m.id].n = 0
        BY <2>1 DEF Nothing, Text
      <4>2. Answered(m, TRUE, [Nothing EXCEPT !.id = m.id])
        BY <1>8, <3>1 DEF Handle
      <4> QED BY <4>1, <4>2
    <3>2. CASE m.target # "targets"
      <4>1. [by |-> w, n |-> holds[w], id |-> m.id] \in Text
        BY <2>1 DEF Text, Inv, TypeOK, LogType
      <4>2. Answered(m, m.target \in Offers[w] /\ holds[w] # 0, [by |-> w, n |-> holds[w], id |-> m.id])
        BY <1>8, <3>2 DEF Handle
      <4> QED BY <4>1, <4>2
    <3> QED BY <3>1, <3>2
  <2>4. prop' \in {prop, text} /\ notes' \in Seq(Notice)
    <3>1. [target |-> m.target, ok |-> ok] \in Notice
      BY <2>1 DEF Notice
    <3> QED BY <2>3, <3>1, AppendProperties DEF Answered, Inv, TypeOK, ReadType
  <2>5. TypeOK'
    <3>1. LogType' /\ PutType' /\ OwnType'
      BY <1>1, <2>2 DEF Inv, TypeOK, LogType, PutType, OwnType, Handle, putVars, ownVars, pasteVars
    <3>2. ReadType'
      BY <1>1, <2>3, <2>4 DEF Inv, TypeOK, ReadType, Handle, checkVars
    <3> QED BY <1>2, <3>1, <3>2 DEF TypeOK
  <2>6. Owner' = Owner /\ Pumped' = Pumped /\ Retaken' = Retaken /\ Watching' = Watching
    BY <1>1 DEF Owner, Pumped, Retaken, Watching, Ours, Handle, checkVars, putVars
  <2>7. (Busy /\ Settled /\ Current /\ Stamped /\ Spared)'
    BY <1>1, <2>2, <2>6 DEF Inv, Checked, Busy, Settled, Current, Stamped, Spared, Handle, checkVars,
                            putVars, ownVars
  <2>8. Coming'
    <3> SUFFICES ASSUME target # 0
                 PROVE  (/\ \A v \in Windows : \A k \in DOMAIN mail[v] :
                             mail[v][k].kind = "read" /\ mail[v][k].id >= first
                               => holds[v] = 0 \/ holds[v] > since
                         /\ \A k \in DOMAIN mail["us"] :
                             mail["us"][k].kind = "read" /\ mail["us"][k].id >= first => Retaken
                         /\ prop.n # 0 /\ prop.id >= first => Fine(prop))'
      BY <1>1 DEF Coming
    <3>1. since' = since /\ gaveUp' = gaveUp
      BY DEF Handle, checkVars, putVars
    <3>2. \A v \in Windows : \A k \in DOMAIN mail'[v] :
            mail'[v][k].kind = "read" /\ mail'[v][k].id >= first => holds[v] = 0 \/ holds[v] > since
      BY <1>5 DEF Inv, Checked, Coming
    <3>3. \A k \in DOMAIN mail'["us"] :
            mail'["us"][k].kind = "read" /\ mail'["us"][k].id >= first => Retaken
      BY <1>5 DEF Inv, Checked, Coming
    <3>4. prop'.n # 0 /\ prop'.id >= first => (IF prop'.by = "us" THEN prop'.n \in gaveUp ELSE prop'.n > since)
      <4>1. CASE prop' = prop
        BY <4>1 DEF Inv, Checked, Coming, Fine
      <4>2. CASE prop' = text
        <5> SUFFICES ASSUME text.n # 0, text.id >= first PROVE text.by # "us" /\ text.n > since
          BY <4>2
        <5>1. text.by = w /\ text.n = holds[w] /\ m.id >= first /\ holds[w] # 0
          BY <2>3
        <5>2. holds[w] = 0 \/ holds[w] > since
          BY <1>2, <2>1, <5>1 DEF Inv, Checked, Coming
        <5> QED BY <5>1, <5>2
      <4> QED BY <2>4, <4>1, <4>2
    <3> QED BY <1>1, <2>2, <2>6, <3>1, <3>2, <3>3, <3>4 DEF Fine
  <2>9. ReadIsOfThisCheck' /\ PasteIsThePut'
    BY <1>1, ReadFrame, PasteFrame DEF Inv, Handle, checkVars, readVars, putVars, pasteVars
  <2> QED BY <1>3, <1>6, <2>5, <2>7, <2>8, <2>9 DEF Inv, Checked
<1> QED BY <1>7, <1>8

LEMMA PasteKeeps == ASSUME Inv, Paste PROVE Inv'
<1> USE WindowsAreClients
<1> DEFINE m == [kind |-> "paste", under |-> Len(log)]
<1>1. /\ m \in Letter /\ Owner = "us" /\ UNCHANGED <<log, requests, served, wiped>>
      /\ mail' = [mail EXCEPT !["us"] = Append(@, m)]
  BY OwnerIsLast DEF Paste, Letter, Inv, TypeOK, logVars, readVars, ownVars
<1>2. /\ MailType' /\ Letters'
      /\ \A d \in Clients : \A k \in DOMAIN mail'[d] :
           (d = "us" /\ mail'[d][k] = m) \/ (k \in DOMAIN mail[d] /\ mail'[d][k] = mail[d][k])
  <2>1. requests \in Nat /\ requests >= requests
    BY DEF Inv, TypeOK, ReadType
  <2>2. m.kind = "paste" /\ m.under = Len(log)
    OBVIOUS
  <2> HIDE DEF m
  <2> QED BY <1>1, <2>1, <2>2, Posting DEF Inv
<1>3. TypeOK'
  BY <1>1, <1>2 DEF Inv, TypeOK, LogType, ReadType, PutType, OwnType, Paste, logVars, checkVars, readVars,
                    putVars, ownVars
<1>4. Served'
  <2>1. ~(served = 0 /\ ~wiped)
    BY <1>1 DEF Inv, Served
  <2>2. Owner' = Owner /\ \A i : Ours(i)' <=> Ours(i)
    BY <1>1 DEF Owner, Ours
  <2> QED BY <1>1, <2>1, <2>2 DEF Inv, Served, Paste, logVars, putVars, ownVars
<1>5. Checked'
  BY <1>2, CheckedFrame DEF Inv, Paste, logVars, checkVars, readVars, putVars, ownVars
<1>6. ReadIsOfThisCheck' /\ PasteIsThePut'
  BY <1>1, ReadFrame, PasteFrame DEF Inv, Paste, checkVars, readVars, putVars
<1> QED BY <1>2, <1>3, <1>4, <1>5, <1>6 DEF Inv

-----------------------------------------------------------------------------
(* The check.                                                              *)

LEMMA StartCheckKeeps == ASSUME Inv, StartCheck PROVE Inv'
<1>1. UNCHANGED <<log, holds, mail, requests, target>> /\ target = 0 /\ since' = Len(log)
  BY DEF StartCheck, Free, logVars
<1>2. Letters' /\ MailType'
  BY <1>1, LettersFrame DEF Inv
<1>3. TypeOK'
  <2>1. Nothing \in Text
    BY DEF Nothing, Text
  <2>2. ReadType'
    BY <1>1, <2>1, OwnerIsLast DEF Inv, TypeOK, ReadType, StartCheck
  <2> QED BY <1>1, <1>2, <2>2 DEF Inv, TypeOK, LogType, PutType, OwnType, StartCheck, putVars, ownVars,
                                  pasteVars
<1>4. Served'
  BY <1>1, ServedFrame DEF Inv, StartCheck, putVars, ownVars
<1>5. Checked'
  <2>1. Owner' = Owner /\ Pumped' = Pumped /\ copyStamp' = Pumped
    BY <1>1 DEF Owner, Pumped, StartCheck, ClipboardStamp
  <2>2. ~Retaken'
    BY <1>1, OwnerIsLast DEF Retaken, Ours, Inv, TypeOK
  <2>3. (Busy /\ Settled /\ Current)'
    BY <1>1, <2>1 DEF Inv, Checked, Busy, Settled, Current, StartCheck, putVars, ownVars
  <2> QED BY <1>1, <2>1, <2>2, <2>3 DEF Checked, Stamped, Spared, Coming
<1>6. ReadIsOfThisCheck'
  BY DEF StartCheck, ReadIsOfThisCheck, Nothing
<1>7. PasteIsThePut'
  BY <1>1, PasteFrame DEF Inv, StartCheck, putVars, pasteVars
<1> QED BY <1>2, <1>3, <1>4, <1>5, <1>6, <1>7 DEF Inv

LEMMA FormatsAre == Len(Formats) = 3 /\ \A t \in 1..Len(Formats) : Formats[t] \in Targets
<1>1. Len(Formats) = 3
  BY DEF Formats
<1>2. Formats[1] \in Targets /\ Formats[2] \in Targets /\ Formats[3] \in Targets
  BY DEF Formats, Targets
<1>3. \A t \in 1..3 : t = 1 \/ t = 2 \/ t = 3
  OBVIOUS
<1> QED BY <1>1, <1>2, <1>3

LEMMA PokeKeeps == ASSUME Inv, Poke PROVE Inv'
<1>1. /\ UNCHANGED <<log, holds, copyPending, copyStamp, since, target, prop, first, got>>
      /\ target = 0
  BY DEF Poke, Free, logVars
<1>2. /\ MailType' /\ Letters' /\ requests' \in Nat /\ notes' \in Seq(Notice)
      /\ \A k \in DOMAIN mail'["us"] :
           mail'["us"][k].kind = "paste" => \E j \in DOMAIN mail["us"] : mail["us"][j].kind = "paste"
  <2>1. CASE Owner = None
    <3>1. UNCHANGED <<requests, notes, mail>>
      BY <2>1 DEF Poke
    <3> QED BY <1>1, <3>1, LettersFrame DEF Inv, TypeOK, ReadType
  <2>2. CASE Owner # None
    <3>1. Asked("targets")
      BY <2>2 DEF Poke
    <3>2. /\ MailType' /\ Letters' /\ requests' = requests + 1 /\ notes' \in Seq(Notice)
          /\ \A d \in Clients : \A k \in DOMAIN mail'[d] :
               \/ d = Owner /\ mail'[d][k].kind = "read"
               \/ k \in DOMAIN mail[d] /\ mail'[d][k] = mail[d][k]
      <4>1. "targets" \in Targets
        BY DEF Targets
      <4> QED BY <1>1, <3>1, <4>1, Asking DEF Inv
    <3>3. requests \in Nat
      BY DEF Inv, TypeOK, ReadType
    <3> QED BY <3>2, <3>3, WindowsAreClients
  <2> QED BY <2>1, <2>2
<1>3. TypeOK'
  BY <1>1, <1>2 DEF Inv, TypeOK, LogType, ReadType, PutType, OwnType, Poke, putVars, ownVars, pasteVars
<1>4. Served'
  BY <1>1, <1>2, ServedFrame DEF Inv, Poke, putVars, ownVars
<1>5. Checked'
  <2>1. Owner' = Owner /\ Pumped' = Pumped /\ Retaken' = Retaken /\ Watching' = Watching
    BY <1>1 DEF Owner, Pumped, Retaken, Watching, Ours, Poke, putVars
  <2> QED BY <1>1, <2>1 DEF Inv, Checked, Busy, Settled, Current, Stamped, Spared, Coming, Poke, putVars,
                            ownVars
<1>6. ReadIsOfThisCheck' /\ PasteIsThePut'
  BY <1>1, ReadFrame, PasteFrame DEF Inv, Poke, putVars, pasteVars
<1> QED BY <1>2, <1>3, <1>4, <1>5, <1>6 DEF Inv

LEMMA TimeOutKeeps == ASSUME Inv, TimeOut PROVE Inv'
<1>1. UNCHANGED <<log, holds, mail, requests, target, first, got, since>> /\ target = 0
  BY DEF TimeOut, Free, logVars, readVars
<1>2. Letters' /\ MailType'
  BY <1>1, LettersFrame DEF Inv
<1>3. TypeOK'
  BY <1>1, <1>2 DEF Inv, TypeOK, LogType, ReadType, PutType, OwnType, TimeOut, readVars, putVars, ownVars,
                    pasteVars
<1>4. Served'
  BY <1>1, ServedFrame DEF Inv, TimeOut, putVars, ownVars
<1>5. Checked'
  <2>1. Owner' = Owner /\ ~copyPending'
    BY <1>1 DEF Owner, TimeOut
  <2> QED BY <1>1, <2>1 DEF Inv, Checked, Busy, Settled, Current, Stamped, Spared, Watching, Coming,
                            TimeOut, putVars, ownVars
<1>6. ReadIsOfThisCheck' /\ PasteIsThePut'
  BY <1>1, ReadFrame, PasteFrame DEF Inv, TimeOut, putVars, pasteVars
<1> QED BY <1>2, <1>3, <1>4, <1>5, <1>6 DEF Inv

\* A new request: the answer it waits for can only come from who owns the selection
\* now, which changed hands since the hotkey.
LEMMA Converting ==
  ASSUME TypeOK, Letters, Current, NEW t \in 1..Len(Formats), Convert(t),
         UNCHANGED <<log, holds, since>>, Len(log) > since,
         \A d \in Clients : \A k \in DOMAIN mail[d] :
           mail[d][k].kind = "read" /\ mail[d][k].id >= first'
             => IF d = "us" THEN Retaken ELSE holds[d] = 0 \/ holds[d] > since
  PROVE  /\ MailType' /\ Letters' /\ requests' = requests + 1 /\ notes' \in Seq(Notice)
         /\ target' \in 1..Len(Formats) /\ prop' \in Text /\ Coming'
         /\ \A k \in DOMAIN mail'["us"] :
              mail'["us"][k].kind = "paste" => \E j \in DOMAIN mail["us"] : mail["us"][j].kind = "paste"
<1> USE WindowsAreClients
<1>1. Formats[t] \in Targets
  BY FormatsAre
<1>2. Asked(Formats[t]) /\ target' = t /\ prop' = Nothing
  BY DEF Convert
<1>3. /\ MailType' /\ Letters' /\ requests' = requests + 1 /\ notes' \in Seq(Notice)
      /\ \A d \in Clients : \A k \in DOMAIN mail'[d] :
           \/ d = Owner /\ mail'[d][k].kind = "read"
           \/ k \in DOMAIN mail[d] /\ mail'[d][k] = mail[d][k]
  BY <1>1, <1>2, Asking
<1>4. prop' \in Text /\ prop'.n = 0
  BY <1>2 DEF Nothing, Text
<1>5. Retaken' = Retaken
  BY DEF Retaken, Ours
<1>6. Owner = "us" => Retaken
  <2>1. Owner = "us" => Ours(Len(log)) /\ Len(log) \in DOMAIN log
    BY OwnerIsLast DEF Ours, TypeOK
  <2> QED BY <2>1 DEF Retaken
<1>7. \A w \in Windows : \A k \in DOMAIN mail'[w] :
        mail'[w][k].kind = "read" /\ mail'[w][k].id >= first' => holds[w] = 0 \/ holds[w] > since
  BY <1>3 DEF Current
<1>8. \A k \in DOMAIN mail'["us"] :
        mail'["us"][k].kind = "read" /\ mail'["us"][k].id >= first' => Retaken
  BY <1>3, <1>6
<1>9. Coming'
  BY <1>4, <1>5, <1>7, <1>8 DEF Coming
<1> QED BY <1>2, <1>3, <1>4, <1>9

\* What a read in hand leaves alone.
LEMMA Reading ==
  ASSUME Inv, UNCHANGED <<logVars, checkVars, first, putVars, ownVars, pasteVars>>,
         MailType', Letters', requests' \in Nat, notes' \in Seq(Notice), prop' \in Text, got' \in Text,
         target' \in 0..Len(Formats), target # 0,
         Coming', ReadIsOfThisCheck',
         \A k \in DOMAIN mail'["us"] :
           mail'["us"][k].kind = "paste" => \E j \in DOMAIN mail["us"] : mail["us"][j].kind = "paste"
  PROVE  Inv'
<1>1. TypeOK'
  BY DEF Inv, TypeOK, LogType, ReadType, PutType, OwnType, logVars, checkVars, putVars, ownVars, pasteVars
<1>2. Served'
  BY ServedFrame DEF Inv, logVars, putVars, ownVars
<1>3. Owner' = Owner /\ Pumped' = Pumped /\ Retaken' = Retaken
  BY DEF Owner, Pumped, Retaken, Ours, logVars, checkVars
<1>4. (Busy /\ Settled /\ Current /\ Stamped)'
  BY <1>3 DEF Inv, Checked, Busy, Settled, Current, Stamped, logVars, checkVars, putVars, ownVars
<1>5. Spared'
  BY <1>3 DEF Inv, Checked, Spared, Watching, checkVars, putVars, ownVars
<1>6. PasteIsThePut'
  BY PasteFrame DEF Inv, logVars, putVars, pasteVars
<1> QED BY <1>1, <1>2, <1>4, <1>5, <1>6 DEF Inv, Checked

LEMMA NothingKeeps == ASSUME got' = Nothing PROVE ReadIsOfThisCheck' /\ got' \in Text
  BY DEF ReadIsOfThisCheck, Nothing, Text

LEMMA NextFormatKeeps ==
  ASSUME Inv, target # 0, NextFormat,
         UNCHANGED <<logVars, checkVars, first, putVars, ownVars, pasteVars>>
  PROVE  Inv'
<1>1. UNCHANGED <<log, holds, since>> /\ Len(log) > since /\ Current
      /\ target \in 1..Len(Formats) /\ Len(Formats) = 3
  BY FormatsAre DEF Inv, TypeOK, ReadType, Checked, Busy, logVars, checkVars
<1>2. CASE target < Len(Formats)
  <2>1. Convert(target + 1) /\ got' = got /\ target + 1 \in 1..Len(Formats)
    BY <1>1, <1>2 DEF NextFormat
  <2>2. \A d \in Clients : \A k \in DOMAIN mail[d] :
          mail[d][k].kind = "read" /\ mail[d][k].id >= first'
            => IF d = "us" THEN Retaken ELSE holds[d] = 0 \/ holds[d] > since
    BY WindowsAreClients DEF Inv, Checked, Coming, Clients
  <2>3. /\ MailType' /\ Letters' /\ requests' = requests + 1 /\ notes' \in Seq(Notice)
        /\ target' \in 1..Len(Formats) /\ prop' \in Text /\ Coming'
        /\ \A k \in DOMAIN mail'["us"] :
             mail'["us"][k].kind = "paste" => \E j \in DOMAIN mail["us"] : mail["us"][j].kind = "paste"
    BY <1>1, <2>1, <2>2, Converting DEF Inv
  <2>4. ReadIsOfThisCheck' /\ got' \in Text /\ requests' \in Nat /\ target' \in 0..Len(Formats)
    BY <1>1, <2>1, <2>3 DEF ReadIsOfThisCheck, Inv, TypeOK, ReadType
  <2> QED BY <2>3, <2>4, Reading
<1>3. CASE ~(target < Len(Formats))
  <2>1. target' = 0 /\ got' = Nothing /\ UNCHANGED <<mail, requests, notes, prop>>
    BY <1>3 DEF NextFormat, Return
  <2>2. Letters' /\ MailType'
    BY <1>1, <2>1, LettersFrame DEF Inv
  <2>3. Coming'
    BY <2>1 DEF Coming
  <2> QED BY <1>1, <2>1, <2>2, <2>3, NothingKeeps, Reading DEF Inv, TypeOK, ReadType
<1> QED BY <1>2, <1>3

LEMMA ReadKeeps == ASSUME Inv, Read PROVE Inv'
<1> DEFINE e == Head(notes)
<1>1. /\ target # 0 /\ notes # <<>>
      /\ UNCHANGED <<logVars, checkVars, first, putVars, ownVars, pasteVars>>
  BY DEF Read
<1>2. /\ UNCHANGED <<log, holds, since, gaveUp>>
      /\ target \in 0..Len(Formats) /\ prop \in Text /\ got \in Text /\ requests \in Nat
  BY <1>1 DEF Inv, TypeOK, ReadType, logVars, checkVars, putVars
<1>3. Tail(notes) \in Seq(Notice)
  BY <1>1, HeadTailProperties DEF Inv, TypeOK, ReadType
<1>4. Owner' = Owner /\ Retaken' = Retaken
  BY <1>2 DEF Owner, Retaken, Ours
<1>5. CASE e.target # Formats[target]
  <2>1. notes' = Tail(notes) /\ UNCHANGED <<mail, target, requests, prop, got>>
    BY <1>5 DEF Read
  <2>2. Letters' /\ MailType'
    BY <1>2, <2>1, LettersFrame DEF Inv
  <2>3. Coming'
    BY <1>1, <1>2, <1>4, <2>1 DEF Inv, Checked, Coming, Fine
  <2>4. ReadIsOfThisCheck'
    BY <1>1, <2>1 DEF ReadIsOfThisCheck
  <2> QED BY <1>1, <1>2, <1>3, <2>1, <2>2, <2>3, <2>4, Reading
<1>6. CASE e.target = Formats[target] /\ e.ok /\ prop.n # 0
  <2>1. /\ target' = 0 /\ got' = prop /\ prop' = Nothing /\ notes' = Tail(notes)
        /\ UNCHANGED <<mail, requests>>
    BY <1>6 DEF Read, Return
  <2>2. Letters' /\ MailType'
    BY <1>2, <2>1, LettersFrame DEF Inv
  <2>3. Coming' /\ Nothing \in Text
    BY <2>1 DEF Coming, Nothing, Text
  <2>4. ReadIsOfThisCheck'
    BY <1>1, <1>2, <2>1 DEF Inv, Checked, Coming, Fine, ReadIsOfThisCheck
  <2>5. target' \in 0..Len(Formats)
    BY <2>1, FormatsAre
  <2> QED BY <1>1, <1>2, <1>3, <2>1, <2>2, <2>3, <2>4, <2>5, Reading
<1>7. CASE e.target = Formats[target] /\ ~(e.ok /\ prop.n # 0)
  <2>1. NextFormat
    BY <1>7 DEF Read
  <2> QED BY <1>1, <2>1, NextFormatKeeps
<1> QED BY <1>5, <1>6, <1>7

LEMMA DeadlineKeeps == ASSUME Inv, Deadline PROVE Inv'
  BY NextFormatKeeps DEF Deadline

\* The clipboard was written after the hotkey: whoever owns it now took it since.
LEMMA PollWrittenKeeps == ASSUME Inv, PollWritten PROVE Inv'
<1>1. /\ target = 0 /\ waiting = None /\ copyPending /\ Pumped # copyStamp
      /\ UNCHANGED <<log, holds, since, copyStamp, gaveUp>> /\ copyPending' = FALSE
      /\ first' = requests + 1
  BY DEF PollWritten, Free, logVars, putVars
<1>2. Len(log) > since /\ since \in Nat /\ requests \in Nat /\ Current
  <2>1. since # Len(log) /\ Current
    BY <1>1 DEF Inv, Checked, Stamped
  <2>2. since \in 0..Len(log) /\ requests \in Nat
    BY DEF Inv, TypeOK, ReadType
  <2>3. Len(log) \in Nat
    BY OwnerIsLast DEF Inv, TypeOK
  <2> QED BY <2>1, <2>2, <2>3
<1>3. \A d \in Clients : \A k \in DOMAIN mail[d] : mail[d][k] \in Letter
  BY ElementOfSeq, LenProperties DEF Inv, TypeOK, MailType
<1>4. /\ MailType' /\ Letters' /\ requests' \in Nat /\ notes' \in Seq(Notice) /\ prop' \in Text
      /\ target' \in 0..Len(Formats) /\ got' = Nothing /\ Coming'
      /\ \A k \in DOMAIN mail'["us"] :
           mail'["us"][k].kind = "paste" => \E j \in DOMAIN mail["us"] : mail["us"][j].kind = "paste"
  <2>1. CASE Owner = None
    <3>1. target' = 0 /\ got' = Nothing /\ UNCHANGED <<mail, requests, notes, prop>>
      BY <2>1 DEF PollWritten, Return
    <3>2. Letters' /\ MailType'
      BY <1>1, <3>1, LettersFrame DEF Inv
    <3> QED BY <3>1, <3>2, FormatsAre DEF Coming, Inv, TypeOK, ReadType
  <2>2. CASE Owner # None
    <3>1. Convert(1) /\ got' = Nothing /\ 1 \in 1..Len(Formats)
      BY <2>2, FormatsAre DEF PollWritten
    <3>2. \A d \in Clients : \A k \in DOMAIN mail[d] : ~(mail[d][k].kind = "read" /\ mail[d][k].id >= first')
      BY <1>1, <1>2, <1>3 DEF Inv, Letters, Letter
    <3>3. /\ MailType' /\ Letters' /\ requests' = requests + 1 /\ notes' \in Seq(Notice)
          /\ target' \in 1..Len(Formats) /\ prop' \in Text /\ Coming'
          /\ \A k \in DOMAIN mail'["us"] :
               mail'["us"][k].kind = "paste" => \E j \in DOMAIN mail["us"] : mail["us"][j].kind = "paste"
      BY <1>1, <1>2, <3>1, <3>2, Converting DEF Inv
    <3>4. target' \in 0..Len(Formats)
      BY <3>3, FormatsAre
    <3> QED BY <1>2, <3>1, <3>3, <3>4
  <2> QED BY <2>1, <2>2
<1>5. TypeOK'
  <2>1. first' \in Nat /\ got' \in Text
    BY <1>1, <1>2, <1>4 DEF Nothing, Text
  <2>2. since' \in 0..Len(log') /\ copyPending' \in BOOLEAN
    BY <1>1 DEF Inv, TypeOK, ReadType
  <2>3. ReadType'
    BY <1>4, <2>1, <2>2 DEF ReadType
  <2> QED BY <1>1, <1>4, <2>3 DEF Inv, TypeOK, LogType, PutType, OwnType, PollWritten, putVars, ownVars,
                                  pasteVars
<1>6. Served'
  BY <1>1, <1>4, ServedFrame DEF Inv, PollWritten, putVars, ownVars
<1>7. Checked'
  <2>1. Owner' = Owner /\ Pumped' = Pumped /\ Retaken' = Retaken
    BY <1>1 DEF Owner, Pumped, Retaken, Ours
  <2>2. (Busy /\ Settled /\ Current /\ Stamped)'
    BY <1>1, <1>2, <2>1 DEF Inv, Checked, Busy, Settled, Current, Stamped, PollWritten, putVars, ownVars
  <2>3. Spared'
    BY <1>1, <2>1 DEF Inv, Checked, Spared, Watching, PollWritten, putVars, ownVars
  <2> QED BY <1>4, <2>2, <2>3 DEF Checked
<1>8. ReadIsOfThisCheck' /\ PasteIsThePut'
  BY <1>1, <1>4, NothingKeeps, PasteFrame DEF Inv, PollWritten, putVars, pasteVars
<1> QED BY <1>4, <1>5, <1>6, <1>7, <1>8 DEF Inv

-----------------------------------------------------------------------------
(* set(), on the main thread.                                              *)

LEMMA PutKeeps == ASSUME Inv, Put PROVE Inv'
<1>1. /\ UNCHANGED <<log, holds, mail, requests, target, got, first, since, gaveUp, promised, pasted>>
      /\ UNCHANGED <<taken, owned, pc, seq, stamp, served, wiped>>
      /\ target = 0 /\ waiting = None
      /\ requested' = requested + 1 /\ pending' = requested + 1 /\ waiting' = requested + 1
  BY DEF Put, Free, logVars, readVars, checkVars, ownVars, pasteVars
<1>2. requested \in Nat /\ taken \in 0..requested /\ seq \in 0..requested
  BY DEF Inv, TypeOK, PutType, OwnType
<1>3. Letters' /\ MailType'
  BY <1>1, LettersFrame DEF Inv
<1>4. TypeOK'
  <2>1. PutType'
    BY <1>1, <1>2 DEF Inv, TypeOK, PutType
  <2>2. OwnType'
    BY <1>1, <1>2 DEF Inv, TypeOK, OwnType
  <2> QED BY <1>1, <1>3, <2>1, <2>2 DEF Inv, TypeOK, LogType, ReadType, Put, checkVars, readVars
<1>5. Served'
  <2>1. Owner' = Owner /\ \A i : Ours(i)' <=> Ours(i)
    BY <1>1 DEF Owner, Ours
  <2>2. (IF pc = "select"
         THEN taken = seq /\ (requested # taken => pending = requested)
         ELSE taken < seq /\ served = seq /\ (requested # seq => pending = requested))'
    BY <1>1 DEF Inv, Served
  <2> QED BY <1>1, <2>1, <2>2 DEF Inv, Served
<1>6. Checked'
  <2>1. Owner' = Owner /\ Pumped' = Pumped
    BY <1>1 DEF Owner, Pumped
  <2>2. Settled'
    <3> SUFFICES ASSUME NEW p \in 1..(requested + 1)
                 PROVE  p = requested + 1 \/ p \in gaveUp \/ p <= taken
      BY <1>1 DEF Settled
    <3>1. CASE p = requested + 1
      BY <3>1
    <3>2. CASE p # requested + 1
      <4>1. p \in 1..requested /\ p # None
        BY <1>2, <3>2, ClientsAssumption
      <4> QED BY <1>1, <4>1 DEF Inv, Checked, Settled
    <3> QED BY <3>1, <3>2
  <2>3. waiting' # None
    BY <1>1, <1>2, ClientsAssumption
  <2>4. (Busy /\ Current /\ Stamped)'
    BY <1>1, <2>1 DEF Inv, Checked, Busy, Current, Stamped, Put, checkVars
  <2> QED BY <1>1, <2>2, <2>3, <2>4 DEF Checked, Spared, Watching, Coming
<1>7. ReadIsOfThisCheck' /\ PasteIsThePut'
  BY <1>1, ReadFrame, PasteFrame DEF Inv
<1> QED BY <1>3, <1>4, <1>5, <1>6, <1>7 DEF Inv

\* Once set() has returned the check is no longer waiting for the clipboard.
LEMMA ResumedKeeps ==
  ASSUME Inv, waiting # None, Resumed,
         UNCHANGED <<moves, logVars, mail, copyStamp, changes, poked, since, readVars, pending,
                     requested, ownVars, pasteVars>>,
         gaveUp \subseteq gaveUp', gaveUp' \subseteq Nat, promised' \subseteq Nat,
         waiting \in gaveUp' \/ waiting <= taken,
         PasteIsThePut'
  PROVE  Inv'
<1>1. /\ UNCHANGED <<log, holds, requests, target, first, got>>
      /\ UNCHANGED <<pending, requested, taken, owned, pc, seq, stamp, served, wiped>>
      /\ waiting' = None /\ copyPending' = FALSE
  BY DEF logVars, readVars, ownVars, Resumed
<1>2. target = 0
  BY DEF Inv, Checked, Busy
<1>3. Letters' /\ MailType'
  BY <1>1, LettersFrame DEF Inv
<1>4. TypeOK'
  <2>1. ReadType'
    BY <1>1 DEF Inv, TypeOK, ReadType, readVars
  <2>2. PutType' /\ OwnType'
    BY <1>1 DEF Inv, TypeOK, PutType, OwnType, pasteVars
  <2> QED BY <1>1, <1>3, <2>1, <2>2 DEF Inv, TypeOK, LogType
<1>5. Served'
  BY <1>1, ServedFrame DEF Inv
<1>6. Checked'
  <2>1. Owner' = Owner
    BY <1>1 DEF Owner
  <2>2. Settled'
    BY <1>1 DEF Inv, Checked, Settled
  <2> QED BY <1>1, <1>2, <2>1, <2>2 DEF Inv, Checked, Busy, Current, Stamped, Spared, Watching, Coming
<1>7. ReadIsOfThisCheck'
  BY <1>1, ReadFrame DEF Inv
<1> QED BY <1>3, <1>4, <1>5, <1>6, <1>7 DEF Inv

LEMMA AnswerKeeps == ASSUME Inv, Answer PROVE Inv'
<1>1. waiting # None /\ taken >= waiting /\ Resumed /\ gaveUp' = gaveUp /\ log' = log
  BY DEF Answer, logVars
<1>2. waiting \in 1..requested /\ requested \in Nat /\ taken \in Nat /\ gaveUp \subseteq Nat
      /\ promised \subseteq Nat
  BY <1>1 DEF Inv, TypeOK, PutType, OwnType
<1>3. promised' \in {promised, promised \cup {waiting}}
      /\ (promised' # promised => owned)
  BY DEF Answer
<1>4. PasteIsThePut'
  <2>1. ASSUME owned PROVE \E i \in DOMAIN log : log[i].by = "us" /\ log[i].put >= waiting
    <3>1. PICK i \in DOMAIN log : Ours(i) /\ log[i].put >= taken
      BY <2>1 DEF Inv, Served
    <3>2. log[i].put \in Nat
      BY OwnerIsLast DEF Inv, TypeOK, Entry
    <3> QED BY <1>1, <1>2, <3>1, <3>2 DEF Ours
  <2>2. pasted' = pasted
    BY DEF Answer, pasteVars
  <2> QED BY <1>1, <1>3, <2>1, <2>2 DEF Inv, PasteIsThePut
<1>5. promised' \subseteq Nat /\ gaveUp' \subseteq Nat /\ gaveUp \subseteq gaveUp'
      /\ waiting <= taken
  BY <1>1, <1>2, <1>3
<1> QED BY <1>1, <1>4, <1>5, ResumedKeeps DEF Answer

LEMMA GiveUpKeeps == ASSUME Inv, GiveUp PROVE Inv'
<1>1. waiting # None /\ Resumed /\ gaveUp' = gaveUp \cup {waiting} /\ promised' = promised
      /\ UNCHANGED <<log, pasted>>
  BY DEF GiveUp, logVars, pasteVars
<1>2. waiting \in Nat /\ gaveUp \subseteq Nat /\ promised \subseteq Nat
  BY <1>1 DEF Inv, TypeOK, PutType
<1>3. PasteIsThePut'
  BY <1>1 DEF Inv, PasteIsThePut
<1> QED BY <1>1, <1>2, <1>3, ResumedKeeps DEF GiveUp

-----------------------------------------------------------------------------
(* The owner's thread.                                                     *)

\* The check's part as the thread goes on: what it has taken is never given back,
\* and a check that is watching is spared what it holds.
LEMMA CheckedOwn ==
  ASSUME TypeOK, Checked,
         UNCHANGED <<log, holds, copyPending, copyStamp, since, target, first, prop, waiting,
                     requested, gaveUp>>,
         taken' \in Nat, taken' >= taken,
         Watching /\ Retaken => served' = 0 \/ served' \in gaveUp,
         \A d \in Clients : \A k \in DOMAIN mail'[d] :
           mail'[d][k].kind = "read" => \E j \in DOMAIN mail[d] : mail'[d][k] = mail[d][j]
  PROVE  Checked'
<1>1. Owner' = Owner /\ Pumped' = Pumped /\ Retaken' = Retaken /\ Watching' = Watching
      /\ (Fine(prop)' <=> Fine(prop))
  BY DEF Owner, Pumped, Retaken, Watching, Fine, Ours
<1>2. (Busy /\ Current /\ Stamped /\ Spared)'
  BY <1>1 DEF Checked, Busy, Current, Stamped, Spared
<1>3. Settled'
  <2>1. taken \in Nat /\ requested \in Nat
    BY DEF TypeOK, OwnType, PutType
  <2> QED BY <2>1 DEF Checked, Settled
<1>4. Coming'
  BY <1>1, WindowsAreClients DEF Checked, Coming
<1> QED BY <1>2, <1>3, <1>4 DEF Checked

\* What the thread put on the clipboard after the hotkey of a check that is still
\* watching is a put whose set() had stopped waiting.
LEMMA OnlyGivenUp ==
  ASSUME TypeOK, Checked, NEW p \in 1..requested, p > taken, Watching
  PROVE  p \in gaveUp
<1>1. waiting = None /\ None \notin Nat /\ p \in Nat /\ taken \in Nat
  BY ClientsAssumption DEF Watching, TypeOK, OwnType, PutType
<1> QED BY <1>1 DEF Checked, Settled

LEMMA ServeKeeps == ASSUME Inv, Serve PROVE Inv'
<1> USE WindowsAreClients
<1> DEFINE m == Head(mail["us"])
<1>1. /\ mail["us"] # <<>> /\ m.kind # "clear" /\ mail' = [mail EXCEPT !["us"] = Tail(@)]
      /\ UNCHANGED <<log, holds, requests, target, first, got, since, gaveUp, promised>>
      /\ UNCHANGED <<copyPending, copyStamp, waiting, pending, requested>>
      /\ UNCHANGED <<taken, owned, pc, seq, stamp, served, wiped>>
  BY DEF Serve, logVars, checkVars, putVars, ownVars
<1>2. /\ MailType' /\ \A d \in Clients \ {"us"} : mail'[d] = mail[d]
      /\ m = mail["us"][1] /\ m \in Letter /\ 1 \in DOMAIN mail["us"]
      /\ \A k \in DOMAIN mail'["us"] : k + 1 \in DOMAIN mail["us"] /\ mail'["us"][k] = mail["us"][k + 1]
  BY <1>1, Removing DEF Inv, TypeOK
<1>3. Letters'
  BY <1>1, LettersRemoved DEF Inv
<1>4. \A d \in Clients : \A k \in DOMAIN mail'[d] : \E j \in DOMAIN mail[d] : mail'[d][k] = mail[d][j]
  BY <1>2
<1>5. Served'
  BY <1>1, <1>4, ServedFrame DEF Inv
<1>6. LogType' /\ PutType'
  BY <1>1 DEF Inv, TypeOK, LogType, PutType
<1>7. ReadIsOfThisCheck'
  BY <1>1, ReadFrame DEF Inv
<1>8. CASE m.kind = "paste"
  <2>1. /\ pasted' = [asked |-> log[m.under].put, served |-> served, wiped |-> wiped]
        /\ UNCHANGED <<notes, prop>>
    BY <1>8 DEF Serve
  <2>2. Ours(m.under)
    BY <1>2, <1>8 DEF Inv, Letters
  <2>3. log[m.under].put \in Nat /\ served \in Nat /\ wiped \in BOOLEAN
    BY <2>2, OwnerIsLast DEF Ours, Inv, TypeOK, OwnType, Entry
  <2>4. served >= log[m.under].put \/ (served = 0 /\ wiped)
    <3>1. CASE served # 0
      <4>1. log[m.under].put <= served
        BY <2>2, <3>1 DEF Inv, Served, Ours
      <4> QED BY <2>3, <4>1
    <3>2. CASE served = 0
      <4>1. wiped
        BY <1>2, <1>8, <3>2 DEF Inv, Served
      <4> QED BY <3>2, <4>1
    <3> QED BY <3>1, <3>2
  <2>5. PasteIsThePut'
    BY <1>1, <2>1, <2>4 DEF Inv, PasteIsThePut
  <2>6. TypeOK'
    <3>1. pasted' \in Reply
      BY <2>1, <2>3 DEF Reply
    <3>2. ReadType' /\ OwnType'
      BY <1>1, <2>1, <3>1 DEF Inv, TypeOK, ReadType, OwnType
    <3> QED BY <1>2, <1>6, <3>2 DEF TypeOK
  <2>7. Checked'
    BY <1>1, <1>4, <2>1, CheckedFrame DEF Inv
  <2> QED BY <1>3, <1>5, <1>7, <2>5, <2>6, <2>7 DEF Inv
<1>9. CASE m.kind # "paste"
  <2>1. m.kind = "read" /\ m.target \in Targets /\ m.id \in Nat
    BY <1>1, <1>2, <1>9 DEF Letter
  <2> DEFINE text == [by |-> "us", id |-> m.id, n |-> IF m.target = "targets" THEN 0 ELSE served]
  <2>2. Answered(m, TRUE, text) /\ pasted' = pasted
    BY <1>9 DEF Serve
  <2>3. prop' = text /\ text \in Text /\ notes' \in Seq(Notice)
    <3>1. [target |-> m.target, ok |-> TRUE] \in Notice
      BY <2>1 DEF Notice
    <3>2. served \in Nat
      BY DEF Inv, TypeOK, OwnType
    <3> QED BY <2>1, <2>2, <3>1, <3>2, AppendProperties DEF Answered, Text, Inv, TypeOK, ReadType
  <2>4. TypeOK'
    <3>1. ReadType' /\ OwnType'
      BY <1>1, <2>2, <2>3 DEF Inv, TypeOK, ReadType, OwnType
    <3> QED BY <1>2, <1>6, <3>1 DEF TypeOK
  <2>5. Owner' = Owner /\ Pumped' = Pumped /\ Retaken' = Retaken /\ Watching' = Watching
    BY <1>1 DEF Owner, Pumped, Retaken, Watching, Ours
  <2>6. (Busy /\ Settled /\ Current /\ Stamped /\ Spared)'
    BY <1>1, <2>5 DEF Inv, Checked, Busy, Settled, Current, Stamped, Spared
  <2>7. ASSUME target # 0, text.n # 0, text.id >= first
        PROVE  text.by = "us" /\ text.n \in gaveUp'
    <3>1. Retaken /\ Watching
      BY <1>2, <2>1, <2>7 DEF Inv, Checked, Coming, Busy, Watching
    <3>2. served # 0
      BY <2>7
    <3>3. served \in gaveUp /\ text.n = served /\ text.by = "us"
      BY <2>7, <3>1, <3>2 DEF Inv, Checked, Spared
    <3> QED BY <1>1, <3>3
  <2>8. target' # 0 /\ prop'.n # 0 /\ prop'.id >= first' => Fine(prop)'
    <3> HIDE DEF text
    <3> QED BY <1>1, <2>3, <2>7 DEF Fine
  <2>9. Coming'
    BY <1>1, <1>4, <2>5, <2>8 DEF Inv, Checked, Coming
  <2>10. PasteIsThePut'
    BY <1>1, <2>2, PasteFrame DEF Inv
  <2> QED BY <1>3, <1>5, <1>7, <2>4, <2>6, <2>9, <2>10 DEF Inv, Checked
<1> QED BY <1>8, <1>9

\* The selection was lost before, and what is put on the clipboard since is wiped too.
LEMMA ClearKeeps == ASSUME Inv, Clear PROVE Inv'
<1> USE WindowsAreClients
<1> DEFINE m == Head(mail["us"])
<1>1. /\ pc = "select" /\ mail["us"] # <<>> /\ m.kind = "clear"
      /\ mail' = [mail EXCEPT !["us"] = Tail(@)] /\ served' = 0
      /\ wiped' = (\E i \in DOMAIN log : i > m.under /\ log[i].by = "us")
      /\ UNCHANGED <<log, holds, requests, target, first, got, prop, notes, since, gaveUp, promised>>
      /\ UNCHANGED <<copyPending, copyStamp, waiting, pending, requested, pasted>>
      /\ UNCHANGED <<taken, owned, pc, seq, stamp>>
  BY DEF Clear, logVars, checkVars, readVars, putVars, pasteVars
<1>2. /\ MailType' /\ \A d \in Clients \ {"us"} : mail'[d] = mail[d]
      /\ m = mail["us"][1] /\ m \in Letter /\ 1 \in DOMAIN mail["us"]
      /\ DOMAIN mail'["us"] \subseteq Nat \ {0}
      /\ \A k \in DOMAIN mail'["us"] : k + 1 \in DOMAIN mail["us"] /\ mail'["us"][k] = mail["us"][k + 1]
  BY <1>1, Removing DEF Inv, TypeOK
<1>3. Letters'
  BY <1>1, LettersRemoved DEF Inv
<1>4. TypeOK'
  <2>1. wiped' \in BOOLEAN
    BY <1>1
  <2>2. OwnType'
    BY <1>1, <2>1 DEF Inv, TypeOK, OwnType
  <2> QED BY <1>1, <1>2, <2>2 DEF Inv, TypeOK, LogType, ReadType, PutType
<1>5. m.under < Len(log) /\ m.under \in Nat
  BY <1>1, <1>2 DEF Inv, Letters, Letter
<1>6. Owner' = Owner /\ \A i : Ours(i)' <=> Ours(i)
  BY <1>1 DEF Owner, Ours
<1>7. ASSUME ~wiped'
      PROVE  Owner # "us" /\ \A k \in DOMAIN mail'["us"] : mail'["us"][k].kind # "paste"
  <2>1. \A i \in DOMAIN log : i > m.under => log[i].by # "us"
    BY <1>1, <1>7
  <2>2. Owner # "us"
    BY <1>5, <2>1, OwnerIsLast, ClientsAssumption DEF Inv, TypeOK
  <2>3. ASSUME NEW k \in DOMAIN mail'["us"], mail'["us"][k].kind = "paste" PROVE FALSE
    <3>1. /\ k + 1 \in DOMAIN mail["us"] /\ mail["us"][k + 1].kind = "paste" /\ 1 < k + 1
      BY <1>2, <2>3
    <3>2. m.under < mail["us"][k + 1].under /\ Ours(mail["us"][k + 1].under)
      BY <1>1, <1>2, <3>1 DEF Inv, Letters
    <3>3. mail["us"][k + 1].under \in Nat
      BY <3>2, OwnerIsLast DEF Ours, Inv, TypeOK
    <3> QED BY <1>5, <2>1, <3>2, <3>3 DEF Ours
  <2> QED BY <2>2, <2>3
<1>8. Served'
  <2>1. (served = 0 /\ ~wiped =>
           Owner # "us" /\ \A k \in DOMAIN mail["us"] : mail["us"][k].kind # "paste")'
    BY <1>6, <1>7
  <2>2. (IF pc = "select"
         THEN taken = seq /\ (requested # taken => pending = requested)
         ELSE taken < seq /\ served = seq /\ (requested # seq => pending = requested))'
    BY <1>1 DEF Inv, Served
  <2> QED BY <1>1, <1>6, <2>1, <2>2 DEF Inv, Served
<1>9. Checked'
  <2>1. taken' \in Nat /\ taken' >= taken
    BY <1>1 DEF Inv, TypeOK, OwnType, PutType
  <2> QED BY <1>1, <1>2, <2>1, CheckedOwn DEF Inv
<1>10. ReadIsOfThisCheck' /\ PasteIsThePut'
  BY <1>1, ReadFrame, PasteFrame DEF Inv
<1> QED BY <1>2, <1>3, <1>4, <1>8, <1>9, <1>10 DEF Inv

\* The latest put, however many set() has asked for since.
LEMMA TakePendingKeeps == ASSUME Inv, TakePending PROVE Inv'
<1>1. /\ pc = "select" /\ requested # taken /\ pc' = "time"
      /\ served' = pending /\ pending' = 0 /\ seq' = requested /\ wiped' = FALSE
      /\ UNCHANGED <<log, holds, mail, requests, target, first, got, prop, notes, since, gaveUp, promised>>
      /\ UNCHANGED <<copyPending, copyStamp, waiting, requested, pasted, taken, owned, stamp>>
  BY DEF TakePending, logVars, checkVars, readVars, pasteVars
<1>2. pending = requested /\ taken = seq
  BY <1>1 DEF Inv, Served
<1>3. requested \in Nat /\ taken \in Nat /\ taken < requested
  BY <1>1 DEF Inv, TypeOK, PutType, OwnType
<1>4. Letters' /\ MailType'
  BY <1>1, LettersFrame DEF Inv
<1>5. TypeOK'
  <2>1. PutType'
    BY <1>1 DEF Inv, TypeOK, PutType
  <2>2. seq' \in 0..requested' /\ taken' \in 0..requested' /\ served' \in Nat
    BY <1>1, <1>2, <1>3
  <2>3. OwnType'
    BY <1>1, <2>2 DEF Inv, TypeOK, OwnType
  <2> QED BY <1>1, <1>4, <2>1, <2>3 DEF Inv, TypeOK, LogType, ReadType
<1>6. Owner' = Owner /\ \A i : Ours(i)' <=> Ours(i)
  BY <1>1 DEF Owner, Ours
<1>7. Served'
  <2>1. \A i \in DOMAIN log : Ours(i) => log[i].put <= requested
    <3> SUFFICES ASSUME NEW i \in DOMAIN log, Ours(i) PROVE log[i].put <= requested
      OBVIOUS
    <3>1. log[i].put <= seq /\ log[i].put \in Nat
      BY OwnerIsLast DEF Inv, Served, TypeOK, Entry
    <3> QED BY <1>2, <1>3, <3>1
  <2>2. served' # 0
    BY <1>1, <1>2, <1>3
  <2>3. (\A i \in DOMAIN log : Ours(i) => log[i].put <= seq)'
    BY <1>1, <1>6, <2>1
  <2>4. (\A i \in DOMAIN log : Ours(i) => log[i].put <= served)'
    BY <1>1, <1>2, <1>6, <2>1
  <2>5. (owned => \E i \in DOMAIN log : Ours(i) /\ log[i].put >= taken)'
    BY <1>1, <1>6 DEF Inv, Served
  <2> QED BY <1>1, <1>2, <1>3, <2>2, <2>3, <2>4, <2>5 DEF Served
<1>8. Checked'
  <2>1. Watching => requested \in gaveUp
    BY <1>3, OnlyGivenUp DEF Inv
  <2>2. taken' \in Nat /\ taken' >= taken
    BY <1>1, <1>3
  <2> QED BY <1>1, <1>2, <2>1, <2>2, CheckedOwn DEF Inv
<1>9. ReadIsOfThisCheck' /\ PasteIsThePut'
  BY <1>1, ReadFrame, PasteFrame DEF Inv
<1> QED BY <1>4, <1>5, <1>7, <1>8, <1>9 DEF Inv

LEMMA ServerTimeKeeps == ASSUME Inv, ServerTime PROVE Inv'
<1>1. /\ pc = "time" /\ pc' = "take" /\ stamp' \in {Len(log), MaxLog}
      /\ UNCHANGED <<log, holds, mail, requests, target, first, got, prop, notes, since, gaveUp, promised>>
      /\ UNCHANGED <<copyPending, copyStamp, waiting, pending, requested, pasted, taken, owned, seq,
                     served, wiped>>
  BY DEF ServerTime, logVars, checkVars, readVars, putVars, pasteVars
<1>2. Len(log) \in Nat /\ Len(log) <= MaxLog
  BY OwnerIsLast DEF Inv, TypeOK, LogType
<1>3. Letters' /\ MailType'
  BY <1>1, LettersFrame DEF Inv
<1>4. TypeOK'
  <2>1. OwnType'
    BY <1>1, <1>2, LogAssumption DEF Inv, TypeOK, OwnType
  <2> QED BY <1>1, <1>3, <2>1 DEF Inv, TypeOK, LogType, ReadType, PutType
<1>5. Served'
  <2>1. Owner' = Owner /\ \A i : Ours(i)' <=> Ours(i)
    BY <1>1 DEF Owner, Ours
  <2>2. ~(stamp' < Len(log'))
    BY <1>1, <1>2, LogAssumption
  <2> QED BY <1>1, <2>1, <2>2 DEF Inv, Served
<1>6. Checked'
  BY <1>1, CheckedFrame DEF Inv
<1>7. ReadIsOfThisCheck' /\ PasteIsThePut'
  BY <1>1, ReadFrame, PasteFrame DEF Inv
<1> QED BY <1>3, <1>4, <1>5, <1>6, <1>7 DEF Inv

LEMMA SetSelectionOwnerKeeps == ASSUME Inv, SetSelectionOwner PROVE Inv'
<1> DEFINE e == [by |-> "us", put |-> seq]
<1>1. /\ pc = "take" /\ pc' = "ask" /\ Len(log) < MaxLog
      /\ UNCHANGED <<holds, requests, target, first, got, prop, notes, since, gaveUp, promised>>
      /\ UNCHANGED <<copyPending, copyStamp, waiting, pending, requested, pasted, taken, owned, seq,
                     stamp, served, wiped>>
  BY DEF SetSelectionOwner, checkVars, readVars, putVars, pasteVars
<1>2. taken < seq /\ served = seq /\ (requested # seq => pending = requested)
  BY <1>1 DEF Inv, Served
<1>3. seq \in 0..requested /\ requested \in Nat /\ taken \in Nat /\ stamp \in Nat /\ Len(log) \in Nat
  BY OwnerIsLast DEF Inv, TypeOK, OwnType, PutType
<1>4. OwnType' /\ PutType'
  BY <1>1 DEF Inv, TypeOK, OwnType, PutType
<1>5. CASE stamp >= Len(log)
  <2>1. TakenBy("us", seq)
    BY <1>5 DEF SetSelectionOwner
  <2>2. /\ MailType' /\ Letters' /\ log' = Append(log, e) /\ e \in Entry
        /\ \A d \in Clients : \A k \in DOMAIN mail'[d] :
             mail'[d][k].kind = "clear" \/ (k \in DOMAIN mail[d] /\ mail'[d][k] = mail[d][k])
    BY <1>1, <1>3, <2>1, WindowsAreClients, Telling DEF Inv
  <2>3. /\ log' \in Seq(Entry) /\ Len(log') = Len(log) + 1 /\ DOMAIN log' = 1..(Len(log) + 1)
        /\ \A i \in DOMAIN log : i \in DOMAIN log' /\ log'[i] = log[i]
        /\ log'[Len(log) + 1] = e /\ Owner' = "us" /\ DOMAIN log = 1..Len(log)
    BY <2>2, Growing, OwnerIsLast DEF Inv, TypeOK
  <2>4. TypeOK'
    <3>1. LogType'
      BY <1>1, <1>3, <2>3, LogAssumption DEF Inv, TypeOK, LogType
    <3>2. ReadType'
      BY <1>1, <1>3, <2>3 DEF Inv, TypeOK, ReadType
    <3> QED BY <1>4, <2>2, <3>1, <3>2 DEF TypeOK
  <2>5. Served'
    <3>1. \A i \in DOMAIN log' : Ours(i)' => log'[i].put <= seq
      <4> SUFFICES ASSUME NEW i \in DOMAIN log', Ours(i)' PROVE log'[i].put <= seq
        OBVIOUS
      <4>1. CASE i = Len(log) + 1
        BY <1>3, <2>3, <4>1
      <4>2. CASE i # Len(log) + 1
        <5>1. i \in DOMAIN log /\ Ours(i)
          BY <1>3, <2>3, <4>2 DEF Ours
        <5> QED BY <2>3, <5>1 DEF Inv, Served
      <4> QED BY <4>1, <4>2
    <3>2. served' # 0
      BY <1>1, <1>2, <1>3
    <3>3. log'[Len(log')].put = seq'
      BY <1>1, <2>3
    <3>4. (owned => \E i \in DOMAIN log : Ours(i) /\ log[i].put >= taken)'
      BY <1>1, <2>3 DEF Inv, Served, Ours
    <3> QED BY <1>1, <1>2, <3>1, <3>2, <3>3, <3>4 DEF Served
  <2>6. Checked'
    <3>1. Watching => served \in gaveUp
      BY <1>2, <1>3, OnlyGivenUp DEF Inv
    <3> QED BY <1>1, <2>2, <3>1, WindowsAreClients, CheckedGrowing DEF Inv
  <2>7. ReadIsOfThisCheck' /\ PasteIsThePut'
    BY <1>1, <2>3, ReadFrame, PasteFrame DEF Inv
  <2> QED BY <2>2, <2>4, <2>5, <2>6, <2>7 DEF Inv
<1>6. CASE ~(stamp >= Len(log))
  <2>1. UNCHANGED <<log, mail>>
    BY <1>6 DEF SetSelectionOwner
  <2>2. Letters' /\ MailType'
    BY <1>1, <2>1, LettersFrame DEF Inv
  <2>3. Owner' = Owner /\ \A i : Ours(i)' <=> Ours(i)
    BY <2>1 DEF Owner, Ours
  <2>4. Owner # "us"
    BY <1>1, <1>3, <1>6 DEF Inv, Served
  <2>5. Served'
    BY <1>1, <2>1, <2>3, <2>4 DEF Inv, Served
  <2>6. Checked'
    BY <1>1, <2>1, CheckedFrame DEF Inv
  <2>7. ReadIsOfThisCheck' /\ PasteIsThePut'
    BY <1>1, <2>1, ReadFrame, PasteFrame DEF Inv
  <2>8. TypeOK'
    BY <1>1, <1>4, <2>1, <2>2 DEF Inv, TypeOK, LogType, ReadType
  <2> QED BY <2>2, <2>5, <2>6, <2>7, <2>8 DEF Inv
<1> QED BY <1>5, <1>6

LEMMA TellKeeps == ASSUME Inv, Tell PROVE Inv'
<1>1. /\ pc = "ask" /\ pc' = "select" /\ taken' = seq /\ owned' = (Owner = "us") /\ stamp' = 0
      /\ UNCHANGED <<log, holds, mail, requests, target, first, got, prop, notes, since, gaveUp, promised>>
      /\ UNCHANGED <<copyPending, copyStamp, waiting, pending, requested, pasted, seq, served, wiped>>
  BY DEF Tell, AskedWhetherOurs, logVars, checkVars, readVars, putVars, pasteVars
<1>2. taken < seq /\ served = seq /\ (requested # seq => pending = requested)
      /\ (Owner = "us" => log[Len(log)].put = seq)
  BY <1>1 DEF Inv, Served
<1>3. seq \in 0..requested /\ requested \in Nat /\ taken \in Nat
  BY DEF Inv, TypeOK, OwnType, PutType
<1>4. Letters' /\ MailType'
  BY <1>1, LettersFrame DEF Inv
<1>5. TypeOK'
  <2>1. OwnType'
    BY <1>1, <1>3 DEF Inv, TypeOK, OwnType
  <2> QED BY <1>1, <1>4, <2>1 DEF Inv, TypeOK, LogType, ReadType, PutType
<1>6. Owner' = Owner /\ \A i : Ours(i)' <=> Ours(i)
  BY <1>1 DEF Owner, Ours
<1>7. Served'
  <2>1. Owner = "us" => Ours(Len(log)) /\ Len(log) \in DOMAIN log
    BY OwnerIsLast, ClientsAssumption DEF Inv, TypeOK, Ours
  <2>2. (owned => \E i \in DOMAIN log : Ours(i) /\ log[i].put >= taken)'
    <3> SUFFICES ASSUME Owner = "us" PROVE \E i \in DOMAIN log' : Ours(i)' /\ log'[i].put >= taken'
      BY <1>1
    <3>1. Len(log) \in DOMAIN log' /\ Ours(Len(log))'
      BY <1>1, <1>6, <2>1
    <3>2. log'[Len(log)].put >= taken'
      BY <1>1, <1>2, <1>3
    <3> QED BY <1>1, <3>1, <3>2 DEF Ours
  <2>3. served' # 0 /\ taken' = seq' /\ (requested' # taken' => pending' = requested')
    BY <1>1, <1>2, <1>3
  <2>4. (\A i \in DOMAIN log : Ours(i) => log[i].put <= seq)'
        /\ (\A i \in DOMAIN log : Ours(i) => log[i].put <= served)'
    <3>1. served # 0
      BY <1>2, <1>3
    <3> QED BY <1>1, <1>6, <3>1 DEF Inv, Served
  <2> QED BY <1>1, <2>2, <2>3, <2>4 DEF Served
<1>8. Checked'
  <2>1. taken' \in Nat /\ taken' >= taken
    BY <1>1, <1>2, <1>3
  <2>2. Watching /\ Retaken => served' = 0 \/ served' \in gaveUp
    BY <1>1 DEF Inv, Checked, Spared
  <2> QED BY <1>1, <2>1, <2>2, CheckedOwn DEF Inv
<1>9. ReadIsOfThisCheck' /\ PasteIsThePut'
  BY <1>1, ReadFrame, PasteFrame DEF Inv
<1> QED BY <1>4, <1>5, <1>7, <1>8, <1>9 DEF Inv

-----------------------------------------------------------------------------

LEMMA InitKeeps == ASSUME Init PROVE Inv
<1>1. /\ log = <<>> /\ Len(log) = 0 /\ DOMAIN log = {} /\ <<>> \in Seq(Entry) /\ <<>> \in Seq(Letter)
      /\ <<>> \in Seq(Notice)
  BY DEF Init
<1>2. Nothing \in Text
  BY DEF Nothing, Text
<1>3. \A c \in Clients : mail[c] = <<>> /\ DOMAIN mail[c] = {}
  BY DEF Init
<1>4. TypeOK
  <2>1. LogType
    BY <1>1, LogAssumption DEF Init, LogType
  <2>2. MailType
    BY <1>1 DEF Init, MailType
  <2>3. prop \in Text /\ got \in Text /\ notes \in Seq(Notice)
    BY <1>1, <1>2 DEF Init
  <2>4. since \in 0..Len(log) /\ target \in 0..Len(Formats)
    BY <1>1, FormatsAre DEF Init
  <2>5. ReadType
    BY <2>3, <2>4 DEF Init, ReadType
  <2>6. PutType
    BY DEF Init, PutType
  <2>7. taken \in 0..requested /\ seq \in 0..requested
    BY DEF Init
  <2>8. OwnType
    BY <2>7 DEF Init, OwnType
  <2> QED BY <2>1, <2>2, <2>5, <2>6, <2>8 DEF TypeOK
<1>5. Letters
  BY <1>3, WindowsAreClients DEF Letters
<1>6. Owner = None
  BY <1>1 DEF Owner
<1>7. Served
  BY <1>1, <1>3, <1>6, WindowsAreClients DEF Init, Served
<1>8. Checked
  BY <1>1, <1>6, WindowsAreClients DEF Init, Checked, Busy, Settled, Current, Stamped, Spared, Coming, Watching
<1>9. ReadIsOfThisCheck /\ PasteIsThePut
  BY DEF Init, ReadIsOfThisCheck, PasteIsThePut, Nothing
<1> QED BY <1>4, <1>5, <1>7, <1>8, <1>9 DEF Inv

LEMMA StutterKeeps == ASSUME Inv, UNCHANGED vars PROVE Inv'
<1>1. UNCHANGED <<logVars, mail, checkVars, readVars, putVars, ownVars, pasteVars>>
  BY DEF vars
<1>2. UNCHANGED <<log, holds, mail, requests, target, first, got, prop, notes, since, gaveUp, promised,
                  copyPending, copyStamp, waiting, pending, requested, pasted>>
      /\ UNCHANGED <<taken, owned, pc, seq, stamp, served, wiped>>
  BY <1>1 DEF logVars, checkVars, readVars, putVars, ownVars, pasteVars
<1>3. Letters' /\ MailType'
  BY <1>2, LettersFrame DEF Inv
<1>4. TypeOK'
  BY <1>2, <1>3 DEF Inv, TypeOK, LogType, ReadType, PutType, OwnType
<1> QED BY <1>2, <1>3, <1>4, ServedFrame, CheckedFrame, ReadFrame, PasteFrame DEF Inv

LEMMA NextKeeps == ASSUME Inv, [Next]_vars PROVE Inv'
<1>1. ASSUME NEW w \in Windows, Take(w) \/ Drop(w) \/ Handle(w) PROVE Inv'
  BY <1>1, TakeKeeps, DropKeeps, HandleKeeps
<1>2. CASE Paste
  BY <1>2, PasteKeeps
<1>3. CASE StartCheck \/ Poke \/ TimeOut \/ PollWritten \/ Read \/ Deadline
  BY <1>3, StartCheckKeeps, PokeKeeps, TimeOutKeeps, PollWrittenKeeps, ReadKeeps, DeadlineKeeps
<1>4. CASE Put \/ Answer \/ GiveUp
  BY <1>4, PutKeeps, AnswerKeeps, GiveUpKeeps
<1>5. CASE Serve \/ Clear \/ TakePending \/ ServerTime \/ SetSelectionOwner \/ Tell
  BY <1>5, ServeKeeps, ClearKeeps, TakePendingKeeps, ServerTimeKeeps, SetSelectionOwnerKeeps, TellKeeps
<1>6. CASE UNCHANGED vars
  BY <1>6, StutterKeeps
<1> QED BY <1>1, <1>2, <1>3, <1>4, <1>5, <1>6 DEF Next

\* What the clipboard keeps is inductive.
THEOREM ClipboardKeeps == Spec => []Inv
  BY InitKeeps, NextKeeps, PTL DEF Spec

\* Every variable of clipboard_x11.cpp and of the copy of app.cpp keeps its type.
THEOREM ClipboardTypes == Spec => []TypeOK
<1>1. Inv => TypeOK
  BY DEF Inv
<1> QED BY <1>1, ClipboardKeeps, PTL

\* A check reads only what was put on the clipboard after its hotkey, and by
\* somebody else (app.cpp:1237-1239), whatever the other windows do meanwhile.
THEOREM ReadsThisCheck == Spec => []ReadIsOfThisCheck
<1>1. Inv => ReadIsOfThisCheck
  BY DEF Inv
<1> QED BY <1>1, ClipboardKeeps, PTL

\* A paste is never of what was put on the clipboard before, and what set() returned
\* true for had been taken (clipboard_x11.cpp, owner_.run and take_pending).
THEOREM PastesThePut == Spec => []PasteIsThePut
<1>1. Inv => PasteIsThePut
  BY DEF Inv
<1> QED BY <1>1, ClipboardKeeps, PTL
=============================================================================
