---------------------------- MODULE GameDataProofs ----------------------------
(***************************************************************************)
(* Proofs about the game data: the bundle on disk, for any versions, files *)
(* and crashes; and the item read against a bundle, for any text made of   *)
(* lines and any bundle.                                                   *)
(*                                                                         *)
(* That the installed bundle is whole is not inductive.  Inv adds what     *)
(* commit() has established when it gets to each of its steps.             *)
(*                                                                         *)
(* What is read of a text is whole (ReadOf): every modifier has a line,    *)
(* and one line if it came without an info line.  That goes through the    *)
(* folds of the parser step by step (GoodAt).  Regrouping then cuts each   *)
(* modifier or run into parts that tile its lines (Tiles), and what a list *)
(* says is counted up along such a tiling (Flat, FlatByTiles).             *)
(***************************************************************************)
EXTENDS DataBundle, ItemText, FiniteSetTheorems, SequenceTheorems, WellFoundedInduction, TLAPS

\* What commit() has established when it gets to each of its steps.
Writing == {"files", "clear", "rename", "flip"}
JobIsNew == pc \in Writing => job \in Versions /\ job # current
StagedIsWhole == pc \in {"clear", "rename"} => staging[job] = Whole
MovedIsWhole == pc = "flip" => installed[job] = Whole
OpenedIsCurrent == pc = "open" => job \in Versions

Inv == /\ TypeOK /\ JobIsNew /\ StagedIsWhole /\ MovedIsWhole /\ OpenedIsCurrent
       /\ CurrentIsWhole

-----------------------------------------------------------------------------
\* Directories are what TypeOK says they are (BundleStore::stage).
LEMMA WholeIsDir == Whole \in Dir /\ Empty \in Dir
BY DEF Whole, Empty, Dir

\* A process that starts has none of commit()'s steps behind it.
LEMMA InitHolds == Init => Inv
<1> SUFFICES ASSUME Init PROVE Inv
  OBVIOUS
<1>1. TypeOK
  BY DEF Init, TypeOK, Dir
<1>2. JobIsNew /\ StagedIsWhole /\ MovedIsWhole /\ OpenedIsCurrent /\ CurrentIsWhole
  BY DEF Init, JobIsNew, StagedIsWhole, MovedIsWhole, OpenedIsCurrent, CurrentIsWhole, Writing
<1> QED
  BY <1>1, <1>2 DEF Inv

\* The steps that leave the directory as it is.
LEMMA DiskUntouched ==
  ASSUME Inv, TypeOK', UNCHANGED disk,
         pc' \in Writing \cup {"open"} =>
            \/ pc' = pc /\ job' = job
            \/ pc' = "files" /\ job' \in Versions /\ job' # current
            \/ pc = "files" /\ pc' = "clear" /\ job' = job /\ Verified
  PROVE  Inv'
<1>1. JobIsNew' /\ OpenedIsCurrent'
  BY DEF Inv, JobIsNew, OpenedIsCurrent, Writing, disk
<1>2. StagedIsWhole'
  BY DEF Inv, StagedIsWhole, Writing, Verified, disk, Whole
<1>3. MovedIsWhole'
  BY DEF Inv, MovedIsWhole, Writing, disk, Whole
<1>4. CurrentIsWhole'
  BY DEF Inv, CurrentIsWhole, disk, Whole
<1> QED
  BY <1>1, <1>2, <1>3, <1>4 DEF Inv

-----------------------------------------------------------------------------
\* Every step of the worker, of the main thread, of a crash and of the server.
LEMMA NextKeeps == Inv /\ [Next]_vars => Inv'
<1> SUFFICES ASSUME Inv, [Next]_vars PROVE Inv'
  OBVIOUS
<1> USE VersionsAssumption
<1>0. TypeOK /\ JobIsNew /\ StagedIsWhole /\ MovedIsWhole /\ OpenedIsCurrent /\ CurrentIsWhole
  BY DEF Inv
<1>1. CASE FetchManifest
  <2>1. TypeOK'
    BY <1>0, <1>1 DEF TypeOK, Pushed, FetchManifest, Fail, Same, Elsewhere, disk
  <2>2. pc' \in Writing \cup {"open"} => pc' = "files" /\ job' \in Versions /\ job' # current
    BY <1>0, <1>1 DEF TypeOK, Pushed, FetchManifest, Fail, Same, Writing
  <2> QED
    BY <1>1, <2>1, <2>2, DiskUntouched DEF FetchManifest
<1>2. CASE FetchFile
  <2>1. CASE Fail /\ UNCHANGED disk /\ Elsewhere
    <3>1. TypeOK'
      BY <1>0, <1>2, <2>1 DEF TypeOK, Pushed, FetchFile, Fail, Elsewhere, disk
    <3> QED
      BY <2>1, <3>1, DiskUntouched DEF Fail, Writing
  <2>2. CASE Elsewhere /\ \E f \in todo, stored \in {"good", "short"} :
               /\ ~quitting
               /\ staging' = [staging EXCEPT ![job] = [(IF @ = None THEN Empty ELSE @) EXCEPT ![f] = stored]]
               /\ todo' = todo \ {f} /\ Pushed
               /\ UNCHANGED <<pc, job, busy, status, current, installed>>
    <3>1. PICK f \in todo, stored \in {"good", "short"} :
            /\ staging' = [staging EXCEPT ![job] = [(IF @ = None THEN Empty ELSE @) EXCEPT ![f] = stored]]
            /\ todo' = todo \ {f} /\ Pushed
            /\ UNCHANGED <<pc, job, busy, status, current, installed>>
      BY <2>2
    <3>2. staging' \in [Versions -> Dir \cup {None}]
      <4> DEFINE d == IF staging[job] = None THEN Empty ELSE staging[job]
      <4>1. f \in Files /\ job \in Versions
        BY <1>0, <1>2 DEF TypeOK, FetchFile, JobIsNew, Writing
      <4>2. d \in Dir
        BY <1>0, <4>1, WholeIsDir DEF TypeOK
      <4>3. [d EXCEPT ![f] = stored] \in Dir
        BY <4>1, <4>2 DEF Dir
      <4> QED
        BY <1>0, <3>1, <4>1, <4>3 DEF TypeOK
    <3>3. TypeOK'
      BY <1>0, <1>2, <2>2, <3>1, <3>2 DEF TypeOK, Pushed, FetchFile, Elsewhere, status
    <3>4. JobIsNew' /\ StagedIsWhole' /\ MovedIsWhole' /\ OpenedIsCurrent' /\ CurrentIsWhole'
      BY <1>0, <1>2, <3>1 DEF FetchFile, JobIsNew, StagedIsWhole, MovedIsWhole, OpenedIsCurrent,
                              CurrentIsWhole, Writing, Whole
    <3> QED
      BY <3>3, <3>4 DEF Inv
  <2> QED
    BY <1>2, <2>1, <2>2 DEF FetchFile
<1>3. CASE Verify
  <2>1. TypeOK'
    BY <1>0, <1>3 DEF TypeOK, Pushed, Verify, Fail, Elsewhere, disk
  <2>2. \/ pc' = "ending"
        \/ pc = "files" /\ pc' = "clear" /\ job' = job /\ Verified
    BY <1>3 DEF Verify, Fail
  <2> QED
    BY <1>3, <2>1, <2>2, DiskUntouched DEF Verify, Writing
<1>4. CASE Clear
  <2>1. job \in Versions /\ job # current /\ staging[job] = Whole
    BY <1>0, <1>4 DEF Clear, JobIsNew, StagedIsWhole, Writing
  <2>2. installed' \in [Versions -> Dir \cup {None}]
    <3>1. CASE installed' = [installed EXCEPT ![job] = None]
      BY <1>0, <3>1 DEF TypeOK
    <3>2. CASE installed[job] # None /\ \E f \in Files : installed' = [installed EXCEPT ![job][f] = "absent"]
      <4>1. PICK f \in Files : installed' = [installed EXCEPT ![job] = [@ EXCEPT ![f] = "absent"]]
        BY <3>2
      <4>2. installed[job] \in Dir
        BY <1>0, <2>1, <3>2 DEF TypeOK
      <4>3. [installed[job] EXCEPT ![f] = "absent"] \in Dir
        BY <4>2 DEF Dir
      <4> QED
        BY <1>0, <2>1, <4>1, <4>3 DEF TypeOK
    <3> QED
      BY <1>4, <3>1, <3>2 DEF Clear
  <2>3. \A v \in Versions : v # job => installed'[v] = installed[v]
    BY <1>0, <1>4, <2>1 DEF TypeOK, Clear
  <2>4. TypeOK'
    BY <1>0, <1>4, <2>2 DEF TypeOK, Clear, Elsewhere, status
  <2>5. CurrentIsWhole'
    BY <1>0, <1>4, <2>1, <2>3 DEF TypeOK, Clear, CurrentIsWhole, Whole
  <2>6. JobIsNew' /\ StagedIsWhole' /\ MovedIsWhole' /\ OpenedIsCurrent'
    BY <1>4, <2>1 DEF Clear, JobIsNew, StagedIsWhole, MovedIsWhole, OpenedIsCurrent, Writing, Whole
  <2> QED
    BY <2>4, <2>5, <2>6 DEF Inv
<1>5. CASE Rename
  <2>1. CASE Fail /\ UNCHANGED disk /\ Elsewhere
    <3>1. TypeOK'
      BY <1>0, <1>5, <2>1 DEF TypeOK, Rename, Fail, Elsewhere, disk
    <3> QED
      BY <2>1, <3>1, DiskUntouched DEF Fail, Writing
  <2>2. CASE /\ installed' = [installed EXCEPT ![job] = staging[job]]
             /\ staging' = [staging EXCEPT ![job] = None]
             /\ pc' = "flip" /\ Elsewhere
             /\ UNCHANGED <<current, job, todo, busy, status, pending>>
    <3>1. job \in Versions /\ job # current /\ staging[job] = Whole
      BY <1>0, <1>5 DEF Rename, JobIsNew, StagedIsWhole, Writing
    <3>2. TypeOK'
      BY <1>0, <1>5, <2>2, <3>1 DEF TypeOK, Rename, Elsewhere, status
    <3>3. installed'[job] = Whole
      BY <1>0, <2>2, <3>1 DEF TypeOK
    <3>4. CurrentIsWhole'
      BY <1>0, <2>2, <3>1 DEF TypeOK, CurrentIsWhole, Whole
    <3>5. JobIsNew' /\ StagedIsWhole' /\ MovedIsWhole' /\ OpenedIsCurrent'
      BY <2>2, <3>1, <3>3 DEF JobIsNew, StagedIsWhole, MovedIsWhole, OpenedIsCurrent, Writing, Whole
    <3> QED
      BY <3>2, <3>4, <3>5 DEF Inv
  <2> QED
    BY <1>5, <2>1, <2>2 DEF Rename
<1>6. CASE Flip
  <2>1. CASE Fail /\ UNCHANGED disk /\ Elsewhere
    <3>1. TypeOK'
      BY <1>0, <1>6, <2>1 DEF TypeOK, Flip, Fail, Elsewhere, disk
    <3> QED
      BY <2>1, <3>1, DiskUntouched DEF Fail, Writing
  <2>2. CASE /\ current' = job /\ pc' = "open" /\ Elsewhere
             /\ UNCHANGED <<installed, staging, job, todo, busy, status, pending>>
    <3>1. job \in Versions /\ installed[job] = Whole
      BY <1>0, <1>6 DEF Flip, JobIsNew, MovedIsWhole, Writing
    <3>2. TypeOK'
      BY <1>0, <1>6, <2>2, <3>1 DEF TypeOK, Flip, Elsewhere, status
    <3>3. CurrentIsWhole' /\ JobIsNew' /\ StagedIsWhole' /\ MovedIsWhole' /\ OpenedIsCurrent'
      BY <2>2, <3>1 DEF CurrentIsWhole, JobIsNew, StagedIsWhole, MovedIsWhole, OpenedIsCurrent,
                        Writing, Whole
    <3> QED
      BY <3>2, <3>3 DEF Inv
  <2> QED
    BY <1>6, <2>1, <2>2 DEF Flip
<1>7. CASE Open
  <2>1. TypeOK'
    BY <1>0, <1>7 DEF TypeOK, Open, Fail, OpenedIsCurrent, Elsewhere, disk
  <2>2. pc' = "ending"
    BY <1>7 DEF Open, Fail
  <2> QED
    BY <1>7, <2>1, <2>2, DiskUntouched DEF Open, Writing
<1>8. CASE End
  <2>1. TypeOK'
    BY <1>0, <1>8 DEF TypeOK, Pushed, End, Elsewhere, disk, status
  <2> QED
    BY <1>8, <2>1, DiskUntouched DEF End, Writing
<1>9. CASE StartCheck
  <2>1. TypeOK'
    BY <1>0, <1>9 DEF TypeOK, Pushed, StartCheck, disk
  <2> QED
    BY <1>9, <2>1, DiskUntouched DEF StartCheck, Writing
<1>10. CASE TakeReady
  <2>1. TypeOK'
    BY <1>0, <1>10 DEF TypeOK, TakeReady, disk
  <2> QED
    BY <1>10, <2>1, DiskUntouched DEF TakeReady
<1>11. CASE Quit
  <2>1. TypeOK'
    BY <1>0, <1>11 DEF TypeOK, Quit, disk, volatile, status
  <2> QED
    BY <1>11, <2>1, DiskUntouched DEF Quit, volatile
<1>12. CASE Exit \/ Crash
  <2>1. Gone
    BY <1>12 DEF Exit, Crash
  <2>2. TypeOK'
    BY <1>0, <2>1 DEF TypeOK, Gone, disk
  <2> QED
    BY <2>1, <2>2, DiskUntouched DEF Gone, Writing
<1>13. CASE Start
  <2>1. installed' \in [Versions -> Dir \cup {None}] /\ staging' \in [Versions -> Dir \cup {None}]
    BY <1>0, <1>13 DEF TypeOK, Start
  <2>2. data' \in Versions \cup {None} /\ version' \in Versions \cup {None}
    BY <1>0, <1>13 DEF TypeOK, Start
  <2>3. TypeOK'
    BY <1>0, <1>13, <2>1, <2>2 DEF TypeOK, Pushed, Start
  <2>4. CurrentIsWhole'
    BY <1>0, <1>13 DEF TypeOK, Start, CurrentIsWhole, Whole
  <2>5. JobIsNew' /\ StagedIsWhole' /\ MovedIsWhole' /\ OpenedIsCurrent'
    BY <1>13 DEF Start, JobIsNew, StagedIsWhole, MovedIsWhole, OpenedIsCurrent, Writing
  <2> QED
    BY <2>3, <2>4, <2>5 DEF Inv
<1>14. CASE Publish
  <2>1. TypeOK'
    BY <1>0, <1>14 DEF TypeOK, Publish, disk, volatile, status
  <2> QED
    BY <1>14, <2>1, DiskUntouched DEF Publish, volatile
<1>15. CASE UNCHANGED vars
  <2>1. TypeOK'
    BY <1>0, <1>15 DEF TypeOK, vars, disk, volatile, status
  <2> QED
    BY <1>15, <2>1, DiskUntouched DEF vars, volatile
<1> QED
  BY <1>1, <1>2, <1>3, <1>4, <1>5, <1>6, <1>7, <1>8, <1>9, <1>10, <1>11, <1>12, <1>13, <1>14,
     <1>15 DEF Next, Worker

\* The steps of commit(), taken in this order and cut off anywhere.
LEMMA AlwaysInv == Spec => []Inv
BY InitHolds, NextKeeps, PTL DEF Spec

-----------------------------------------------------------------------------
\* Every variable keeps its type, and busy_ is set exactly while there is a worker.
THEOREM BundleTypes == Spec => []TypeOK
<1>1. Inv => TypeOK
  BY DEF Inv
<1> QED
  BY <1>1, AlwaysInv, PTL

\* Killed at any step, with any write short and any delete cut off, the directory
\* never has a `current` that names anything but a complete, verified bundle.
THEOREM CurrentSurvives == Spec => []CurrentIsWhole
<1>1. Inv => CurrentIsWhole
  BY DEF Inv
<1> QED
  BY <1>1, AlwaysInv, PTL

-----------------------------------------------------------------------------
(* "Up to date" needs more than the directory: what is in use (or about to *)
(* be) is what `current` names, but while commit() has flipped it and not  *)
(* opened it yet; and what was said is not said any more once a check runs. *)
Stopped == ~running => pc = "idle" /\ state = "Idle"
Unready == ~running => ready = None
Flipped == pc = "open" => job = current
UsesCurrent == running /\ pc # "open" /\ current \in Opens => InUse = current
Said == state = "UpToDate" => pc \in {"ending", "idle"} /\ version = current

Told == Stopped /\ Unready /\ Flipped /\ UsesCurrent /\ Said

\* Nothing is installed and nothing said before the first start.
LEMMA InitTold == Init => Told
BY DEF Init, Told, Stopped, Unready, Flipped, UsesCurrent, Said

\* Every step leaves what is in use and what is said of it in agreement.
LEMMA NextTells == Inv /\ Told /\ [Next]_vars => Told'
<1> SUFFICES ASSUME Inv, Told, [Next]_vars PROVE Told'
  OBVIOUS
<1> USE VersionsAssumption
<1>0. TypeOK /\ CurrentIsWhole /\ OpenedIsCurrent
  BY DEF Inv
<1> USE DEF Told, Stopped, Unready, Flipped, UsesCurrent, Said, InUse
<1>1. CASE FetchManifest
  BY <1>1 DEF FetchManifest, Fail, Same, Elsewhere, disk
<1>2. CASE FetchFile
  BY <1>2 DEF FetchFile, Fail, Elsewhere, disk, status
<1>3. CASE Verify
  BY <1>3 DEF Verify, Fail, Elsewhere, disk
<1>4. CASE Clear
  BY <1>4 DEF Clear, Elsewhere, status
<1>5. CASE Rename
  BY <1>5 DEF Rename, Fail, Elsewhere, disk, status
<1>6. CASE Flip
  BY <1>6 DEF Flip, Fail, Elsewhere, disk, status
<1>7. CASE Open
  <2>1. job = current /\ job # None /\ installed[job] = Whole
    BY <1>0, <1>7 DEF Open, OpenedIsCurrent, CurrentIsWhole
  <2> QED
    BY <1>7, <2>1 DEF Open, Fail, Usable, Elsewhere, disk
<1>8. CASE End
  BY <1>8 DEF End, Elsewhere, disk, status
<1>9. CASE StartCheck
  <2>1. pc = "idle"
    BY <1>0, <1>9 DEF TypeOK, StartCheck
  <2> QED
    BY <1>9, <2>1 DEF StartCheck, disk
<1>10. CASE TakeReady
  BY <1>10 DEF TakeReady, disk
<1>11. CASE Quit
  BY <1>11 DEF Quit, disk, volatile, status
<1>12. CASE Exit \/ Crash
  BY <1>12 DEF Exit, Crash, Gone, disk
<1>13. CASE Start
  <2>1. current \in Opens => Usable(current) /\ current \in Versions
    BY <1>0 DEF CurrentIsWhole, Usable
  <2> QED
    BY <1>13, <2>1 DEF Start
<1>14. CASE Publish
  BY <1>14 DEF Publish, disk, volatile, status
<1>15. CASE UNCHANGED vars
  BY <1>15 DEF vars, disk, volatile, status
<1> QED
  BY <1>1, <1>2, <1>3, <1>4, <1>5, <1>6, <1>7, <1>8, <1>9, <1>10, <1>11, <1>12, <1>13, <1>14,
     <1>15 DEF Next, Worker

\* A worker is at it, or what was said last is of the version on the disk; and a
\* version this client can open is then in use, or waits to be taken.
THEOREM UpToDateSaysSo == Spec => []UpToDateIsTrue
<1>1. Inv /\ Told => UpToDateIsTrue
  BY DEF Told, Stopped, UsesCurrent, Said, UpToDateIsTrue
<1> QED
  BY <1>1, InitTold, NextTells, AlwaysInv, PTL DEF Spec

-----------------------------------------------------------------------------
(* Lists put one after another. *)

LEMMA LeastMember == ASSUME NEW T, T \subseteq Nat, T # {} PROVE \E n \in T : \A m \in T : n <= m
<1> DEFINE R == OpToRel(<, Nat)
<1>1. IsWellFoundedOn(R, Nat)
  BY NatLessThanWellFounded
<1>2. \A a, b \in Nat : a < b => <<a, b>> \in R
  BY DEF OpToRel
<1> HIDE DEF R
<1>3. PICK n \in T : \A m \in T : ~ (<<m, n>> \in R)
  BY <1>1, WFMin
<1>4. ASSUME NEW m \in T PROVE n <= m
  <2>1. m \in Nat /\ n \in Nat
    OBVIOUS
  <2>2. ~(m < n)
    BY <1>2, <1>3, <2>1
  <2> QED
    BY <2>1, <2>2
<1> QED
  BY <1>4

\* f is what FlattenSeq counts up: its first i lists, one after another.
Strings(f, seqs, n) == \A i \in 1..n : f[i] = IF i = 1 THEN seqs[i] ELSE f[i - 1] \o seqs[i]

LEMMA StringExists == ASSUME NEW seqs, NEW n \in Nat PROVE \E f : Strings(f, seqs, n)
<1> DEFINE T == {m \in Nat : ~ \E f : Strings(f, seqs, m)}
<1>1. SUFFICES ASSUME T # {} PROVE FALSE
  OBVIOUS
<1>2. PICK m \in T : \A k \in T : m <= k
  BY <1>1, LeastMember
<1>3. CASE m = 0
  <2>1. Strings(seqs, seqs, 0)
    BY DEF Strings
  <2> QED
    BY <1>3, <2>1
<1>4. CASE m # 0
  <2>1. m - 1 \in Nat /\ m - 1 \notin T
    BY <1>2, <1>4
  <2>2. PICK g : Strings(g, seqs, m - 1)
    BY <2>1
  <2> DEFINE f == [i \in 1..m |-> IF i < m THEN g[i] ELSE IF m = 1 THEN seqs[m] ELSE g[m - 1] \o seqs[m]]
  <2>3. ASSUME NEW i \in 1..m PROVE f[i] = IF i = 1 THEN seqs[i] ELSE f[i - 1] \o seqs[i]
    <3>1. CASE i = m
      <4>1. i # 1 => i - 1 \in 1..m /\ i - 1 < m
        BY <1>4, <3>1
      <4> QED
        BY <3>1, <4>1
    <3>2. CASE i # m
      <4>1. i \in 1..(m - 1) /\ i < m
        BY <1>4, <3>2
      <4>2. i # 1 => i - 1 \in 1..m /\ i - 1 < m
        BY <4>1
      <4>3. g[i] = IF i = 1 THEN seqs[i] ELSE g[i - 1] \o seqs[i]
        BY <2>2, <4>1 DEF Strings
      <4> QED
        BY <4>1, <4>2, <4>3
    <3> QED
      BY <3>1, <3>2
  <2>4. Strings(f, seqs, m)
    <3> HIDE DEF f
    <3> QED
      BY <2>3 DEF Strings
  <2> QED
    BY <2>4
<1> QED
  BY <1>3, <1>4

LEMMA FlattenIs ==
  ASSUME NEW n \in Nat \ {0}, NEW seqs, Len(seqs) = n
  PROVE  \E f : Strings(f, seqs, n) /\ FlattenSeq(seqs) = f[n]
<1> DEFINE Counting(f) == f = [i \in 1..Len(seqs) |-> IF i = 1 THEN seqs[i] ELSE f[i - 1] \o seqs[i]]
<1>1. PICK g : Strings(g, seqs, n)
  BY StringExists
<1> DEFINE h == [i \in 1..n |-> g[i]]
<1>2. Counting(h)
  <2>1. ASSUME NEW i \in 1..n PROVE h[i] = IF i = 1 THEN seqs[i] ELSE h[i - 1] \o seqs[i]
    <3>1. i # 1 => i - 1 \in 1..n
      OBVIOUS
    <3>2. g[i] = IF i = 1 THEN seqs[i] ELSE g[i - 1] \o seqs[i]
      BY <1>1 DEF Strings
    <3> QED
      BY <3>1, <3>2
  <2>2. h = [i \in 1..n |-> h[i]]
    OBVIOUS
  <2> HIDE DEF h
  <2> QED
    BY <2>1, <2>2
<1> DEFINE f == CHOOSE f : Counting(f)
<1>3. Counting(f)
  <2> HIDE DEF Counting, h
  <2> QED
    BY <1>2
<1>4. FlattenSeq(seqs) = f[n]
  BY DEF FlattenSeq
<1> HIDE DEF f
<1>5. Strings(f, seqs, n)
  <2>1. ASSUME NEW i \in 1..n PROVE f[i] = IF i = 1 THEN seqs[i] ELSE f[i - 1] \o seqs[i]
    BY <1>3
  <2> QED
    BY <2>1 DEF Strings
<1> QED
  BY <1>4, <1>5

LEMMA UpTo ==
  ASSUME NEW n \in Nat PROVE IsFiniteSet(1..n) /\ Cardinality(1..n) = n /\ \A u \in SUBSET (1..n) : Cardinality(u) <= n
<1>1. IsFiniteSet(1..n)
  BY FS_Interval
<1>2. Cardinality(1..n) = n
  BY FS_Interval
<1> QED
  BY <1>1, <1>2, FS_Subset

LEMMA LastPosition ==
  ASSUME NEW n \in Nat, NEW u \in SUBSET (1..n), u # {}
  PROVE  Max(u) \in u /\ \A i \in u : Max(u) >= i
<1> DEFINE T == {n - i : i \in u}
<1>1. T \subseteq Nat /\ T # {}
  <2>1. \A i \in u : n - i \in Nat
    OBVIOUS
  <2> QED
    BY <2>1
<1>2. PICK k \in T : \A m \in T : k <= m
  BY <1>1, LeastMember
<1>3. PICK i \in u : k = n - i
  OBVIOUS
<1>4. ASSUME NEW j \in u PROVE i >= j
  <2>1. n - j \in T /\ i \in Int /\ j \in Int
    OBVIOUS
  <2>2. n - i <= n - j
    BY <1>2, <1>3, <2>1
  <2> QED
    BY <2>1, <2>2
<1>5. \E x \in u : \A y \in u : x >= y
  BY <1>4
<1> QED
  BY <1>5 DEF Max

LEMMA FewerPositions ==
  ASSUME NEW n \in Nat, NEW u \in SUBSET (1..n), u # {}
  PROVE  /\ u \ {Max(u)} \in SUBSET (1..n)
         /\ Cardinality(u) \in Nat /\ Cardinality(u) # 0
         /\ Cardinality(u \ {Max(u)}) = Cardinality(u) - 1
<1>1. IsFiniteSet(u)
  <2>1. IsFiniteSet(1..n)
    BY FS_Interval
  <2> QED
    BY <2>1, FS_Subset
<1>2. PICK x \in u : x = Max(u)
  BY LastPosition
<1>3. Cardinality(u) \in Nat
  BY <1>1, FS_CardinalityType
<1>4. Cardinality(u) # 0
  BY <1>1, FS_EmptySet
<1>5. Cardinality(u \ {x}) = Cardinality(u) - 1
  BY <1>1, <1>2, FS_RemoveElement
<1> QED
  BY <1>2, <1>3, <1>4, <1>5

\* The folds of the parser: the lines of a text into sections, of a header, of a
\* property block, of flags and of modifiers into what they say, and the sections.
Taken(how, a, b, acc, x) ==
  IF how = "sections" THEN SplitLine(acc, x)
  ELSE IF how = "header" THEN HeaderLine(acc, x)
  ELSE IF how = "block" THEN BlockLine(acc, x)
  ELSE IF how = "flags" THEN FlagOrInfluence(acc, x)
  ELSE IF how = "mods" THEN ModLine(a, acc, x)
  ELSE IF x = 1 THEN acc ELSE ParseSection(acc, a[x], x, b)
FoldsOne(f, how, a, b, base, s, u) ==
  IF u = {} THEN base ELSE Taken(how, a, b, f[u \ {Max(u)}], s[Max(u)])
\* f is the fold of s on the sets of up to n positions.
Folds(f, how, a, b, base, s, n) ==
  \A u \in SUBSET (1..Len(s)) :
    Cardinality(u) <= n => f[u] = FoldsOne(f, how, a, b, base, s, u)

LEMMA FoldExists ==
  ASSUME NEW how, NEW a, NEW b, NEW base, NEW s, Len(s) \in Nat, NEW n \in Nat
  PROVE  \E f : Folds(f, how, a, b, base, s, n)
<1> DEFINE T == {m \in Nat : ~ \E f : Folds(f, how, a, b, base, s, m)}
           P == 1..Len(s)
<1>1. SUFFICES ASSUME T # {} PROVE FALSE
  OBVIOUS
<1>2. PICK m \in T : \A k \in T : m <= k
  BY <1>1, LeastMember
<1>3. CASE m = 0
  <2> DEFINE f == [u \in SUBSET P |-> base]
  <2>1. ASSUME NEW u \in SUBSET P, Cardinality(u) <= 0 PROVE f[u] = FoldsOne(f, how, a, b, base, s, u)
    <3>1. u # {} => Cardinality(u) \in Nat /\ Cardinality(u) # 0
      BY FewerPositions
    <3>2. u = {}
      BY <2>1, <3>1
    <3> QED
      BY <3>2 DEF FoldsOne
  <2>2. Folds(f, how, a, b, base, s, 0)
    BY <2>1 DEF Folds
  <2> QED
    BY <1>3, <2>2
<1>4. CASE m # 0
  <2>1. m - 1 \in Nat /\ m - 1 \notin T
    BY <1>2, <1>4
  <2>2. PICK g : Folds(g, how, a, b, base, s, m - 1)
    BY <2>1
  <2> DEFINE f == [u \in SUBSET P |-> IF Cardinality(u) <= m - 1 THEN g[u] ELSE FoldsOne(g, how, a, b, base, s, u)]
  <2>3. ASSUME NEW u \in SUBSET P, Cardinality(u) <= m PROVE f[u] = FoldsOne(f, how, a, b, base, s, u)
    <3>1. f[u] = FoldsOne(g, how, a, b, base, s, u)
      BY <2>2 DEF Folds
    <3>2. CASE u = {}
      BY <3>1, <3>2 DEF FoldsOne
    <3>3. CASE u # {}
      <4>1. PICK r : r = u \ {Max(u)}
        OBVIOUS
      <4>2. r \in SUBSET P /\ Cardinality(r) <= m - 1
        BY <2>3, <3>3, <4>1, FewerPositions
      <4>3. f[r] = g[r]
        BY <4>2
      <4> HIDE DEF f
      <4> QED
        BY <3>1, <3>3, <4>1, <4>3 DEF FoldsOne
    <3> QED
      BY <3>2, <3>3
  <2> HIDE DEF f
  <2>4. Folds(f, how, a, b, base, s, m)
    BY <2>3 DEF Folds
  <2> QED
    BY <2>4
<1> QED
  BY <1>3, <1>4

LEMMA FoldChosen ==
  ASSUME NEW how, NEW a, NEW b, NEW base, NEW s, Len(s) \in Nat, DOMAIN s = 1..Len(s)
  PROVE  LET Folding(f) == f = [u \in SUBSET DOMAIN s |->
                             IF u = {} THEN base ELSE LET x == Max(u) IN Taken(how, a, b, f[u \ {x}], s[x])]
         IN Folds(CHOOSE f : Folding(f), how, a, b, base, s, Len(s))
<1> DEFINE D == DOMAIN s
           Folding(f) == f = [u \in SUBSET D |->
                           IF u = {} THEN base ELSE LET x == Max(u) IN Taken(how, a, b, f[u \ {x}], s[x])]
<1>2. PICK g : Folds(g, how, a, b, base, s, Len(s))
  BY FoldExists
<1>3. \A u \in SUBSET (1..Len(s)) : Cardinality(u) <= Len(s)
  BY UpTo
<1>0. D = 1..Len(s)
  OBVIOUS
<1> HIDE DEF D
<1> DEFINE f0 == [u \in SUBSET D |-> g[u]]
<1>5. Folding(f0)
  <2>1. ASSUME NEW u \in SUBSET D PROVE f0[u] = FoldsOne(f0, how, a, b, base, s, u)
    <3>1. f0[u] = FoldsOne(g, how, a, b, base, s, u)
      BY <1>0, <1>2, <1>3 DEF Folds
    <3>2. f0[u \ {Max(u)}] = g[u \ {Max(u)}]
      OBVIOUS
    <3> HIDE DEF f0
    <3> QED
      BY <3>1, <3>2 DEF FoldsOne
  <2> DEFINE f1 == [u \in SUBSET D |-> FoldsOne(f0, how, a, b, base, s, u)]
  <2>2. f0 = f1
    <3>1. f0 = [u \in SUBSET D |-> f0[u]]
      OBVIOUS
    <3> HIDE DEF f0
    <3> QED
      BY <2>1, <3>1
  <2> HIDE DEF f0
  <2> QED
    BY <2>2 DEF FoldsOne
<1> DEFINE f == CHOOSE f : Folding(f)
<1>6. Folding(f)
  <2> HIDE DEF Folding
  <2> QED
    BY <1>5
<1> HIDE DEF f
<1>8. \A u \in SUBSET D : f[u] = FoldsOne(f, how, a, b, base, s, u)
  BY <1>6 DEF FoldsOne
<1>9. Folds(f, how, a, b, base, s, Len(s))
  BY <1>0, <1>8 DEF Folds
<1> QED
  BY <1>9 DEF f, D

LEMMA FoldSteps ==
  ASSUME NEW how, NEW a, NEW b, NEW base, NEW s, Len(s) \in Nat, NEW f, Folds(f, how, a, b, base, s, Len(s))
  PROVE  /\ f[1..0] = base
         /\ \A k \in 1..Len(s) : f[1..k] = Taken(how, a, b, f[1..(k - 1)], s[k])
<1>1. ASSUME NEW k \in 0..Len(s) PROVE f[1..k] = FoldsOne(f, how, a, b, base, s, 1..k)
  <2>1. 1..k \in SUBSET (1..Len(s)) /\ k \in Nat
    OBVIOUS
  <2>2. Cardinality(1..k) <= Len(s)
    BY <2>1, UpTo
  <2> QED
    BY <2>1, <2>2 DEF Folds
<1>2. f[1..0] = base
  <2>1. 1..0 = {} /\ 0 \in 0..Len(s)
    OBVIOUS
  <2> QED
    BY <1>1, <2>1 DEF FoldsOne
<1>3. ASSUME NEW k \in 1..Len(s) PROVE f[1..k] = Taken(how, a, b, f[1..(k - 1)], s[k])
  <2>1. k \in 1..k /\ k \in 0..Len(s)
    OBVIOUS
  <2>2. 1..k # {}
    BY <2>1
  <2>3. Max(1..k) = k
    <3>1. 1..k \in SUBSET (1..Len(s))
      OBVIOUS
    <3>2. Max(1..k) \in 1..k /\ \A i \in 1..k : Max(1..k) >= i
      BY <2>2, <3>1, LastPosition
    <3> QED
      BY <2>1, <3>2
  <2>4. (1..k) \ {k} = 1..(k - 1)
    OBVIOUS
  <2> QED
    BY <1>1, <2>1, <2>2, <2>3, <2>4 DEF FoldsOne
<1> QED
  BY <1>2, <1>3

-----------------------------------------------------------------------------
(* What putting lists one after another comes to. *)

\* P counts up what the first lists come to.
CountsUp(P, seqs, n) == P[0] = <<>> /\ \A k \in 1..n : P[k] = P[k - 1] \o seqs[k]

\* seqs is n lists of things of S.
Lists(S, seqs, n) == seqs = [i \in 1..n |-> seqs[i]] /\ \A k \in 1..n : seqs[k] \in Seq(S)

LEMMA CountsInSeq ==
  ASSUME NEW S, NEW n \in Nat, NEW seqs, NEW P, CountsUp(P, seqs, n), \A k \in 1..n : seqs[k] \in Seq(S)
  PROVE  \A k \in 0..n : P[k] \in Seq(S)
<1> DEFINE T == {m \in Nat : m <= n /\ P[m] \notin Seq(S)}
<1>1. SUFFICES ASSUME T # {} PROVE FALSE
  OBVIOUS
<1>2. PICK m \in T : \A k \in T : m <= k
  BY <1>1, LeastMember
<1>3. m # 0
  <2>1. P[0] \in Seq(S)
    BY EmptySeq DEF CountsUp
  <2> QED
    BY <1>2, <2>1
<1>4. m \in 1..n /\ m - 1 \in Nat /\ m - 1 <= n /\ m - 1 \notin T
  BY <1>2, <1>3
<1>5. P[m - 1] \in Seq(S) /\ P[m] = P[m - 1] \o seqs[m] /\ seqs[m] \in Seq(S)
  BY <1>4 DEF CountsUp
<1>6. P[m] \in Seq(S)
  BY <1>5, ConcatProperties
<1> QED
  BY <1>2, <1>6

LEMMA FlattenBy ==
  ASSUME NEW S, NEW n \in Nat, NEW seqs, Lists(S, seqs, n), NEW P, CountsUp(P, seqs, n)
  PROVE  FlattenSeq(seqs) = P[n] /\ FlattenSeq(seqs) \in Seq(S)
<1>0. Len(seqs) = n /\ \A k \in 1..n : seqs[k] \in Seq(S)
  BY DEF Lists
<1>1. \A k \in 0..n : P[k] \in Seq(S)
  BY <1>0, CountsInSeq
<1>2. CASE n = 0
  <2>1. seqs = <<>>
    BY <1>0, <1>2
  <2> QED
    BY <1>0, <1>1, <1>2, <2>1 DEF FlattenSeq, CountsUp
<1>3. CASE n # 0
  <2>1. PICK f : Strings(f, seqs, n) /\ FlattenSeq(seqs) = f[n]
    BY <1>0, <1>3, FlattenIs
  <2> DEFINE T == {m \in Nat : m \in 1..n /\ f[m] # P[m]}
  <2>2. T = {}
    <3>1. SUFFICES ASSUME T # {} PROVE FALSE
      OBVIOUS
    <3>2. PICK m \in T : \A k \in T : m <= k
      BY <3>1, LeastMember
    <3>3. m \in 1..n /\ P[m] = P[m - 1] \o seqs[m] /\ f[m] = IF m = 1 THEN seqs[m] ELSE f[m - 1] \o seqs[m]
      BY <2>1, <3>2 DEF Strings, CountsUp
    <3>4. CASE m = 1
      <4>1. P[0] = <<>> /\ m - 1 = 0 /\ seqs[m] \in Seq(S)
        BY <1>0, <3>3, <3>4 DEF CountsUp
      <4>2. <<>> \o seqs[m] = seqs[m]
        BY <4>1, ConcatEmptySeq
      <4> QED
        BY <3>2, <3>3, <3>4, <4>1, <4>2
    <3>5. CASE m # 1
      <4>1. m - 1 \in 1..n /\ m - 1 \notin T
        BY <3>2, <3>5
      <4>2. f[m - 1] = P[m - 1]
        BY <4>1
      <4> QED
        BY <3>2, <3>3, <3>5, <4>2
    <3> QED
      BY <3>4, <3>5
  <2>3. n \in 1..n
    BY <1>3
  <2> QED
    BY <1>1, <2>1, <2>2, <2>3
<1> QED
  BY <1>2, <1>3

\* There is such a count.
LEMMA Counted ==
  ASSUME NEW S, NEW n \in Nat, NEW seqs, \A k \in 1..n : seqs[k] \in Seq(S)
  PROVE  \E P : CountsUp(P, seqs, n)
<1>1. PICK f : Strings(f, seqs, n)
  BY StringExists
<1> DEFINE P == [k \in 0..n |-> IF k = 0 THEN <<>> ELSE f[k]]
<1>2. P[0] = <<>>
  OBVIOUS
<1>3. ASSUME NEW k \in 1..n PROVE P[k] = P[k - 1] \o seqs[k]
  <2>1. f[k] = IF k = 1 THEN seqs[k] ELSE f[k - 1] \o seqs[k]
    BY <1>1 DEF Strings
  <2>2. P[k] = f[k] /\ k - 1 \in 0..n
    OBVIOUS
  <2>3. CASE k = 1
    <3>1. <<>> \o seqs[k] = seqs[k]
      BY ConcatEmptySeq
    <3>2. P[k - 1] = <<>>
      BY <2>3
    <3> QED
      BY <2>1, <2>2, <2>3, <3>1, <3>2
  <2>4. CASE k # 1
    <3>1. P[k - 1] = f[k - 1]
      BY <2>2, <2>4
    <3> QED
      BY <2>1, <2>2, <2>4, <3>1
  <2> QED
    BY <2>3, <2>4
<1> HIDE DEF P
<1>4. CountsUp(P, seqs, n)
  BY <1>2, <1>3 DEF CountsUp
<1> QED
  BY <1>4

-----------------------------------------------------------------------------
(* What a text is made of, and what reading it makes of it.                *)

Printed(t) == {t.lines[k] : k \in DOMAIN t.lines}
Says(t) == {l.words : l \in Printed(t)}
Kinds(t) == {l.suffix : l \in Printed(t)} \cup {l.info.type : l \in Printed(t)}
            \cup {"explicit", "implicit", "sanctum", "enchant"}
Infos(t) == {l.info : l \in Printed(t)} \cup {Absent}

\* A modifier as it is read: what its info line says is there or not, and of one
\* without there is a single line.
Mods(t) == [type : Kinds(t), lines : Seq(Says(t)), reminder : Seq(Says(t)), info : Infos(t),
            continuation : {FALSE}, match : {Absent}]
Complete(m) == Len(m.lines) # 0 /\ (m.info = Absent => Len(m.lines) = 1)

ItemFields == {"class", "kind", "rarity", "name", "base_type", "base_name", "unparsed", "map_tier",
               "type_line", "props", "inherent", "flags", "influences", "req", "sockets", "note",
               "cosmetic", "vaal", "help", "flavour", "description", "mods", "areas", "elemental",
               "base", "unique", "candidates"}
\* it is what the other was but for what has nothing to do with modifiers or uniques.
Alike(it, other) ==
  /\ DOMAIN it = ItemFields
  /\ it.mods = other.mods /\ it.unique = other.unique /\ it.candidates = other.candidates
ReadOf(t, it) ==
  /\ DOMAIN it = ItemFields /\ it.unique = Absent /\ it.candidates = {}
  /\ it.mods \in Seq(Mods(t)) /\ \A i \in DOMAIN it.mods : Complete(it.mods[i])

\* An info line is followed by a line of the affix.
Follows(s, i) == i + 1 \in DOMAIN s /\ s[i + 1].is \cap {"info", "reminder", "flag", "influence"} = {}
Section(t, s) ==
  /\ s \in Seq(Printed(t))
  /\ \A i \in DOMAIN s : Is(s[i], "info") => s[i].info # Absent /\ Follows(s, i)

\* What has been read of a text after k of its lines: the last may be an info line
\* whose affix is still to come.
SplitSoFar(t, k, acc) ==
  /\ acc \in Seq(Seq(Printed(t))) /\ Len(acc) # 0
  /\ \A j \in DOMAIN acc : \A i \in DOMAIN acc[j] :
       Is(acc[j][i], "info") =>
         /\ acc[j][i].info # Absent
         /\ \/ Follows(acc[j], i)
            \/ j = Len(acc) /\ i = Len(acc[j]) /\ k \in DOMAIN t.lines /\ Is(t.lines[k], "info")
\* And of a section.
ModsSoFar(t, s, k, acc) ==
  /\ acc = [mods |-> acc.mods, open |-> acc.open]
  /\ acc.mods \in Seq(Mods(t)) /\ acc.open \in 0..Len(acc.mods)
  /\ acc.open # 0 => acc.mods[acc.open].info # Absent
  /\ \A j \in DOMAIN acc.mods :
       \/ Complete(acc.mods[j])
       \/ j = acc.open /\ acc.mods[j].lines = <<>> /\ k \in DOMAIN s /\ Is(s[k], "info")
SectionsSoFar(t, acc) == acc = [it |-> acc.it, props |-> acc.props, at |-> acc.at] /\ ReadOf(t, acc.it)

GoodAt(how, t, s, k, acc) ==
  IF how = "sections" THEN SplitSoFar(t, k, acc)
  ELSE IF how = "mods" THEN ModsSoFar(t, s, k, acc)
  ELSE IF how = "item" THEN SectionsSoFar(t, acc)
  ELSE Alike(acc, t)

\* What each step of a fold keeps, the fold keeps.
LEMMA FoldKeeps ==
  ASSUME NEW how, NEW a, NEW b, NEW t, NEW base, NEW s, Len(s) \in Nat,
         NEW f, Folds(f, how, a, b, base, s, Len(s)), GoodAt(how, t, s, 0, base),
         \A k \in 1..Len(s) : \A acc : GoodAt(how, t, s, k - 1, acc)
                                         => GoodAt(how, t, s, k, Taken(how, a, b, acc, s[k]))
  PROVE  GoodAt(how, t, s, Len(s), f[1..Len(s)])
<1>1. f[1..0] = base /\ \A k \in 1..Len(s) : f[1..k] = Taken(how, a, b, f[1..(k - 1)], s[k])
  BY FoldSteps
<1> DEFINE T == {m \in Nat : m <= Len(s) /\ ~GoodAt(how, t, s, m, f[1..m])}
<1>2. CASE T = {}
  BY <1>2
<1>3. CASE T # {}
  <2>1. PICK m \in T : \A k \in T : m <= k
    BY <1>3, LeastMember
  <2>2. m # 0
    BY <1>1, <2>1
  <2>3. m \in 1..Len(s) /\ m - 1 \in Nat /\ m - 1 <= Len(s) /\ m - 1 \notin T
    BY <2>1, <2>2
  <2>4. GoodAt(how, t, s, m - 1, f[1..(m - 1)])
    BY <2>3
  <2>5. GoodAt(how, t, s, m, f[1..m])
    BY <1>1, <2>3, <2>4
  <2> QED
    BY <2>1, <2>5
<1> QED
  BY <1>2, <1>3

LEMMA SplitLineKeeps ==
  ASSUME NEW t \in Texts, NEW k \in 1..Len(t.lines), NEW acc, SplitSoFar(t, k - 1, acc)
  PROVE  SplitSoFar(t, k, SplitLine(acc, t.lines[k]))
<1> DEFINE l == t.lines[k]
<1>1. t.lines \in Seq(Printed(t)) /\ DOMAIN t.lines = 1..Len(t.lines) /\ l \in Printed(t)
  <2>1. t.lines \in Seq(Printed(t))
    BY TextAssumption DEF Printed
  <2> QED
    BY <2>1
<1>2. Is(l, "info") => l.info # Absent
  BY <1>1, TextAssumption DEF Is
<1>3. k - 1 \in DOMAIN t.lines /\ Is(t.lines[k - 1], "info") =>
        /\ l.is \cap {"info", "reminder", "flag", "influence"} = {}
        /\ ~Is(l, "separator") /\ ~Is(l, "blank")
  <2> SUFFICES ASSUME k - 1 \in DOMAIN t.lines, Is(t.lines[k - 1], "info")
               PROVE  l.is \cap {"info", "reminder", "flag", "influence", "separator", "blank"} = {}
    BY DEF Is
  <2>1. k - 1 + 1 = k
    OBVIOUS
  <2> QED
    BY <2>1, TextAssumption DEF Is
<1>4. Len(acc) \in Nat /\ Len(acc) \in DOMAIN acc /\ DOMAIN acc = 1..Len(acc)
  BY DEF SplitSoFar
<1> HIDE DEF l
<1>5. CASE Is(l, "separator")
  <2>1. PICK new : new = Append(acc, <<>>)
    OBVIOUS
  <2>2. /\ new \in Seq(Seq(Printed(t))) /\ Len(new) = Len(acc) + 1 /\ DOMAIN new = 1..(Len(acc) + 1)
        /\ \A j \in 1..Len(acc) : new[j] = acc[j]
        /\ new[Len(acc) + 1] = <<>>
    <3>1. <<>> \in Seq(Printed(t))
      OBVIOUS
    <3> QED
      BY <2>1, <3>1, AppendProperties DEF SplitSoFar
  <2>3. ASSUME NEW j \in DOMAIN new, NEW i \in DOMAIN new[j], Is(new[j][i], "info")
        PROVE  new[j][i].info # Absent /\ Follows(new[j], i)
    <3>1. j \in 1..Len(acc) /\ new[j] = acc[j]
      <4>1. DOMAIN <<>> = {}
        OBVIOUS
      <4> QED
        BY <1>4, <2>2, <4>1
    <3> QED
      BY <1>3, <1>4, <1>5, <2>3, <3>1 DEF SplitSoFar
  <2>4. SplitLine(acc, l) = new
    BY <1>5, <2>1 DEF SplitLine
  <2> QED
    BY <1>4, <2>2, <2>3, <2>4 DEF SplitSoFar, l
<1>6. CASE ~Is(l, "separator") /\ Is(l, "blank")
  <2>1. SplitLine(acc, l) = acc
    BY <1>6 DEF SplitLine
  <2> QED
    BY <1>3, <1>6, <2>1 DEF SplitSoFar, l
<1>7. CASE ~Is(l, "separator") /\ ~Is(l, "blank")
  <2>1. PICK n : n = Len(acc)
    OBVIOUS
  <2>2. PICK grown : grown = Append(acc[n], l)
    OBVIOUS
  <2>3. acc[n] \in Seq(Printed(t)) /\ n \in DOMAIN acc
    BY <1>4, <2>1 DEF SplitSoFar
  <2>4. /\ grown \in Seq(Printed(t)) /\ Len(grown) = Len(acc[n]) + 1
        /\ DOMAIN grown = 1..(Len(acc[n]) + 1) /\ DOMAIN acc[n] = 1..Len(acc[n]) /\ Len(acc[n]) \in Nat
        /\ \A i \in 1..Len(acc[n]) : grown[i] = acc[n][i]
        /\ grown[Len(acc[n]) + 1] = l
    BY <1>1, <2>2, <2>3, AppendProperties DEF l
  <2>5. PICK new : new = [acc EXCEPT ![n] = grown]
    OBVIOUS
  <2>6. /\ new \in Seq(Seq(Printed(t))) /\ Len(new) = n /\ DOMAIN new = 1..n
        /\ new[n] = grown /\ \A j \in 1..n : j # n => new[j] = acc[j]
    BY <1>4, <2>1, <2>3, <2>4, <2>5, ExceptSeq DEF SplitSoFar
  <2>7. SplitLine(acc, l) = new
    BY <1>7, <2>1, <2>2, <2>5 DEF SplitLine
  <2>8. ASSUME NEW j \in DOMAIN new, NEW i \in DOMAIN new[j], Is(new[j][i], "info")
        PROVE  /\ new[j][i].info # Absent
               /\ \/ Follows(new[j], i)
                  \/ j = Len(new) /\ i = Len(new[j]) /\ k \in DOMAIN t.lines /\ Is(t.lines[k], "info")
    <3>1. CASE j # n
      <4>1. new[j] = acc[j] /\ j \in DOMAIN acc
        BY <1>4, <2>1, <2>6, <3>1
      <4> QED
        BY <2>1, <2>8, <3>1, <4>1 DEF SplitSoFar
    <3>2. CASE j = n /\ i = Len(acc[n]) + 1
      BY <1>1, <1>2, <2>4, <2>6, <2>8, <3>2 DEF l
    <3>3. CASE j = n /\ i # Len(acc[n]) + 1
      <4>1. i \in 1..Len(acc[n]) /\ new[j][i] = acc[n][i] /\ i \in DOMAIN acc[n] /\ n \in DOMAIN acc
        BY <2>3, <2>4, <2>6, <3>3
      <4>2. acc[n][i].info # Absent
        BY <2>8, <4>1 DEF SplitSoFar
      <4>3. CASE Follows(acc[n], i)
        <5>1. i + 1 \in 1..Len(acc[n])
          BY <2>4, <4>3 DEF Follows
        <5>2. grown[i + 1] = acc[n][i + 1] /\ i + 1 \in DOMAIN grown
          BY <2>4, <5>1
        <5> QED
          BY <2>6, <3>3, <4>1, <4>2, <4>3, <5>2 DEF Follows
      <4>4. CASE i = Len(acc[n]) /\ k - 1 \in DOMAIN t.lines /\ Is(t.lines[k - 1], "info")
        <5>1. grown[i + 1] = l /\ i + 1 \in DOMAIN grown
          BY <2>4, <4>4
        <5> QED
          BY <1>3, <2>6, <3>3, <4>1, <4>2, <4>4, <5>1 DEF Follows
      <4> QED
        BY <2>8, <4>1, <4>3, <4>4 DEF SplitSoFar
    <3> QED
      BY <3>1, <3>2, <3>3
  <2> QED
    BY <1>4, <2>1, <2>6, <2>7, <2>8 DEF SplitSoFar, l
<1> QED
  BY <1>5, <1>6, <1>7

LEMMA SplitIs ==
  ASSUME NEW t \in Texts
  PROVE  SplitSoFar(t, Len(t.lines), FoldLeft(SplitLine, << <<>> >>, t.lines))
<1>1. t.lines \in Seq(Printed(t))
  BY TextAssumption DEF Printed
<1>2. PICK s, e : s = t.lines /\ e = << <<>> >>
  OBVIOUS
<1>3. Len(s) \in Nat /\ DOMAIN s = 1..Len(s)
  BY <1>1, <1>2
<1> DEFINE Folding(f) == f = [u \in SUBSET DOMAIN s |->
                            IF u = {} THEN e
                            ELSE LET x == Max(u) IN Taken("sections", t, t, f[u \ {x}], s[x])]
           f == CHOOSE f : Folding(f)
<1>4. FoldLeft(SplitLine, e, s) = f[DOMAIN s]
  BY DEF FoldLeft, MapThenFoldSet, Taken
<1>5. Folds(f, "sections", t, t, e, s, Len(s))
  BY <1>3, FoldChosen, ZenonT(120)
<1> HIDE DEF f
<1>6. GoodAt("sections", t, s, 0, e)
  <2>1. e = << <<>> >>
    BY <1>2
  <2>2. <<>> \in Seq(Printed(t))
    OBVIOUS
  <2>3. e \in Seq(Seq(Printed(t))) /\ Len(e) = 1 /\ DOMAIN e = 1..1 /\ e[1] = <<>>
    BY <2>1, <2>2
  <2>4. \A j \in DOMAIN e : DOMAIN e[j] = {}
    BY <2>3
  <2> QED
    BY <2>1, <2>3, <2>4 DEF GoodAt, SplitSoFar
<1>7. ASSUME NEW k \in 1..Len(s), NEW acc, GoodAt("sections", t, s, k - 1, acc)
      PROVE  GoodAt("sections", t, s, k, Taken("sections", t, t, acc, s[k]))
  BY <1>2, <1>7, SplitLineKeeps DEF GoodAt, Taken
<1>8. GoodAt("sections", t, s, Len(s), f[1..Len(s)])
  BY <1>3, <1>5, <1>6, <1>7, FoldKeeps
<1> QED
  BY <1>2, <1>3, <1>4, <1>8 DEF GoodAt

LEMMA SectionsAre ==
  ASSUME NEW t \in Texts
  PROVE  /\ SplitSections(t.lines) \in Seq(Seq(Printed(t)))
         /\ \A i \in DOMAIN SplitSections(t.lines) :
              Section(t, SplitSections(t.lines)[i]) /\ SplitSections(t.lines)[i] # <<>>
<1> DEFINE Sections == {s \in Seq(Printed(t)) : Section(t, s) /\ s # <<>>}
<1>1. PICK read : read = FoldLeft(SplitLine, << <<>> >>, t.lines)
  OBVIOUS
<1>2. SplitSoFar(t, Len(t.lines), read) /\ t.lines \in Seq(Printed(t))
  BY <1>1, SplitIs, TextAssumption DEF Printed
<1>3. read \in Seq(Seq(Printed(t))) /\ \A j \in DOMAIN read : Section(t, read[j])
  <2>1. ASSUME Len(t.lines) \in DOMAIN t.lines, Is(t.lines[Len(t.lines)], "info") PROVE FALSE
    <3>1. \A k \in DOMAIN t.lines : Is(t.lines[k], "info") => k < Len(t.lines)
      BY TextAssumption DEF Is
    <3>2. Len(t.lines) < Len(t.lines) /\ Len(t.lines) \in Nat
      BY <1>2, <2>1, <3>1
    <3> QED
      BY <3>2
  <2> QED
    BY <1>2, <2>1 DEF SplitSoFar, Section
<1>4. PICK n \in Nat : n = Len(read) /\ DOMAIN read = 1..n
  BY <1>3
<1> DEFINE seqs == [i \in 1..n |-> IF read[i] # <<>> THEN <<read[i]>> ELSE <<>>]
<1>5. \A k \in 1..n : seqs[k] \in Seq(Sections)
  <2> SUFFICES ASSUME NEW k \in 1..n PROVE seqs[k] \in Seq(Sections)
    OBVIOUS
  <2>1. seqs[k] = IF read[k] # <<>> THEN <<read[k]>> ELSE <<>>
    OBVIOUS
  <2>2. read[k] # <<>> => read[k] \in Sections
    BY <1>3, <1>4
  <2>3. read[k] # <<>> => <<read[k]>> \in Seq(Sections)
    BY <2>2
  <2> HIDE DEF seqs, Sections
  <2> QED
    BY <2>1, <2>3, EmptySeq
<1>6. SplitSections(t.lines) = FlattenSeq(seqs)
  BY <1>1, <1>4 DEF SplitSections, Where
<1>7. FlattenSeq(seqs) \in Seq(Sections)
  <2>1. seqs = [i \in 1..n |-> seqs[i]]
    OBVIOUS
  <2> HIDE DEF seqs, Sections
  <2>2. PICK P : CountsUp(P, seqs, n)
    BY <1>5, Counted
  <2>3. Lists(Sections, seqs, n)
    BY <1>5, <2>1 DEF Lists
  <2> QED
    BY <2>2, <2>3, FlattenBy
<1> HIDE DEF seqs
<1>8. PICK ss : ss = SplitSections(t.lines)
  OBVIOUS
<1>9. ss \in Seq(Sections)
  BY <1>6, <1>7, <1>8
<1>10. \A i \in DOMAIN ss : ss[i] \in Sections
  <2> HIDE DEF Sections
  <2> QED
    BY <1>9
<1>11. ss \in Seq(Seq(Printed(t)))
  <2>1. Sections \subseteq Seq(Printed(t))
    OBVIOUS
  <2> HIDE DEF Sections
  <2> QED
    BY <1>9, <2>1, SeqMonotonic
<1> QED
  BY <1>8, <1>10, <1>11

-----------------------------------------------------------------------------
(* Modifiers of a section. *)

\* A modifier without reminders.
Plain(type, lines, info) == [type |-> type, lines |-> lines, reminder |-> <<>>, info |-> info,
                             continuation |-> FALSE, match |-> Absent]

LEMMA PlainMod ==
  ASSUME NEW t, NEW type \in Kinds(t), NEW lines \in Seq(Says(t)), NEW info \in Infos(t)
  PROVE  Plain(type, lines, info) \in Mods(t)
<1>1. PICK none : none = <<>>
  OBVIOUS
<1>2. none \in Seq(Says(t))
  BY <1>1
<1>3. PICK m : m = [type |-> type, lines |-> lines, reminder |-> none, info |-> info,
                    continuation |-> FALSE, match |-> Absent]
  OBVIOUS
<1>4. m \in Mods(t)
  BY <1>2, <1>3 DEF Mods
<1> QED
  BY <1>1, <1>3, <1>4 DEF Plain

LEMMA LineSaid ==
  ASSUME NEW t, NEW l \in Printed(t)
  PROVE  /\ l.words \in Says(t) /\ l.suffix \in Kinds(t) /\ l.info.type \in Kinds(t)
         /\ l.info \in Infos(t) /\ Absent \in Infos(t)
BY DEF Says, Kinds, Infos

LEMMA ModLineKeeps ==
  ASSUME NEW t, NEW s, Section(t, s), NEW fallback \in Kinds(t),
         NEW k \in 1..Len(s), NEW acc, ModsSoFar(t, s, k - 1, acc)
  PROVE  ModsSoFar(t, s, k, ModLine(fallback, acc, s[k]))
<1>1. PICK l, ms, last : l = s[k] /\ ms = acc.mods /\ last = Len(ms)
  OBVIOUS
<1>2. s \in Seq(Printed(t)) /\ DOMAIN s = 1..Len(s) /\ l \in Printed(t)
  BY <1>1 DEF Section
<1>3. /\ ms \in Seq(Mods(t)) /\ last \in Nat /\ DOMAIN ms = 1..last /\ acc.open \in 0..last
      /\ acc = [mods |-> ms, open |-> acc.open]
  BY <1>1 DEF ModsSoFar
<1>4. /\ l.words \in Says(t) /\ l.suffix \in Kinds(t) /\ l.info.type \in Kinds(t)
      /\ l.info \in Infos(t) /\ Absent \in Infos(t)
  BY <1>2, LineSaid
\* An affix that is still to come has its line here.
<1>5. k - 1 \in DOMAIN s /\ Is(s[k - 1], "info") => ~Is(l, "info") /\ ~Is(l, "reminder")
  <2> SUFFICES ASSUME k - 1 \in DOMAIN s, Is(s[k - 1], "info")
               PROVE  s[k].is \cap {"info", "reminder", "flag", "influence"} = {}
    BY <1>1 DEF Is
  <2>1. k - 1 + 1 = k
    OBVIOUS
  <2> QED
    BY <2>1 DEF Section, Follows
<1>6. ASSUME Is(l, "info")
      PROVE  ModsSoFar(t, s, k, ModLine(fallback, acc, l))
  <2>1. PICK m : m = [Mod0 EXCEPT !.type = l.info.type, !.info = l.info]
    OBVIOUS
  <2>2. <<>> \in Seq(Says(t)) /\ m = Plain(l.info.type, <<>>, l.info)
    <3>1. m = Plain(l.info.type, <<>>, l.info)
      BY <2>1 DEF Mod0, Plain
    <3> QED
      BY <3>1, EmptySeq
  <2>3. m \in Mods(t) /\ m.lines = <<>> /\ m.info = l.info
    <3>1. m \in Mods(t)
      BY <1>4, <2>2, PlainMod
    <3> QED
      BY <2>2, <3>1 DEF Plain
  <2>4. l.info # Absent
    BY <1>1, <1>2, <1>6 DEF Section
  <2>5. PICK new : new = Append(ms, m)
    OBVIOUS
  <2>6. /\ new \in Seq(Mods(t)) /\ Len(new) = last + 1 /\ DOMAIN new = 1..(last + 1)
        /\ new[last + 1] = m /\ \A j \in 1..last : new[j] = ms[j]
    BY <1>1, <1>3, <2>3, <2>5, AppendProperties
  <2>7. ModLine(fallback, acc, l) = [mods |-> new, open |-> last + 1]
    BY <1>1, <1>6, <2>1, <2>5 DEF ModLine
  <2>8. \A j \in 1..last : Complete(ms[j])
    BY <1>1, <1>3, <1>5, <1>6 DEF ModsSoFar
  <2>9. ASSUME NEW j \in DOMAIN new
        PROVE  Complete(new[j]) \/ (j = last + 1 /\ new[j].lines = <<>> /\ k \in DOMAIN s /\ Is(s[k], "info"))
    BY <1>1, <1>2, <1>3, <1>6, <2>3, <2>6, <2>8
  <2>10. PICK fed : fed = [mods |-> new, open |-> last + 1]
    OBVIOUS
  <2>11. fed.mods = new /\ fed.open = last + 1 /\ fed = [mods |-> fed.mods, open |-> fed.open]
    BY <2>10
  <2>12. ModsSoFar(t, s, k, fed)
    BY <1>3, <2>3, <2>4, <2>6, <2>9, <2>11 DEF ModsSoFar
  <2> QED
    BY <2>7, <2>10, <2>12
<1>7. ASSUME ~Is(l, "info"), Is(l, "reminder")
      PROVE  ModsSoFar(t, s, k, ModLine(fallback, acc, l))
  <2>1. \A j \in 1..last : Complete(ms[j])
    BY <1>1, <1>3, <1>5, <1>7 DEF ModsSoFar
  <2>2. CASE last = 0
    <3>1. ModLine(fallback, acc, l) = acc
      BY <1>1, <1>7, <2>2 DEF ModLine
    <3> QED
      BY <1>1, <1>3, <2>1, <3>1 DEF ModsSoFar
  <2>3. CASE last # 0
    <3>1. PICK m : m = [ms[last] EXCEPT !.reminder = Append(@, l.words)]
      OBVIOUS
    <3>2. last \in 1..last /\ ms[last] \in Mods(t)
      BY <1>3, <2>3
    <3>3. Append(ms[last].reminder, l.words) \in Seq(Says(t))
      BY <1>4, <3>2, AppendProperties DEF Mods
    <3>4. m \in Mods(t) /\ m.info = ms[last].info /\ m.lines = ms[last].lines
      BY <3>1, <3>2, <3>3 DEF Mods
    <3>5. PICK new : new = [ms EXCEPT ![last] = m]
      OBVIOUS
    <3>6. /\ new \in Seq(Mods(t)) /\ Len(new) = last /\ DOMAIN new = 1..last
          /\ \A j \in 1..last : new[j] = IF j = last THEN m ELSE ms[j]
      BY <1>1, <1>3, <3>2, <3>4, <3>5, ExceptSeq
    <3>7. ModLine(fallback, acc, l) = [mods |-> new, open |-> acc.open]
      <4>1. ModLine(fallback, acc, l) = [acc EXCEPT !.mods = new]
        BY <1>1, <1>7, <2>3, <3>1, <3>5 DEF ModLine
      <4> QED
        BY <1>3, <4>1
    <3>8. \A j \in 1..last : Complete(new[j]) /\ new[j].info = ms[j].info
      BY <2>1, <3>4, <3>6 DEF Complete
    <3>9. PICK fed : fed = [mods |-> new, open |-> acc.open]
      OBVIOUS
    <3>10. fed.mods = new /\ fed.open = acc.open /\ fed = [mods |-> fed.mods, open |-> fed.open]
      BY <3>9
    <3>11. acc.open # 0 => new[acc.open].info # Absent
      BY <1>1, <1>3, <3>8 DEF ModsSoFar
    <3>12. ModsSoFar(t, s, k, fed)
      BY <1>3, <3>6, <3>8, <3>10, <3>11 DEF ModsSoFar
    <3> QED
      BY <3>7, <3>9, <3>12
  <2> QED
    BY <2>2, <2>3
<1>8. ASSUME ~Is(l, "info"), ~Is(l, "reminder"), acc.open # 0
      PROVE  ModsSoFar(t, s, k, ModLine(fallback, acc, l))
  <2>1. PICK o : o = acc.open
    OBVIOUS
  <2>2. o \in 1..last /\ ms[o] \in Mods(t) /\ ms[o].info # Absent
    BY <1>1, <1>3, <1>8, <2>1 DEF ModsSoFar
  <2>3. PICK type : type = IF l.suffix = Absent THEN ms[o].type ELSE l.suffix
    OBVIOUS
  <2>4. type \in Kinds(t)
    BY <1>4, <2>2, <2>3 DEF Mods
  <2>5. PICK lines : lines = Append(ms[o].lines, l.words)
    OBVIOUS
  <2>6. lines \in Seq(Says(t)) /\ Len(lines) # 0
    <3>1. ms[o].lines \in Seq(Says(t))
      BY <2>2 DEF Mods
    <3> QED
      BY <1>4, <2>5, <3>1
  <2>7. PICK m : m = [ms[o] EXCEPT !.lines = lines, !.type = type]
    OBVIOUS
  <2>8. m \in Mods(t) /\ m.info = ms[o].info /\ m.lines = lines
    BY <2>2, <2>4, <2>6, <2>7 DEF Mods
  <2>9. Complete(m)
    BY <2>2, <2>6, <2>8 DEF Complete
  <2>10. PICK new : new = [ms EXCEPT ![o] = m]
    OBVIOUS
  <2>11. /\ new \in Seq(Mods(t)) /\ Len(new) = last /\ DOMAIN new = 1..last
         /\ \A j \in 1..last : new[j] = IF j = o THEN m ELSE ms[j]
    BY <1>1, <1>3, <2>2, <2>8, <2>10, ExceptSeq
  <2>12. ModLine(fallback, acc, l) = [mods |-> new, open |-> o]
    <3>1. m = [ms[o] EXCEPT !.lines = Append(@, l.words),
                            !.type = IF l.suffix = Absent THEN @ ELSE l.suffix]
      <4>1. "lines" \in DOMAIN ms[o] /\ "type" \in DOMAIN ms[o]
        BY <2>2 DEF Mods
      <4> QED
        BY <2>3, <2>5, <2>7, <4>1
    <3>2. ModLine(fallback, acc, l) = [acc EXCEPT !.mods = new]
      BY <1>1, <1>8, <2>1, <2>10, <3>1 DEF ModLine
    <3> QED
      BY <1>3, <2>1, <3>2
  <2>13. ASSUME NEW j \in 1..last PROVE Complete(new[j])
    BY <1>1, <1>3, <2>1, <2>9, <2>11 DEF ModsSoFar
  <2>14. PICK fed : fed = [mods |-> new, open |-> o]
    OBVIOUS
  <2>15. fed.mods = new /\ fed.open = o /\ fed = [mods |-> fed.mods, open |-> fed.open]
    BY <2>14
  <2>16. ModsSoFar(t, s, k, fed)
    BY <1>3, <2>2, <2>8, <2>11, <2>13, <2>15 DEF ModsSoFar
  <2> QED
    BY <2>12, <2>14, <2>16
<1>9. ASSUME ~Is(l, "info"), ~Is(l, "reminder"), acc.open = 0
      PROVE  ModsSoFar(t, s, k, ModLine(fallback, acc, l))
  <2>1. PICK type : type = IF l.suffix = Absent THEN fallback ELSE l.suffix
    OBVIOUS
  <2>2. PICK lines : lines = <<l.words>>
    OBVIOUS
  <2>3. type \in Kinds(t) /\ lines \in Seq(Says(t)) /\ Len(lines) = 1
    BY <1>4, <2>1, <2>2
  <2>4. PICK m : m = [Mod0 EXCEPT !.type = type, !.lines = lines]
    OBVIOUS
  <2>5. m = Plain(type, lines, Absent)
    BY <2>4 DEF Mod0, Plain
  <2>6. m \in Mods(t) /\ m.lines = lines /\ m.info = Absent
    <3>1. m \in Mods(t)
      BY <1>4, <2>3, <2>5, PlainMod
    <3> QED
      BY <2>5, <3>1 DEF Plain
  <2>7. Complete(m)
    <3>1. Len(m.lines) = 1
      BY <2>3, <2>6
    <3> QED
      BY <3>1 DEF Complete
  <2>8. PICK new : new = Append(ms, m)
    OBVIOUS
  <2>9. /\ new \in Seq(Mods(t)) /\ Len(new) = last + 1 /\ DOMAIN new = 1..(last + 1)
        /\ new[last + 1] = m /\ \A j \in 1..last : new[j] = ms[j]
    BY <1>1, <1>3, <2>6, <2>8, AppendProperties
  <2>10. ModLine(fallback, acc, l) = [mods |-> new, open |-> 0]
    <3>1. ModLine(fallback, acc, l)
            = [acc EXCEPT !.mods = new]
      BY <1>1, <1>9, <2>1, <2>2, <2>4, <2>8 DEF ModLine
    <3> QED
      BY <1>3, <1>9, <3>1
  <2>11. ASSUME NEW j \in 1..(last + 1) PROVE Complete(new[j])
    BY <1>1, <1>3, <1>9, <2>7, <2>9 DEF ModsSoFar
  <2>12. PICK fed : fed = [mods |-> new, open |-> 0]
    OBVIOUS
  <2>13. fed.mods = new /\ fed.open = 0 /\ fed = [mods |-> fed.mods, open |-> fed.open]
    BY <2>12
  <2>14. ModsSoFar(t, s, k, fed)
    BY <1>3, <2>9, <2>11, <2>13 DEF ModsSoFar
  <2> QED
    BY <2>10, <2>12, <2>14
<1> QED
  BY <1>1, <1>6, <1>7, <1>8, <1>9

LEMMA ModSectionIs ==
  ASSUME NEW t, NEW s, Section(t, s), NEW fallback \in Kinds(t), NEW it, ReadOf(t, it)
  PROVE  ReadOf(t, ParseModSection(s, fallback, it))
<1>1. PICK e : e = [mods |-> it.mods, open |-> 0]
  OBVIOUS
<1>3. Len(s) \in Nat /\ DOMAIN s = 1..Len(s)
  BY DEF Section
<1> DEFINE Folding(f) == f = [u \in SUBSET DOMAIN s |->
                            IF u = {} THEN e
                            ELSE LET x == Max(u) IN Taken("mods", fallback, t, f[u \ {x}], s[x])]
           f == CHOOSE f : Folding(f)
<1>4. ParseModSection(s, fallback, it) = [it EXCEPT !.mods = f[DOMAIN s].mods]
  BY <1>1 DEF ParseModSection, FoldLeft, MapThenFoldSet, Taken
<1>5. Folds(f, "mods", fallback, t, e, s, Len(s))
  BY ONLY <1>3, FoldChosen, ZenonT(60)
<1> HIDE DEF f
<1>6. GoodAt("mods", t, s, 0, e)
  <2>1. e.mods = it.mods /\ e.open = 0 /\ e = [mods |-> e.mods, open |-> e.open]
    BY <1>1
  <2> QED
    BY <2>1 DEF GoodAt, ModsSoFar, ReadOf
<1>7. ASSUME NEW k \in 1..Len(s), NEW acc, GoodAt("mods", t, s, k - 1, acc)
      PROVE  GoodAt("mods", t, s, k, Taken("mods", fallback, t, acc, s[k]))
  BY <1>7, ModLineKeeps DEF GoodAt, Taken
<1>8. PICK read : read = f[DOMAIN s]
  OBVIOUS
<1>9. ModsSoFar(t, s, Len(s), read)
  <2>1. GoodAt("mods", t, s, Len(s), f[1..Len(s)])
    BY <1>3, <1>5, <1>6, <1>7, FoldKeeps
  <2> QED
    BY <1>3, <1>8, <2>1 DEF GoodAt
<1>10. \A i \in DOMAIN read.mods : Complete(read.mods[i])
  <2>1. ASSUME Len(s) \in DOMAIN s, Is(s[Len(s)], "info") PROVE FALSE
    <3>1. Len(s) + 1 \in 1..Len(s)
      BY <1>3, <2>1 DEF Section, Follows
    <3> QED
      BY <1>3, <3>1
  <2> QED
    BY <1>9, <2>1 DEF ModsSoFar
<1>11. PICK new : new = [it EXCEPT !.mods = read.mods]
  OBVIOUS
<1>12. /\ DOMAIN new = ItemFields /\ new.mods = read.mods /\ new.unique = it.unique
       /\ new.candidates = it.candidates
  <2>1. DOMAIN it = ItemFields
    BY DEF ReadOf
  <2>2. {"mods", "unique", "candidates"} \subseteq ItemFields
    BY DEF ItemFields
  <2> QED
    BY <1>11, <2>1, <2>2
<1>13. ReadOf(t, new)
  BY <1>9, <1>10, <1>12 DEF ReadOf, ModsSoFar
<1> QED
  BY <1>4, <1>8, <1>11, <1>13

-----------------------------------------------------------------------------
(* Sections that are not modifiers. *)

LEMMA AlikeReads ==
  ASSUME NEW t, NEW other, ReadOf(t, other), NEW it, Alike(it, other) PROVE ReadOf(t, it)
BY DEF Alike, ReadOf

LEMMA StillAlike ==
  ASSUME NEW other, NEW it, Alike(it, other), NEW new, DOMAIN new = DOMAIN it,
         new.mods = it.mods, new.unique = it.unique, new.candidates = it.candidates
  PROVE  Alike(new, other)
BY DEF Alike

LEMMA HeaderLineKeeps ==
  ASSUME NEW other, NEW it, Alike(it, other), NEW l PROVE Alike(HeaderLine(it, l), other)
<1>1. PICK new : new = HeaderLine(it, l)
  OBVIOUS
<1>2. DOMAIN it = ItemFields /\ {"mods", "unique", "candidates"} \subseteq ItemFields
  BY DEF Alike, ItemFields
<1>3. DOMAIN new = DOMAIN it /\ new.mods = it.mods /\ new.unique = it.unique /\ new.candidates = it.candidates
  BY <1>1, <1>2 DEF HeaderLine
<1> QED
  BY <1>1, <1>3, StillAlike

LEMMA BlockLineKeeps ==
  ASSUME NEW other, NEW it, Alike(it, other), NEW l PROVE Alike(BlockLine(it, l), other)
<1>1. PICK new : new = BlockLine(it, l)
  OBVIOUS
<1>2. DOMAIN it = ItemFields /\ {"mods", "unique", "candidates"} \subseteq ItemFields
  BY DEF Alike, ItemFields
<1>3. DOMAIN new = DOMAIN it /\ new.mods = it.mods /\ new.unique = it.unique /\ new.candidates = it.candidates
  BY <1>1, <1>2 DEF BlockLine
<1> QED
  BY <1>1, <1>3, StillAlike

LEMMA FlagOrInfluenceKeeps ==
  ASSUME NEW other, NEW it, Alike(it, other), NEW l PROVE Alike(FlagOrInfluence(it, l), other)
<1>1. PICK new : new = FlagOrInfluence(it, l)
  OBVIOUS
<1>2. DOMAIN it = ItemFields /\ {"mods", "unique", "candidates"} \subseteq ItemFields
  BY DEF Alike, ItemFields
<1>3. DOMAIN new = DOMAIN it /\ new.mods = it.mods /\ new.unique = it.unique /\ new.candidates = it.candidates
  BY <1>1, <1>2 DEF FlagOrInfluence
<1> QED
  BY <1>1, <1>3, StillAlike

LEMMA HeaderIs ==
  ASSUME NEW s, Len(s) \in Nat, DOMAIN s = 1..Len(s)
  PROVE  Alike(ParseHeader(s), Item0)
<1> DEFINE Folding(f) == f = [u \in SUBSET DOMAIN s |->
                            IF u = {} THEN Item0
                            ELSE LET x == Max(u) IN Taken("header", s, s, f[u \ {x}], s[x])]
           f == CHOOSE f : Folding(f)
<1>1. FoldLeft(HeaderLine, Item0, s) = f[DOMAIN s]
  BY DEF FoldLeft, MapThenFoldSet, Taken
<1>2. Folds(f, "header", s, s, Item0, s, Len(s))
  BY FoldChosen, ZenonT(60)
<1> HIDE DEF f
<1>3. GoodAt("header", Item0, s, 0, Item0)
  BY DEF GoodAt, Alike, Item0, ItemFields
<1>4. ASSUME NEW k \in 1..Len(s), NEW acc, GoodAt("header", Item0, s, k - 1, acc)
      PROVE  GoodAt("header", Item0, s, k, Taken("header", s, s, acc, s[k]))
  BY <1>4, HeaderLineKeeps DEF GoodAt, Taken
<1>5. PICK read : read = FoldLeft(HeaderLine, Item0, s)
  OBVIOUS
<1>6. Alike(read, Item0)
  <2>1. GoodAt("header", Item0, s, Len(s), f[1..Len(s)])
    BY <1>2, <1>3, <1>4, FoldKeeps
  <2> QED
    BY <1>1, <1>5, <2>1 DEF GoodAt
<1>7. PICK base, flags : ParseHeader(s) = [read EXCEPT !.base_type = base, !.base_name = base, !.flags = flags]
  BY <1>5 DEF ParseHeader
<1>8. PICK new : new = ParseHeader(s)
  OBVIOUS
<1>9. /\ DOMAIN new = DOMAIN read /\ new.mods = read.mods /\ new.unique = read.unique
      /\ new.candidates = read.candidates
  <2>1. DOMAIN read = ItemFields /\ {"mods", "unique", "candidates"} \subseteq ItemFields
    BY <1>6 DEF Alike, ItemFields
  <2> QED
    BY <1>7, <1>8, <2>1
<1> QED
  BY <1>6, <1>8, <1>9, StillAlike

LEMMA BlockIs ==
  ASSUME NEW s, Len(s) \in Nat, DOMAIN s = 1..Len(s), NEW it, DOMAIN it = ItemFields
  PROVE  Alike(ParseProperties(s, it), it)
<1> DEFINE Folding(f) == f = [u \in SUBSET DOMAIN s |->
                            IF u = {} THEN it
                            ELSE LET x == Max(u) IN Taken("block", s, s, f[u \ {x}], s[x])]
           f == CHOOSE f : Folding(f)
<1>1. ParseProperties(s, it) = f[DOMAIN s]
  BY DEF ParseProperties, FoldLeft, MapThenFoldSet, Taken
<1>2. Folds(f, "block", s, s, it, s, Len(s))
  BY FoldChosen, ZenonT(60)
<1> HIDE DEF f
<1>3. GoodAt("block", it, s, 0, it)
  BY DEF GoodAt, Alike
<1>4. ASSUME NEW k \in 1..Len(s), NEW acc, GoodAt("block", it, s, k - 1, acc)
      PROVE  GoodAt("block", it, s, k, Taken("block", s, s, acc, s[k]))
  BY <1>4, BlockLineKeeps DEF GoodAt, Taken
<1>5. GoodAt("block", it, s, Len(s), f[1..Len(s)])
  BY <1>2, <1>3, <1>4, FoldKeeps
<1> QED
  BY <1>1, <1>5 DEF GoodAt

LEMMA FlagsAre ==
  ASSUME NEW s, Len(s) \in Nat, DOMAIN s = 1..Len(s), NEW it, DOMAIN it = ItemFields
  PROVE  Alike(ParseFlags(s, it), it)
<1> DEFINE Folding(f) == f = [u \in SUBSET DOMAIN s |->
                            IF u = {} THEN it
                            ELSE LET x == Max(u) IN Taken("flags", s, s, f[u \ {x}], s[x])]
           f == CHOOSE f : Folding(f)
<1>1. ParseFlags(s, it) = f[DOMAIN s]
  BY DEF ParseFlags, FoldLeft, MapThenFoldSet, Taken
<1>2. Folds(f, "flags", s, s, it, s, Len(s))
  BY FoldChosen, ZenonT(60)
<1> HIDE DEF f
<1>3. GoodAt("flags", it, s, 0, it)
  BY DEF GoodAt, Alike
<1>4. ASSUME NEW k \in 1..Len(s), NEW acc, GoodAt("flags", it, s, k - 1, acc)
      PROVE  GoodAt("flags", it, s, k, Taken("flags", s, s, acc, s[k]))
  BY <1>4, FlagOrInfluenceKeeps DEF GoodAt, Taken
<1>5. GoodAt("flags", it, s, Len(s), f[1..Len(s)])
  BY <1>2, <1>3, <1>4, FoldKeeps
<1> QED
  BY <1>1, <1>5 DEF GoodAt

LEMMA PartOfSection ==
  ASSUME NEW t, NEW s, Section(t, s), NEW a \in Nat \ {0}, NEW b \in 0..Len(s), a <= b + 1,
         \A i \in a..b : Is(s[i], "info") => i + 1 <= b
  PROVE  Section(t, SubSeq(s, a, b))
<1>1. s \in Seq(Printed(t)) /\ Len(s) \in Nat /\ DOMAIN s = 1..Len(s)
  BY DEF Section
<1>2. PICK part : part = SubSeq(s, a, b)
  OBVIOUS
<1>3. /\ part \in Seq(Printed(t)) /\ Len(part) = b - a + 1 /\ DOMAIN part = 1..(b - a + 1)
      /\ \A i \in 1..(b - a + 1) : part[i] = s[a + i - 1]
  BY <1>1, <1>2, SubSeqProperties
<1>4. ASSUME NEW i \in DOMAIN part, Is(part[i], "info")
      PROVE  part[i].info # Absent /\ Follows(part, i)
  <2>1. part[i] = s[a + i - 1] /\ a + i - 1 \in a..b /\ a + i - 1 \in DOMAIN s
    BY <1>1, <1>3
  <2>2. a + i - 1 + 1 <= b /\ s[a + i - 1].info # Absent /\ Follows(s, a + i - 1)
    BY <1>4, <2>1 DEF Section
  <2>3. i + 1 \in DOMAIN part /\ part[i + 1] = s[a + i - 1 + 1]
    <3>1. i \in 1..(b - a + 1) /\ i + 1 <= b - a + 1 /\ i + 1 \in 1..(b - a + 1)
      BY <1>3, <2>2
    <3>2. a + (i + 1) - 1 = a + i - 1 + 1
      BY <3>1
    <3> QED
      BY <1>3, <3>1, <3>2
  <2> QED
    BY <2>1, <2>2, <2>3 DEF Follows
<1>5. Section(t, part)
  BY <1>3, <1>4 DEF Section
<1> QED
  BY <1>2, <1>5

LEMMA PeelFlagsIs ==
  ASSUME NEW t, NEW s, Section(t, s), NEW it, ReadOf(t, it)
  PROVE  ReadOf(t, PeelFlags(s, it).it)
<1>1. s \in Seq(Printed(t)) /\ Len(s) \in Nat /\ DOMAIN s = 1..Len(s)
  BY DEF Section
<1>2. PICK body : body = {n \in 0..Len(s) : \A i \in (n + 1)..Len(s) : IsFlagLine(s[i])}
  OBVIOUS
<1>3. Len(s) \in body /\ body \subseteq Nat
  <2>1. (Len(s) + 1)..Len(s) = {} /\ Len(s) \in 0..Len(s)
    BY <1>1
  <2> QED
    BY <1>1, <1>2, <2>1
<1>4. PICK n : n = CHOOSE x \in body : \A y \in body : x <= y
  OBVIOUS
<1>5. n \in body
  <2>1. \E x \in body : \A y \in body : x <= y
    BY <1>3, LeastMember
  <2> QED
    BY <1>4, <2>1
<1>6. n \in 0..Len(s) /\ \A i \in (n + 1)..Len(s) : IsFlagLine(s[i])
  BY <1>2, <1>5
<1>7. ASSUME NEW i \in 1..n, Is(s[i], "info") PROVE i + 1 <= n
  <2>1. i \in DOMAIN s /\ Follows(s, i)
    BY <1>1, <1>6, <1>7 DEF Section
  <2>2. i + 1 \in 1..Len(s) /\ ~IsFlagLine(s[i + 1])
    BY <1>1, <2>1 DEF Follows, IsFlagLine, Is
  <2>3. i + 1 \notin (n + 1)..Len(s)
    BY <1>6, <2>2
  <2> QED
    BY <1>1, <1>6, <2>2, <2>3
<1>8. PICK head : head = SubSeq(s, 1, n)
  OBVIOUS
<1>9. Section(t, head)
  <2>1. 1 \in Nat \ {0} /\ 1 <= n + 1
    BY <1>6
  <2> QED
    BY <1>6, <1>7, <1>8, <2>1, PartOfSection
<1>10. PICK flagged : flagged = ParseFlags(SubSeq(s, n + 1, Len(s)), it)
  OBVIOUS
<1>11. ReadOf(t, flagged)
  <2>1. PICK tail : tail = SubSeq(s, n + 1, Len(s))
    OBVIOUS
  <2>2. tail \in Seq(Printed(t))
    BY <1>1, <1>6, <2>1, SubSeqProperties
  <2>3. Len(tail) \in Nat /\ DOMAIN tail = 1..Len(tail) /\ DOMAIN it = ItemFields
    BY <2>2 DEF ReadOf
  <2>4. Alike(flagged, it)
    BY <1>10, <2>1, <2>3, FlagsAre
  <2> QED
    BY <2>4, AlikeReads
<1>12. PICK fallback : fallback = IF IsSanctum(it) THEN "sanctum" ELSE "explicit"
  OBVIOUS
<1>13. fallback \in Kinds(t)
  BY <1>12 DEF Kinds
<1>14. PeelFlags(s, it).it = ParseModSection(head, fallback, flagged)
  BY <1>2, <1>4, <1>8, <1>10, <1>12 DEF PeelFlags
<1> QED
  BY <1>9, <1>11, <1>13, <1>14, ModSectionIs

LEMMA DestinationIs ==
  ASSUME NEW t, NEW s, Section(t, s), IsDestination(s), NEW it, ReadOf(t, it)
  PROVE  ReadOf(t, ParseDestination(s, it))
<1>1. s \in Seq(Printed(t)) /\ Len(s) \in Nat /\ DOMAIN s = 1..Len(s) /\ Len(s) >= 3
  BY DEF Section, IsDestination
<1>2. PICK body : body = SubSeq(s, 3, Len(s))
  OBVIOUS
<1>3. Section(t, body)
  <2>1. ASSUME NEW i \in 3..Len(s), Is(s[i], "info") PROVE i + 1 <= Len(s)
    <3>1. i \in DOMAIN s
      BY <1>1
    <3>2. i + 1 \in 1..Len(s)
      BY <1>1, <2>1, <3>1 DEF Section, Follows
    <3> QED
      BY <1>1, <3>2
  <2>2. 3 \in Nat \ {0} /\ 3 <= Len(s) + 1 /\ Len(s) \in 0..Len(s)
    BY <1>1
  <2> QED
    BY <1>2, <2>1, <2>2, PartOfSection
<1>4. PICK read : read = ParseModSection(body, "implicit", it)
  OBVIOUS
<1>5. ReadOf(t, read)
  <2>1. "implicit" \in Kinds(t)
    BY DEF Kinds
  <2> QED
    BY <1>3, <1>4, <2>1, ModSectionIs
<1>6. PICK new, area : new = ParseDestination(s, it) /\ new = [read EXCEPT !.areas = Append(@, area)]
  BY <1>2, <1>4 DEF ParseDestination
<1>7. DOMAIN read = ItemFields /\ {"mods", "unique", "candidates"} \subseteq ItemFields
  BY <1>5 DEF ReadOf, ItemFields
<1>8. /\ DOMAIN new = ItemFields /\ new.mods = read.mods /\ new.unique = read.unique
      /\ new.candidates = read.candidates
  BY <1>6, <1>7
<1>9. Alike(new, read)
  BY <1>8 DEF Alike
<1> QED
  BY <1>5, <1>6, <1>9, AlikeReads

\* Changing another field changes no modifier and no unique.
LEMMA OtherField ==
  ASSUME NEW t, NEW it, ReadOf(t, it), NEW new, DOMAIN new = DOMAIN it,
         \A c \in {"mods", "unique", "candidates"} : new[c] = it[c]
  PROVE  ReadOf(t, new)
<1>1. Alike(new, it)
  BY DEF Alike, ReadOf
<1> QED
  BY <1>1, AlikeReads

LEMMA ProseIs ==
  ASSUME NEW t, NEW s, NEW it, ReadOf(t, it) PROVE ReadOf(t, ParseProse(s, it))
<1>1. PICK new : new = ParseProse(s, it)
  OBVIOUS
<1>2. DOMAIN it = ItemFields /\ {"mods", "unique", "candidates"} \subseteq ItemFields
  BY DEF ReadOf, ItemFields
<1>3. DOMAIN new = DOMAIN it /\ \A c \in {"mods", "unique", "candidates"} : new[c] = it[c]
  BY <1>1, <1>2 DEF ParseProse
<1> QED
  BY <1>1, <1>3, OtherField

LEMMA SectionKeeps ==
  ASSUME NEW t, NEW s, Section(t, s), NEW i, NEW flavourAt, NEW acc, SectionsSoFar(t, acc)
  PROVE  SectionsSoFar(t, ParseSection(acc, s, i, flavourAt))
<1>1. PICK it : it = acc.it
  OBVIOUS
<1>2. ReadOf(t, it) /\ acc = [it |-> it, props |-> acc.props, at |-> acc.at]
  BY <1>1 DEF SectionsSoFar
<1>3. Len(s) \in Nat /\ DOMAIN s = 1..Len(s) /\ DOMAIN it = ItemFields
  BY <1>2 DEF Section, ReadOf
<1>4. PICK peeled, flags, block, area, prose :
        /\ peeled = PeelFlags(s, it) /\ flags = ParseFlags(s, it) /\ block = ParseProperties(s, it)
        /\ area = ParseDestination(s, it) /\ prose = ParseProse(s, it)
  OBVIOUS
<1>5. ReadOf(t, peeled.it) /\ ReadOf(t, flags) /\ ReadOf(t, block) /\ ReadOf(t, prose)
  BY <1>2, <1>3, <1>4, PeelFlagsIs, FlagsAre, BlockIs, ProseIs, AlikeReads
<1>6. IsDestination(s) => ReadOf(t, area)
  BY <1>2, <1>4, DestinationIs
<1>7. PICK req, sockets, note, cosmetic, vaal, help, inherent :
        /\ req = [it EXCEPT !.req = Words(Tail(s))]
        /\ sockets = [it EXCEPT !.sockets = s[1].words]
        /\ note = [it EXCEPT !.note = s[1].words]
        /\ cosmetic = [it EXCEPT !.cosmetic = @ \o Words(s)]
        /\ vaal = [it EXCEPT !.vaal = s[1].words]
        /\ help = [it EXCEPT !.help = @ \o Words(s)]
        /\ inherent = [it EXCEPT !.inherent = @ \o Words(s)]
  OBVIOUS
<1>8. \A new \in {req, sockets, note, cosmetic, vaal, help, inherent} : ReadOf(t, new)
  <2> SUFFICES ASSUME NEW new \in {req, sockets, note, cosmetic, vaal, help, inherent}
               PROVE  DOMAIN new = DOMAIN it /\ \A c \in {"mods", "unique", "candidates"} : new[c] = it[c]
    BY <1>2, OtherField
  <2>1. {"mods", "unique", "candidates"} \subseteq ItemFields
    BY DEF ItemFields
  <2> QED
    BY <1>3, <1>7, <2>1
<1>9. PICK new : new = ParseSection(acc, s, i, flavourAt)
  OBVIOUS
<1>10. \/ \E x \in {flags, req, sockets, note, cosmetic, area, vaal, help, prose, inherent} :
            ReadOf(t, x) /\ new = [acc EXCEPT !.it = x]
       \/ new = [acc EXCEPT !.it = block, !.props = TRUE]
       \/ \E at : new = [acc EXCEPT !.it = peeled.it, !.at = at]
  BY <1>1, <1>4, <1>5, <1>6, <1>7, <1>8, <1>9 DEF ParseSection
<1>11. \E x, p, a : ReadOf(t, x) /\ new = [it |-> x, props |-> p, at |-> a]
  BY <1>2, <1>5, <1>10
<1>12. PICK x, p, a : ReadOf(t, x) /\ new = [it |-> x, props |-> p, at |-> a]
  BY <1>11
<1>13. new = [it |-> new.it, props |-> new.props, at |-> new.at] /\ new.it = x
  BY <1>12
<1> QED
  BY <1>9, <1>12, <1>13 DEF SectionsSoFar

LEMMA FlaskEnchantsIs ==
  ASSUME NEW t, NEW it, ReadOf(t, it), NEW at
  PROVE  ReadOf(t, FlaskEnchants(it, at))
<1>1. PICK ms : ms = it.mods
  OBVIOUS
<1>2. /\ ms \in Seq(Mods(t)) /\ Len(ms) \in Nat /\ DOMAIN ms = 1..Len(ms)
      /\ \A i \in 1..Len(ms) : Complete(ms[i])
  BY <1>1 DEF ReadOf
<1>3. CASE it.kind # "Flask" \/ Len(at) <= 1
  BY <1>3 DEF FlaskEnchants
<1>4. CASE ~(it.kind # "Flask" \/ Len(at) <= 1)
  <2>1. PICK ends : ends = {m \in 1..Len(ms) : m <= Last(at) /\ ms[m].type = "explicit" /\ ms[m].info = Absent}
    OBVIOUS
  <2>2. PICK new : new = [m \in 1..Len(ms) |-> IF m \in ends THEN [ms[m] EXCEPT !.type = "enchant"] ELSE ms[m]]
    OBVIOUS
  <2>3. "enchant" \in Kinds(t)
    BY DEF Kinds
  <2>4. ASSUME NEW m \in 1..Len(ms) PROVE new[m] \in Mods(t) /\ Complete(new[m])
    <3>1. ms[m] \in Mods(t) /\ Complete(ms[m])
      BY <1>2
    <3>2. PICK one : one = [ms[m] EXCEPT !.type = "enchant"]
      OBVIOUS
    <3>3. one \in Mods(t) /\ one.lines = ms[m].lines /\ one.info = ms[m].info
      BY <2>3, <3>1, <3>2 DEF Mods
    <3>4. Complete(one)
      BY <3>1, <3>3 DEF Complete
    <3> QED
      BY <2>2, <3>1, <3>2, <3>3, <3>4
  <2>5. new \in Seq(Mods(t)) /\ DOMAIN new = 1..Len(ms)
    <3>1. new \in [1..Len(ms) -> Mods(t)]
      BY <2>2, <2>4
    <3> QED
      BY <1>2, <3>1
  <2>6. PICK made : made = [it EXCEPT !.mods = new]
    OBVIOUS
  <2>7. FlaskEnchants(it, at) = made
    <3>1. FlaskEnchants(it, at)
            = [it EXCEPT !.mods = [m \in DOMAIN ms |->
                 IF m <= Last(at) /\ ms[m].type = "explicit" /\ ms[m].info = Absent
                 THEN [ms[m] EXCEPT !.type = "enchant"] ELSE ms[m]]]
      BY <1>1, <1>4 DEF FlaskEnchants
    <3>2. [m \in DOMAIN ms |->
             IF m <= Last(at) /\ ms[m].type = "explicit" /\ ms[m].info = Absent
             THEN [ms[m] EXCEPT !.type = "enchant"] ELSE ms[m]] = new
      BY <1>2, <2>1, <2>2
    <3> QED
      BY <2>6, <3>1, <3>2
  <2>8. /\ DOMAIN made = ItemFields /\ made.mods = new /\ made.unique = it.unique
        /\ made.candidates = it.candidates
    <3>1. DOMAIN it = ItemFields /\ {"mods", "unique", "candidates"} \subseteq ItemFields
      BY DEF ReadOf, ItemFields
    <3> QED
      BY <2>6, <3>1
  <2>9. ReadOf(t, made)
    BY <2>4, <2>5, <2>8 DEF ReadOf
  <2> QED
    BY <2>7, <2>9
<1> QED
  BY <1>3, <1>4

LEMMA ItemOfSections ==
  ASSUME NEW t, NEW ss \in Seq(Seq(Printed(t))), \A i \in DOMAIN ss : Section(t, ss[i]),
         NEW head, ReadOf(t, head)
  PROVE  SectionsSoFar(t, ParseSections(ss, head))
<1>1. PICK e, s, flavourAt :
        /\ e = [it |-> head, props |-> FALSE, at |-> <<>>] /\ s = [i \in DOMAIN ss |-> i]
        /\ flavourAt = FlavourAt(ss)
  OBVIOUS
<1>2. Len(s) \in Nat /\ DOMAIN s = 1..Len(s) /\ DOMAIN ss = DOMAIN s /\ \A k \in 1..Len(s) : s[k] = k
  <2>1. DOMAIN ss = 1..Len(ss) /\ Len(ss) \in Nat
    OBVIOUS
  <2> QED
    BY <1>1, <2>1
<1> DEFINE Folding(f) == f = [u \in SUBSET DOMAIN s |->
                            IF u = {} THEN e
                            ELSE LET x == Max(u) IN Taken("item", ss, flavourAt, f[u \ {x}], s[x])]
           f == CHOOSE f : Folding(f)
<1>3. ParseSections(ss, head) = f[DOMAIN s]
  BY <1>1 DEF ParseSections, FoldLeftDomain, FoldLeft, MapThenFoldSet, Taken
<1>4. Folds(f, "item", ss, flavourAt, e, s, Len(s))
  <2>1. Len(s) \in Nat /\ DOMAIN s = 1..Len(s)
    BY <1>2
  <2> QED
    BY <2>1, FoldChosen, ZenonT(60)
<1> HIDE DEF f
<1>5. GoodAt("item", t, s, 0, e)
  BY <1>1 DEF GoodAt, SectionsSoFar
<1>6. ASSUME NEW k \in 1..Len(s), NEW acc, GoodAt("item", t, s, k - 1, acc)
      PROVE  GoodAt("item", t, s, k, Taken("item", ss, flavourAt, acc, s[k]))
  <2>1. SectionsSoFar(t, acc) /\ s[k] = k /\ Section(t, ss[k])
    BY <1>2, <1>6 DEF GoodAt
  <2>2. SectionsSoFar(t, ParseSection(acc, ss[k], k, flavourAt))
    BY <2>1, SectionKeeps
  <2> QED
    BY <2>1, <2>2 DEF GoodAt, Taken
<1>7. GoodAt("item", t, s, Len(s), f[1..Len(s)])
  BY <1>2, <1>4, <1>5, <1>6, FoldKeeps
<1> QED
  BY <1>1, <1>2, <1>3, <1>7 DEF GoodAt

\* What is read of a text is an item whose modifiers are whole.
LEMMA ParseIs ==
  ASSUME NEW t \in Texts, Parse(t.lines) # Absent
  PROVE  ReadOf(t, Parse(t.lines))
<1>1. PICK ss : ss = SplitSections(t.lines)
  OBVIOUS
<1>2. ss \in Seq(Seq(Printed(t))) /\ \A i \in DOMAIN ss : Section(t, ss[i])
  BY <1>1, SectionsAre
<1>3. PICK head : head = ParseHeader(ss[1])
  OBVIOUS
<1>4. PICK read : read = ParseSections(ss, head)
  OBVIOUS
<1>5. PICK it : it = FlaskEnchants(read.it, read.at)
  OBVIOUS
<1>6. /\ ss # <<>>
      /\ Parse(t.lines) = [it EXCEPT !.flags = @ \cup IF Foulborn(it) THEN {"foulborn"} ELSE {},
                                     !.elemental = ElementalKinds(it)]
  BY <1>1, <1>3, <1>4, <1>5 DEF Parse
<1>7. ReadOf(t, head)
  <2>1. 1 \in DOMAIN ss
    BY <1>2, <1>6
  <2>2. ss[1] \in Seq(Printed(t))
    BY <1>2, <2>1 DEF Section
  <2>3. Len(ss[1]) \in Nat /\ DOMAIN ss[1] = 1..Len(ss[1])
    BY <2>2
  <2>4. Alike(head, Item0)
    BY <1>3, <2>3, HeaderIs
  <2>5. ReadOf(t, Item0)
    <3>1. PICK none : none = <<>>
      OBVIOUS
    <3>2. none \in Seq(Mods(t)) /\ DOMAIN none = {}
      BY <3>1
    <3>3. DOMAIN Item0 = ItemFields /\ Item0.mods = none /\ Item0.unique = Absent /\ Item0.candidates = {}
      BY <3>1 DEF Item0, ItemFields
    <3> QED
      BY <3>2, <3>3 DEF ReadOf
  <2> QED
    BY <2>4, <2>5, AlikeReads
<1>8. ReadOf(t, it)
  <2>1. SectionsSoFar(t, read)
    BY <1>2, <1>4, <1>7, ItemOfSections
  <2> QED
    BY <1>5, <2>1, FlaskEnchantsIs DEF SectionsSoFar
<1>9. PICK new : new = Parse(t.lines)
  OBVIOUS
<1>10. DOMAIN new = DOMAIN it /\ \A c \in {"mods", "unique", "candidates"} : new[c] = it[c]
  <2>1. DOMAIN it = ItemFields /\ {"mods", "unique", "candidates"} \subseteq ItemFields
    BY <1>8 DEF ReadOf, ItemFields
  <2> QED
    BY <1>6, <1>9, <2>1
<1> QED
  BY <1>8, <1>9, <1>10, OtherField

-----------------------------------------------------------------------------
(* Lists that are walked by leaps.                                         *)

\* f[i] is what the walk from i picks up: xs[i], and on from nx[i].
Walks(f, xs, nx, low, n) ==
  \A i \in low..(n + 1) : f[i] = IF i > n THEN <<>> ELSE xs[i] \o f[nx[i]]

LEMMA WalkExists ==
  ASSUME NEW n \in Nat, NEW xs, NEW nx, \A i \in 1..n : nx[i] \in (i + 1)..(n + 1)
  PROVE  \E f : Walks(f, xs, nx, 1, n)
<1> DEFINE T == {m \in Nat : m <= n /\ ~ \E f : Walks(f, xs, nx, n + 1 - m, n)}
<1>1. CASE T = {}
  <2>1. n \in Nat /\ n <= n /\ n \notin T
    <3>1. n \notin T
      <4> HIDE DEF T
      <4> QED
        BY <1>1
    <3> HIDE DEF T
    <3> QED
      BY <3>1
  <2>2. \E f : Walks(f, xs, nx, n + 1 - n, n)
    BY <2>1
  <2>3. n + 1 - n = 1
    OBVIOUS
  <2> HIDE DEF T
  <2> QED
    BY <2>2, <2>3
<1>2. CASE T # {}
  <2>1. PICK m \in T : \A k \in T : m <= k
    BY <1>2, LeastMember
  <2>2. CASE m = 0
    <3> DEFINE f == [i \in 1..(n + 1) |-> <<>>]
    <3>1. \A i \in (n + 1 - 0)..(n + 1) : i > n /\ f[i] = <<>>
      OBVIOUS
    <3>2. Walks(f, xs, nx, n + 1 - m, n)
      BY <2>2, <3>1 DEF Walks
    <3> QED
      BY <2>1, <3>2
  <2>3. CASE m # 0
    <3>1. m \in Nat /\ m <= n /\ m - 1 \in Nat /\ m - 1 <= n /\ m - 1 \notin T
      BY <2>1, <2>3
    <3>2. PICK low \in Nat : low = n + 1 - m /\ low \in 1..n /\ n + 1 - (m - 1) = low + 1
      BY <2>3, <3>1
    <3>3. PICK g : Walks(g, xs, nx, low + 1, n)
      BY <3>1, <3>2
    <3> DEFINE f == [i \in low..(n + 1) |-> IF i = low THEN xs[low] \o g[nx[low]] ELSE g[i]]
    <3>4. ASSUME NEW i \in low..(n + 1) PROVE f[i] = IF i > n THEN <<>> ELSE xs[i] \o f[nx[i]]
      <4>1. CASE i = low
        <5>1. nx[low] \in (low + 1)..(n + 1)
          BY <3>2
        <5>2. f[nx[low]] = g[nx[low]]
          <6>1. nx[low] \in low..(n + 1) /\ nx[low] # low
            BY <3>2, <5>1
          <6> QED
            BY <6>1
        <5>3. f[low] = xs[low] \o g[nx[low]]
          <6>1. low \in low..(n + 1)
            BY <3>2
          <6> QED
            BY <6>1
        <5>4. ~(i > n)
          BY <3>2, <4>1
        <5> HIDE DEF f
        <5> QED
          BY <4>1, <5>2, <5>3, <5>4
      <4>2. CASE i # low
        <5>1. i \in (low + 1)..(n + 1) /\ f[i] = g[i]
          BY <3>2, <4>2
        <5>2. i <= n => nx[i] \in low..(n + 1) /\ nx[i] # low
          BY <3>2, <5>1
        <5>3. i <= n => f[nx[i]] = g[nx[i]]
          BY <5>2
        <5>4. g[i] = IF i > n THEN <<>> ELSE xs[i] \o g[nx[i]]
          BY <3>3, <5>1 DEF Walks
        <5> QED
          BY <5>1, <5>3, <5>4
      <4> QED
        BY <4>1, <4>2
    <3> HIDE DEF f
    <3>5. Walks(f, xs, nx, low, n)
      BY <3>4 DEF Walks
    <3> QED
      BY <2>1, <3>2, <3>5
  <2> QED
    BY <2>2, <2>3
<1> QED
  BY <1>1, <1>2

-----------------------------------------------------------------------------
(* Where each stat ends. *)

LEMMA LesserOfTwo == ASSUME NEW a \in Int, NEW b \in Int PROVE Min({a, b}) = IF a <= b THEN a ELSE b
<1>1. PICK c : c = IF a <= b THEN a ELSE b
  OBVIOUS
<1>2. c \in {a, b} /\ \A x \in {a, b} : c <= x
  BY <1>1
<1>3. Min({a, b}) \in {a, b} /\ \A x \in {a, b} : Min({a, b}) <= x
  BY <1>2 DEF Min
<1> QED
  BY <1>1, <1>2, <1>3

LEMMA PartIs ==
  ASSUME NEW b, NEW it, NEW lines, Len(lines) \in Nat, DOMAIN lines = 1..Len(lines),
         NEW at \in 1..Len(lines), NEW type
  PROVE  /\ PartAt(b, it, lines, at, type).at = at
         /\ PartAt(b, it, lines, at, type).next \in (at + 1)..(Len(lines) + 1)
<1>1. PICK match : match = MatchMod(b, it, lines, at, type)
  OBVIOUS
<1>2. Consumed(match) \in Nat \ {0}
  <2>1. CASE match = MatchStat(b, lines, at, type)
    <3>1. PICK ends : ends = {e \in DOMAIN lines :
                                /\ at <= e /\ e - at < MaxModLines
                                /\ FindStat(b, SubSeq(lines, at, e), type, FALSE) # Absent}
      OBVIOUS
    <3>2. CASE ends = {}
      <4>1. match = Absent
        BY <2>1, <3>1, <3>2 DEF MatchStat
      <4> QED
        BY <4>1 DEF Consumed
    <3>3. CASE ends # {}
      <4>1. PICK e : e = CHOOSE x \in ends : \A y \in ends : x <= y
        OBVIOUS
      <4>2. e \in ends
        <5>1. ends \subseteq 1..Len(lines)
          BY <3>1
        <5>2. \E x \in ends : \A y \in ends : x <= y
          <6>1. ends \subseteq Nat
            BY <5>1
          <6> QED
            BY <3>3, <6>1, LeastMember
        <5> QED
          BY <4>1, <5>2
      <4>3. e \in 1..Len(lines) /\ at <= e
        BY <3>1, <4>2
      <4>4. match = [id |-> FindStat(b, SubSeq(lines, at, e), type, FALSE), consumed |-> e - at + 1,
                     local |-> FALSE]
        BY <2>1, <3>1, <3>3, <4>1 DEF MatchStat
      <4>5. match.consumed = e - at + 1 /\ e - at + 1 \in Nat \ {0}
        BY <4>3, <4>4
      <4> QED
        BY <4>5 DEF Consumed
    <3> QED
      BY <3>2, <3>3
  <2>2. CASE match # MatchStat(b, lines, at, type)
    <3>1. PICK id : match = [id |-> id, consumed |-> 1, local |-> TRUE]
      BY <1>1, <2>2 DEF MatchMod
    <3>2. match.consumed = 1
      BY <3>1
    <3> QED
      BY <3>2 DEF Consumed
  <2> QED
    BY <2>1, <2>2
<1>3. PICK p : p = PartAt(b, it, lines, at, type)
  OBVIOUS
<1>4. p = [at |-> at, next |-> Min({at + Consumed(match), Len(lines) + 1}), match |-> match]
  BY <1>1, <1>3 DEF PartAt
<1>5. p.next = IF at + Consumed(match) <= Len(lines) + 1 THEN at + Consumed(match) ELSE Len(lines) + 1
  <2>1. at + Consumed(match) \in Int /\ Len(lines) + 1 \in Int
    BY <1>2
  <2> QED
    BY <1>4, <2>1, LesserOfTwo
<1> QED
  BY <1>2, <1>3, <1>4, <1>5

\* ps cuts the places from `at' to n up, one part after another.
Tiles(ps, at, n) ==
  /\ Len(ps) \in Nat /\ ps = [k \in 1..Len(ps) |-> ps[k]]
  /\ IF at > n THEN Len(ps) = 0
     ELSE /\ Len(ps) # 0 /\ ps[1].at = at /\ ps[Len(ps)].next = n + 1
          /\ \A k \in 1..Len(ps) : ps[k].at \in at..n /\ ps[k].next \in (ps[k].at + 1)..(n + 1)
          /\ \A k \in 1..Len(ps) : k # 1 => ps[k].at = ps[k - 1].next

LEMMA TileBefore ==
  ASSUME NEW p, NEW n \in Nat, NEW at \in 1..n, p.at = at, p.next \in (at + 1)..(n + 1),
         NEW ps, Tiles(ps, p.next, n)
  PROVE  Tiles(<<p>> \o ps, at, n)
<1>1. PICK X : X = {p} \cup {ps[k] : k \in 1..Len(ps)}
  OBVIOUS
<1>2. Len(ps) \in Nat /\ ps = [k \in 1..Len(ps) |-> ps[k]]
  BY DEF Tiles
<1>3. PICK one : one = <<p>>
  OBVIOUS
<1>4. one \in Seq(X) /\ ps \in Seq(X) /\ Len(one) = 1 /\ one[1] = p
  <2>1. p \in X /\ \A k \in 1..Len(ps) : ps[k] \in X
    BY <1>1
  <2>2. ps \in [1..Len(ps) -> X]
    BY <1>2, <2>1
  <2> QED
    BY <1>2, <1>3, <2>1, <2>2
<1>5. PICK all : all = one \o ps
  OBVIOUS
<1>6. /\ all \in Seq(X) /\ Len(all) = Len(ps) + 1 /\ all[1] = p
      /\ \A k \in 1..Len(all) : k # 1 => all[k] = ps[k - 1]
  <2>1. /\ all \in Seq(X) /\ Len(all) = Len(one) + Len(ps)
        /\ \A k \in 1..(Len(one) + Len(ps)) :
             all[k] = IF k <= Len(one) THEN one[k] ELSE ps[k - Len(one)]
    BY <1>4, <1>5, ConcatProperties
  <2> QED
    BY <1>2, <1>4, <2>1
<1>7. all = [k \in 1..Len(all) |-> all[k]]
  BY <1>6
<1>8. all[Len(all)].next = n + 1
  <2>1. CASE Len(ps) = 0
    <3>1. p.next > n
      BY <2>1 DEF Tiles
    <3> QED
      BY <1>6, <2>1, <3>1
  <2>2. CASE Len(ps) # 0
    <3>1. ps[Len(ps)].next = n + 1
      BY <2>2 DEF Tiles
    <3>2. Len(all) \in 1..Len(all) /\ Len(all) # 1 /\ Len(all) - 1 = Len(ps)
      BY <1>2, <1>6, <2>2
    <3> QED
      BY <1>6, <3>1, <3>2
  <2> QED
    BY <2>1, <2>2
<1>9. ASSUME NEW k \in 1..Len(all)
      PROVE  /\ all[k].at \in at..n /\ all[k].next \in (all[k].at + 1)..(n + 1)
             /\ k # 1 => all[k].at = all[k - 1].next
  <2>1. CASE k = 1
    BY <1>6, <2>1
  <2>2. CASE k # 1
    <3>1. k - 1 \in 1..Len(ps) /\ Len(ps) # 0 /\ all[k] = ps[k - 1]
      BY <1>2, <1>6, <2>2
    <3>2. /\ ps[1].at = p.next
          /\ ps[k - 1].at \in p.next..n /\ ps[k - 1].next \in (ps[k - 1].at + 1)..(n + 1)
          /\ k - 1 # 1 => ps[k - 1].at = ps[k - 1 - 1].next
      BY <3>1 DEF Tiles
    <3>3. k - 1 # 1 => all[k - 1] = ps[k - 1 - 1]
      BY <1>2, <1>6, <3>1
    <3>4. k - 1 = 1 => all[k - 1] = p
      BY <1>6
    <3>5. all[k].at \in at..n /\ all[k].next \in (all[k].at + 1)..(n + 1)
      <4>1. ps[k - 1].at \in at..n
        BY <3>2
      <4> QED
        BY <3>1, <3>2, <4>1
    <3>6. all[k].at = all[k - 1].next
      BY <3>1, <3>2, <3>3, <3>4
    <3> QED
      BY <3>5, <3>6
  <2> QED
    BY <2>1, <2>2
<1>10. Tiles(all, at, n)
  BY <1>2, <1>6, <1>7, <1>8, <1>9 DEF Tiles
<1> QED
  BY <1>3, <1>5, <1>10

LEMMA PartsTile ==
  ASSUME NEW b, NEW it, NEW lines, Len(lines) \in Nat, DOMAIN lines = 1..Len(lines), NEW type
  PROVE  Tiles(Parts(b, it, lines, type), 1, Len(lines))
<1>1. PICK n \in Nat : n = Len(lines)
  OBVIOUS
<1> DEFINE pt == [i \in 1..n |-> PartAt(b, it, lines, i, type)]
           xs == [i \in 1..n |-> <<pt[i]>>]
           nx == [i \in 1..n |-> pt[i].next]
<1>2. \A i \in 1..n : pt[i] = PartAt(b, it, lines, i, type) /\ pt[i].at = i /\ pt[i].next \in (i + 1)..(n + 1)
  BY <1>1, PartIs
<1>3. \A i \in 1..n : xs[i] = <<pt[i]>> /\ nx[i] = pt[i].next
  OBVIOUS
<1> HIDE DEF pt, xs, nx
<1>4. PICK g : Walks(g, xs, nx, 1, n)
  BY <1>2, <1>3, WalkExists
<1> DEFINE Walking(f) ==
             f = [at \in 1..(Len(lines) + 1) |->
                    IF at > Len(lines) THEN <<>>
                    ELSE LET p == PartAt(b, it, lines, at, type) IN <<p>> \o f[p.next]]
           h == [i \in 1..(n + 1) |-> g[i]]
<1>5. Walking(h)
  <2>1. ASSUME NEW i \in 1..(n + 1)
        PROVE  h[i] = IF i > n THEN <<>>
                      ELSE <<PartAt(b, it, lines, i, type)>> \o h[PartAt(b, it, lines, i, type).next]
    <3>1. g[i] = IF i > n THEN <<>> ELSE xs[i] \o g[nx[i]]
      BY <1>4 DEF Walks
    <3>2. CASE i > n
      BY <3>1, <3>2
    <3>3. CASE ~(i > n)
      <4>1. i \in 1..n
        BY <3>3
      <4>2. /\ xs[i] = <<PartAt(b, it, lines, i, type)>> /\ nx[i] = PartAt(b, it, lines, i, type).next
            /\ nx[i] \in 1..(n + 1)
        BY <1>2, <1>3, <4>1
      <4>3. h[nx[i]] = g[nx[i]] /\ h[i] = g[i]
        BY <4>2
      <4> HIDE DEF h
      <4> QED
        BY <3>1, <3>3, <4>2, <4>3
    <3> QED
      BY <3>2, <3>3
  <2>2. h = [i \in 1..(n + 1) |-> h[i]]
    OBVIOUS
  <2> HIDE DEF h
  <2> QED
    BY <1>1, <2>1, <2>2
<1> DEFINE f == CHOOSE f : Walking(f)
<1>6. Walking(f)
  <2> HIDE DEF Walking, h
  <2> QED
    BY <1>5
<1>7. Parts(b, it, lines, type) = f[1]
  BY DEF Parts
<1> HIDE DEF f
<1>8. \A i \in 1..(n + 1) : f[i] = IF i > n THEN <<>> ELSE <<pt[i]>> \o f[pt[i].next]
  <2> SUFFICES ASSUME NEW i \in 1..(n + 1)
               PROVE  f[i] = IF i > n THEN <<>> ELSE <<pt[i]>> \o f[pt[i].next]
    OBVIOUS
  <2>1. f[i] = IF i > n THEN <<>>
               ELSE <<PartAt(b, it, lines, i, type)>> \o f[PartAt(b, it, lines, i, type).next]
    BY <1>1, <1>6
  <2>2. i <= n => pt[i] = PartAt(b, it, lines, i, type)
    BY <1>2
  <2> QED
    BY <2>1, <2>2
<1> HIDE DEF Walking
<1> DEFINE T == {m \in Nat : m <= n /\ ~Tiles(f[n + 1 - m], n + 1 - m, n)}
<1>9. CASE T = {}
  <2>1. n \notin T /\ n \in Nat /\ n <= n
    <3> HIDE DEF T
    <3> QED
      BY <1>9
  <2>2. Tiles(f[n + 1 - n], n + 1 - n, n)
    BY <2>1
  <2>3. n + 1 - n = 1
    OBVIOUS
  <2> HIDE DEF T
  <2> QED
    BY <1>1, <1>7, <2>2, <2>3
<1>10. CASE T # {}
  <2>1. PICK m \in T : \A k \in T : m <= k
    BY <1>10, LeastMember
  <2>2. CASE m = 0
    <3>1. f[n + 1] = <<>>
      <4>1. n + 1 \in 1..(n + 1) /\ n + 1 > n
        OBVIOUS
      <4> QED
        BY <1>8, <4>1
    <3>2. PICK none : none = <<>>
      OBVIOUS
    <3>3. Len(none) = 0 /\ none = [k \in 1..Len(none) |-> none[k]]
      BY <3>2
    <3>4. Tiles(none, n + 1, n)
      BY <3>3 DEF Tiles
    <3> QED
      BY <2>1, <2>2, <3>1, <3>2, <3>4
  <2>3. CASE m # 0
    <3>1. PICK i \in 1..n : i = n + 1 - m
      BY <2>1, <2>3
    <3>2. pt[i].at = i /\ pt[i].next \in (i + 1)..(n + 1) /\ f[i] = <<pt[i]>> \o f[pt[i].next]
      <4>1. i \in 1..(n + 1) /\ ~(i > n)
        OBVIOUS
      <4> QED
        BY <1>2, <1>8, <4>1
    <3>3. PICK k \in Nat : k = n + 1 - pt[i].next
      BY <3>2
    <3>4. k < m /\ k <= n /\ n + 1 - k = pt[i].next
      <4>1. pt[i].next \in Int /\ pt[i].next > i
        BY <3>2
      <4>2. m \in Nat /\ m <= n
        BY <2>1
      <4>3. PICK x \in Int : x = pt[i].next
        BY <4>1
      <4>4. k = n + 1 - x /\ x > i
        BY <3>3, <4>1, <4>3
      <4>5. k < m /\ k <= n /\ n + 1 - k = x
        <5> HIDE DEF T
        <5> QED
          BY <3>1, <4>2, <4>4
      <4> QED
        BY <4>3, <4>5
    <3>5. k \notin T
      <4>1. m \in Nat /\ \A x \in T : m <= x
        BY <2>1
      <4> HIDE DEF T
      <4> QED
        BY <3>3, <3>4, <4>1
    <3>6. Tiles(f[pt[i].next], pt[i].next, n)
      <4>1. ~(k \in Nat /\ k <= n /\ ~Tiles(f[n + 1 - k], n + 1 - k, n))
        BY <3>5
      <4> HIDE DEF T
      <4> QED
        BY <3>3, <3>4, <4>1
    <3>7. Tiles(f[i], i, n)
      BY <3>1, <3>2, <3>6, TileBefore
    <3> QED
      BY <2>1, <3>1, <3>7
  <2> QED
    BY <2>2, <2>3
<1> QED
  BY <1>9, <1>10

-----------------------------------------------------------------------------
(* What the modifiers of a list say, one after another.                    *)

\* The parts of a list come to what the list comes to.
Lengthens(F, ps, seqs) ==
  F[0] = <<>> /\ \A i \in 1..Len(ps) : F[ps[i].next - 1] = F[ps[i].at - 1] \o seqs[i]

LEMMA FlattenTiles ==
  ASSUME NEW V, NEW n \in Nat, NEW ps, Tiles(ps, 1, n), NEW seqs, Lists(V, seqs, Len(ps)),
         NEW F, Lengthens(F, ps, seqs)
  PROVE  FlattenSeq(seqs) = F[n]
<1>1. PICK c \in Nat : c = Len(ps)
  BY DEF Tiles
<1> DEFINE P == [k \in 0..c |-> IF k = 0 THEN <<>> ELSE F[ps[k].next - 1]]
<1>2. P[0] = <<>>
  OBVIOUS
<1>3. ASSUME NEW k \in 1..c PROVE P[k] = P[k - 1] \o seqs[k]
  <2>1. P[k] = F[ps[k].at - 1] \o seqs[k]
    <3>1. P[k] = F[ps[k].next - 1]
      OBVIOUS
    <3> HIDE DEF P
    <3> QED
      BY <1>1, <3>1 DEF Lengthens
  <2>2. k - 1 \in 0..c
    OBVIOUS
  <2>3. P[k - 1] = F[ps[k].at - 1]
    <3>1. CASE k = 1
      <4>1. ps[k].at = 1
        <5>1. Len(ps) # 0
          BY <1>1
        <5> QED
          BY <3>1, <5>1 DEF Tiles
      <4>2. ps[k].at - 1 = 0 /\ P[k - 1] = <<>>
        BY <3>1, <4>1
      <4> QED
        BY <4>2 DEF Lengthens
    <3>2. CASE k # 1
      <4>1. ps[k].at = ps[k - 1].next
        BY <1>1, <3>2 DEF Tiles
      <4> QED
        BY <2>2, <3>2, <4>1
    <3> QED
      BY <3>1, <3>2
  <2> HIDE DEF P
  <2> QED
    BY <2>1, <2>3
<1>4. P[c] = F[n]
  <2>1. CASE c = 0
    <3>1. n = 0
      <4>1. 1 > n
        BY <1>1, <2>1 DEF Tiles
      <4> QED
        BY <4>1
    <3> QED
      BY <2>1, <3>1 DEF Lengthens
  <2>2. CASE c # 0
    <3>1. ps[c].next = n + 1
      BY <1>1, <2>2 DEF Tiles
    <3>2. ps[c].next - 1 = n /\ c \in 0..c
      BY <3>1
    <3> QED
      BY <2>2, <3>2
  <2> QED
    BY <2>1, <2>2
<1> HIDE DEF P
<1>5. CountsUp(P, seqs, c)
  BY <1>2, <1>3 DEF CountsUp
<1>6. FlattenSeq(seqs) = P[c]
  <2>1. Lists(V, seqs, c)
    BY <1>1 DEF Lists
  <2> QED
    BY <1>1, <1>5, <2>1, FlattenBy
<1> QED
  BY <1>4, <1>6

\* What AffixesKept compares: what each modifier of a list adds to its lines, its
\* reminders and the affixes it opens.
Each(kind, m) ==
  IF kind = "lines" THEN [k \in DOMAIN m.lines |-> <<m.type, m.lines[k]>>]
  ELSE IF kind = "reminders" THEN m.reminder
  ELSE IF m.info # Absent /\ ~m.continuation THEN <<m.info>> ELSE <<>>
Flat(kind, ms) == FlattenSeq([i \in DOMAIN ms |-> Each(kind, ms[i])])

Values(t) == (Kinds(t) \X Says(t)) \cup Says(t) \cup Infos(t)
AsRead(t, m) == /\ m.type \in Kinds(t) /\ m.info \in Infos(t)
                /\ m.lines \in Seq(Says(t)) /\ m.reminder \in Seq(Values(t))
AreMods(t, ms) == /\ Len(ms) \in Nat /\ ms = [i \in 1..Len(ms) |-> ms[i]]
                  /\ \A i \in 1..Len(ms) : AsRead(t, ms[i])

LEMMA EachIsSeq ==
  ASSUME NEW t, NEW m, AsRead(t, m), NEW kind
  PROVE  Each(kind, m) \in Seq(Values(t))
<1>1. CASE kind = "lines"
  <2>1. PICK n \in Nat : n = Len(m.lines)
    BY DEF AsRead
  <2>2. DOMAIN m.lines = 1..n /\ \A k \in 1..n : m.lines[k] \in Says(t)
    BY <2>1 DEF AsRead
  <2>3. PICK s : s = [k \in 1..n |-> <<m.type, m.lines[k]>>]
    OBVIOUS
  <2>4. \A k \in 1..n : <<m.type, m.lines[k]>> \in Values(t)
    BY <2>2 DEF AsRead, Values
  <2>5. s \in Seq(Values(t))
    BY <2>3, <2>4
  <2>6. Each(kind, m) = s
    BY <1>1, <2>2, <2>3 DEF Each
  <2> QED
    BY <2>5, <2>6
<1>2. CASE kind = "reminders"
  BY <1>2 DEF Each, AsRead
<1>3. CASE kind # "lines" /\ kind # "reminders"
  <2>1. Each(kind, m) \in {<<m.info>>, <<>>}
    BY <1>3 DEF Each
  <2>2. m.info \in Values(t)
    BY DEF AsRead, Values
  <2>3. <<m.info>> \in Seq(Values(t)) /\ <<>> \in Seq(Values(t))
    BY <2>2
  <2> QED
    BY <2>1, <2>3
<1> QED
  BY <1>1, <1>2, <1>3

\* A count of what a list of modifiers comes to.
Flattens(kind, P, ms) == CountsUp(P, [i \in 1..Len(ms) |-> Each(kind, ms[i])], Len(ms))

LEMMA FlatCounts ==
  ASSUME NEW t, NEW ms, AreMods(t, ms), NEW kind
  PROVE  \E P : /\ Flattens(kind, P, ms)
                /\ Flat(kind, ms) = P[Len(ms)] /\ Flat(kind, ms) \in Seq(Values(t))
<1>1. PICK n \in Nat : n = Len(ms)
  BY DEF AreMods
<1>2. PICK seqs : seqs = [i \in 1..n |-> Each(kind, ms[i])]
  OBVIOUS
<1>3. \A k \in 1..n : seqs[k] \in Seq(Values(t))
  BY <1>1, <1>2, EachIsSeq DEF AreMods
<1>4. PICK P : CountsUp(P, seqs, n)
  BY <1>3, Counted
<1>5. Lists(Values(t), seqs, n)
  BY <1>2, <1>3 DEF Lists
<1>6. FlattenSeq(seqs) = P[n] /\ FlattenSeq(seqs) \in Seq(Values(t))
  BY <1>4, <1>5, FlattenBy
<1>7. DOMAIN ms = 1..n
  BY <1>1 DEF AreMods
<1>8. Flat(kind, ms) = FlattenSeq(seqs)
  BY <1>2, <1>7 DEF Flat
<1> QED
  BY <1>1, <1>2, <1>4, <1>6, <1>8 DEF Flattens

LEMMA Reassociated ==
  ASSUME NEW t PROVE \A x, y, z \in Seq(Values(t)) : (x \o y) \o z = x \o (y \o z)
<1>1. PICK V : V = Values(t)
  OBVIOUS
<1>2. \A x, y, z \in Seq(V) : (x \o y) \o z = x \o (y \o z)
  BY ConcatAssociative
<1> QED
  BY <1>1, <1>2

\* What a stretch of a list comes to is what is counted up to its end but not to its
\* start.
Stretch(part, m, seqs, i) == \A k \in 1..m : part[k] = seqs[i + k]

LEMMA FlatOfStretch ==
  ASSUME NEW t, NEW ms, AreMods(t, ms), NEW kind, NEW P, Flattens(kind, P, ms)
  PROVE  \A some : \A i \in Nat :
           AreMods(t, some) /\ i + Len(some) <= Len(ms) /\ Stretch(some, Len(some), ms, i)
             => P[i + Len(some)] = P[i] \o Flat(kind, some)
<1> SUFFICES ASSUME NEW some, NEW i \in Nat, AreMods(t, some), i + Len(some) <= Len(ms),
                    Stretch(some, Len(some), ms, i)
             PROVE  P[i + Len(some)] = P[i] \o Flat(kind, some)
  OBVIOUS
<1>1. PICK n \in Nat, m \in Nat : n = Len(ms) /\ m = Len(some)
  BY DEF AreMods
<1>2. PICK seqs, part : seqs = [k \in 1..n |-> Each(kind, ms[k])] /\ part = [k \in 1..m |-> Each(kind, some[k])]
  OBVIOUS
<1>3. Lists(Values(t), seqs, n)
  <2>1. \A k \in 1..n : seqs[k] \in Seq(Values(t))
    BY <1>1, <1>2, EachIsSeq DEF AreMods
  <2> QED
    BY <1>2, <2>1 DEF Lists
<1>4. CountsUp(P, seqs, n)
  BY <1>1, <1>2 DEF Flattens
<1>5. PICK Q : CountsUp(Q, part, m) /\ Flat(kind, some) = Q[m]
  BY <1>1, <1>2, FlatCounts DEF Flattens
<1>6. Stretch(part, m, seqs, i)
  <2> SUFFICES ASSUME NEW k \in 1..m PROVE part[k] = seqs[i + k]
    BY DEF Stretch
  <2>1. i + k \in 1..n
    BY <1>1
  <2> QED
    BY <1>1, <1>2, <2>1 DEF Stretch
<1>7. P[i + m] = P[i] \o Q[m]
  <2>0. (\A k \in 1..n : seqs[k] \in Seq(Values(t))) /\ \A k \in 1..m : part[k] = seqs[i + k]
    BY <1>3, <1>6 DEF Lists, Stretch
  <2>00. n \in Nat /\ m \in Nat /\ i + m <= n /\ CountsUp(P, seqs, n) /\ CountsUp(Q, part, m)
    BY <1>1, <1>4, <1>5
  <2>1. \A k \in 0..n : P[k] \in Seq(Values(t))
    BY <2>0, <2>00, CountsInSeq
  <2>2. \A k \in 1..m : part[k] \in Seq(Values(t))
    <3> SUFFICES ASSUME NEW k \in 1..m PROVE part[k] \in Seq(Values(t))
      OBVIOUS
    <3>1. i + k \in 1..n
      BY <2>00
    <3> QED
      BY <2>0, <3>1
  <2>3. \A k \in 0..m : Q[k] \in Seq(Values(t))
    BY <2>00, <2>2, CountsInSeq
  <2>9. \A x, y, z \in Seq(Values(t)) : (x \o y) \o z = x \o (y \o z)
    BY ONLY Reassociated
  <2> DEFINE T == {k \in Nat : k <= m /\ P[i + k] # P[i] \o Q[k]}
  <2>4. SUFFICES ASSUME T # {} PROVE FALSE
    <3> m \in Nat /\ m <= m
      OBVIOUS
    <3> QED
      BY <2>4
  <2>5. PICK k \in T : \A x \in T : k <= x
    BY <2>4, LeastMember
  <2>6. i \in 0..n /\ P[i] \in Seq(Values(t))
    BY <2>00, <2>1
  <2>7. CASE k = 0
    <3>1. P[i] \o <<>> = P[i]
      BY <2>6, ConcatEmptySeq
    <3>2. Q[0] = <<>> /\ i + 0 = i
      BY <2>00 DEF CountsUp
    <3> QED
      BY <2>5, <2>7, <3>1, <3>2
  <2>8. CASE k # 0
    <3>0. k \in Nat /\ k <= m /\ P[i + k] # P[i] \o Q[k] /\ \A x \in T : k <= x
      BY <2>5
    <3>1. k - 1 \in Nat /\ k \in 1..m /\ k - 1 \in 0..m /\ k - 1 <= m /\ k - 1 \notin T
      <4> HIDE DEF T
      <4> QED
        BY <2>8, <3>0
    <3>2. P[i + (k - 1)] = P[i] \o Q[k - 1]
      BY <3>1
    <3>3. P[i + k] = P[i + (k - 1)] \o seqs[i + k]
      <4>1. PICK x \in 1..n : x = i + k
        BY <2>00, <3>1
      <4>2. x - 1 = i + (k - 1)
        BY <3>1, <4>1
      <4>3. P[x] = P[x - 1] \o seqs[x]
        BY <2>00, <4>1 DEF CountsUp
      <4> QED
        BY <4>1, <4>2, <4>3
    <3>4. Q[k] = Q[k - 1] \o part[k] /\ part[k] = seqs[i + k] /\ part[k] \in Seq(Values(t)) /\ Q[k - 1] \in Seq(Values(t))
      BY <2>0, <2>00, <2>2, <2>3, <3>1 DEF CountsUp
    <3>5. (P[i] \o Q[k - 1]) \o part[k] = P[i] \o (Q[k - 1] \o part[k])
      <4> HIDE DEF T
      <4> QED
        BY <2>6, <2>9, <3>4
    <3> HIDE DEF T
    <3> QED
      BY <3>0, <3>2, <3>3, <3>4, <3>5
  <2> QED
    BY <2>7, <2>8
<1> QED
  BY <1>1, <1>5, <1>7

LEMMA FlatOfConcat ==
  ASSUME NEW t, NEW a, NEW b, AreMods(t, a), AreMods(t, b), NEW kind
  PROVE  AreMods(t, a \o b) /\ Flat(kind, a \o b) = Flat(kind, a) \o Flat(kind, b)
<1>1. PICK n \in Nat, m \in Nat : n = Len(a) /\ m = Len(b)
  BY DEF AreMods
<1>2. PICK X : X = {a[k] : k \in 1..n} \cup {b[k] : k \in 1..m}
  OBVIOUS
<1>3. a \in Seq(X) /\ b \in Seq(X)
  <2>1. a = [k \in 1..n |-> a[k]] /\ b = [k \in 1..m |-> b[k]]
    BY <1>1 DEF AreMods
  <2>2. (\A k \in 1..n : a[k] \in X) /\ (\A k \in 1..m : b[k] \in X)
    BY <1>2
  <2>3. a \in [1..n -> X] /\ b \in [1..m -> X]
    BY <2>1, <2>2
  <2> QED
    BY <2>3
<1>4. PICK c : c = a \o b
  OBVIOUS
<1>5. /\ c \in Seq(X) /\ Len(c) = n + m
      /\ \A k \in 1..(n + m) : c[k] = IF k <= n THEN a[k] ELSE b[k - n]
  BY <1>1, <1>3, <1>4, ConcatProperties
<1>6. AreMods(t, c)
  <2>1. c = [k \in 1..Len(c) |-> c[k]]
    BY <1>5
  <2>2. ASSUME NEW k \in 1..Len(c) PROVE AsRead(t, c[k])
    <3>1. k <= n => k \in 1..n
      OBVIOUS
    <3>2. ~(k <= n) => k - n \in 1..m
      BY <1>5
    <3> QED
      BY <1>1, <1>5, <3>1, <3>2 DEF AreMods
  <2> QED
    BY <1>5, <2>1, <2>2 DEF AreMods
<1>7. PICK P : Flattens(kind, P, c) /\ Flat(kind, c) = P[Len(c)]
  BY <1>6, FlatCounts
<1>8. P[0 + Len(a)] = P[0] \o Flat(kind, a)
  <2>1. 0 + Len(a) <= Len(c) /\ Stretch(a, Len(a), c, 0)
    BY <1>1, <1>5 DEF Stretch
  <2> QED
    BY <1>6, <1>7, <2>1, FlatOfStretch
<1>9. P[n + Len(b)] = P[n] \o Flat(kind, b)
  <2>1. n + Len(b) <= Len(c) /\ Stretch(b, Len(b), c, n)
    BY <1>1, <1>5 DEF Stretch
  <2> QED
    BY <1>6, <1>7, <2>1, FlatOfStretch
<1>10. P[0] = <<>> /\ <<>> \o Flat(kind, a) = Flat(kind, a)
  <2>1. Flat(kind, a) \in Seq(Values(t))
    BY FlatCounts
  <2> QED
    BY <1>7, <2>1, ConcatEmptySeq DEF CountsUp, Flattens
<1>11. P[n] = Flat(kind, a)
  <2>1. 0 + Len(a) = n
    BY <1>1
  <2> QED
    BY <1>8, <1>10, <2>1
<1> QED
  BY <1>1, <1>4, <1>5, <1>6, <1>7, <1>9, <1>11

AddsUp(F, ps, kind, ms) ==
  F[0] = <<>> /\ \A i \in 1..Len(ms) : F[ps[i].next - 1] = F[ps[i].at - 1] \o Each(kind, ms[i])

LEMMA FlatByTiles ==
  ASSUME NEW t, NEW ms, AreMods(t, ms), NEW kind, NEW n \in Nat, NEW ps, Tiles(ps, 1, n),
         Len(ps) = Len(ms), NEW F, AddsUp(F, ps, kind, ms)
  PROVE  Flat(kind, ms) = F[n]
<1>1. PICK c \in Nat : c = Len(ms)
  BY DEF AreMods
<1>2. PICK seqs : seqs = [i \in 1..c |-> Each(kind, ms[i])]
  OBVIOUS
<1>3. DOMAIN ms = 1..c
  BY <1>1 DEF AreMods
<1>4. Lists(Values(t), seqs, Len(ps))
  <2>1. \A k \in 1..c : seqs[k] \in Seq(Values(t))
    BY <1>1, <1>2, EachIsSeq DEF AreMods
  <2>2. Len(ps) = c
    BY <1>1
  <2> QED
    BY <1>2, <2>1, <2>2 DEF Lists
<1>5. Lengthens(F, ps, seqs)
  <2>1. F[0] = <<>>
    BY DEF AddsUp
  <2>2. ASSUME NEW i \in 1..Len(ps) PROVE F[ps[i].next - 1] = F[ps[i].at - 1] \o seqs[i]
    <3>1. seqs[i] = Each(kind, ms[i]) /\ i \in 1..Len(ms)
      BY <1>1, <1>2
    <3> QED
      BY <3>1 DEF AddsUp
  <2> QED
    BY <2>1, <2>2 DEF Lengthens
<1>6. FlattenSeq(seqs) = F[n]
  BY ONLY n \in Nat, Tiles(ps, 1, n), <1>4, <1>5, FlattenTiles
<1>7. Flat(kind, ms) = FlattenSeq(seqs)
  BY <1>2, <1>3 DEF Flat
<1> QED
  BY <1>6, <1>7

\* The lines of a modifier, each under its type.
Typed(type, lines) == [k \in DOMAIN lines |-> <<type, lines[k]>>]

LEMMA TypedPart ==
  ASSUME NEW S, NEW lines \in Seq(S), NEW type, NEW at \in 1..Len(lines),
         NEW next \in (at + 1)..(Len(lines) + 1)
  PROVE  SubSeq(Typed(type, lines), 1, next - 1)
           = SubSeq(Typed(type, lines), 1, at - 1) \o Typed(type, SubSeq(lines, at, next - 1))
<1>1. PICK n \in Nat : n = Len(lines)
  OBVIOUS
<1>2. DOMAIN lines = 1..n /\ \A k \in 1..n : lines[k] \in S
  BY <1>1
<1>3. PICK X : X = {type} \X S
  OBVIOUS
<1>4. PICK all : all = Typed(type, lines)
  OBVIOUS
<1>5. all = [k \in 1..n |-> <<type, lines[k]>>]
  BY <1>2, <1>4 DEF Typed
<1>6. all \in Seq(X) /\ Len(all) = n /\ \A k \in 1..n : all[k] = <<type, lines[k]>>
  <2>1. \A k \in 1..n : <<type, lines[k]>> \in X
    BY <1>2, <1>3
  <2> QED
    BY <1>5, <2>1
<1>7. PICK part : part = SubSeq(lines, at, next - 1)
  OBVIOUS
<1>8. PICK len \in Nat : len = next - at
  BY <1>1
<1>9. /\ part \in Seq(S) /\ Len(part) = len /\ \A k \in 1..len : part[k] = lines[at + k - 1]
  <2>1. at \in Int /\ next - 1 \in Int /\ \A k \in at..(next - 1) : lines[k] \in S
    BY <1>1, <1>2
  <2>2. /\ part \in Seq(S) /\ Len(part) = IF at <= next - 1 THEN next - 1 - at + 1 ELSE 0
        /\ \A k \in 1..(next - 1 - at + 1) : part[k] = lines[at + k - 1]
    BY <1>7, <2>1, SubSeqProperties
  <2>3. at <= next - 1 /\ next - 1 - at + 1 = len
    BY <1>1, <1>8
  <2> QED
    BY <2>2, <2>3
<1>10. PICK some : some = SubSeq(all, at, next - 1)
  OBVIOUS
<1>11. /\ some \in Seq(X) /\ Len(some) = len /\ \A k \in 1..len : some[k] = all[at + k - 1]
  <2>1. at \in Int /\ next - 1 \in Int /\ \A k \in at..(next - 1) : all[k] \in X
    BY <1>1, <1>6
  <2>2. /\ some \in Seq(X) /\ Len(some) = IF at <= next - 1 THEN next - 1 - at + 1 ELSE 0
        /\ \A k \in 1..(next - 1 - at + 1) : some[k] = all[at + k - 1]
    BY <1>10, <2>1, SubSeqProperties
  <2>3. at <= next - 1 /\ next - 1 - at + 1 = len
    BY <1>1, <1>8
  <2> QED
    BY <2>2, <2>3
<1>12. Typed(type, part) = some
  <2>1. DOMAIN part = 1..len /\ some = [k \in 1..len |-> some[k]]
    BY <1>9, <1>11
  <2>2. ASSUME NEW k \in 1..len PROVE <<type, part[k]>> = some[k]
    <3>1. at + k - 1 \in 1..n
      BY <1>1, <1>8
    <3> QED
      BY <1>6, <1>9, <1>11, <3>1
  <2> QED
    BY <2>1, <2>2 DEF Typed
<1>13. SubSeq(all, 1, at - 1) \o SubSeq(all, at - 1 + 1, next - 1) = SubSeq(all, 1, next - 1)
  <2>1. 1 \in 1..(Len(all) + 1) /\ at - 1 \in (1 - 1)..Len(all) /\ next - 1 \in (at - 1)..Len(all)
    BY <1>1, <1>6
  <2> QED
    BY <1>6, <2>1, ConcatAdjacentSubSeq
<1>14. at - 1 + 1 = at
  BY <1>1
<1> QED
  BY <1>4, <1>7, <1>10, <1>12, <1>13, <1>14

Compared == {"lines", "reminders", "opens"}

\* What one affix is cut into says what the affix does.
LEMMA SplitAffixIs ==
  ASSUME NEW t, NEW m \in Mods(t), m.info # Absent, Complete(m), NEW b, NEW it
  PROVE  /\ AreMods(t, SplitAffix(b, it, m))
         /\ \A kind \in Compared : Flat(kind, SplitAffix(b, it, m)) = Each(kind, m)
<1>1. PICK n \in Nat : n = Len(m.lines)
  BY DEF Mods
<1>2. n # 0 /\ m.lines \in Seq(Says(t)) /\ DOMAIN m.lines = 1..n
  BY <1>1 DEF Mods, Complete
<1>3. PICK ps : ps = Parts(b, it, m.lines, m.type)
  OBVIOUS
<1>4. Tiles(ps, 1, n)
  BY <1>1, <1>2, <1>3, PartsTile
<1>5. PICK c \in Nat : c = Len(ps) /\ DOMAIN ps = 1..c
  BY <1>4 DEF Tiles
<1>6. \A i \in 1..c : ps[i].at \in 1..n /\ ps[i].next \in (ps[i].at + 1)..(n + 1)
  BY <1>2, <1>4, <1>5 DEF Tiles
<1>7. PICK ms : ms = SplitAffix(b, it, m)
  OBVIOUS
<1> DEFINE part(p) == [m EXCEPT !.continuation = p.at # 1, !.lines = SubSeq(m.lines, p.at, p.next - 1),
                                !.match = p.match,
                                !.reminder = IF p.next > Len(m.lines) THEN @ ELSE <<>>]
<1>8. ms = [i \in 1..c |-> part(ps[i])]
  BY <1>3, <1>5, <1>7 DEF SplitAffix
<1>9. Len(ms) = c /\ DOMAIN ms = 1..c /\ ms = [i \in 1..Len(ms) |-> ms[i]]
  <2> HIDE DEF part
  <2> QED
    BY <1>5, <1>8
<1>10. ASSUME NEW i \in 1..c
       PROVE  /\ ms[i].type = m.type /\ ms[i].info = m.info /\ ms[i].continuation = (ps[i].at # 1)
              /\ ms[i].lines = SubSeq(m.lines, ps[i].at, ps[i].next - 1)
              /\ ms[i].reminder = IF ps[i].next > n THEN m.reminder ELSE <<>>
  <2>1. ms[i] = part(ps[i])
    BY <1>8
  <2>2. DOMAIN m = {"type", "lines", "reminder", "info", "continuation", "match"}
    BY DEF Mods
  <2> QED
    BY <1>1, <2>1, <2>2
<1> HIDE DEF part
<1>11. AreMods(t, ms)
  <2>1. ASSUME NEW i \in 1..c PROVE AsRead(t, ms[i])
    <3>1. ms[i].lines \in Seq(Says(t))
      <4>1. \A k \in ps[i].at..(ps[i].next - 1) : m.lines[k] \in Says(t)
        <5> SUFFICES ASSUME NEW k \in ps[i].at..(ps[i].next - 1) PROVE m.lines[k] \in Says(t)
          OBVIOUS
        <5>1. k \in 1..n
          BY <1>6
        <5> QED
          BY <1>1, <1>2, <5>1
      <4>2. ps[i].at \in Int /\ ps[i].next - 1 \in Int
        BY <1>6
      <4>3. SubSeq(m.lines, ps[i].at, ps[i].next - 1) \in Seq(Says(t))
        BY <4>1, <4>2, SubSeqProperties
      <4> QED
        BY <1>10, <4>3
    <3>2. /\ m.type \in Kinds(t) /\ m.info \in Infos(t)
          /\ m.reminder \in Seq(Values(t)) /\ <<>> \in Seq(Values(t))
      <4>1. Says(t) \subseteq Values(t) /\ m.reminder \in Seq(Says(t))
        BY DEF Values, Mods
      <4>2. m.reminder \in Seq(Values(t))
        BY <4>1, SeqMonotonic
      <4> QED
        BY <4>2, EmptySeq DEF Mods
    <3> QED
      BY <1>10, <3>1, <3>2 DEF AsRead
  <2> QED
    BY <1>9, <2>1 DEF AreMods
<1>0. \A i \in 1..Len(ms) : ps[i].next - 1 \in 0..n /\ ps[i].next - 1 # 0 /\ ps[i].at - 1 \in 0..n /\ i \in 1..c
  <2> SUFFICES ASSUME NEW i \in 1..c
               PROVE  ps[i].next - 1 \in 0..n /\ ps[i].next - 1 # 0 /\ ps[i].at - 1 \in 0..n
    BY <1>9
  <2>1. ps[i].at \in 1..n /\ ps[i].next \in (ps[i].at + 1)..(n + 1)
    BY <1>6
  <2>2. PICK x, y : x = ps[i].at /\ y = ps[i].next
    OBVIOUS
  <2>3. x \in 1..n /\ y \in (x + 1)..(n + 1)
    BY <2>1, <2>2
  <2>4. y - 1 \in 0..n /\ y - 1 # 0 /\ x - 1 \in 0..n
    BY ONLY n \in Nat, <2>3
  <2> QED
    BY ONLY <2>2, <2>4
<1>12. Flat("lines", ms) = Each("lines", m)
  <2>1. PICK all : all = Typed(m.type, m.lines)
    OBVIOUS
  <2>2. all \in Seq({m.type} \X Says(t)) /\ Len(all) = n
    <3>1. all = [k \in 1..n |-> <<m.type, m.lines[k]>>] /\ \A k \in 1..n : m.lines[k] \in Says(t)
      BY <1>1, <1>2, <2>1 DEF Typed
    <3> QED
      BY <3>1
  <2> DEFINE F == [k \in 0..n |-> SubSeq(all, 1, k)]
  <2>3. F[0] = <<>> /\ F[n] = all
    <3>1. SubSeq(all, 1, 0) = <<>>
      BY SubSeqEmpty
    <3>2. SubSeq(all, 1, n) = all
      BY <2>2, SubSeqFull
    <3> QED
      BY <3>1, <3>2
  <2>4. ASSUME NEW i \in 1..Len(ms) PROVE F[ps[i].next - 1] = F[ps[i].at - 1] \o Each("lines", ms[i])
    <3>1. ps[i].next - 1 \in 0..n /\ ps[i].at - 1 \in 0..n /\ i \in 1..c
      BY <1>0
    <3>2. Each("lines", ms[i]) = Typed(m.type, SubSeq(m.lines, ps[i].at, ps[i].next - 1))
      BY <1>10, <3>1 DEF Each, Typed
    <3>3. F[ps[i].next - 1] = SubSeq(all, 1, ps[i].next - 1) /\ F[ps[i].at - 1] = SubSeq(all, 1, ps[i].at - 1)
      BY <3>1
    <3>4. SubSeq(all, 1, ps[i].next - 1)
            = SubSeq(all, 1, ps[i].at - 1) \o Typed(m.type, SubSeq(m.lines, ps[i].at, ps[i].next - 1))
      BY <1>1, <1>2, <1>6, <2>1, <3>1, TypedPart
    <3> HIDE DEF F
    <3> QED
      BY <3>2, <3>3, <3>4
  <2> HIDE DEF F
  <2>5. AddsUp(F, ps, "lines", ms)
    BY <2>3, <2>4 DEF AddsUp
  <2>6. Flat("lines", ms) = F[n]
    BY <1>4, <1>5, <1>9, <1>11, <2>5, FlatByTiles
  <2>7. Each("lines", m) = all
    BY <2>1 DEF Each, Typed
  <2> QED
    BY <2>3, <2>6, <2>7
<1>13. Flat("reminders", ms) = Each("reminders", m)
  <2>1. m.reminder \in Seq(Says(t))
    BY DEF Mods
  <2>2. PICK r \in Seq(Says(t)) : r = m.reminder
    BY <2>1
  <2>3. <<>> \o r = r /\ <<>> \o <<>> = <<>>
    BY <2>2, ConcatEmptySeq, EmptySeq
  <2> DEFINE F == [k \in 0..n |-> IF k = n THEN r ELSE <<>>]
  <2>4. F[0] = <<>> /\ F[n] = r
    BY <1>2
  <2>5. ASSUME NEW i \in 1..Len(ms) PROVE F[ps[i].next - 1] = F[ps[i].at - 1] \o Each("reminders", ms[i])
    <3>1. ps[i].next - 1 \in 0..n /\ ps[i].at - 1 \in 0..n /\ ps[i].at - 1 # n /\ i \in 1..c
      <4>1. i \in 1..c
        BY <1>9
      <4>2. PICK at \in 1..n : at = ps[i].at
        BY <1>6, <4>1
      <4>3. PICK next \in (at + 1)..(n + 1) : next = ps[i].next
        BY <1>6, <4>1, <4>2
      <4>4. next \in Int /\ next <= n + 1 /\ next >= at + 1
        OBVIOUS
      <4>5. next - 1 \in 0..n
        BY <4>4
      <4>6. at - 1 \in 0..n
        OBVIOUS
      <4>7. at - 1 # n
        OBVIOUS
      <4> QED
        BY <4>1, <4>2, <4>3, <4>5, <4>6, <4>7
    <3>2. Each("reminders", ms[i]) = IF ps[i].next > n THEN r ELSE <<>>
      BY <1>10, <2>2, <3>1 DEF Each
    <3>3. F[ps[i].at - 1] = <<>> /\ F[ps[i].next - 1] = IF ps[i].next - 1 = n THEN r ELSE <<>>
      BY <3>1
    <3>4. ps[i].next > n <=> ps[i].next - 1 = n
      <4>1. PICK x : x = ps[i].next
        OBVIOUS
      <4>2. x \in Int /\ x <= n + 1
        BY <1>6, <3>1, <4>1
      <4>3. x > n <=> x - 1 = n
        BY ONLY n \in Nat, <4>2
      <4> QED
        BY ONLY <4>1, <4>3
    <3> HIDE DEF F
    <3> QED
      BY <2>3, <3>2, <3>3, <3>4
  <2> HIDE DEF F
  <2>6. AddsUp(F, ps, "reminders", ms)
    BY <2>4, <2>5 DEF AddsUp
  <2>7. Flat("reminders", ms) = F[n]
    BY <1>4, <1>5, <1>9, <1>11, <2>6, FlatByTiles
  <2>8. Each("reminders", m) = r
    BY <2>2 DEF Each
  <2> QED
    BY <2>4, <2>7, <2>8
<1>14. Flat("opens", ms) = Each("opens", m)
  <2>1. PICK one : one = <<m.info>>
    OBVIOUS
  <2>2. one \in Seq({m.info})
    BY <2>1
  <2>3. <<>> \o one = one /\ one \o <<>> = one
    BY <2>2, ConcatEmptySeq
  <2> DEFINE F == [k \in 0..n |-> IF k = 0 THEN <<>> ELSE one]
  <2>4. F[0] = <<>> /\ F[n] = one
    BY <1>2
  <2>5. ASSUME NEW i \in 1..Len(ms) PROVE F[ps[i].next - 1] = F[ps[i].at - 1] \o Each("opens", ms[i])
    <3>1. ps[i].next - 1 \in 0..n /\ ps[i].next - 1 # 0 /\ ps[i].at - 1 \in 0..n /\ i \in 1..c
      BY <1>0
    <3>2. Each("opens", ms[i]) = IF ps[i].at = 1 THEN one ELSE <<>>
      BY <1>10, <2>1, <3>1 DEF Each
    <3>3. F[ps[i].at - 1] = (IF ps[i].at - 1 = 0 THEN <<>> ELSE one) /\ F[ps[i].next - 1] = one
      BY <3>1
    <3>4. ps[i].at = 1 <=> ps[i].at - 1 = 0
      BY <1>6, <3>1
    <3> HIDE DEF F
    <3> QED
      BY <2>3, <3>2, <3>3, <3>4
  <2> HIDE DEF F
  <2>6. AddsUp(F, ps, "opens", ms)
    BY <2>4, <2>5 DEF AddsUp
  <2>7. Flat("opens", ms) = F[n]
    BY <1>4, <1>5, <1>9, <1>11, <2>6, FlatByTiles
  <2>8. m.continuation = FALSE
    BY DEF Mods
  <2>9. Each("opens", m) = one
    BY <2>1, <2>8 DEF Each
  <2> QED
    BY <2>4, <2>7, <2>9
<1> QED
  BY <1>7, <1>11, <1>12, <1>13, <1>14 DEF Compared

LEMMA ModsAreMods == ASSUME NEW t, NEW ms \in Seq(Mods(t)) PROVE AreMods(t, ms)
<1>1. Len(ms) \in Nat /\ ms = [i \in 1..Len(ms) |-> ms[i]]
  OBVIOUS
<1>2. ASSUME NEW i \in 1..Len(ms) PROVE AsRead(t, ms[i])
  <2>1. PICK m \in Mods(t) : m = ms[i]
    OBVIOUS
  <2>2. Says(t) \subseteq Values(t) /\ m.reminder \in Seq(Says(t))
    BY DEF Values, Mods
  <2>3. m.reminder \in Seq(Values(t))
    BY <2>2, SeqMonotonic
  <2>4. AsRead(t, m)
    BY <2>3 DEF Mods, AsRead
  <2> QED
    BY <2>1, <2>4
<1> QED
  BY <1>1, <1>2 DEF AreMods

LEMMA OnesTile ==
  ASSUME NEW n \in Nat
  PROVE  \E ps : Tiles(ps, 1, n) /\ Len(ps) = n /\ \A k \in 1..n : ps[k].at = k /\ ps[k].next = k + 1
<1> DEFINE ps == [k \in 1..n |-> [at |-> k, next |-> k + 1]]
<1>1. \A k \in 1..n : ps[k].at = k /\ ps[k].next = k + 1
  OBVIOUS
<1>2. Len(ps) = n /\ ps = [k \in 1..Len(ps) |-> ps[k]]
  <2>1. DOMAIN ps = 1..n /\ ps = [k \in 1..n |-> ps[k]]
    OBVIOUS
  <2> HIDE DEF ps
  <2>2. Len(ps) = n
    BY <2>1
  <2> QED
    BY <2>1, <2>2
<1> HIDE DEF ps
<1>3. ASSUME NEW k \in 1..n, k # 1 PROVE ps[k].at = ps[k - 1].next
  <2>1. k - 1 \in 1..n /\ k - 1 + 1 = k
    BY <1>3
  <2> QED
    BY <1>1, <2>1
<1>4. ASSUME NEW k \in 1..n PROVE ps[k].at \in 1..n /\ ps[k].next \in (ps[k].at + 1)..(n + 1)
  BY <1>1
<1>5. 1 > n => n = 0
  OBVIOUS
<1>6. ~(1 > n) => 1 \in 1..n /\ n \in 1..n /\ n # 0
  OBVIOUS
<1>7. Tiles(ps, 1, n)
  BY <1>1, <1>2, <1>3, <1>4, <1>5, <1>6 DEF Tiles
<1> QED
  BY <1>1, <1>2, <1>7

LEMMA OneOfMany ==
  ASSUME NEW S, NEW s \in Seq(S), NEW k \in 1..Len(s) PROVE SubSeq(s, k, k) = <<s[k]>>
<1>1. SubSeq(s, k, k) = <<s[k]>> \o SubSeq(s, k + 1, k)
  <2>1. k \in k..Len(s)
    OBVIOUS
  <2> QED
    BY <2>1, SubSeqRecursiveFirst
<1>2. SubSeq(s, k + 1, k) = <<>>
  <2>1. k + 1 \in Int /\ k \in Int /\ k < k + 1
    OBVIOUS
  <2> QED
    BY <2>1, SubSeqEmpty
<1>3. <<s[k]>> \o <<>> = <<s[k]>>
  <2>1. <<s[k]>> \in Seq(S)
    OBVIOUS
  <2> QED
    BY <2>1, ConcatEmptySeq
<1> QED
  BY <1>1, <1>2, <1>3

\* What a run of single lines is joined into says what they do.
LEMMA ResolveRunIs ==
  ASSUME NEW t, NEW ms \in Seq(Mods(t)), Len(ms) # 0, NEW type,
         \A k \in 1..Len(ms) : ms[k].info = Absent /\ ms[k].type = type /\ Len(ms[k].lines) = 1,
         NEW b, NEW it
  PROVE  /\ AreMods(t, ResolveRun(b, it, ms))
         /\ \A kind \in Compared : Flat(kind, ResolveRun(b, it, ms)) = Flat(kind, ms)
<1>1. PICK n \in Nat : n = Len(ms) /\ DOMAIN ms = 1..n /\ n # 0
  OBVIOUS
<1>2. AreMods(t, ms) /\ \A k \in 1..n : ms[k] \in Mods(t)
  BY <1>1, ModsAreMods
<1>3. PICK lines : lines = [i \in 1..n |-> ms[i].lines[1]]
  OBVIOUS
<1>4. lines \in Seq(Says(t)) /\ Len(lines) = n /\ DOMAIN lines = 1..n /\ \A k \in 1..n : lines[k] = ms[k].lines[1]
  <2>1. ASSUME NEW k \in 1..n PROVE ms[k].lines[1] \in Says(t)
    <3>1. ms[k].lines \in Seq(Says(t)) /\ Len(ms[k].lines) = 1
      BY <1>1, <1>2 DEF Mods
    <3> QED
      BY <3>1
  <2> QED
    BY <1>3, <2>1
<1>5. PICK ps : ps = Parts(b, it, lines, type)
  OBVIOUS
<1>6. Tiles(ps, 1, n)
  BY <1>4, <1>5, PartsTile
<1>7. PICK c \in Nat : c = Len(ps) /\ DOMAIN ps = 1..c
  BY <1>6 DEF Tiles
<1>8. \A i \in 1..c : ps[i].at \in 1..n /\ ps[i].next \in (ps[i].at + 1)..(n + 1)
  BY <1>1, <1>6, <1>7 DEF Tiles
<1>9. PICK out : out = ResolveRun(b, it, ms)
  OBVIOUS
<1> DEFINE part(p) == [ms[p.at] EXCEPT !.lines = SubSeq(lines, p.at, p.next - 1), !.match = p.match,
                         !.reminder = RemindersOf(SubSeq(ms, p.at, p.next - 1))]
<1>10. out = [i \in 1..c |-> part(ps[i])]
  <2>1. ms[1].type = type
    BY <1>1
  <2> QED
    BY <1>1, <1>3, <1>5, <1>7, <1>9, <2>1 DEF ResolveRun
<1>11. Len(out) = c /\ DOMAIN out = 1..c /\ out = [i \in 1..Len(out) |-> out[i]]
  <2> HIDE DEF part
  <2> QED
    BY <1>7, <1>10
<1>12. ASSUME NEW i \in 1..c
       PROVE  /\ out[i].type = type /\ out[i].info = Absent
              /\ out[i].lines = SubSeq(lines, ps[i].at, ps[i].next - 1)
              /\ out[i].reminder = RemindersOf(SubSeq(ms, ps[i].at, ps[i].next - 1))
  <2>1. out[i] = part(ps[i])
    BY <1>10
  <2>2. PICK m \in Mods(t) : m = ms[ps[i].at] /\ m.info = Absent /\ m.type = type
    BY <1>1, <1>2, <1>8
  <2>3. DOMAIN m = {"type", "lines", "reminder", "info", "continuation", "match"}
    BY DEF Mods
  <2> QED
    BY <2>1, <2>2, <2>3
<1> HIDE DEF part
<1>13. ASSUME NEW i \in 1..c
       PROVE  /\ AreMods(t, SubSeq(ms, ps[i].at, ps[i].next - 1))
              /\ Len(SubSeq(ms, ps[i].at, ps[i].next - 1)) = ps[i].next - ps[i].at
              /\ Stretch(SubSeq(ms, ps[i].at, ps[i].next - 1), ps[i].next - ps[i].at, ms, ps[i].at - 1)
  <2>1. PICK at \in 1..n : at = ps[i].at
    BY <1>8
  <2>2. PICK next \in (at + 1)..(n + 1) : next = ps[i].next
    BY <1>8, <2>1
  <2>3. at \in Int /\ next \in Int /\ next - 1 \in Int
    OBVIOUS
  <2>4. \A k \in at..(next - 1) : ms[k] \in Mods(t)
    <3> SUFFICES ASSUME NEW k \in at..(next - 1) PROVE ms[k] \in Mods(t)
      OBVIOUS
    <3>1. k \in 1..n
      OBVIOUS
    <3> QED
      BY <1>2, <3>1
  <2>5. PICK some : some = SubSeq(ms, at, next - 1)
    OBVIOUS
  <2>6. /\ some \in Seq(Mods(t)) /\ Len(some) = IF at <= next - 1 THEN next - 1 - at + 1 ELSE 0
        /\ \A k \in 1..(next - 1 - at + 1) : some[k] = ms[at + k - 1]
    BY <2>3, <2>4, <2>5, SubSeqProperties
  <2>7. at <= next - 1 /\ next - 1 - at + 1 = next - at
    BY <2>3
  <2>8. Stretch(some, next - at, ms, at - 1)
    <3> SUFFICES ASSUME NEW k \in 1..(next - at) PROVE some[k] = ms[at - 1 + k]
      BY DEF Stretch
    <3>1. at - 1 + k = at + k - 1
      BY <2>3
    <3> QED
      BY <2>6, <2>7, <3>1
  <2> QED
    BY <2>1, <2>2, <2>5, <2>6, <2>7, <2>8, ModsAreMods
<1>14. ASSUME NEW i \in 1..c
       PROVE  out[i].reminder = Flat("reminders", SubSeq(ms, ps[i].at, ps[i].next - 1))
  BY <1>12 DEF RemindersOf, Flat, Each
<1>15. AreMods(t, out)
  <2>1. ASSUME NEW i \in 1..c PROVE AsRead(t, out[i])
    <3>1. SubSeq(lines, ps[i].at, ps[i].next - 1) \in Seq(Says(t))
      <4>1. \A k \in ps[i].at..(ps[i].next - 1) : lines[k] \in Says(t)
        <5> SUFFICES ASSUME NEW k \in ps[i].at..(ps[i].next - 1) PROVE lines[k] \in Says(t)
          OBVIOUS
        <5>1. k \in 1..n
          BY <1>8
        <5> QED
          BY <1>4, <5>1
      <4>2. ps[i].at \in Int /\ ps[i].next - 1 \in Int
        BY <1>8
      <4> QED
        BY <4>1, <4>2, SubSeqProperties
    <3>2. type \in Kinds(t) /\ Absent \in Infos(t)
      <4>1. PICK m \in Mods(t) : m = ms[1]
        BY <1>1, <1>2
      <4>2. m.type \in Kinds(t) /\ m.type = type
        <5>1. 1 \in 1..Len(ms)
          BY <1>1
        <5> QED
          BY <4>1, <5>1 DEF Mods
      <4> QED
        BY <4>2 DEF Infos
    <3>3. out[i].reminder \in Seq(Values(t))
      BY <1>13, <1>14, FlatCounts
    <3> QED
      BY <1>12, <3>1, <3>2, <3>3 DEF AsRead
  <2> QED
    BY <1>11, <2>1 DEF AreMods
<1>16. PICK ones : Tiles(ones, 1, n) /\ Len(ones) = n /\ \A k \in 1..n : ones[k].at = k /\ ones[k].next = k + 1
  BY OnesTile
<1>0. \A i \in 1..Len(out) : ps[i].next - 1 \in 0..n /\ ps[i].next - 1 # 0 /\ ps[i].at - 1 \in 0..n /\ i \in 1..c
  <2> SUFFICES ASSUME NEW i \in 1..c
               PROVE  ps[i].next - 1 \in 0..n /\ ps[i].next - 1 # 0 /\ ps[i].at - 1 \in 0..n
    BY <1>11
  <2>1. ps[i].at \in 1..n /\ ps[i].next \in (ps[i].at + 1)..(n + 1)
    BY <1>8
  <2>2. PICK x, y : x = ps[i].at /\ y = ps[i].next
    OBVIOUS
  <2>3. x \in 1..n /\ y \in (x + 1)..(n + 1)
    BY <2>1, <2>2
  <2>4. y - 1 \in 0..n /\ y - 1 # 0 /\ x - 1 \in 0..n
    BY ONLY n \in Nat, <2>3
  <2> QED
    BY ONLY <2>2, <2>4
<1>17. Flat("lines", out) = Flat("lines", ms)
  <2>1. PICK all : all = Typed(type, lines)
    OBVIOUS
  <2> DEFINE F == [k \in 0..n |-> SubSeq(all, 1, k)]
  <2>2. F[0] = <<>>
    <3>1. SubSeq(all, 1, 0) = <<>>
      BY SubSeqEmpty
    <3> QED
      BY <3>1
  <2>3. ASSUME NEW i \in 1..Len(out) PROVE F[ps[i].next - 1] = F[ps[i].at - 1] \o Each("lines", out[i])
    <3>1. ps[i].next - 1 \in 0..n /\ ps[i].at - 1 \in 0..n /\ i \in 1..c
      BY <1>0
    <3>2. Each("lines", out[i]) = Typed(type, SubSeq(lines, ps[i].at, ps[i].next - 1))
      BY <1>12, <3>1 DEF Each, Typed
    <3>3. F[ps[i].next - 1] = SubSeq(all, 1, ps[i].next - 1) /\ F[ps[i].at - 1] = SubSeq(all, 1, ps[i].at - 1)
      BY <3>1
    <3>4. SubSeq(all, 1, ps[i].next - 1)
            = SubSeq(all, 1, ps[i].at - 1) \o Typed(type, SubSeq(lines, ps[i].at, ps[i].next - 1))
      BY <1>4, <1>8, <2>1, <3>1, TypedPart
    <3> HIDE DEF F
    <3> QED
      BY <3>2, <3>3, <3>4
  <2>4. ASSUME NEW k \in 1..Len(ms)
        PROVE  F[ones[k].next - 1] = F[ones[k].at - 1] \o Each("lines", ms[k])
    <3>1. k \in 1..n /\ k \in 0..n /\ k - 1 \in 0..n /\ ones[k].next - 1 = k /\ ones[k].at - 1 = k - 1
      BY <1>1, <1>16
    <3>2. SubSeq(lines, k, k) = ms[k].lines
      <4>1. SubSeq(lines, k, k) = <<lines[k]>>
        BY <1>4, <3>1, OneOfMany
      <4>2. PICK m \in Mods(t) : m = ms[k] /\ Len(m.lines) = 1 /\ m.lines[1] = lines[k]
        BY <1>1, <1>2, <1>4, <3>1
      <4>3. m.lines = <<m.lines[1]>>
        <5>1. m.lines \in Seq(Says(t))
          BY DEF Mods
        <5> QED
          BY <4>2, <5>1
      <4> QED
        BY <4>1, <4>2, <4>3
    <3>3. Each("lines", ms[k]) = Typed(type, SubSeq(lines, k, k))
      BY <1>1, <3>1, <3>2 DEF Each, Typed
    <3>4. SubSeq(all, 1, k) = SubSeq(all, 1, k - 1) \o Typed(type, SubSeq(lines, k, k))
      <4>1. PICK next \in (k + 1)..(n + 1) : next - 1 = k
        <5>1. k + 1 \in (k + 1)..(n + 1) /\ k + 1 - 1 = k
          BY <3>1
        <5> QED
          BY <5>1
      <4>2. SubSeq(all, 1, next - 1) = SubSeq(all, 1, k - 1) \o Typed(type, SubSeq(lines, k, next - 1))
        BY <1>4, <2>1, <3>1, TypedPart
      <4> QED
        BY <4>1, <4>2
    <3>5. F[k] = SubSeq(all, 1, k) /\ F[k - 1] = SubSeq(all, 1, k - 1)
      BY <3>1
    <3> HIDE DEF F
    <3> QED
      BY <3>1, <3>3, <3>4, <3>5
  <2> HIDE DEF F
  <2>5. AddsUp(F, ps, "lines", out) /\ AddsUp(F, ones, "lines", ms)
    BY <2>2, <2>3, <2>4 DEF AddsUp
  <2>6. Flat("lines", out) = F[n]
    BY <1>6, <1>7, <1>11, <1>15, <2>5, FlatByTiles
  <2>7. Flat("lines", ms) = F[n]
    BY <1>1, <1>2, <1>16, <2>5, FlatByTiles
  <2> QED
    BY <2>6, <2>7
<1>18. Flat("reminders", out) = Flat("reminders", ms)
  <2>1. PICK P : Flattens("reminders", P, ms) /\ Flat("reminders", ms) = P[n]
    BY <1>1, <1>2, FlatCounts
  <2>2. P[0] = <<>>
    BY <2>1 DEF Flattens, CountsUp
  <2>3. ASSUME NEW i \in 1..Len(out) PROVE P[ps[i].next - 1] = P[ps[i].at - 1] \o Each("reminders", out[i])
    <3>1. i \in 1..c
      BY <1>11
    <3>2. PICK at \in 1..n : at = ps[i].at
      BY <1>8, <3>1
    <3>3. PICK next \in (at + 1)..(n + 1) : next = ps[i].next
      BY <1>8, <3>1, <3>2
    <3>4. PICK some : some = SubSeq(ms, at, next - 1)
      OBVIOUS
    <3>5. AreMods(t, some) /\ Len(some) = next - at /\ Stretch(some, Len(some), ms, at - 1)
      BY <1>13, <3>1, <3>2, <3>3, <3>4
    <3>6. PICK from \in Nat : from = at - 1
      OBVIOUS
    <3>7. from + Len(some) = next - 1 /\ from + Len(some) <= Len(ms) /\ Stretch(some, Len(some), ms, from)
      <4>1. from + (next - at) = next - 1 /\ next - 1 <= n
        BY <3>6
      <4> QED
        BY <1>1, <3>5, <3>6, <4>1
    <3>9. P[from + Len(some)] = P[from] \o Flat("reminders", some)
      <4>1. \A stretch : \A start \in Nat :
              AreMods(t, stretch) /\ start + Len(stretch) <= Len(ms) /\ Stretch(stretch, Len(stretch), ms, start)
                => P[start + Len(stretch)] = P[start] \o Flat("reminders", stretch)
        BY <1>2, <2>1, FlatOfStretch
      <4> QED
        BY <3>5, <3>7, <4>1
    <3>8. Each("reminders", out[i]) = Flat("reminders", some)
      BY <1>14, <3>1, <3>2, <3>3, <3>4 DEF Each
    <3> QED
      BY <3>2, <3>3, <3>6, <3>7, <3>8, <3>9
  <2>4. AddsUp(P, ps, "reminders", out)
    BY <2>2, <2>3 DEF AddsUp
  <2>5. Flat("reminders", out) = P[n]
    BY <1>6, <1>7, <1>11, <1>15, <2>4, FlatByTiles
  <2> QED
    BY <2>1, <2>5
<1>19. Flat("opens", out) = Flat("opens", ms)
  <2> DEFINE F == [k \in 0..n |-> <<>>]
  <2>1. <<>> \o <<>> = <<>>
    BY EmptySeq, ConcatEmptySeq
  <2>2. F[0] = <<>>
    OBVIOUS
  <2>3. ASSUME NEW i \in 1..Len(out) PROVE F[ps[i].next - 1] = F[ps[i].at - 1] \o Each("opens", out[i])
    <3>1. ps[i].next - 1 \in 0..n /\ ps[i].at - 1 \in 0..n /\ i \in 1..c
      BY <1>0
    <3>2. Each("opens", out[i]) = <<>>
      BY <1>12, <3>1 DEF Each
    <3> QED
      BY <2>1, <3>1, <3>2
  <2>4. ASSUME NEW k \in 1..Len(ms)
        PROVE  F[ones[k].next - 1] = F[ones[k].at - 1] \o Each("opens", ms[k])
    <3>1. k \in 1..n /\ k \in 0..n /\ k - 1 \in 0..n /\ ones[k].next - 1 = k /\ ones[k].at - 1 = k - 1
      BY <1>1, <1>16
    <3>2. Each("opens", ms[k]) = <<>>
      BY <1>1, <3>1 DEF Each
    <3> QED
      BY <2>1, <3>1, <3>2
  <2> HIDE DEF F
  <2>5. AddsUp(F, ps, "opens", out) /\ AddsUp(F, ones, "opens", ms)
    BY <2>2, <2>3, <2>4 DEF AddsUp
  <2>6. Flat("opens", out) = F[n]
    BY <1>6, <1>7, <1>11, <1>15, <2>5, FlatByTiles
  <2>7. Flat("opens", ms) = F[n]
    BY <1>1, <1>2, <1>16, <2>5, FlatByTiles
  <2> QED
    BY <2>6, <2>7
<1> QED
  BY <1>9, <1>15, <1>17, <1>18, <1>19 DEF Compared

-----------------------------------------------------------------------------
(* Regrouping. *)

LEMMA RunEndIs ==
  ASSUME NEW t, NEW ms \in Seq(Mods(t)), NEW i \in 1..Len(ms), ms[i].info = Absent, Complete(ms[i])
  PROVE  /\ RunEnd(ms, i) \in i..Len(ms)
         /\ \A k \in i..RunEnd(ms, i) :
              ms[k].info = Absent /\ ms[k].type = ms[i].type /\ Len(ms[k].lines) = 1
<1> DEFINE joins(m) == m.info = Absent /\ m.type = ms[i].type /\ Len(m.lines) = 1
           run == {e \in i..Len(ms) : \A k \in i..e : joins(ms[k])}
<1>1. joins(ms[i])
  BY DEF Complete
<1> HIDE DEF joins
<1>2. run \in SUBSET (1..Len(ms)) /\ i \in run /\ Len(ms) \in Nat
  <2>1. i \in i..Len(ms) /\ \A k \in i..i : k = i
    OBVIOUS
  <2> QED
    BY <1>1, <2>1
<1>3. \A e \in run : e \in i..Len(ms) /\ \A k \in i..e : joins(ms[k])
  OBVIOUS
<1> HIDE DEF run
<1>4. \E e \in run : \A f \in run : f <= e
  <2>1. Max(run) \in run /\ \A f \in run : Max(run) >= f
    BY <1>2, LastPosition
  <2>2. \A f \in run : f \in Int
    BY <1>2
  <2> QED
    BY <2>1, <2>2
<1>5. PICK last : last = CHOOSE e \in run : \A f \in run : f <= e
  OBVIOUS
<1>6. last \in run
  BY <1>4, <1>5
<1>7. RunEnd(ms, i) = last
  BY <1>5 DEF RunEnd, run, joins
<1> QED
  BY <1>3, <1>6, <1>7 DEF joins

\* What becomes of the modifier at i, or of the run it begins, and where the next is.
Piece(b, it, ms, i) ==
  IF ms[i].info # Absent THEN SplitAffix(b, it, ms[i])
  ELSE ResolveRun(b, it, SubSeq(ms, i, RunEnd(ms, i)))
After(ms, i) == IF ms[i].info # Absent THEN i + 1 ELSE RunEnd(ms, i) + 1

AllWhole(t, ms) == ms \in Seq(Mods(t)) /\ \A i \in DOMAIN ms : Complete(ms[i])

LEMMA PieceIs ==
  ASSUME NEW t, NEW ms, AllWhole(t, ms), NEW i \in 1..Len(ms), NEW b, NEW it
  PROVE  /\ After(ms, i) \in (i + 1)..(Len(ms) + 1)
         /\ AreMods(t, Piece(b, it, ms, i))
         /\ \A kind \in Compared : \A P : Flattens(kind, P, ms) =>
              P[After(ms, i) - 1] = P[i - 1] \o Flat(kind, Piece(b, it, ms, i))
<1>1. /\ ms \in Seq(Mods(t)) /\ Len(ms) \in Nat /\ DOMAIN ms = 1..Len(ms) /\ ms[i] \in Mods(t)
      /\ Complete(ms[i])
  BY DEF AllWhole
<1>2. CASE ms[i].info # Absent
  <2>1. Piece(b, it, ms, i) = SplitAffix(b, it, ms[i]) /\ After(ms, i) = i + 1
    BY <1>2 DEF Piece, After
  <2>2. PICK m \in Mods(t) : m = ms[i]
    BY <1>1
  <2>3. AreMods(t, SplitAffix(b, it, m)) /\ \A kind \in Compared : Flat(kind, SplitAffix(b, it, m)) = Each(kind, m)
    BY <1>1, <1>2, <2>2, SplitAffixIs
  <2>4. ASSUME NEW kind \in Compared, NEW P, Flattens(kind, P, ms)
        PROVE  P[i] = P[i - 1] \o Flat(kind, SplitAffix(b, it, m))
    <3>1. PICK seqs : seqs = [k \in 1..Len(ms) |-> Each(kind, ms[k])]
      OBVIOUS
    <3>2. CountsUp(P, seqs, Len(ms)) /\ seqs[i] = Each(kind, ms[i])
      BY <2>4, <3>1 DEF Flattens
    <3>3. P[i] = P[i - 1] \o Each(kind, ms[i])
      BY <3>2 DEF CountsUp
    <3> QED
      BY <2>2, <2>3, <3>3
  <2>5. After(ms, i) \in (i + 1)..(Len(ms) + 1) /\ After(ms, i) - 1 = i
    BY <1>1, <2>1
  <2> QED
    BY <2>1, <2>2, <2>3, <2>4, <2>5
<1>3. CASE ms[i].info = Absent
  <2>1. PICK e : e = RunEnd(ms, i)
    OBVIOUS
  <2>2. /\ e \in i..Len(ms)
        /\ \A k \in i..e : ms[k].info = Absent /\ ms[k].type = ms[i].type /\ Len(ms[k].lines) = 1
    BY <1>1, <1>3, <2>1, RunEndIs
  <2>3. PICK run : run = SubSeq(ms, i, e)
    OBVIOUS
  <2>4. PICK len \in Nat : len = e - i + 1 /\ len # 0
    BY <2>2
  <2>5. run \in Seq(Mods(t)) /\ Len(run) = len /\ \A k \in 1..len : run[k] = ms[i + k - 1]
    <3>1. \A k \in i..e : ms[k] \in Mods(t)
      <4> SUFFICES ASSUME NEW k \in i..e PROVE ms[k] \in Mods(t)
        OBVIOUS
      <4>1. k \in 1..Len(ms)
        BY <1>1, <2>2
      <4> QED
        BY <1>1, <4>1
    <3>2. i \in Int /\ e \in Int /\ i <= e
      BY <2>2
    <3> QED
      BY <2>3, <2>4, <3>1, <3>2, SubSeqProperties
  <2>6. ASSUME NEW k \in 1..Len(run)
        PROVE  run[k].info = Absent /\ run[k].type = ms[i].type /\ Len(run[k].lines) = 1
    <3>1. i + k - 1 \in i..e
      BY <2>2, <2>4, <2>5
    <3> QED
      BY <2>2, <2>5, <3>1
  <2>7. PICK new : new = ResolveRun(b, it, run)
    OBVIOUS
  <2>8. AreMods(t, new) /\ \A kind \in Compared : Flat(kind, new) = Flat(kind, run)
    <3>1. PICK type : type = ms[i].type
      OBVIOUS
    <3>2. \A k \in 1..Len(run) : run[k].info = Absent /\ run[k].type = type /\ Len(run[k].lines) = 1
      BY <2>6, <3>1
    <3>3. run \in Seq(Mods(t)) /\ Len(run) # 0
      BY <2>4, <2>5
    <3>4. /\ AreMods(t, ResolveRun(b, it, run))
          /\ \A kind \in Compared : Flat(kind, ResolveRun(b, it, run)) = Flat(kind, run)
      BY <3>2, <3>3, ResolveRunIs
    <3> QED
      BY <2>7, <3>4
  <2>9. Piece(b, it, ms, i) = new /\ After(ms, i) = e + 1
    BY <1>3, <2>1, <2>3, <2>7 DEF Piece, After
  <2>10. PICK start \in Nat : start = i - 1
    OBVIOUS
  <2>11. start + Len(run) = e /\ start + Len(run) <= Len(ms) /\ Stretch(run, Len(run), ms, start)
    <3>1. start + len = e /\ e <= Len(ms)
      BY <2>2, <2>4, <2>10
    <3>2. ASSUME NEW k \in 1..len PROVE run[k] = ms[start + k]
      <4>1. i + k - 1 = start + k
        BY <2>10
      <4> QED
        BY <2>5, <4>1
    <3> QED
      BY <2>5, <3>1, <3>2 DEF Stretch
  <2>12. ASSUME NEW kind \in Compared, NEW P, Flattens(kind, P, ms)
         PROVE  P[e] = P[start] \o Flat(kind, new)
    <3>1. AreMods(t, ms) /\ AreMods(t, run)
      BY <1>1, <2>5, ModsAreMods
    <3>2. \A stretch : \A from \in Nat :
            AreMods(t, stretch) /\ from + Len(stretch) <= Len(ms) /\ Stretch(stretch, Len(stretch), ms, from)
              => P[from + Len(stretch)] = P[from] \o Flat(kind, stretch)
      BY <2>12, <3>1, FlatOfStretch
    <3>3. P[start + Len(run)] = P[start] \o Flat(kind, run)
      BY <2>11, <3>1, <3>2
    <3> QED
      BY <2>8, <2>11, <3>3
  <2>13. After(ms, i) \in (i + 1)..(Len(ms) + 1) /\ After(ms, i) - 1 = e
    BY <1>1, <2>2, <2>9
  <2> QED
    BY <2>8, <2>9, <2>10, <2>12, <2>13
<1> QED
  BY <1>2, <1>3

\* What is left from i on makes up what all of it comes to.
Remains(t, kind, P, n, rest, i) == AreMods(t, rest) /\ P[i - 1] \o Flat(kind, rest) = P[n]

\* Regrouping a list of modifiers keeps what it says.
LEMMA RegroupIs ==
  ASSUME NEW t, NEW it, AllWhole(t, it.mods), NEW b
  PROVE  \A kind \in Compared : Flat(kind, Regroup(b, it)) = Flat(kind, it.mods)
<1>1. PICK ms : ms = it.mods
  OBVIOUS
<1>2. PICK n \in Nat : n = Len(ms)
  BY <1>1 DEF AllWhole
<1>3. AllWhole(t, ms) /\ AreMods(t, ms)
  BY <1>1, ModsAreMods DEF AllWhole
<1> DEFINE xs == [i \in 1..n |-> Piece(b, it, ms, i)]
           nx == [i \in 1..n |-> After(ms, i)]
<1>4. \A i \in 1..n : xs[i] = Piece(b, it, ms, i) /\ nx[i] = After(ms, i)
  OBVIOUS
<1> HIDE DEF xs, nx
<1>5. \A i \in 1..n : nx[i] \in (i + 1)..(n + 1)
  BY <1>2, <1>3, <1>4, PieceIs
<1>6. PICK g : Walks(g, xs, nx, 1, n)
  BY <1>5, WalkExists
<1> DEFINE Walking(f) ==
             f = [i \in 1..(Len(ms) + 1) |->
                    IF i > Len(ms) THEN <<>>
                    ELSE IF ms[i].info # Absent THEN SplitAffix(b, it, ms[i]) \o f[i + 1]
                    ELSE ResolveRun(b, it, SubSeq(ms, i, RunEnd(ms, i))) \o f[RunEnd(ms, i) + 1]]
           Step(f, i) == IF i > Len(ms) THEN <<>>
                         ELSE IF ms[i].info # Absent THEN SplitAffix(b, it, ms[i]) \o f[i + 1]
                         ELSE ResolveRun(b, it, SubSeq(ms, i, RunEnd(ms, i))) \o f[RunEnd(ms, i) + 1]
           h == [i \in 1..(n + 1) |-> g[i]]
<1>7. ASSUME NEW f, NEW i \in 1..(n + 1)
      PROVE  Step(f, i) = IF i > n THEN <<>> ELSE Piece(b, it, ms, i) \o f[After(ms, i)]
  BY <1>2 DEF Piece, After
<1>8. Walking(h)
  <2>1. ASSUME NEW i \in 1..(n + 1) PROVE h[i] = Step(h, i)
    <3>1. g[i] = IF i > n THEN <<>> ELSE xs[i] \o g[nx[i]]
      BY <1>6 DEF Walks
    <3>2. CASE i > n
      <4>1. h[i] = <<>>
        BY <3>1, <3>2
      <4> HIDE DEF h, Step
      <4> QED
        BY <1>7, <3>2, <4>1
    <3>3. CASE ~(i > n)
      <4>1. i \in 1..n
        BY <3>3
      <4>2. xs[i] = Piece(b, it, ms, i) /\ nx[i] = After(ms, i) /\ nx[i] \in 1..(n + 1)
        BY <1>4, <1>5, <4>1
      <4>3. h[nx[i]] = g[nx[i]] /\ h[i] = g[i]
        BY <4>2
      <4> HIDE DEF h, Step
      <4> QED
        BY <1>7, <3>1, <3>3, <4>2, <4>3
    <3> QED
      BY <3>2, <3>3
  <2>2. h = [i \in 1..(n + 1) |-> h[i]]
    OBVIOUS
  <2> HIDE DEF h, Step
  <2>3. h = [i \in 1..(n + 1) |-> Step(h, i)]
    BY <2>1, <2>2
  <2> QED
    BY <1>2, <2>3 DEF Step
<1> DEFINE f == CHOOSE f : Walking(f)
<1>9. Walking(f)
  <2> HIDE DEF Walking, h
  <2> QED
    BY <1>8
<1>10. Regroup(b, it) = f[1]
  BY <1>1 DEF Regroup
<1> HIDE DEF f, h
<1>11. \A i \in 1..(n + 1) : f[i] = Step(f, i)
  BY <1>2, <1>9
<1> HIDE DEF Walking, Step
<1>12. \A i \in 1..(n + 1) : f[i] = IF i > n THEN <<>> ELSE Piece(b, it, ms, i) \o f[After(ms, i)]
  BY <1>7, <1>11
<1> SUFFICES ASSUME NEW kind \in Compared PROVE Flat(kind, f[1]) = Flat(kind, ms)
  BY <1>1, <1>10
<1>13. PICK P : Flattens(kind, P, ms) /\ Flat(kind, ms) = P[n]
  BY <1>2, <1>3, FlatCounts
<1>14. P[0] = <<>> /\ \A i \in 0..n : P[i] \in Seq(Values(t))
  <2>1. PICK seqs : seqs = [k \in 1..n |-> Each(kind, ms[k])]
    OBVIOUS
  <2>2. CountsUp(P, seqs, n)
    BY <1>2, <1>13, <2>1 DEF Flattens
  <2>3. \A k \in 1..n : seqs[k] \in Seq(Values(t))
    BY <1>2, <1>3, <2>1, EachIsSeq DEF AreMods
  <2>4. \A k \in 0..n : P[k] \in Seq(Values(t))
    BY <2>2, <2>3, CountsInSeq
  <2> QED
    BY <2>2, <2>4 DEF CountsUp
<1>17. \A x, y : AreMods(t, x) /\ AreMods(t, y) =>
         AreMods(t, x \o y) /\ Flat(kind, x \o y) = Flat(kind, x) \o Flat(kind, y)
  BY FlatOfConcat
<1>18. \A x, y, z \in Seq(Values(t)) : (x \o y) \o z = x \o (y \o z)
  BY ONLY Reassociated
<1> DEFINE T == {m \in Nat : m <= n /\ ~Remains(t, kind, P, n, f[n + 1 - m], n + 1 - m)}
<1>15. CASE T = {}
  <2>1. n \notin T /\ n \in Nat /\ n <= n
    <3> HIDE DEF T
    <3> QED
      BY <1>15
  <2>2. Remains(t, kind, P, n, f[n + 1 - n], n + 1 - n)
    BY <2>1
  <2>3. n + 1 - n = 1
    OBVIOUS
  <2> HIDE DEF T
  <2>4. AreMods(t, f[1]) /\ P[1 - 1] \o Flat(kind, f[1]) = P[n]
    BY <2>2, <2>3 DEF Remains
  <2>5. P[1 - 1] = <<>>
    BY <1>14
  <2>6. Flat(kind, f[1]) \in Seq(Values(t))
    BY <2>4, FlatCounts
  <2>7. <<>> \o Flat(kind, f[1]) = Flat(kind, f[1])
    BY <2>6, ConcatEmptySeq
  <2> QED
    BY <1>13, <2>4, <2>5, <2>7
<1>16. CASE T # {}
  <2>1. PICK m \in T : \A k \in T : m <= k
    BY <1>16, LeastMember
  <2>2. CASE m = 0
    <3>1. f[n + 1] = <<>>
      <4>1. n + 1 \in 1..(n + 1) /\ n + 1 > n
        OBVIOUS
      <4> QED
        BY <1>12, <4>1
    <3>2. PICK none : none = <<>>
      OBVIOUS
    <3>3. none \in Seq(Mods(t)) /\ DOMAIN none = {}
      BY <3>2
    <3>4. AreMods(t, none)
      BY <3>3, ModsAreMods
    <3>5. Flat(kind, none) = <<>>
      <4>1. PICK some : some = [i \in DOMAIN none |-> Each(kind, none[i])]
        OBVIOUS
      <4>2. some = <<>>
        BY <3>3, <4>1
      <4>3. Lists({}, some, 0) /\ CountsUp([i \in 0..0 |-> <<>>], some, 0) /\ [i \in 0..0 |-> <<>>][0] = <<>>
        BY <4>2 DEF Lists, CountsUp
      <4>4. FlattenSeq(some) = <<>>
        BY <4>3, FlattenBy
      <4> QED
        BY <4>1, <4>4 DEF Flat
    <3>6. P[n] \o <<>> = P[n] /\ n + 1 - 1 = n
      BY <1>14, ConcatEmptySeq
    <3>7. Remains(t, kind, P, n, none, n + 1)
      BY <3>4, <3>5, <3>6 DEF Remains
    <3> QED
      BY <2>1, <2>2, <3>1, <3>2, <3>7
  <2>3. CASE m # 0
    <3>1. m \in Nat /\ m <= n /\ \A k \in T : m <= k
      BY <2>1
    <3>2. PICK i \in 1..n : i = n + 1 - m
      BY <2>3, <3>1
    <3>3. PICK next \in (i + 1)..(n + 1) : next = After(ms, i)
      BY <1>4, <1>5
    <3>4. PICK k \in Nat : k = n + 1 - next
      OBVIOUS
    <3>5. k < m /\ k <= n /\ n + 1 - k = next
      <4> HIDE DEF T
      <4> QED
        BY <3>1, <3>2, <3>4
    <3>6. k \notin T
      <4> HIDE DEF T
      <4> QED
        BY <3>1, <3>4, <3>5
    <3>7. Remains(t, kind, P, n, f[next], next)
      BY <3>4, <3>5, <3>6
    <3>8. PICK piece : piece = Piece(b, it, ms, i)
      OBVIOUS
    <3>9. AreMods(t, piece) /\ P[next - 1] = P[i - 1] \o Flat(kind, piece)
      <4>1. i \in 1..Len(ms)
        BY <1>2
      <4> HIDE DEF T
      <4>2. /\ AreMods(t, Piece(b, it, ms, i))
            /\ \A how \in Compared : \A Q : Flattens(how, Q, ms) =>
                 Q[After(ms, i) - 1] = Q[i - 1] \o Flat(how, Piece(b, it, ms, i))
        BY <1>3, <4>1, PieceIs
      <4> QED
        BY <1>13, <3>3, <3>8, <4>2
    <3>10. f[i] = piece \o f[next]
      <4>1. i \in 1..(n + 1) /\ ~(i > n)
        OBVIOUS
      <4> QED
        BY <1>12, <3>3, <3>8, <4>1
    <3>11. AreMods(t, f[next]) /\ P[next - 1] \o Flat(kind, f[next]) = P[n]
      BY <3>7 DEF Remains
    <3>12. AreMods(t, f[i]) /\ Flat(kind, f[i]) = Flat(kind, piece) \o Flat(kind, f[next])
      <4> HIDE DEF T
      <4> QED
        BY <1>17, <3>9, <3>10, <3>11
    <3>13. /\ P[i - 1] \in Seq(Values(t)) /\ Flat(kind, piece) \in Seq(Values(t))
           /\ Flat(kind, f[next]) \in Seq(Values(t))
      <4>1. i - 1 \in 0..n
        OBVIOUS
      <4> QED
        BY <1>14, <3>9, <3>11, <4>1, FlatCounts
    <3>14. (P[i - 1] \o Flat(kind, piece)) \o Flat(kind, f[next])
             = P[i - 1] \o (Flat(kind, piece) \o Flat(kind, f[next]))
      BY ONLY <3>13, <1>18
    <3>15. Remains(t, kind, P, n, f[i], i)
      BY <3>9, <3>11, <3>12, <3>14 DEF Remains
    <3> QED
      BY <2>1, <3>2, <3>15
  <2> QED
    BY <2>2, <2>3
<1> QED
  BY <1>15, <1>16

-----------------------------------------------------------------------------
(* Resolving. *)

\* The item keeps its modifiers, and what it may be drops on its base.
OfItsBase(b, it) ==
  /\ DOMAIN it = ItemFields
  /\ it.candidates \subseteq UniquesOn(b, it.base_type)
  /\ it.name = <<>> /\ it.unique # Absent => it.unique \in UniquesOn(b, it.base_type)
Unread(it) == DOMAIN it = ItemFields /\ it.unique = Absent /\ it.candidates = {}

LEMMA UnreadIsOfBase == ASSUME NEW b, NEW it, Unread(it) PROVE OfItsBase(b, it)
BY DEF Unread, OfItsBase

\* Nothing that OfItsBase and the modifiers are about.
SameBut(fields, new, it) ==
  DOMAIN new = ItemFields /\ \A f \in ItemFields \ fields : new[f] = it[f]

LEMMA OtherFieldOfBase ==
  ASSUME NEW b, NEW it, OfItsBase(b, it), NEW new, SameBut({"base", "base_name"}, new, it)
  PROVE  OfItsBase(b, new) /\ new.mods = it.mods
<1>1. \A f \in {"candidates", "base_type", "name", "unique", "mods"} : new[f] = it[f]
  BY DEF SameBut, ItemFields
<1> QED
  BY <1>1 DEF OfItsBase, SameBut

LEMMA ResolveUniqueIs ==
  ASSUME NEW b, NEW it, Unread(it)
  PROVE  OfItsBase(b, ResolveUnique(b, it)) /\ ResolveUnique(b, it).mods = it.mods
<1>1. CASE it.rarity # "Unique" \/ (it.name = <<>> /\ "unidentified" \notin it.flags)
  <2>1. ResolveUnique(b, it) = it
    BY <1>1 DEF ResolveUnique
  <2> QED
    BY <2>1, UnreadIsOfBase
<1>2. CASE it.rarity = "Unique" /\ it.name = <<>> /\ "unidentified" \in it.flags
  <2>1. PICK drops : drops = UniquesOn(b, it.base_type)
    OBVIOUS
  <2>2. PICK u : u = IF Cardinality(drops) = 1 THEN CHOOSE x \in drops : TRUE ELSE Absent
    OBVIOUS
  <2>3. u # Absent => u \in drops
    <3>1. Cardinality({}) = 0
      BY FS_EmptySet
    <3>2. Cardinality(drops) = 1 => \E x \in drops : TRUE
      BY <3>1
    <3> QED
      BY <2>2, <3>2
  <2>4. PICK new : new = [it EXCEPT !.candidates = drops, !.unique = u]
    OBVIOUS
  <2>5. ResolveUnique(b, it) = new
    BY <1>2, <2>1, <2>2, <2>4 DEF ResolveUnique
  <2>6. /\ DOMAIN new = ItemFields /\ new.candidates = drops /\ new.unique = u
        /\ new.base_type = it.base_type /\ new.name = it.name /\ new.mods = it.mods
    BY <2>4 DEF Unread, ItemFields
  <2> QED
    BY <2>1, <2>3, <2>5, <2>6 DEF OfItsBase
<1>3. CASE it.rarity = "Unique" /\ it.name # <<>>
  <2>1. PICK u : ResolveUnique(b, it) = [it EXCEPT !.unique = u]
    BY <1>3 DEF ResolveUnique
  <2>2. PICK new : new = [it EXCEPT !.unique = u]
    OBVIOUS
  <2>3. /\ DOMAIN new = ItemFields /\ new.candidates = {} /\ new.name = it.name /\ new.mods = it.mods
    BY <2>2 DEF Unread, ItemFields
  <2> QED
    BY <1>3, <2>1, <2>2, <2>3 DEF OfItsBase
<1> QED
  BY <1>1, <1>2, <1>3

LEMMA ResolveBaseIs ==
  ASSUME NEW b, NEW it, Unread(it)
  PROVE  OfItsBase(b, ResolveBase(b, it)) /\ ResolveBase(b, it).mods = it.mods
<1>1. CASE it.rarity = "Gem" \/ it.rarity = "DivinationCard" \/ IsBeast(it)
  <2>1. PICK found : ResolveBase(b, it) = [it EXCEPT !.base = found]
    BY <1>1 DEF ResolveBase, ResolveGem, ByName
  <2>2. PICK new : new = [it EXCEPT !.base = found]
    OBVIOUS
  <2>3. OfItsBase(b, it)
    BY UnreadIsOfBase
  <2>4. SameBut({"base", "base_name"}, new, it)
    BY <2>2, <2>3 DEF SameBut, OfItsBase
  <2>5. ResolveBase(b, it) = new
    BY <2>1, <2>2
  <2> QED
    BY <2>3, <2>4, <2>5, OtherFieldOfBase
<1>2. CASE ~(it.rarity = "Gem" \/ it.rarity = "DivinationCard" \/ IsBeast(it))
  <2>1. PICK u : u = ResolveUnique(b, it)
    OBVIOUS
  <2>2. OfItsBase(b, u) /\ u.mods = it.mods
    BY <2>1, ResolveUniqueIs
  <2>3. PICK name : name = BaseName(b, it)
    OBVIOUS
  <2>4. PICK named : named = [u EXCEPT !.base_name = name]
    OBVIOUS
  <2>5. PICK found : ResolveBase(b, it) = [named EXCEPT !.base = found]
    BY <1>2, <2>1, <2>3, <2>4 DEF ResolveBase
  <2>6. PICK new : new = [named EXCEPT !.base = found]
    OBVIOUS
  <2>7. SameBut({"base", "base_name"}, new, u)
    BY <2>2, <2>4, <2>6 DEF SameBut, OfItsBase
  <2>8. ResolveBase(b, it) = new
    BY <2>5, <2>6
  <2> QED
    BY <2>2, <2>7, <2>8, OtherFieldOfBase
<1> QED
  BY <1>1, <1>2

LEMMA ResolveIs ==
  ASSUME NEW t, NEW b, NEW it, ReadOf(t, it)
  PROVE  /\ OfItsBase(b, Resolve(b, it))
         /\ \A kind \in Compared : Flat(kind, Resolve(b, it).mods) = Flat(kind, it.mods)
<1>1. Unread(it) /\ AllWhole(t, it.mods)
  BY DEF ReadOf, Unread, AllWhole
<1>2. PICK based : based = ResolveBase(b, it)
  OBVIOUS
<1>3. OfItsBase(b, based) /\ based.mods = it.mods
  BY <1>1, <1>2, ResolveBaseIs
<1>4. PICK ms : ms = Regroup(b, based)
  OBVIOUS
<1>5. \A kind \in Compared : Flat(kind, ms) = Flat(kind, it.mods)
  BY <1>1, <1>3, <1>4, RegroupIs
<1>6. PICK new : new = [based EXCEPT !.mods = ms]
  OBVIOUS
<1>7. Resolve(b, it) = new
  BY <1>2, <1>4, <1>6 DEF Resolve
<1>8. /\ DOMAIN new = ItemFields /\ new.mods = ms /\ new.candidates = based.candidates
      /\ new.base_type = based.base_type /\ new.name = based.name /\ new.unique = based.unique
  BY <1>3, <1>6 DEF OfItsBase, ItemFields
<1> QED
  BY <1>3, <1>5, <1>7, <1>8 DEF OfItsBase

-----------------------------------------------------------------------------
(* The reading of a text: what has been read is whole, and what it has     *)
(* been settled to be is of its base.                                      *)

ReadingInv ==
  /\ text \in Texts /\ gd \in Bundles
  /\ stage \in {"copied", "refused", "parsed", "resolved"}
  /\ stage = "parsed" => ReadOf(text, item)
  /\ stage = "resolved" => OfItsBase(gd, item)

THEOREM ReadingSound == ReadSpec => []ReadingInv
<1>1. ReadInit => ReadingInv
  BY DEF ReadInit, ReadingInv
<1>2. ReadingInv /\ [ReadNext]_readingVars => ReadingInv'
  <2> SUFFICES ASSUME ReadingInv, [ReadNext]_readingVars PROVE ReadingInv'
    OBVIOUS
  <2>1. CASE ParseItem
    <3>1. text' = text /\ gd' = gd /\ item' = Parse(text.lines)
      BY <2>1 DEF ParseItem
    <3>2. stage' = IF item' = Absent THEN "refused" ELSE "parsed"
      BY <2>1 DEF ParseItem
    <3>3. item' # Absent => ReadOf(text, item')
      BY <3>1, ParseIs DEF ReadingInv
    <3> QED
      BY <3>1, <3>2, <3>3 DEF ReadingInv
  <2>2. CASE ResolveItem
    <3>1. text' = text /\ gd' = gd /\ item' = Resolve(gd, item) /\ stage' = "resolved" /\ stage = "parsed"
      BY <2>2 DEF ResolveItem
    <3>2. OfItsBase(gd, item')
      BY <3>1, ResolveIs DEF ReadingInv
    <3> QED
      BY <3>1, <3>2 DEF ReadingInv
  <2>3. CASE \E u \in item.candidates \cup {Absent} : PickUnique(u)
    <3>1. PICK u \in item.candidates \cup {Absent} : PickUnique(u)
      BY <2>3
    <3>2. /\ text' = text /\ gd' = gd /\ item' = [item EXCEPT !.unique = u]
          /\ stage' = stage /\ stage = "resolved"
      BY <3>1 DEF PickUnique
    <3>3. OfItsBase(gd, item)
      BY <3>2 DEF ReadingInv
    <3>4. /\ DOMAIN item' = ItemFields /\ item'.unique = u /\ item'.candidates = item.candidates
          /\ item'.base_type = item.base_type
      BY <3>2, <3>3 DEF OfItsBase, ItemFields
    <3>5. OfItsBase(gd, item')
      BY <3>1, <3>3, <3>4 DEF OfItsBase
    <3> QED
      BY <3>2, <3>5 DEF ReadingInv
  <2>4. CASE UNCHANGED readingVars
    BY <2>4 DEF readingVars, ReadingInv
  <2> QED
    BY <2>1, <2>2, <2>3, <2>4 DEF ReadNext
<1> QED
  BY <1>1, <1>2, PTL DEF ReadSpec

\* Resolving always gets to the end of the modifiers: a modifier without an info line
\* has one line, so every run has one modifier at least (resolve_item's loop).
THEOREM RunsAlwaysAdvance == ReadSpec => []RunsAdvance
<1>1. ReadingInv => RunsAdvance
  BY DEF ReadingInv, RunsAdvance, ReadOf, Complete
<1> QED
  BY <1>1, ReadingSound, PTL

\* An unidentified unique is only ever one that drops on its base, whoever said which
\* (resolve_unique and the panel's choice).
THEOREM OnlyDropsOfItsBase == ReadSpec => []DropsOnItsBase
<1>1. ReadingInv => DropsOnItsBase
  BY DEF ReadingInv, DropsOnItsBase, OfItsBase, UniquesOn
<1> QED
  BY <1>1, ReadingSound, PTL

\* Resolving loses no line or reminder, moves and retypes none, and every affix still
\* opens once (resolve_item, split_affix and resolve_run), whatever the text and the bundle.
THEOREM EveryAffixKept == ReadSpec => AffixesKept
<1>1. \A ms : LinesOf(ms) = Flat("lines", ms) /\ RemindersOf(ms) = Flat("reminders", ms)
              /\ OpensOf(ms) = Flat("opens", ms)
  BY DEF LinesOf, RemindersOf, OpensOf, Flat, Each
<1> DEFINE Kept == /\ LinesOf(item'.mods) = LinesOf(item.mods)
                   /\ RemindersOf(item'.mods) = RemindersOf(item.mods)
                   /\ OpensOf(item'.mods) = OpensOf(item.mods)
<1>2. ReadingInv /\ [ReadNext]_readingVars
        => [stage = "parsed" /\ stage' = "resolved" => Kept]_readingVars
  <2> SUFFICES ASSUME ReadingInv, ReadNext, stage = "parsed", stage' = "resolved" PROVE Kept
    OBVIOUS
  <2>1. ResolveItem
    BY DEF ReadNext, ParseItem, PickUnique
  <2>2. item' = Resolve(gd, item) /\ ReadOf(text, item)
    BY <2>1 DEF ResolveItem, ReadingInv
  <2>3. \A kind \in Compared : Flat(kind, item'.mods) = Flat(kind, item.mods)
    BY <2>2, ResolveIs
  <2> QED
    BY <1>1, <2>3 DEF Compared
<1> QED
  BY <1>2, ReadingSound, PTL DEF ReadSpec, AffixesKept
===============================================================================
