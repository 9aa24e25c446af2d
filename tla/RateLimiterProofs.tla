-------------------------- MODULE RateLimiterProofs --------------------------
(***************************************************************************)
(* What RateLimiter keeps true for any limits, periods and restrictions.   *)
(*                                                                         *)
(* A restriction that was told of is in every place a request could come   *)
(* from (Inv).  That none is earned needs more: the server counts over the *)
(* last p ticks, the limiter from the request that opened its window.      *)
(* Ahead says that an open window has counted all the server has, and that *)
(* once it closes what came after its first request leaves room for one    *)
(* more.  Both are of the requests that went out a window or more after    *)
(* the last thing the limiter could not know; the rest are forgotten when  *)
(* the second window is over.                                              *)
(***************************************************************************)
EXTENDS RateLimiter, SequenceTheorems, FiniteSetTheorems, TLAPS

\* The restriction this program was told of is in its memory, in its file, and in
\* every wait that was measured against them.
Remembered == told <= blocked
WrittenDown == IF file = <<>> THEN told = 0 ELSE told <= file[1].blocked
WaitedOut == \A w \in Workers : pc[w] = "waiting" => told <= left[w]

Inv == TypeOK /\ Remembered /\ WrittenDown /\ WaitedOut

-----------------------------------------------------------------------------
(* Windows.                                                                *)

\* A window whose count or opening changes is still one.
LEMMA WindowType ==
  ASSUME NEW p, NEW r \in Window(p), NEW h \in Nat, NEW a \in 0..p
  PROVE  /\ [r EXCEPT !.hits = h] \in Window(p)
         /\ [r EXCEPT !.hits = h, !.age = a] \in Window(p)
         /\ [r EXCEPT !.age = a, !.hits = h] \in Window(p)
BY DEF Window

\* A seed opens no window (RateLimiter::seed).
LEMMA FreshType ==
  ASSUME NEW l, IsLimits(l)
  PROVE  IsWindows(Fresh(l))
BY DEF IsLimits, IsWindows, Fresh, Window

\* Counting a request keeps the windows (RateLimiter::note_request).
LEMMA NoteType ==
  ASSUME NEW ws, IsWindows(ws)
  PROVE  IsWindows(Note(ws))
<1> SUFFICES ASSUME NEW p \in DOMAIN ws
             PROVE  p \in Nat \ {0} /\ Note(ws)[p] \in Window(p)
  BY DEF IsWindows, Note
<1>1. p \in Nat \ {0} /\ ws[p] \in [limit : Nat \ {0}, hits : Nat, age : 0..p]
  BY DEF IsWindows, Window
<1>2. CASE ws[p].hits = 0 \/ ~Open(ws, p)
  <2>1. Note(ws)[p] = [ws[p] EXCEPT !.hits = 1, !.age = 0]
    BY <1>2 DEF Note
  <2>2. 1 \in Nat /\ 0 \in 0..p
    BY <1>1
  <2>3. ws[p] \in Window(p)
    BY DEF IsWindows
  <2>4. [ws[p] EXCEPT !.hits = 1, !.age = 0] \in Window(p)
    BY <2>2, <2>3, WindowType
  <2> QED
    BY <1>1, <2>1, <2>4
<1>3. CASE ~(ws[p].hits = 0 \/ ~Open(ws, p))
  <2>1. Note(ws)[p] = [ws[p] EXCEPT !.hits = ws[p].hits + 1]
    BY <1>3 DEF Note
  <2>2. ws[p].hits + 1 \in Nat /\ 0 \in 0..p
    BY <1>1
  <2>3. ws[p] \in Window(p)
    BY DEF IsWindows
  <2>4. [ws[p] EXCEPT !.hits = ws[p].hits + 1] \in Window(p)
    BY <2>2, <2>3, WindowType
  <2> QED
    BY <1>1, <2>1, <2>4
<1> QED
  BY <1>2, <1>3

\* So does taking over the limits of an answer (RateLimiter::observe).
LEMMA AdoptType ==
  ASSUME NEW ws, IsWindows(ws), NEW l, IsLimits(l)
  PROVE  IsWindows(Adopt(ws, l))
<1> SUFFICES ASSUME NEW p \in DOMAIN l
             PROVE  p \in Nat \ {0} /\ Adopt(ws, l)[p] \in Window(p)
  BY DEF IsWindows, Adopt
<1>1. p \in Nat \ {0} /\ l[p] \in Nat \ {0}
  BY DEF IsLimits
<1>2. CASE p \in DOMAIN ws
  <2>1. ws[p] \in [limit : Nat \ {0}, hits : Nat, age : 0..p]
    BY <1>2 DEF IsWindows, Window
  <2> QED
    BY <1>1, <1>2, <2>1 DEF Adopt, Window
<1>3. CASE p \notin DOMAIN ws
  BY <1>1, <1>3 DEF Adopt, Window
<1> QED
  BY <1>2, <1>3

\* And its counts.
LEMMA CountedType ==
  ASSUME NEW ws, IsWindows(ws), NEW h, \A p \in DOMAIN h : h[p] \in Nat
  PROVE  IsWindows(Counted(ws, h))
<1> SUFFICES ASSUME NEW p \in DOMAIN ws
             PROVE  p \in Nat \ {0} /\ Counted(ws, h)[p] \in Window(p)
  BY DEF IsWindows, Counted
<1>1. p \in Nat \ {0} /\ ws[p] \in [limit : Nat \ {0}, hits : Nat, age : 0..p]
  BY DEF IsWindows, Window
<1>2. CASE p \notin DOMAIN h
  BY <1>1, <1>2 DEF Counted, Window
<1>3. CASE p \in DOMAIN h
  <2>1. PICK n \in Nat : n = Larger(ws[p].hits, h[p])
    BY <1>1, <1>3 DEF Larger
  <2>2. PICK a \in 0..p : a = IF ws[p].hits = 0 THEN 0 ELSE ws[p].age
    BY <1>1
  <2>3. Counted(ws, h)[p] = [ws[p] EXCEPT !.age = a, !.hits = n]
    BY <1>3, <2>1, <2>2 DEF Counted
  <2>4. ws[p] \in Window(p)
    BY DEF IsWindows
  <2>5. [ws[p] EXCEPT !.age = a, !.hits = n] \in Window(p)
    BY <2>4, WindowType
  <2> QED
    BY <1>1, <2>3, <2>5
<1> QED
  BY <1>2, <1>3

\* And the clock.
LEMMA AgedType ==
  ASSUME NEW ws, IsWindows(ws)
  PROVE  IsWindows(Aged(ws))
<1> SUFFICES ASSUME NEW p \in DOMAIN ws
             PROVE  p \in Nat \ {0} /\ Aged(ws)[p] \in Window(p)
  BY DEF IsWindows, Aged
<1>1. p \in Nat \ {0} /\ ws[p] \in [limit : Nat \ {0}, hits : Nat, age : 0..p]
  BY DEF IsWindows, Window
<1> QED
  BY <1>1 DEF Aged, Window

\* Every wait the limiter can ask for is a time (RateLimiter::delay_ms).
LEMMA WaitsType ==
  ASSUME TypeOK
  PROVE  Waits \subseteq Nat /\ blocked \in Waits
<1>1. blocked \in Nat
  BY TimeAssumption DEF TypeOK
<1>2. \A p \in DOMAIN windows : p - windows[p].age + Margin \in Nat
  BY TimeAssumption DEF TypeOK, IsWindows, Window
<1> QED
  BY <1>1, <1>2 DEF Waits

-----------------------------------------------------------------------------
(* The server.                                                             *)

\* How many requests it counts for a period.
LEMMA CountInType ==
  ASSUME NEW l \in Seq(Request), NEW p
  PROVE  CountIn(l, p) \in 0..Len(l)
<1> DEFINE S == {i \in 1..Len(l) : l[i].age < p}
<1>1. Len(l) \in Nat
  OBVIOUS
<1>2. IsFiniteSet(1..Len(l)) /\ Cardinality(1..Len(l)) = Len(l)
  BY <1>1, FS_Interval
<1>3. S \in SUBSET (1..Len(l))
  OBVIOUS
<1>4. IsFiniteSet(S) /\ Cardinality(S) <= Cardinality(1..Len(l))
  BY <1>2, <1>3, FS_Subset
<1>5. Cardinality(S) \in Nat
  BY <1>4, FS_CardinalityType
<1> QED
  BY <1>1, <1>2, <1>4, <1>5 DEF CountIn

\* What it has not forgotten is still a log.
LEMMA KeptType ==
  ASSUME NEW l \in Seq(Request)
  PROVE  Kept(l) \in Seq(Request)
<1>1. PICK c \in 0..Len(l) : c = CountIn(l, Longest - 1)
  BY CountInType
<1>2. Older(l) \in [1..Len(l) -> Request]
  <2>1. ASSUME NEW i \in 1..Len(l) PROVE [l[i] EXCEPT !.age = @ + 1] \in Request
    <3>1. l[i] \in Request
      OBVIOUS
    <3> QED
      BY <3>1 DEF Request
  <2> QED
    BY <2>1 DEF Older
<1>3. \A i \in (Len(l) - c + 1)..Len(l) : Older(l)[i] \in Request
  BY <1>1, <1>2
<1>4. SubSeq(Older(l), Len(l) - c + 1, Len(l)) \in Seq(Request)
  <2> DEFINE s == Older(l)
             m == Len(l) - c + 1
             n == Len(l)
  <2>1. m \in Int /\ n \in Int
    BY <1>1
  <2>2. \A i \in m..n : s[i] \in Request
    BY <1>3
  <2> HIDE DEF s, m, n
  <2>3. SubSeq(s, m, n) \in Seq(Request)
    BY <2>1, <2>2, SubSeqProperties
  <2> QED
    BY <2>3 DEF s, m, n
<1> QED
  BY <1>1, <1>4 DEF Kept

\* Serving a request.
LEMMA ServeType ==
  ASSUME TypeOK, NEW own \in BOOLEAN, Serve(own)
  PROVE  log' \in Seq(Request) /\ lock' \in 0..Lockout
<1>1. [age |-> 0, own |-> own] \in Request
  BY DEF Request
<1>2. log' \in Seq(Request)
  BY <1>1 DEF Serve, TypeOK
<1>3. lock' \in 0..Lockout
  BY TimeAssumption DEF Serve, TypeOK
<1> QED
  BY <1>2, <1>3

-----------------------------------------------------------------------------
\* The first start of all.
LEMMA InitHolds == Init => Inv
<1> SUFFICES ASSUME Init PROVE Inv
  OBVIOUS
<1> USE TimeAssumption
<1>1. IsWindows(windows)
  BY FreshType, LimitsAssumption DEF Init
<1>2. log \in Seq(Request)
  BY DEF Init
<1>3. blind \in 0..Wake
  BY DEF Init, Wake
<1>4. TypeOK
  BY <1>1, <1>2, <1>3 DEF Init, TypeOK
<1>5. Remembered /\ WrittenDown /\ WaitedOut
  BY DEF Init, Remembered, WrittenDown, WaitedOut
<1> QED
  BY <1>4, <1>5 DEF Inv

\* Every step, when one thread makes the policy's requests.
LEMMA NextKeeps ==
  ASSUME NEW w0, Workers = {w0}, Inv, [Next]_vars
  PROVE  Inv'
<1> USE TimeAssumption
<1>0. TypeOK /\ Remembered /\ WrittenDown /\ WaitedOut
  BY DEF Inv
<1>a. /\ told \in Nat /\ blocked \in Nat /\ lock \in Nat /\ blind \in Nat
      /\ Wake \in Nat /\ Wake \in 0..Wake
  BY <1>0 DEF TypeOK, Wake
<1>b. limits \in Published /\ IsLimits(limits)
  BY <1>0, LimitsAssumption DEF TypeOK
<1>1. ASSUME NEW w \in Workers, Check(w) PROVE Inv'
  <2>1. PICK d \in Waits : IsDelay(d) /\ Worth(d) /\ left' = [left EXCEPT ![w] = d]
    BY <1>1 DEF Check
  <2>2. d \in 0..MaxWait /\ blocked <= d
    BY <1>0, <2>1, WaitsType DEF IsDelay, Worth
  <2>3. TypeOK'
    BY <1>0, <1>1, <2>1, <2>2 DEF TypeOK, Check, serverVars
  <2>4. Remembered' /\ WrittenDown'
    BY <1>0, <1>1 DEF Check, Remembered, WrittenDown
  <2>5. WaitedOut'
    BY <1>0, <1>1, <1>a, <2>1, <2>2 DEF Check, WaitedOut, Remembered, TypeOK
  <2> QED
    BY <2>3, <2>4, <2>5 DEF Inv
<1>2. ASSUME NEW w \in Workers, Send(w) PROVE Inv'
  <2>1. log' \in Seq(Request) /\ lock' \in 0..Lockout
    BY <1>0, <1>2, ServeType DEF Send
  <2>2. IsWindows(Note(windows))
    BY <1>0, NoteType DEF TypeOK
  <2>3. IsAnswer(answer'[w])
    <3>1. answer'[w] = [hits |-> Counts(log'), limits |-> limits, restricted |-> lock']
      BY <1>0, <1>2 DEF Send, TypeOK
    <3>2. \A p \in DOMAIN Counts(log') : Counts(log')[p] \in Nat
      BY <2>1, CountInType DEF Counts
    <3> QED
      BY <1>b, <2>1, <3>1, <3>2 DEF IsAnswer
  <2>4. TypeOK'
    BY <1>0, <1>2, <2>1, <2>2, <2>3 DEF TypeOK, Send, Spent, Save
  <2>5. Remembered' /\ WrittenDown' /\ WaitedOut'
    BY <1>0, <1>2 DEF Send, Spent, Save, Remembered, WrittenDown, WaitedOut, TypeOK
  <2> QED
    BY <2>4, <2>5 DEF Inv
<1>3. ASSUME NEW w \in Workers, Answer(w) PROVE Inv'
  <2>1. IsAnswer(answer[w])
    BY <1>0, <1>3 DEF TypeOK, Answer
  <2>2. PICK r \in 0..Lockout : r = answer[w].restricted
    BY <2>1 DEF IsAnswer
  <2>3. PICK ws : ws = Counted(Adopt(windows, answer[w].limits), answer[w].hits)
    OBVIOUS
  <2>4. PICK b : b = Extended(blocked, r)
    OBVIOUS
  <2>5. /\ windows' = ws /\ blocked' = b /\ file' = <<Save(ws, b)>> /\ told' = Larger(told, r)
        /\ IsWindows(ws) /\ b \in 0..Lockout /\ r <= b /\ blocked <= b
    <3>1. windows' = ws /\ blocked' = b /\ file' = <<Save(ws, b)>>
      BY <1>3, <2>2, <2>3, <2>4 DEF Answer
    <3>2. told' = Larger(told, r)
      BY <1>3, <2>2 DEF Answer
    <3>3. IsWindows(ws)
      BY <1>0, <2>1, <2>3, AdoptType, CountedType DEF TypeOK, IsAnswer
    <3>4. blocked \in 0..Lockout
      BY <1>0 DEF TypeOK
    <3>5. b = IF blocked > r THEN blocked ELSE r
      BY <2>4 DEF Extended, Larger
    <3>6. b \in 0..Lockout /\ r <= b /\ blocked <= b
      BY <2>2, <3>4, <3>5
    <3> QED
      BY <3>1, <3>2, <3>3, <3>6
  <2>6. /\ pc' = [pc EXCEPT ![w] = "idle"] /\ answer' = [answer EXCEPT ![w] = None]
        /\ UNCHANGED <<left, log, limits, lock>> /\ blind' \in 0..Wake
    BY <1>0, <1>3, <1>a DEF Answer, serverVars, TypeOK
  <2>7. told' \in 0..Lockout /\ told' <= b
    BY <1>0, <1>a, <2>2, <2>5 DEF Larger, Remembered, TypeOK
  <2>8. file'[1].windows = ws /\ file'[1].blocked = b
    BY <2>5 DEF Save
  <2>9. pc' \in [Workers -> {"idle", "waiting", "sent"}] /\ pc'[w] = "idle"
    BY <1>0, <2>6 DEF TypeOK
  <2>10. TypeOK'
    BY <1>0, <2>5, <2>6, <2>7, <2>8, <2>9 DEF TypeOK
  <2>11. Remembered' /\ WrittenDown' /\ WaitedOut'
    BY <2>5, <2>7, <2>8, <2>9 DEF Remembered, WrittenDown, WaitedOut
  <2> QED
    BY <2>10, <2>11 DEF Inv
<1>4. ASSUME NEW w \in Workers, LoseAnswer(w) PROVE Inv'
  <2>1. TypeOK'
    BY <1>0, <1>a, <1>4 DEF TypeOK, LoseAnswer, serverVars
  <2>2. Remembered' /\ WrittenDown' /\ WaitedOut'
    BY <1>0, <1>4 DEF LoseAnswer, Remembered, WrittenDown, WaitedOut, TypeOK
  <2> QED
    BY <2>1, <2>2 DEF Inv
<1>5. CASE Restart
  <2>1. IsWindows(Restored(file).windows) /\ Restored(file).blocked \in 0..Lockout
    BY <1>0, FreshType, LimitsAssumption DEF TypeOK, Restored, Save
  <2>2. TypeOK'
    BY <1>0, <1>a, <1>5, <2>1 DEF TypeOK, Restart, serverVars
  <2>3. Remembered' /\ WrittenDown' /\ WaitedOut'
    BY <1>0, <1>5 DEF Restart, Remembered, WrittenDown, WaitedOut, Restored, Save
  <2> QED
    BY <2>2, <2>3 DEF Inv
<1>6. CASE TornWrite
  <2>1. IsWindows(Fresh(Seeded))
    BY FreshType, LimitsAssumption
  <2>2. log' \in Seq(Request)
    <3>1. ASSUME NEW i \in 1..Len(log) PROVE [log[i] EXCEPT !.own = FALSE] \in Request
      <4>1. log[i] \in Request
        BY <1>0 DEF TypeOK
      <4> QED
        BY <4>1 DEF Request
    <3>2. Len(log) \in Nat
      BY <1>0 DEF TypeOK
    <3> QED
      BY <1>6, <3>1, <3>2, IsASeq DEF TornWrite
  <2>3. TypeOK'
    BY <1>0, <1>a, <1>6, <2>1, <2>2 DEF TypeOK, TornWrite
  <2>4. Remembered' /\ WrittenDown' /\ WaitedOut'
    BY <1>6 DEF TornWrite, Remembered, WrittenDown, WaitedOut
  <2> QED
    BY <2>3, <2>4 DEF Inv
<1>7. CASE Tick
  <2>1. IsWindows(Aged(windows)) /\ (file # <<>> => IsWindows(Aged(file[1].windows)))
    BY <1>0, AgedType DEF TypeOK
  <2>2. log' \in Seq(Request)
    BY <1>0, <1>7, KeptType DEF TypeOK, Tick
  <2>3. /\ Less1(blocked) \in 0..Lockout /\ Less1(lock) \in 0..Lockout
        /\ Less1(told) \in 0..Lockout /\ Less1(blind) \in 0..Wake
        /\ file # <<>> => Less1(file[1].blocked) \in 0..Lockout
    <3>1. \A n \in Nat : \A t \in 0..n : Less1(t) \in 0..n
      BY DEF Less1
    <3>2. Lockout \in Nat /\ Wake \in Nat
      BY <1>a
    <3> QED
      BY <1>0, <3>1, <3>2 DEF TypeOK
  <2>4. left' \in [Workers -> 0..MaxWait]
    BY <1>0, <1>7 DEF TypeOK, Tick, Less1
  <2>5. IF file = <<>> THEN file' = <<>>
        ELSE /\ file' # <<>>
             /\ file'[1].windows = Aged(file[1].windows)
             /\ file'[1].blocked = Less1(file[1].blocked)
    <3>1. CASE file = <<>>
      BY <1>7, <3>1 DEF Tick
    <3>2. CASE file # <<>>
      <4>1. file' = <<Save(Aged(file[1].windows), Less1(file[1].blocked))>>
        BY <1>7, <3>2 DEF Tick
      <4> QED
        BY <3>2, <4>1 DEF Save
    <3> QED
      BY <3>1, <3>2
  <2>6. TypeOK'
    BY <1>0, <1>7, <2>1, <2>2, <2>3, <2>4, <2>5 DEF TypeOK, Tick
  <2>7. Remembered'
    BY <1>0, <1>7, <1>a DEF Tick, Remembered, Less1
  <2>8. WrittenDown'
    BY <1>0, <1>7, <1>a, <2>5 DEF Tick, WrittenDown, Less1, TypeOK
  <2>9. WaitedOut'
    BY <1>0, <1>7, <1>a DEF Tick, WaitedOut, Less1, TypeOK
  <2> QED
    BY <2>6, <2>7, <2>8, <2>9 DEF Inv
<1>8. CASE OtherRequest
  <2>1. log' \in Seq(Request) /\ lock' \in 0..Lockout
    BY <1>0, <1>8, ServeType DEF OtherRequest
  <2>2. TypeOK'
    BY <1>0, <1>a, <1>8, <2>1 DEF TypeOK, OtherRequest, clientVars
  <2>3. Remembered' /\ WrittenDown' /\ WaitedOut'
    BY <1>0, <1>8 DEF OtherRequest, clientVars, Remembered, WrittenDown, WaitedOut
  <2> QED
    BY <2>2, <2>3 DEF Inv
<1>9. CASE Publish
  <2>1. TypeOK'
    BY <1>0, <1>a, <1>9 DEF TypeOK, Publish, clientVars
  <2>2. Remembered' /\ WrittenDown' /\ WaitedOut'
    BY <1>0, <1>9 DEF Publish, clientVars, Remembered, WrittenDown, WaitedOut
  <2> QED
    BY <2>1, <2>2 DEF Inv
<1>10. CASE UNCHANGED vars
  <2>1. TypeOK'
    BY <1>0, <1>10 DEF TypeOK, vars, clientVars, serverVars
  <2>2. Remembered' /\ WrittenDown' /\ WaitedOut'
    BY <1>0, <1>10 DEF vars, clientVars, serverVars, Remembered, WrittenDown, WaitedOut
  <2> QED
    BY <2>1, <2>2 DEF Inv
<1> QED
  BY <1>1, <1>2, <1>3, <1>4, <1>5, <1>6, <1>7, <1>8, <1>9, <1>10 DEF Next

\* A request leaves only when the wait it was given is over, and that wait was no
\* shorter than the restriction.
LEMMA SendsInTheClear ==
  ASSUME NEW w0, Workers = {w0}, Inv, [Next]_vars
  PROVE  \A w \in Workers : pc[w] = "waiting" /\ pc'[w] = "sent" => told = 0
<1> SUFFICES ASSUME NEW w \in Workers, pc[w] = "waiting", pc'[w] = "sent"
             PROVE  told = 0
  OBVIOUS
<1>1. TypeOK /\ told <= left[w]
  BY DEF Inv, WaitedOut
<1>2. CASE \E v \in Workers : Send(v)
  <2>1. left[w] = 0
    BY <1>2 DEF Send
  <2> QED
    BY <1>1, <2>1, TimeAssumption DEF TypeOK
<1>3. CASE \E v \in Workers : Check(v) \/ Answer(v) \/ LoseAnswer(v)
  BY <1>1, <1>3 DEF TypeOK, Check, Answer, LoseAnswer
<1>4. CASE Restart \/ TornWrite \/ Tick \/ OtherRequest \/ Publish \/ UNCHANGED vars
  BY <1>1, <1>4 DEF TypeOK, Restart, TornWrite, Tick, OtherRequest, Publish, vars, clientVars
<1> QED
  BY <1>2, <1>3, <1>4 DEF Next

-----------------------------------------------------------------------------
\* What an answer, a restart and the clock do to the windows, the waits and the
\* file leaves them what they are.
THEOREM LimiterTypes ==
  ASSUME NEW w0, Workers = {w0}
  PROVE  Spec => []TypeOK
<1>1. Inv /\ [Next]_vars => Inv'
  BY NextKeeps
<1>2. Inv => TypeOK
  BY DEF Inv
<1> QED
  BY <1>1, <1>2, InitHolds, PTL DEF Spec

\* With one thread per policy, no request of ours is sent into a restriction this
\* program was told of, whatever was killed, lost or published in between.
THEOREM RestrictionIsHonoured ==
  ASSUME NEW w0, Workers = {w0}
  PROVE  Spec => HonoursRestriction
<1>1. Inv /\ [Next]_vars => Inv'
  BY NextKeeps
<1>2. Inv /\ [Next]_vars => \A w \in Workers : pc[w] = "waiting" /\ pc'[w] = "sent" => told = 0
  BY SendsInTheClear
<1> QED
  BY <1>1, <1>2, InitHolds, PTL DEF Spec, HonoursRestriction
-----------------------------------------------------------------------------
(* What the limiter and the server both count.                             *)

\* The requests of the last p ticks in a log l that went out a window or more after
\* the last thing the limiter could not know, b of its wake being left.
Since(l, b, p) == {i \in 1..Len(l) : l[i].age + b <= Longest /\ l[i].age < p}
Recent(l, b, p) == Cardinality(Since(l, b, p))

LEMMA RecentType ==
  ASSUME NEW l \in Seq(Request), NEW b \in Nat, NEW p \in Nat
  PROVE  IsFiniteSet(Since(l, b, p)) /\ Recent(l, b, p) \in Nat
<1>1. IsFiniteSet(1..Len(l)) /\ Since(l, b, p) \in SUBSET (1..Len(l))
  BY FS_Interval DEF Since
<1>2. IsFiniteSet(Since(l, b, p))
  BY <1>1, FS_Subset
<1> QED
  BY <1>2, FS_CardinalityType DEF Recent

LEMMA AgeType ==
  ASSUME NEW l \in Seq(Request), NEW i \in 1..Len(l)
  PROVE  l[i].age \in Nat
<1>1. l[i] \in Request
  OBVIOUS
<1> QED
  BY <1>1 DEF Request

\* Right after such a thing there are none.
LEMMA NoneInTheWake ==
  ASSUME NEW l \in Seq(Request), NEW b \in Nat, NEW p \in Nat, b > Longest \/ p = 0
  PROVE  Recent(l, b, p) = 0
<1>1. \A i \in 1..Len(l) : l[i].age \in Nat
  BY AgeType
<1>2. Since(l, b, p) = {}
  BY <1>1, TimeAssumption DEF Since
<1> QED
  BY <1>2, FS_EmptySet DEF Recent

\* A longer period holds at least as many.
LEMMA LongerHoldsMore ==
  ASSUME NEW l \in Seq(Request), NEW b \in Nat, NEW p \in Nat, NEW q \in Nat, p <= q
  PROVE  Recent(l, b, p) <= Recent(l, b, q)
<1>1. \A i \in 1..Len(l) : l[i].age \in Nat
  BY AgeType
<1>2. Since(l, b, p) \in SUBSET Since(l, b, q)
  BY <1>1 DEF Since
<1> QED
  BY <1>2, RecentType, FS_Subset DEF Recent

\* A request adds one.
LEMMA OneMore ==
  ASSUME NEW l \in Seq(Request), NEW b \in Nat, NEW p \in Nat, NEW own \in BOOLEAN
  PROVE  Recent(Append(l, [age |-> 0, own |-> own]), b, p) <= Recent(l, b, p) + 1
<1> DEFINE e == [age |-> 0, own |-> own]
           m == Append(l, e)
           n == Len(l) + 1
<1>1. e \in Request
  BY DEF Request
<1>2. m \in Seq(Request) /\ Len(m) = n /\ \A i \in 1..Len(l) : m[i] = l[i]
  BY <1>1
<1> HIDE DEF m, e
<1>3. Since(m, b, p) \subseteq Since(l, b, p) \cup {n}
  BY <1>2 DEF Since
<1>4. IsFiniteSet(Since(l, b, p)) /\ Recent(l, b, p) \in Nat /\ Recent(m, b, p) \in Nat
  BY <1>2, RecentType
<1>5. /\ IsFiniteSet(Since(l, b, p) \cup {n})
      /\ Cardinality(Since(l, b, p) \cup {n}) <= Cardinality(Since(l, b, p)) + 1
  <2>1. Cardinality(Since(l, b, p) \cup {n}) =
          IF n \in Since(l, b, p) THEN Cardinality(Since(l, b, p)) ELSE Cardinality(Since(l, b, p)) + 1
    BY <1>4, FS_AddElement
  <2>2. IsFiniteSet(Since(l, b, p) \cup {n})
    BY <1>4, FS_AddElement
  <2>3. Cardinality(Since(l, b, p)) \in Nat
    BY <1>4 DEF Recent
  <2> HIDE DEF n
  <2> QED
    BY <2>1, <2>2, <2>3
<1>6. Cardinality(Since(m, b, p)) <= Cardinality(Since(l, b, p) \cup {n})
  BY <1>3, <1>5, FS_Subset
<1>7. Cardinality(Since(l, b, p) \cup {n}) \in Nat
  BY <1>5, FS_CardinalityType
<1>8. Cardinality(Since(m, b, p)) <= Cardinality(Since(l, b, p)) + 1
  BY <1>4, <1>5, <1>6, <1>7 DEF Recent
<1> QED
  BY <1>8 DEF Recent, m, e

\* The server counts it, and every other one of them.
LEMMA ServerCounts ==
  ASSUME NEW l \in Seq(Request), NEW b \in Nat, NEW p \in Nat \ {0}, NEW own \in BOOLEAN
  PROVE  LET m == Append(l, [age |-> 0, own |-> own])
         IN  /\ CountIn(m, p) \in Nat \ {0} /\ Recent(m, b, p) <= CountIn(m, p)
             /\ b = 0 /\ p <= Longest => CountIn(m, p) = Recent(m, b, p)
<1> DEFINE e == [age |-> 0, own |-> own]
           m == Append(l, e)
           S == {i \in 1..Len(m) : m[i].age < p}
<1>1. e \in Request /\ e.age = 0
  BY DEF Request
<1>2. m \in Seq(Request) /\ Len(m) = Len(l) + 1 /\ m[Len(m)] = e
  BY <1>1
<1>3. Len(m) \in S
  BY <1>1, <1>2
<1> HIDE DEF m, e
<1>4. IsFiniteSet(S)
  <2>1. IsFiniteSet(1..Len(m)) /\ S \in SUBSET (1..Len(m))
    BY <1>2, FS_Interval
  <2> QED
    BY <2>1, FS_Subset
<1>5. Since(m, b, p) \in SUBSET S
  BY DEF Since
<1>6. Cardinality(S) \in Nat /\ Cardinality(S) # 0
  BY <1>3, <1>4, FS_CardinalityType, FS_EmptySet
<1>7. Cardinality(Since(m, b, p)) <= Cardinality(S)
  BY <1>4, <1>5, FS_Subset
<1>8. ASSUME b = 0, p <= Longest PROVE Since(m, b, p) = S
  <2>1. \A i \in 1..Len(m) : m[i].age \in Nat
    BY <1>2, AgeType
  <2> QED
    BY <1>8, <2>1, TimeAssumption DEF Since
<1>9. CountIn(m, p) = Cardinality(S)
  BY DEF CountIn
<1> HIDE DEF S
<1>10. /\ CountIn(m, p) \in Nat \ {0} /\ Recent(m, b, p) <= CountIn(m, p)
       /\ b = 0 /\ p <= Longest => CountIn(m, p) = Recent(m, b, p)
  BY <1>6, <1>7, <1>8, <1>9 DEF Recent
<1> QED
  BY <1>10 DEF m, e

\* With the clock none comes back, though the period grows with it.
LEMMA TickForgets ==
  ASSUME NEW l \in Seq(Request), NEW b \in Nat, NEW p \in Nat, NEW q \in Nat, q <= p + 1
  PROVE  Recent(Kept(l), Less1(b), q) <= Recent(l, b, p)
<1>1. PICK c \in 0..Len(l) : c = CountIn(l, Longest - 1)
  BY CountInType
<1> DEFINE off == Len(l) - c
<1>2. off \in Nat /\ off <= Len(l) /\ Len(l) \in Nat
  OBVIOUS
<1>3. \A i \in 1..Len(l) : Older(l)[i].age = l[i].age + 1 /\ l[i].age \in Nat
  <2>1. ASSUME NEW i \in 1..Len(l) PROVE Older(l)[i].age = l[i].age + 1 /\ l[i].age \in Nat
    <3>1. l[i] \in Request
      OBVIOUS
    <3>2. Older(l)[i] = [l[i] EXCEPT !.age = l[i].age + 1]
      BY DEF Older
    <3> QED
      BY <3>1, <3>2 DEF Request
  <2> QED
    BY <2>1
<1>4. Len(Kept(l)) = c /\ \A j \in 1..c : Kept(l)[j] = Older(l)[off + j]
  <2>1. Kept(l) = SubSeq(Older(l), off + 1, Len(l))
    BY <1>1 DEF Kept
  <2>2. Older(l) \in Seq(Request)
    <3>1. ASSUME NEW i \in 1..Len(l) PROVE [l[i] EXCEPT !.age = l[i].age + 1] \in Request
      <4>1. l[i] \in Request
        OBVIOUS
      <4> QED
        BY <4>1 DEF Request
    <3> QED
      BY <1>2, <3>1, IsASeq DEF Older
  <2>3. Len(Older(l)) = Len(l)
    BY <1>2 DEF Older
  <2> DEFINE s == Older(l)
             a == off + 1
             z == Len(l)
  <2>4. \A i \in a..z : s[i] \in Request
    BY <1>2, <2>2, <2>3
  <2>5. a \in Int /\ z \in Int
    BY <1>1, <1>2
  <2> HIDE DEF s, a, z
  <2>6. /\ Len(SubSeq(s, a, z)) = IF a <= z THEN z - a + 1 ELSE 0
        /\ \A j \in 1..(z - a + 1) : SubSeq(s, a, z)[j] = s[a + j - 1]
    BY <2>4, <2>5, SubSeqProperties
  <2>7. Kept(l) = SubSeq(s, a, z)
    BY <2>1 DEF s, a, z
  <2>8. /\ a <= z + 1 /\ z - a + 1 = c /\ a = off + 1
        /\ IF a <= z THEN z - a + 1 = c ELSE c = 0
    BY <1>1, <1>2 DEF a, z
  <2>9. Len(Kept(l)) = c /\ \A j \in 1..c : Kept(l)[j] = s[a + j - 1]
    BY <2>6, <2>7, <2>8
  <2>10. \A j \in 1..c : a + j - 1 = off + j
    BY <1>1, <1>2, <2>8
  <2>11. \A j \in 1..c : Kept(l)[j] = s[off + j]
    BY <2>9, <2>10
  <2> QED
    BY <2>9, <2>11 DEF s
<1> DEFINE S == Since(Kept(l), Less1(b), q)
           T == Since(l, b, p)
           f == [j \in S |-> off + j]
<1>5. \A j \in S : j \in 1..c /\ off + j \in T
  <2>1. SUFFICES ASSUME NEW j \in 1..c,
                        Kept(l)[j].age + Less1(b) <= Longest, Kept(l)[j].age < q
                 PROVE  off + j \in T
    BY <1>4 DEF Since
  <2>2. off + j \in 1..Len(l)
    BY <1>1
  <2>3. Kept(l)[j].age = l[off + j].age + 1 /\ l[off + j].age \in Nat
    BY <1>3, <1>4, <2>2
  <2>4. l[off + j].age + b <= Longest /\ l[off + j].age < p
    BY <2>1, <2>3, TimeAssumption DEF Less1
  <2> QED
    BY <2>2, <2>4 DEF Since
<1>6. f \in Injection(S, T)
  BY <1>2, <1>5 DEF Injection, IsInjective
<1>7. IsFiniteSet(T)
  BY RecentType
<1> HIDE DEF S, T, f
<1>8. Cardinality(S) <= Cardinality(T)
  BY <1>6, <1>7, FS_Injection
<1> QED
  BY <1>8 DEF Recent, S, T

-----------------------------------------------------------------------------
(* The limiter's windows beside the server's count.                        *)

\* What the file would give back is what is in memory.
OnDisk == Restored(file) = Save(windows, blocked)

\* The limits in force are the limiter's.
InStep == DOMAIN windows = DOMAIN limits /\ \A p \in DOMAIN limits : windows[p].limit = limits[p]

\* A wait that is over leaves no full window open.
Waited == \A w \in Workers : pc[w] = "waiting" =>
            \A p \in DOMAIN windows : windows[p].hits < windows[p].limit \/ windows[p].age + left[w] >= p

\* An open window has counted the request that opened it and those that came after.
Opened == \A p \in DOMAIN windows : Open(windows, p) =>
            windows[p].hits >= Recent(log, blind, windows[p].age) + 1

\* There is room for what opens the next one when it closes.
Room == \A p \in DOMAIN windows \cap DOMAIN limits : Recent(log, blind, windows[p].age) < limits[p]

\* An answer brings the server's count of its own request, and the windows keep it.
Brings == \A w \in Workers : pc[w] = "sent" =>
            /\ DOMAIN answer[w].hits = DOMAIN answer[w].limits
            /\ \A p \in DOMAIN answer[w].hits : answer[w].hits[p] >= 1
                                             /\ answer[w].hits[p] >= Recent(log, blind, p)
Keeps == \A w \in Workers : pc[w] # "sent" =>
           \A p \in DOMAIN windows : Open(windows, p) => windows[p].hits >= Recent(log, blind, p)

\* A request was answered since, so the limits are known.
Learned == Recent(log, blind, Longest) > 0 =>
             \A w \in Workers : IF pc[w] = "sent" THEN answer[w].limits = limits ELSE InStep

\* While they are not, the windows were opened before.
Behind == (\A w \in Workers : pc[w] # "sent") /\ ~InStep =>
            \A p \in DOMAIN windows : windows[p].age >= p \/ windows[p].age + blind >= Wake

Counting == Opened /\ Room /\ Brings /\ Keeps /\ Learned /\ Behind
Ahead == OnDisk /\ Waited /\ Counting

\* The types, one by one.
LEMMA Facts ==
  ASSUME TypeOK
  PROVE  /\ log \in Seq(Request) /\ blind \in Nat /\ Wake \in Nat /\ Longest \in Nat /\ Longest < Wake
         /\ IsLimits(limits) /\ \A p \in DOMAIN limits : p <= Longest
         /\ \A p \in DOMAIN windows : /\ p \in Nat \ {0} /\ windows[p].limit \in Nat \ {0}
                                      /\ windows[p].hits \in Nat /\ windows[p].age \in 0..p
<1>1. limits \in Published /\ blind \in Nat /\ log \in Seq(Request)
  BY DEF TypeOK, Wake
<1>2. \A p \in DOMAIN windows : p \in Nat \ {0} /\ windows[p] \in [limit : Nat \ {0}, hits : Nat, age : 0..p]
  BY DEF TypeOK, IsWindows, Window
<1> QED
  BY <1>1, <1>2, TimeAssumption, LimitsAssumption DEF Wake

LEMMA FactsNext ==
  ASSUME TypeOK'
  PROVE  /\ log' \in Seq(Request) /\ blind' \in Nat /\ Longest \in Nat /\ Longest < Wake
         /\ \A p \in DOMAIN limits' : limits'[p] \in Nat \ {0}
         /\ \A p \in DOMAIN windows' : /\ p \in Nat \ {0} /\ windows'[p].hits \in Nat
                                       /\ windows'[p].age \in Nat
         /\ \A w \in Workers : pc'[w] = "sent" => \A p \in DOMAIN answer'[w].hits : answer'[w].hits[p] \in Nat
<1>1. limits' \in Published /\ blind' \in Nat /\ log' \in Seq(Request)
  BY DEF TypeOK, Wake
<1>2. \A p \in DOMAIN windows' : p \in Nat \ {0} /\ windows'[p] \in [limit : Nat \ {0}, hits : Nat, age : 0..p]
  BY DEF TypeOK, IsWindows, Window
<1>3. \A w \in Workers : pc'[w] = "sent" => \A p \in DOMAIN answer'[w].hits : answer'[w].hits[p] \in Nat
  BY DEF TypeOK, IsAnswer
<1> QED
  BY <1>1, <1>2, <1>3, TimeAssumption, LimitsAssumption DEF Wake, IsLimits

\* What the limiter could not know starts the count again.
LEMMA StartsAgain ==
  ASSUME TypeOK', blind' = Wake,
         \A p \in DOMAIN windows' : Open(windows', p) => windows'[p].hits >= 1,
         \A w \in Workers : pc'[w] = "sent" =>
            /\ DOMAIN answer'[w].hits = DOMAIN answer'[w].limits
            /\ \A p \in DOMAIN answer'[w].hits : answer'[w].hits[p] >= 1 /\ p \in Nat
  PROVE  Counting'
<1>1. /\ log' \in Seq(Request) /\ blind' \in Nat /\ Longest \in Nat /\ blind' > Longest
      /\ \A p \in DOMAIN limits' : limits'[p] \in Nat \ {0}
  BY FactsNext
<1>2. \A p \in Nat : Recent(log', blind', p) = 0
  BY <1>1, NoneInTheWake
<1>3. \A p \in DOMAIN windows' : p \in Nat /\ windows'[p].age \in Nat /\ windows'[p].hits \in Nat
  BY FactsNext
<1>4. Opened' /\ Room' /\ Keeps' /\ Learned'
  BY <1>1, <1>2, <1>3 DEF Opened, Room, Keeps, Learned
<1>5. Brings'
  BY <1>2, FactsNext DEF Brings
<1>6. Behind'
  BY <1>1, <1>3 DEF Behind
<1> QED
  BY <1>4, <1>5, <1>6 DEF Counting

LEMMA AheadInit == Init => Ahead
<1> SUFFICES ASSUME Init PROVE Ahead
  OBVIOUS
<1>1. TypeOK
  BY InitHolds DEF Inv
<1>2. /\ \A p \in DOMAIN windows : windows[p].age = p /\ ~Open(windows, p)
      /\ \A w \in Workers : pc[w] = "idle"
  BY <1>1, Facts DEF Init, Fresh, Open
<1>3. OnDisk /\ Waited
  BY <1>2 DEF Init, OnDisk, Waited, Restored, Save
<1>4. \A b \in Nat, p \in Nat : Recent(log, b, p) = 0
  <2>1. \A b \in Nat, p \in Nat : Since(log, b, p) = {}
    BY DEF Init, Since
  <2> QED
    BY <2>1, FS_EmptySet DEF Recent
<1>5. /\ blind \in Nat /\ Longest \in Nat /\ \A p \in DOMAIN limits : limits[p] \in Nat \ {0}
      /\ \A p \in DOMAIN windows : p \in Nat /\ windows[p].age \in Nat
  BY <1>1, Facts DEF IsLimits
<1>6. Counting
  BY <1>2, <1>4, <1>5 DEF Counting, Opened, Room, Brings, Keeps, Learned, Behind
<1> QED
  BY <1>3, <1>6 DEF Ahead

LEMMA CheckKeepsAhead ==
  ASSUME NEW w0, Workers = {w0}, TypeOK, Ahead, TypeOK', NEW w \in Workers, Check(w)
  PROVE  Ahead'
<1>1. PICK d \in Waits : IsDelay(d) /\ left' = [left EXCEPT ![w] = d]
  BY DEF Check
<1>2. /\ pc[w] = "idle" /\ pc' = [pc EXCEPT ![w] = "waiting"]
      /\ UNCHANGED <<windows, blocked, answer, file, log, limits, lock, told, blind>>
  BY DEF Check, serverVars
<1>3. left'[w] = d /\ d \in Nat /\ pc'[w] = "waiting"
  BY <1>1, <1>2, WaitsType DEF TypeOK
<1>4. ASSUME NEW p \in DOMAIN windows
      PROVE  windows[p].hits < windows[p].limit \/ windows[p].age + d >= p
  <2>1. /\ p \in Nat /\ windows[p].limit \in Nat /\ windows[p].hits \in Nat
        /\ windows[p].age \in Nat /\ Margin \in Nat
    BY Facts, TimeAssumption
  <2>2. CASE Open(windows, p) /\ Full(windows, p)
    <3>1. p - windows[p].age + Margin \in Waits
      BY <2>2 DEF Waits
    <3>2. p - windows[p].age + Margin <= d
      BY <1>1, <3>1 DEF IsDelay
    <3> QED
      BY <1>3, <2>1, <3>2
  <2>3. CASE ~(Open(windows, p) /\ Full(windows, p))
    BY <1>3, <2>1, <2>3 DEF Open, Full
  <2> QED
    BY <2>2, <2>3
<1>5. Waited'
  BY <1>2, <1>3, <1>4 DEF Waited
<1>6. OnDisk'
  BY <1>2 DEF Ahead, OnDisk
<1>7. Counting'
  BY <1>2, <1>3 DEF Ahead, Counting, Opened, Room, Brings, Keeps, Learned, InStep, Behind, Open
<1> QED
  BY <1>5, <1>6, <1>7 DEF Ahead

\* What note_request does to a window a request may go out under.
LEMMA NoteIs ==
  ASSUME NEW ws, IsWindows(ws), NEW p \in DOMAIN ws
  PROVE  /\ p \in DOMAIN Note(ws) /\ Note(ws)[p].limit = ws[p].limit
         /\ IF ws[p].hits = 0 \/ ~Open(ws, p)
            THEN Note(ws)[p].hits = 1 /\ Note(ws)[p].age = 0
            ELSE Note(ws)[p].hits = ws[p].hits + 1 /\ Note(ws)[p].age = ws[p].age
<1>1. ws[p] \in [limit : Nat \ {0}, hits : Nat, age : 0..p]
  BY DEF IsWindows, Window
<1> QED
  BY <1>1 DEF Note

\* A request of ours that leaves with its wait over, and the server's count of it.
LEMMA SendKeepsAhead ==
  ASSUME NEW w0, Workers = {w0}, TypeOK, Ahead, TypeOK', NEW w \in Workers, Send(w)
  PROVE  Ahead'
<1>1. /\ pc[w] = "waiting" /\ left[w] = 0 /\ pc' = [pc EXCEPT ![w] = "sent"]
      /\ windows' = Note(windows) /\ file' = <<Save(windows', blocked)>>
      /\ log' = Append(log, [age |-> 0, own |-> TRUE])
      /\ answer' = [answer EXCEPT ![w] = [hits |-> Counts(log'), limits |-> limits,
                                          restricted |-> lock']]
      /\ UNCHANGED <<blocked, limits, blind>>
  BY DEF Send, Spent, Serve
<1>2. /\ pc'[w] = "sent" /\ answer'[w].hits = Counts(log') /\ answer'[w].limits = limits
      /\ \A v \in Workers : v = w
  BY <1>1 DEF TypeOK
<1> DEFINE b == blind
           l == log'
<1>3. /\ log \in Seq(Request) /\ b \in Nat /\ Longest \in Nat
      /\ \A p \in DOMAIN limits : p \in Nat \ {0} /\ limits[p] \in Nat \ {0} /\ p <= Longest
      /\ l \in Seq(Request)
  BY Facts DEF IsLimits, TypeOK
<1>4. \A p \in Nat : Recent(log, b, p) \in Nat /\ Recent(l, b, p) \in Nat
  BY <1>3, RecentType
<1>5. \A p \in Nat : Recent(l, b, p) <= Recent(log, b, p) + 1
  BY <1>1, <1>3, OneMore
<1>6. Recent(l, b, 0) = 0
  BY <1>3, NoneInTheWake
<1>7. ASSUME NEW p \in DOMAIN windows
      PROVE  /\ p \in DOMAIN windows'
             /\ Open(windows', p) => windows'[p].hits >= Recent(l, b, windows'[p].age) + 1
             /\ p \in DOMAIN limits => Recent(l, b, windows'[p].age) < limits[p]
  <2>1. /\ p \in Nat \ {0} /\ windows[p].limit \in Nat \ {0} /\ windows[p].hits \in Nat
        /\ windows[p].age \in 0..p /\ windows[p].age \in Nat
    BY Facts
  <2>2. /\ p \in DOMAIN windows'
        /\ IF windows[p].hits = 0 \/ ~Open(windows, p)
           THEN windows'[p].hits = 1 /\ windows'[p].age = 0
           ELSE windows'[p].hits = windows[p].hits + 1 /\ windows'[p].age = windows[p].age
    BY <1>1, NoteIs DEF TypeOK
  <2>3. CASE windows[p].hits = 0 \/ ~Open(windows, p)
    BY <1>3, <1>6, <2>2, <2>3
  <2>4. CASE windows[p].hits # 0 /\ Open(windows, p)
    <3> DEFINE a == windows[p].age
    <3>1. windows'[p].hits = windows[p].hits + 1 /\ windows'[p].age = a
      BY <2>2, <2>4
    <3>2. windows[p].hits >= Recent(log, b, a) + 1
      BY <2>4 DEF Ahead, Counting, Opened
    <3>3. windows[p].hits < windows[p].limit /\ a < p
      BY <1>1, <2>1, <2>4 DEF Ahead, Waited, Open
    <3>4. Recent(l, b, a) <= Recent(log, b, a) + 1 /\ Recent(l, b, a) \in Nat /\ Recent(log, b, a) \in Nat
      BY <1>4, <1>5, <2>1
    <3>5. ASSUME p \in DOMAIN limits PROVE Recent(l, b, a) < limits[p]
      <4>1. p <= Longest /\ limits[p] \in Nat \ {0}
        BY <1>3, <3>5
      <4>2. CASE b > Longest
        <5>1. Recent(l, b, a) = 0
          BY <1>3, <2>1, <4>2, NoneInTheWake
        <5> QED
          BY <4>1, <5>1
      <4>3. CASE b <= Longest /\ InStep
        <5>1. windows[p].limit = limits[p]
          BY <3>5, <4>3 DEF InStep
        <5> QED
          BY <2>1, <3>2, <3>3, <3>4, <4>1, <5>1
      <4>4. CASE b <= Longest /\ ~InStep
        <5>1. a >= p \/ a + b >= Wake
          BY <1>1, <1>2, <4>4 DEF Ahead, Counting, Behind
        <5> QED
          BY <1>3, <2>1, <3>3, <4>1, <4>4, <5>1 DEF Wake
      <4> QED
        BY <1>3, <4>2, <4>3, <4>4
    <3> HIDE DEF a
    <3>6. windows'[p].hits >= Recent(l, b, a) + 1
      BY <2>1, <3>1, <3>2, <3>4
    <3> QED
      BY <2>2, <3>1, <3>5, <3>6
  <2> QED
    BY <2>3, <2>4
<1>8. DOMAIN windows' = DOMAIN windows
  BY <1>1 DEF Note
<1>9. Opened' /\ Room'
  BY <1>1, <1>7, <1>8 DEF Opened, Room
<1>10. Brings'
  <2>1. ASSUME NEW p \in DOMAIN limits
        PROVE  CountIn(l, p) \in Nat \ {0} /\ CountIn(l, p) >= Recent(l, b, p)
    <3>1. p \in Nat \ {0}
      BY <1>3
    <3>2. CountIn(l, p) \in Nat \ {0} /\ Recent(l, b, p) <= CountIn(l, p)
      BY <1>1, <1>3, <3>1, ServerCounts
    <3> QED
      BY <1>4, <3>1, <3>2
  <2>2. DOMAIN Counts(l) = DOMAIN limits /\ \A p \in DOMAIN limits : Counts(l)[p] = CountIn(l, p)
    BY DEF Counts
  <2>3. \A p \in DOMAIN Counts(l) : Counts(l)[p] >= 1 /\ Counts(l)[p] >= Recent(l, b, p)
    BY <2>1, <2>2
  <2> QED
    BY <1>1, <1>2, <2>2, <2>3 DEF Brings
<1>11. Keeps' /\ Learned' /\ Behind' /\ Waited'
  BY <1>1, <1>2 DEF Keeps, Learned, Behind, Waited
<1>12. OnDisk'
  BY <1>1 DEF OnDisk, Restored, Save
<1> QED
  BY <1>9, <1>10, <1>11, <1>12 DEF Ahead, Counting

\* What adopt_headers does to a window of the limits it is given.
LEMMA AnswerIs ==
  ASSUME NEW ws, IsWindows(ws), NEW l, NEW h, NEW p \in DOMAIN l, p \in DOMAIN h, h[p] \in Nat,
         NEW n, n = Counted(Adopt(ws, l), h)
  PROVE  /\ n[p].limit = l[p] /\ n[p].hits \in Nat /\ n[p].hits >= h[p]
         /\ \/ n[p].age = 0
            \/ p \in DOMAIN ws /\ n[p].age = ws[p].age /\ n[p].hits >= ws[p].hits
<1>1. CASE p \in DOMAIN ws
  <2>1. ws[p] \in [limit : Nat \ {0}, hits : Nat, age : 0..p]
    BY <1>1 DEF IsWindows, Window
  <2>2. PICK x \in Nat : x = Larger(ws[p].hits, h[p]) /\ x >= ws[p].hits /\ x >= h[p]
    BY <2>1 DEF Larger
  <2>3. Adopt(ws, l)[p] = [ws[p] EXCEPT !.limit = l[p]]
    BY <1>1 DEF Adopt
  <2>4. PICK o : o = [ws[p] EXCEPT !.limit = l[p]]
    OBVIOUS
  <2>5. o.hits = ws[p].hits /\ o.age = ws[p].age /\ o.limit = l[p] /\ DOMAIN o = {"limit", "hits", "age"}
    BY <2>1, <2>4
  <2>6. n[p] = [o EXCEPT !.age = IF o.hits = 0 THEN 0 ELSE @, !.hits = Larger(@, h[p])]
    BY <2>3, <2>4 DEF Counted, Adopt
  <2>7. n[p].limit = l[p] /\ n[p].hits = x /\ n[p].age = IF ws[p].hits = 0 THEN 0 ELSE ws[p].age
    BY <2>2, <2>5, <2>6
  <2> QED
    BY <1>1, <2>2, <2>7
<1>2. CASE p \notin DOMAIN ws
  <2>1. PICK x \in Nat : x = Larger(0, h[p]) /\ x >= h[p]
    BY DEF Larger
  <2>2. Adopt(ws, l)[p] = [limit |-> l[p], hits |-> 0, age |-> 0]
    BY <1>2 DEF Adopt
  <2>3. n[p] = [limit |-> l[p], hits |-> Larger(0, h[p]), age |-> 0]
    BY <2>2 DEF Counted, Adopt
  <2> QED
    BY <2>1, <2>3
<1> QED
  BY <1>1, <1>2

\* An answer, of the limits in force or of those before them.
LEMMA AnswerKeepsAhead ==
  ASSUME NEW w0, Workers = {w0}, TypeOK, Ahead, TypeOK', NEW w \in Workers, Answer(w)
  PROVE  Ahead'
<1> DEFINE a == answer[w]
<1>1. /\ pc[w] = "sent" /\ pc' = [pc EXCEPT ![w] = "idle"]
      /\ windows' = Counted(Adopt(windows, a.limits), a.hits)
      /\ file' = <<Save(windows', blocked')>>
      /\ blind' = IF a.limits = limits THEN blind ELSE Wake
      /\ UNCHANGED <<log, limits>>
  BY DEF Answer, serverVars
<1>2. pc'[w] = "idle" /\ \A v \in Workers : v = w
  BY <1>1 DEF TypeOK
<1>3. /\ DOMAIN a.hits = DOMAIN a.limits
      /\ \A p \in DOMAIN a.hits : /\ p \in Nat \ {0} /\ a.hits[p] \in Nat /\ a.hits[p] >= 1
                                  /\ a.hits[p] >= Recent(log, blind, p)
  BY <1>1 DEF Ahead, Counting, Brings, TypeOK, IsAnswer, IsLimits
<1>4. DOMAIN windows' = DOMAIN a.limits
  BY <1>1 DEF Counted, Adopt
<1> HIDE DEF a
<1>5. ASSUME NEW p \in DOMAIN windows'
      PROVE  /\ windows'[p].limit = a.limits[p] /\ windows'[p].hits \in Nat
             /\ windows'[p].hits >= a.hits[p] /\ windows'[p].hits >= 1
             /\ \/ windows'[p].age = 0
                \/ /\ p \in DOMAIN windows /\ windows'[p].age = windows[p].age
                   /\ windows'[p].hits >= windows[p].hits
  <2>1. IsWindows(windows) /\ p \in DOMAIN a.limits /\ p \in DOMAIN a.hits /\ a.hits[p] \in Nat
    BY <1>3, <1>4, <1>5 DEF TypeOK
  <2>2. /\ windows'[p].limit = a.limits[p] /\ windows'[p].hits \in Nat /\ windows'[p].hits >= a.hits[p]
        /\ \/ windows'[p].age = 0
           \/ /\ p \in DOMAIN windows /\ windows'[p].age = windows[p].age
              /\ windows'[p].hits >= windows[p].hits
    BY <1>1, <2>1, AnswerIs
  <2> QED
    BY <1>3, <2>1, <2>2
<1>6. Waited' /\ OnDisk'
  BY <1>1, <1>2 DEF Waited, OnDisk, Restored, Save
<1>7. CASE a.limits # limits
  <2>1. blind' = Wake
    BY <1>1, <1>7
  <2>2. \A v \in Workers : pc'[v] # "sent"
    BY <1>2
  <2>3. Counting'
    BY <1>5, <2>1, <2>2, StartsAgain
  <2> QED
    BY <1>6, <2>3 DEF Ahead
<1>8. CASE a.limits = limits
  <2>1. blind' = blind /\ log' = log /\ limits' = limits /\ DOMAIN windows' = DOMAIN limits
    BY <1>1, <1>4, <1>8
  <2>2. /\ log \in Seq(Request) /\ blind \in Nat
        /\ \A p \in DOMAIN limits : p \in Nat \ {0} /\ limits[p] \in Nat \ {0}
        /\ \A p \in DOMAIN windows : /\ p \in Nat /\ windows[p].hits \in Nat
                                     /\ windows[p].age \in Nat
    BY Facts DEF IsLimits
  <2>3. \A p \in Nat : Recent(log, blind, p) \in Nat
    BY <2>2, RecentType
  <2>4. Recent(log, blind, 0) = 0
    BY <2>2, NoneInTheWake
  <2>5. InStep'
    BY <1>5, <1>8, <2>1 DEF InStep
  <2>6. Opened'
    <3>1. ASSUME NEW p \in DOMAIN windows', Open(windows', p)
          PROVE  windows'[p].hits >= Recent(log, blind, windows'[p].age) + 1
      <4>1. CASE windows'[p].age = 0
        BY <1>5, <2>4, <4>1
      <4>2. CASE /\ p \in DOMAIN windows /\ windows'[p].age = windows[p].age
                 /\ windows'[p].hits >= windows[p].hits
        <5>1. windows[p].hits >= Recent(log, blind, windows[p].age) + 1
          BY <3>1, <4>2 DEF Open, Ahead, Counting, Opened
        <5>2. windows[p].hits \in Nat /\ Recent(log, blind, windows[p].age) \in Nat
          BY <2>2, <2>3, <4>2
        <5>3. windows'[p].hits \in Nat
          BY <1>5
        <5> QED
          BY <4>2, <5>1, <5>2, <5>3
      <4> QED
        BY <1>5, <4>1, <4>2
    <3> QED
      BY <2>1, <3>1 DEF Opened
  <2>7. Room'
    <3>1. ASSUME NEW p \in DOMAIN windows' PROVE Recent(log, blind, windows'[p].age) < limits[p]
      <4>1. CASE windows'[p].age = 0
        BY <2>1, <2>2, <2>4, <4>1
      <4>2. CASE p \in DOMAIN windows /\ windows'[p].age = windows[p].age
        BY <2>1, <4>2 DEF Ahead, Counting, Room
      <4> QED
        BY <1>5, <4>1, <4>2
    <3> QED
      BY <2>1, <3>1 DEF Room
  <2>8. Keeps'
    <3>1. ASSUME NEW p \in DOMAIN windows' PROVE windows'[p].hits >= Recent(log, blind, p)
      <4>1. p \in Nat /\ a.hits[p] \in Nat /\ a.hits[p] >= Recent(log, blind, p)
        BY <1>3, <1>4
      <4>2. windows'[p].hits \in Nat /\ windows'[p].hits >= a.hits[p]
        BY <1>5
      <4>3. Recent(log, blind, p) \in Nat
        BY <2>3, <4>1
      <4> QED
        BY <4>1, <4>2, <4>3
    <3> QED
      BY <2>1, <3>1 DEF Keeps
  <2>9. Brings' /\ Learned' /\ Behind'
    BY <1>2, <2>5 DEF Brings, Learned, Behind
  <2> QED
    BY <1>6, <2>6, <2>7, <2>8, <2>9 DEF Ahead, Counting
<1> QED
  BY <1>7, <1>8

\* A window that is open has been counted in, and so has an answer on its way.
LEMMA CountedIn ==
  ASSUME TypeOK, Counting
  PROVE  /\ \A p \in DOMAIN windows : Open(windows, p) => windows[p].hits >= 1
         /\ \A w \in Workers : pc[w] = "sent" =>
              /\ DOMAIN answer[w].hits = DOMAIN answer[w].limits
              /\ \A p \in DOMAIN answer[w].hits : answer[w].hits[p] >= 1 /\ p \in Nat
<1>1. ASSUME NEW p \in DOMAIN windows, Open(windows, p) PROVE windows[p].hits >= 1
  <2>1. windows[p].age \in Nat /\ windows[p].hits \in Nat /\ log \in Seq(Request) /\ blind \in Nat
    BY Facts
  <2>2. Recent(log, blind, windows[p].age) \in Nat
    BY <2>1, RecentType
  <2> QED
    BY <1>1, <2>1, <2>2 DEF Counting, Opened
<1>2. \A w \in Workers : pc[w] = "sent" =>
        /\ DOMAIN answer[w].hits = DOMAIN answer[w].limits
        /\ \A p \in DOMAIN answer[w].hits : answer[w].hits[p] >= 1 /\ p \in Nat
  BY DEF Counting, Brings, TypeOK, IsAnswer, IsLimits
<1> QED
  BY <1>1, <1>2

LEMMA LoseAnswerKeepsAhead ==
  ASSUME NEW w0, Workers = {w0}, TypeOK, Ahead, TypeOK', NEW w \in Workers, LoseAnswer(w)
  PROVE  Ahead'
<1>1. /\ pc' = [pc EXCEPT ![w] = "idle"] /\ blind' = Wake
      /\ UNCHANGED <<windows, blocked, file>>
  BY DEF LoseAnswer
<1>2. \A v \in Workers : pc'[v] = "idle"
  BY <1>1 DEF TypeOK
<1>3. Waited' /\ OnDisk'
  BY <1>1, <1>2 DEF Ahead, Waited, OnDisk
<1>4. \A p \in DOMAIN windows' : Open(windows', p) => windows'[p].hits >= 1
  BY <1>1, CountedIn DEF Ahead
<1>5. Counting'
  BY <1>1, <1>2, <1>4, StartsAgain
<1> QED
  BY <1>3, <1>5 DEF Ahead

LEMMA RestartKeepsAhead ==
  ASSUME NEW w0, Workers = {w0}, TypeOK, Ahead, TypeOK', Restart
  PROVE  Ahead'
<1>1. windows' = windows /\ blocked' = blocked
  BY DEF Restart, Ahead, OnDisk, Save
<1>2. /\ pc' = [w \in Workers |-> "idle"] /\ UNCHANGED <<file, log, limits>>
      /\ blind' = IF \E w \in Workers : pc[w] = "sent" THEN Wake ELSE blind
  BY DEF Restart, serverVars
<1>3. \A v \in Workers : pc'[v] = "idle"
  BY <1>2
<1>4. Waited' /\ OnDisk'
  BY <1>1, <1>2, <1>3 DEF Ahead, Waited, OnDisk
<1>5. CASE \E w \in Workers : pc[w] = "sent"
  <2>1. \A p \in DOMAIN windows' : Open(windows', p) => windows'[p].hits >= 1
    BY <1>1, CountedIn DEF Ahead
  <2>2. Counting'
    BY <1>2, <1>3, <1>5, <2>1, StartsAgain
  <2> QED
    BY <1>4, <2>2 DEF Ahead
<1>6. CASE \A w \in Workers : pc[w] # "sent"
  <2>1. Counting'
    BY <1>1, <1>2, <1>3, <1>6 DEF Ahead, Counting, Opened, Room, Brings, Keeps, Learned, InStep, Behind, Open
  <2> QED
    BY <1>4, <2>1 DEF Ahead
<1> QED
  BY <1>5, <1>6

LEMMA TornKeepsAhead ==
  ASSUME NEW w0, Workers = {w0}, TypeOK, Ahead, TypeOK', TornWrite
  PROVE  Ahead'
<1>1. /\ file' = <<>> /\ windows' = Fresh(Seeded) /\ blocked' = 0 /\ blind' = Wake
      /\ pc' = [w \in Workers |-> "idle"]
  BY DEF TornWrite
<1>2. \A v \in Workers : pc'[v] = "idle"
  BY <1>1
<1>3. \A p \in DOMAIN windows' : ~Open(windows', p)
  <2>1. \A p \in DOMAIN Seeded : p \in Nat
    BY LimitsAssumption DEF IsLimits
  <2> QED
    BY <1>1, <2>1 DEF Fresh, Open
<1>4. Counting'
  BY <1>1, <1>2, <1>3, StartsAgain
<1>5. Waited' /\ OnDisk'
  BY <1>1, <1>2 DEF Waited, OnDisk, Restored, Save
<1> QED
  BY <1>4, <1>5 DEF Ahead

\* Another client, or new limits.
LEMMA OutsideKeepsAhead ==
  ASSUME NEW w0, Workers = {w0}, TypeOK, Ahead, TypeOK', OtherRequest \/ Publish
  PROVE  Ahead'
<1>1. UNCHANGED <<windows, blocked, pc, left, answer, file>> /\ blind' = Wake
  BY DEF OtherRequest, Publish, clientVars
<1>2. /\ \A p \in DOMAIN windows' : Open(windows', p) => windows'[p].hits >= 1
      /\ \A w \in Workers : pc'[w] = "sent" =>
           /\ DOMAIN answer'[w].hits = DOMAIN answer'[w].limits
           /\ \A p \in DOMAIN answer'[w].hits : answer'[w].hits[p] >= 1 /\ p \in Nat
  BY <1>1, CountedIn DEF Ahead
<1>3. Counting'
  BY <1>1, <1>2, StartsAgain
<1>4. Waited' /\ OnDisk'
  BY <1>1 DEF Ahead, Waited, OnDisk
<1> QED
  BY <1>3, <1>4 DEF Ahead

\* What a tick does to a window.
LEMMA AgedIs ==
  ASSUME NEW ws, IsWindows(ws), NEW p \in DOMAIN ws
  PROVE  /\ Aged(ws)[p].limit = ws[p].limit /\ Aged(ws)[p].hits = ws[p].hits
         /\ Aged(ws)[p].age = IF ws[p].age < p THEN ws[p].age + 1 ELSE ws[p].age
<1>1. ws[p] \in [limit : Nat \ {0}, hits : Nat, age : 0..p]
  BY DEF IsWindows, Window
<1> QED
  BY <1>1 DEF Aged

LEMMA TickKeepsAhead ==
  ASSUME NEW w0, Workers = {w0}, TypeOK, Ahead, TypeOK', Tick
  PROVE  Ahead'
<1>1. /\ windows' = Aged(windows) /\ blocked' = Less1(blocked)
      /\ left' = [w \in Workers |-> Less1(left[w])]
      /\ file' = IF file = <<>> THEN <<>> ELSE <<Save(Aged(file[1].windows), Less1(file[1].blocked))>>
      /\ log' = Kept(log) /\ blind' = Less1(blind) /\ UNCHANGED <<pc, answer, limits>>
  BY DEF Tick
<1>2. /\ log \in Seq(Request) /\ log' \in Seq(Request) /\ blind \in Nat /\ blind' \in Nat /\ Longest \in Nat
      /\ \A p \in DOMAIN windows : /\ p \in Nat /\ windows[p].hits \in Nat /\ windows[p].age \in 0..p
                                   /\ windows[p].age \in Nat /\ windows[p].limit \in Nat
      /\ \A p \in DOMAIN limits : p \in Nat /\ limits[p] \in Nat
  BY <1>1, Facts DEF IsLimits, Less1, TypeOK
<1>3. DOMAIN windows' = DOMAIN windows
  BY <1>1 DEF Aged
<1>4. ASSUME NEW p \in DOMAIN windows
      PROVE  /\ windows'[p].limit = windows[p].limit /\ windows'[p].hits = windows[p].hits
             /\ windows'[p].age = IF windows[p].age < p THEN windows[p].age + 1 ELSE windows[p].age
  BY <1>1, AgedIs DEF TypeOK
<1>5. \A p \in Nat : Recent(log, blind, p) \in Nat /\ Recent(log', blind', p) \in Nat
  BY <1>2, RecentType
<1>6. \A p, q \in Nat : q <= p + 1 => Recent(log', blind', q) <= Recent(log, blind, p)
  BY <1>1, <1>2, TickForgets
<1>7. \A p \in DOMAIN windows :
        /\ windows'[p].age \in Nat /\ windows'[p].age <= windows[p].age + 1
        /\ Open(windows', p) => Open(windows, p)
  BY <1>2, <1>4 DEF Open
<1>8. Opened'
  <2>1. ASSUME NEW p \in DOMAIN windows, Open(windows', p)
        PROVE  windows'[p].hits >= Recent(log', blind', windows'[p].age) + 1
    <3>1. windows[p].hits >= Recent(log, blind, windows[p].age) + 1
      BY <1>7, <2>1 DEF Ahead, Counting, Opened
    <3>2. /\ Recent(log', blind', windows'[p].age) <= Recent(log, blind, windows[p].age)
          /\ Recent(log', blind', windows'[p].age) \in Nat /\ Recent(log, blind, windows[p].age) \in Nat
      BY <1>2, <1>5, <1>6, <1>7
    <3> QED
      BY <1>2, <1>4, <3>1, <3>2
  <2> QED
    BY <1>3, <2>1 DEF Opened
<1>9. Room'
  <2>1. ASSUME NEW p \in DOMAIN windows \cap DOMAIN limits
        PROVE  Recent(log', blind', windows'[p].age) < limits[p]
    <3>1. Recent(log, blind, windows[p].age) < limits[p]
      BY DEF Ahead, Counting, Room
    <3>2. /\ Recent(log', blind', windows'[p].age) <= Recent(log, blind, windows[p].age)
          /\ Recent(log', blind', windows'[p].age) \in Nat /\ Recent(log, blind, windows[p].age) \in Nat
      BY <1>2, <1>5, <1>6, <1>7
    <3> QED
      BY <1>2, <3>1, <3>2
  <2> QED
    BY <1>1, <1>3, <2>1 DEF Room
<1>10. ASSUME NEW p \in Nat, NEW n \in Nat, n >= Recent(log, blind, p)
       PROVE  n >= Recent(log', blind', p)
  <2>1. Recent(log', blind', p) <= Recent(log, blind, p)
    BY <1>6
  <2> QED
    BY <1>5, <1>10, <2>1
<1>11. Brings'
  <2>1. \A w \in Workers : pc[w] = "sent" =>
          \A p \in DOMAIN answer[w].hits : p \in Nat /\ answer[w].hits[p] \in Nat
    BY DEF TypeOK, IsAnswer, IsLimits, Ahead, Counting, Brings
  <2> QED
    BY <1>1, <1>10, <2>1 DEF Ahead, Counting, Brings
<1>12. Keeps'
  BY <1>1, <1>2, <1>3, <1>4, <1>7, <1>10 DEF Ahead, Counting, Keeps
<1>13. InStep' <=> InStep
  BY <1>1, <1>3, <1>4 DEF InStep
<1>14. Learned'
  <2>1. Recent(log', blind', Longest) <= Recent(log, blind, Longest)
    BY <1>2, <1>6
  <2>2. Recent(log', blind', Longest) > 0 => Recent(log, blind, Longest) > 0
    BY <1>2, <1>5, <2>1
  <2> QED
    BY <1>1, <1>13, <2>2 DEF Ahead, Counting, Learned
<1>15. Behind'
  <2>1. ASSUME NEW p \in DOMAIN windows, windows[p].age >= p \/ windows[p].age + blind >= Wake
        PROVE  windows'[p].age >= p \/ windows'[p].age + blind' >= Wake
    BY <1>1, <1>2, <1>4, <2>1, TimeAssumption DEF Less1, Wake
  <2> QED
    BY <1>1, <1>3, <1>13, <2>1 DEF Ahead, Counting, Behind
<1>16. Waited'
  <2>1. ASSUME NEW w \in Workers, pc[w] = "waiting", NEW p \in DOMAIN windows
        PROVE  windows'[p].hits < windows'[p].limit \/ windows'[p].age + left'[w] >= p
    <3>1. windows[p].hits < windows[p].limit \/ windows[p].age + left[w] >= p
      BY <2>1 DEF Ahead, Waited
    <3>2. left[w] \in Nat /\ left'[w] = Less1(left[w])
      BY <1>1, TimeAssumption DEF TypeOK
    <3> QED
      BY <1>2, <1>4, <3>1, <3>2 DEF Less1
  <2> QED
    BY <1>1, <1>3, <2>1 DEF Waited
<1>17. OnDisk'
  <2>1. CASE file = <<>>
    <3>1. windows = Fresh(Seeded) /\ blocked = 0
      BY <2>1 DEF Ahead, OnDisk, Restored, Save
    <3>2. Aged(Fresh(Seeded)) = Fresh(Seeded)
      <4>1. \A p \in DOMAIN Seeded : p \in Nat
        BY LimitsAssumption DEF IsLimits
      <4> QED
        BY <4>1 DEF Aged, Fresh
    <3> QED
      BY <1>1, <2>1, <3>1, <3>2 DEF OnDisk, Restored, Less1
  <2>2. CASE file # <<>>
    <3>1. file[1].windows = windows /\ file[1].blocked = blocked
      BY <2>2 DEF Ahead, OnDisk, Restored, Save
    <3>2. file' = <<Save(windows', blocked')>>
      BY <1>1, <2>2, <3>1
    <3> QED
      BY <3>2 DEF OnDisk, Restored
  <2> QED
    BY <2>1, <2>2
<1> QED
  BY <1>8, <1>9, <1>11, <1>12, <1>14, <1>15, <1>16, <1>17 DEF Ahead, Counting

LEMMA NextKeepsAhead ==
  ASSUME NEW w0, Workers = {w0}, Inv, Inv', Ahead, [Next]_vars
  PROVE  Ahead'
<1>0. TypeOK /\ TypeOK'
  BY DEF Inv
<1>1. CASE \E w \in Workers : Check(w) \/ Send(w) \/ Answer(w) \/ LoseAnswer(w)
  BY <1>0, <1>1, CheckKeepsAhead, SendKeepsAhead, AnswerKeepsAhead, LoseAnswerKeepsAhead
<1>2. CASE Restart \/ TornWrite \/ Tick \/ OtherRequest \/ Publish
  BY <1>0, <1>2, RestartKeepsAhead, TornKeepsAhead, TickKeepsAhead, OutsideKeepsAhead
<1>3. CASE UNCHANGED vars
  BY <1>3 DEF vars, clientVars, serverVars, Ahead, OnDisk, Waited, Counting, Opened, Room, Brings, Keeps,
              Learned, InStep, Behind, Open
<1> QED
  BY <1>1, <1>2, <1>3 DEF Next

\* A request that leaves with nothing unknown behind it is within every limit.
LEMMA WithinLimits ==
  ASSUME NEW w0, Workers = {w0}, TypeOK, Ahead, NEW w \in Workers, Send(w), lock = 0, lock' > 0
  PROVE  blind > 0
<1> SUFFICES ASSUME blind = 0 PROVE FALSE
  BY Facts
<1>1. /\ pc[w] = "waiting" /\ left[w] = 0 /\ log' = Append(log, [age |-> 0, own |-> TRUE])
      /\ {p \in DOMAIN limits : CountIn(log', p) > limits[p]} # {}
  BY DEF Send, Serve
<1>2. PICK p \in DOMAIN limits : CountIn(log', p) > limits[p]
  BY <1>1
<1>3. /\ log \in Seq(Request) /\ Longest \in Nat /\ p \in Nat \ {0} /\ p <= Longest
      /\ limits[p] \in Nat \ {0} /\ \A v \in Workers : v = w
  BY Facts DEF IsLimits
<1> DEFINE m == Append(log, [age |-> 0, own |-> TRUE])
<1>13. 0 \in Nat /\ 0 = 0 /\ TRUE \in BOOLEAN /\ p \in Nat
  BY <1>3
<1>4. CountIn(log', p) = Recent(log', 0, p)
  <2>1. CountIn(m, p) = Recent(m, 0, p)
    BY <1>3, <1>13, ServerCounts
  <2> QED
    BY <1>1, <2>1
<1>5. /\ Recent(log', 0, p) <= Recent(log, 0, p) + 1 /\ Recent(log, 0, p) <= Recent(log, 0, Longest)
      /\ Recent(log, 0, p) \in Nat /\ Recent(log, 0, Longest) \in Nat
  <2>1. Recent(m, 0, p) <= Recent(log, 0, p) + 1
    BY <1>3, <1>13, OneMore
  <2>2. Recent(log, 0, p) <= Recent(log, 0, Longest)
    BY <1>3, <1>13, LongerHoldsMore
  <2>3. Recent(log, 0, p) \in Nat /\ Recent(log, 0, Longest) \in Nat
    BY <1>3, <1>13, RecentType
  <2> QED
    BY <1>1, <2>1, <2>2, <2>3
<1> HIDE DEF m
<1>6. Recent(log', 0, p) \in Nat
  <2>1. [age |-> 0, own |-> TRUE] \in Request
    BY DEF Request
  <2>2. log' \in Seq(Request)
    BY <1>1, <1>3, <2>1
  <2> QED
    BY <1>3, <2>2, RecentType
<1>7. Recent(log, 0, p) >= limits[p]
  BY <1>2, <1>3, <1>4, <1>5, <1>6
<1>8. Recent(log, 0, Longest) > 0
  BY <1>3, <1>5, <1>7
<1>9. p \in DOMAIN windows /\ windows[p].limit = limits[p]
  BY <1>1, <1>8 DEF Ahead, Counting, Learned, InStep
<1>10. windows[p].hits \in Nat /\ windows[p].age \in 0..p
  BY <1>9, Facts
<1>11. CASE windows[p].age < p
  <2>1. windows[p].hits < windows[p].limit
    BY <1>1, <1>3, <1>9, <1>10, <1>11 DEF Ahead, Waited
  <2>2. windows[p].hits >= Recent(log, 0, p)
    BY <1>1, <1>9, <1>11 DEF Ahead, Counting, Keeps, Open
  <2> QED
    BY <1>3, <1>5, <1>7, <1>9, <1>10, <2>1, <2>2
<1>12. CASE windows[p].age = p
  <2>1. Recent(log, 0, p) < limits[p]
    BY <1>9, <1>12 DEF Ahead, Counting, Room
  <2> QED
    BY <1>3, <1>5, <1>7, <2>1
<1> QED
  BY <1>3, <1>10, <1>11, <1>12

\* With one thread per policy, the limiter's counts stay ahead of the server's: no
\* request of ours earns a restriction unless another client, new limits, or an answer
\* or a file that was lost came within the last two of the longest windows.
THEOREM NoRestrictionIsOurs ==
  ASSUME NEW w0, Workers = {w0}
  PROVE  Spec => NeverOurDoing
<1>1. Inv /\ [Next]_vars => Inv'
  BY NextKeeps
<1>2. Inv /\ Inv' /\ Ahead /\ [Next]_vars => Ahead'
  BY NextKeepsAhead
<1>3. Inv /\ Ahead /\ [Next]_vars =>
        ((\E w \in Workers : Send(w)) /\ lock = 0 /\ lock' > 0 => blind > 0)
  BY WithinLimits DEF Inv
<1> QED
  BY <1>1, <1>2, <1>3, InitHolds, AheadInit, PTL DEF Spec, NeverOurDoing
=============================================================================
