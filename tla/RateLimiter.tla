---------------------------- MODULE RateLimiter ----------------------------
(***************************************************************************)
(* The limiter in front of the trade API: trade/ratelimit's windows,       *)
(* trade/client's request() around them, the state file that outlives the  *)
(* process, and the server they are meant never to be refused by.  One     *)
(* policy; a limit is a function of the period it is counted over.         *)
(*                                                                         *)
(* Time is kept the way the state file keeps it, as ages and time left, so *)
(* the clock needs no bound.                                               *)
(***************************************************************************)
EXTENDS Naturals, Sequences, FiniteSets

CONSTANTS
  Workers,    \* the threads that make requests under this policy
  Seeded,     \* seed_defaults: period -> limit
  Published,  \* what the server can have in force
  Longest,    \* no published period is longer
  Lockout,    \* how long an offender is restricted
  Margin,     \* the 250 ms on top of a full window
  MaxWait,    \* kMaxWaitMs
  Others,     \* somebody else uses the API from this address
  MaxLog,     \* bound: requests the server has counted and not yet forgotten
  None

IsLimits(l) == \A p \in DOMAIN l : p \in Nat \ {0} /\ l[p] \in Nat \ {0}
ASSUME LimitsAssumption == /\ IsLimits(Seeded)
                           /\ \A l \in Published : IsLimits(l) /\ \A p \in DOMAIN l : p <= Longest
ASSUME TimeAssumption == Longest \in Nat \ {0} /\ Lockout \in Nat \ {0} /\ Margin \in Nat /\ MaxWait \in Nat
ASSUME OtherAssumption == Others \in BOOLEAN /\ MaxLog \in Nat /\ None \notin Workers

VARIABLES
  windows,  \* Policy::windows: period -> its limit, its count, and how long ago it opened
  blocked,  \* Policy::blocked_until_ms, as time left
  pc,       \* where each worker is in request()
  left,     \* what is left of its wait
  answer,   \* the response on its way to it
  file,     \* trade-ratelimit.json: what can be read of it, one state or none
  log,      \* the server: every request it still counts, and whether it is one of ours that
            \* a torn file has not made us forget
  limits,   \* the server: what it has in force
  lock,     \* the server: what is left of our restriction
  told,     \* the restriction this program has been told of and could have kept
  blind     \* for how long yet the limiter may be short of what the server counts

clientVars == <<windows, blocked, pc, left, answer>>
serverVars == <<log, limits, lock>>
vars == <<clientVars, file, serverVars, told, blind>>

Larger(a, b) == IF a > b THEN a ELSE b
Less1(n) == IF n = 0 THEN 0 ELSE n - 1

\* How long something the limiter could not know is felt: the windows open at the
\* time close, and the requests that went out before they did are forgotten.
Wake == 2 * Longest

-----------------------------------------------------------------------------
(* RateLimiter.                                                            *)

Fresh(l) == [p \in DOMAIN l |-> [limit |-> l[p], hits |-> 0, age |-> p]]

\* The window is still open: its count has not rolled over.
Open(ws, p) == ws[p].age < p

\* delay_ms(): until the restriction is served and every full window has closed.
FullOver(ws, p) == ws[p].hits > ws[p].limit  \* altered: full once it is over the limit
Full(ws, p) == ws[p].hits >= ws[p].limit
Waits == {blocked} \cup {p - windows[p].age + Margin : p \in {q \in DOMAIN windows :
                                                   Open(windows, q) /\ Full(windows, q)}}
IsDelay(d) == \A e \in Waits : e <= d

\* note_request().
Note(ws) ==
  [p \in DOMAIN ws |-> IF ws[p].hits = 0 \/ ~Open(ws, p)
                       THEN [ws[p] EXCEPT !.hits = 1, !.age = 0]
                       ELSE [ws[p] EXCEPT !.hits = @ + 1]]

\* observe(): windows are matched by period, and the larger count wins.
Adopt(ws, l) ==
  [p \in DOMAIN l |-> IF p \in DOMAIN ws THEN [ws[p] EXCEPT !.limit = l[p]]
                      ELSE [limit |-> l[p], hits |-> 0, age |-> 0]]

Counted(ws, hits) ==
  [p \in DOMAIN ws |-> IF p \notin DOMAIN hits THEN ws[p]
                       ELSE [ws[p] EXCEPT !.age = IF ws[p].hits = 0 THEN 0 ELSE @,
                                          !.hits = Larger(@, hits[p])]]

\* A restriction that is already being served is only ever extended.
Extended(b, r) == Larger(b, r)

-----------------------------------------------------------------------------
(* The server: a request over a limit is refused, and starts a restriction. *)

CountIn(l, p) == Cardinality({i \in 1..Len(l) : l[i].age < p})
Counts(l) == [p \in DOMAIN limits |-> CountIn(l, p)]

Serve(own) ==
  LET l == Append(log, [age |-> 0, own |-> own])
      over == {p \in DOMAIN limits : CountIn(l, p) > limits[p]}
  IN  /\ Len(log) < MaxLog
      /\ log' = l
      /\ lock' = IF lock = 0 /\ over # {} THEN Lockout ELSE lock

-----------------------------------------------------------------------------
(* request(): one worker's call.                                           *)

\* A wait past the ceiling is not begun: the call fails and changes nothing.
Worth(d) == d <= MaxWait

\* delay_ms() under the mutex, then the wait without it.
Check(w) ==
  /\ pc[w] = "idle"
  /\ \E d \in Waits : IsDelay(d) /\ Worth(d) /\ left' = [left EXCEPT ![w] = d]
  /\ pc' = [pc EXCEPT ![w] = "waiting"]
  /\ UNCHANGED <<windows, blocked, answer, file, serverVars, told, blind>>

Save(ws, b) == [windows |-> ws, blocked |-> b]

\* note_request() and the file, before the request itself.
Spent(ws, b) == <<Save(ws, b)>>

Send(w) ==
  /\ pc[w] = "waiting" /\ left[w] = 0
  /\ pc' = [pc EXCEPT ![w] = "sent"]
  /\ windows' = Note(windows)
  /\ file' = Spent(Note(windows), blocked)
  /\ Serve(TRUE)
  /\ answer' = [answer EXCEPT ![w] = [hits |-> Counts(log'), limits |-> limits,
                                      restricted |-> lock']]
  /\ UNCHANGED <<blocked, left, limits, told, blind>>

\* adopt_headers().  Limits that were replaced while the answer was on its way leave
\* the limiter as short of them as if it had not come.
Answer(w) ==
  /\ pc[w] = "sent"
  /\ LET a == answer[w]
         ws == Counted(Adopt(windows, a.limits), a.hits)
         b == Extended(blocked, a.restricted)
     IN  /\ windows' = ws /\ blocked' = b
         /\ file' = <<Save(ws, b)>>
         /\ told' = Larger(told, a.restricted)
         /\ blind' = IF a.limits = limits THEN blind ELSE Wake
  /\ pc' = [pc EXCEPT ![w] = "idle"] /\ answer' = [answer EXCEPT ![w] = None]
  /\ UNCHANGED <<left, serverVars>>

\* The answer never comes, or without its headers.
LoseAnswer(w) ==
  /\ pc[w] = "sent"
  /\ pc' = [pc EXCEPT ![w] = "idle"] /\ answer' = [answer EXCEPT ![w] = None]
  /\ blind' = Wake
  /\ UNCHANGED <<windows, blocked, left, file, serverVars, told>>

-----------------------------------------------------------------------------
(* The process, and the rest of the world.                                 *)

\* seed_defaults(): what the last run wrote down, or the seeds.
RestoreUnblocked(f) == IF f = <<>> THEN Save(Fresh(Seeded), 0) ELSE Save(f[1].windows, 0)  \* altered
Restored(f) == IF f = <<>> THEN Save(Fresh(Seeded), 0) ELSE f[1]

\* The program ends, one way or another, and starts again.
Restart ==
  /\ windows' = Restored(file).windows /\ blocked' = Restored(file).blocked
  /\ pc' = [w \in Workers |-> "idle"] /\ left' = [w \in Workers |-> 0]
  /\ answer' = [w \in Workers |-> None]
  /\ blind' = IF \E w \in Workers : pc[w] = "sent" THEN Wake ELSE blind
  /\ UNCHANGED <<file, serverVars, told>>

\* Killed while the file is being written: there is nothing in it to read, and
\* what was sent is as good as somebody else's.
TornWrite ==
  /\ file # <<>> /\ file' = <<>>
  /\ windows' = Fresh(Seeded) /\ blocked' = 0 /\ told' = 0
  /\ pc' = [w \in Workers |-> "idle"] /\ left' = [w \in Workers |-> 0]
  /\ answer' = [w \in Workers |-> None]
  /\ log' = [i \in 1..Len(log) |-> [log[i] EXCEPT !.own = FALSE]]
  /\ blind' = Wake
  /\ UNCHANGED <<limits, lock>>

Aged(ws) == [p \in DOMAIN ws |-> [ws[p] EXCEPT !.age = IF @ < p THEN @ + 1 ELSE @]]

\* Requests older than the longest period are forgotten, the oldest first.
Older(l) == [i \in 1..Len(l) |-> [l[i] EXCEPT !.age = @ + 1]]
Kept(l) == SubSeq(Older(l), Len(l) - CountIn(l, Longest - 1) + 1, Len(l))

Tick ==
  /\ windows' = Aged(windows) /\ blocked' = Less1(blocked)
  /\ left' = [w \in Workers |-> Less1(left[w])]
  /\ file' = IF file = <<>> THEN <<>> ELSE <<Save(Aged(file[1].windows), Less1(file[1].blocked))>>
  /\ log' = Kept(log) /\ lock' = Less1(lock) /\ told' = Less1(told)
  /\ blind' = Less1(blind)
  /\ UNCHANGED <<pc, answer, limits>>

OtherRequest ==
  /\ Others /\ Serve(FALSE)
  /\ blind' = Wake
  /\ UNCHANGED <<clientVars, file, limits, told>>

Publish ==
  /\ limits' \in Published \ {limits}
  /\ blind' = Wake
  /\ UNCHANGED <<clientVars, file, log, lock, told>>

Init ==
  /\ windows = Fresh(Seeded) /\ blocked = 0 /\ file = <<>>
  /\ pc = [w \in Workers |-> "idle"] /\ left = [w \in Workers |-> 0]
  /\ answer = [w \in Workers |-> None]
  /\ log = <<>> /\ limits \in Published /\ lock = 0 /\ told = 0
  /\ blind = IF limits = Seeded THEN 0 ELSE Wake

Next == \/ \E w \in Workers : Check(w) \/ Send(w) \/ Answer(w) \/ LoseAnswer(w)
        \/ Restart \/ TornWrite \/ Tick \/ OtherRequest \/ Publish

Spec == Init /\ [][Next]_vars

-----------------------------------------------------------------------------
Window(p) == [limit : Nat \ {0}, hits : Nat, age : 0..p]
IsWindows(ws) == \A p \in DOMAIN ws : p \in Nat \ {0} /\ ws[p] \in Window(p)
IsAnswer(a) == /\ IsLimits(a.limits) /\ a.restricted \in 0..Lockout
               /\ \A p \in DOMAIN a.hits : a.hits[p] \in Nat
Request == [age : Nat, own : BOOLEAN]

TypeOK ==
  /\ IsWindows(windows) /\ blocked \in 0..Lockout
  /\ file # <<>> => IsWindows(file[1].windows) /\ file[1].blocked \in 0..Lockout
  /\ pc \in [Workers -> {"idle", "waiting", "sent"}] /\ left \in [Workers -> 0..MaxWait]
  /\ DOMAIN answer = Workers /\ \A w \in Workers : pc[w] = "sent" => IsAnswer(answer[w])
  /\ log \in Seq(Request) /\ limits \in Published /\ lock \in 0..Lockout
  /\ told \in 0..Lockout /\ blind \in 0..Wake

\* A request of ours earns a restriction only in the wake of something the limiter
\* could not know: another client, new limits, an answer or a file that was lost.
\* Two windows later it is right again by itself, and until the
\* next such thing it is never refused (RateLimiter::delay_ms, note_request, observe).
NeverOurDoing ==
  [][(\E w \in Workers : Send(w)) /\ lock = 0 /\ lock' > 0 => blind > 0]_vars

\* No request is sent into a restriction the program has been told of, in this run
\* or in an earlier one (trade/ratelimit_store).
HonoursRestriction ==
  [][\A w \in Workers : pc[w] = "waiting" /\ pc'[w] = "sent" => told = 0]_vars
=============================================================================
