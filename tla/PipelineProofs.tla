--------------------------- MODULE PipelineProofs ---------------------------
(***************************************************************************)
(* Theorems about Pipeline, for any configurations, requests, saves and    *)
(* number of calls in flight: a call is served under what one              *)
(* configuration decided, it leaves the row it owes, caps count all they   *)
(* are on, pacing is earned and free lanes come first.                     *)
(*                                                                         *)
(* None of these is inductive: that a call was let in under one            *)
(* configuration must be known from its decision on, with its cap, through *)
(* every wait, and that it will leave one row must be known as that it has *)
(* left none on its way.                                                   *)
(***************************************************************************)
EXTENDS Pipeline, FiniteSetTheorems, TLAPS

\* Where a call can be.
Pcs == {"idle", "reading", "done"} \cup Waiting \cup Serving

\* A call is a record of these fields.
Shape(x) == x = [pc |-> x.pc, rq |-> x.rq, path |-> x.path, route |-> x.route, limit |-> x.limit,
                 login |-> x.login, tries |-> x.tries, rows |-> x.rows, status |-> x.status]

\* What a configuration decided for a call.
DecidedBy(c, x) ==
    /\ x.path = Project(c, x.rq)
    /\ x.route = ResolveRoute(c, x.rq.model, x.path)
    /\ Verdict(c, x.rq, x.path, x.route) = 0
    /\ x.limit \in {NoCap, ResolveLimit(c, x.path)}

\* One of the configurations in L decided for a call.
Decided(x, L) == \E n \in L : DecidedBy(Configs[n], x)

\* The requests there are.
Menus == UNION {Plays[i].menu : i \in DOMAIN Plays}

\* Answers that leave no row.
Rowless(x) == x.status \in {0, 413, 503} \/ (x.status = 400 /\ ~x.rq.post)

\* A call on its way.
Unrowed(x) ==
    /\ Shape(x) /\ x.tries \in 0..JsonRetries /\ x.login \in Logins \cup {None}
    /\ x.rows = 0 /\ x.rq \in Menus

\* What holds of a call x that has lived under the configurations L: it has left the row it owes and
\* no other, and once it was let in, one of L decided its project, its route and its cap.
CallSound(x, L) ==
    /\ Shape(x) /\ x.pc \in Pcs /\ x.tries \in 0..JsonRetries /\ x.login \in Logins \cup {None}
    /\ x.rows = IF x.pc = "done" /\ ~Rowless(x) THEN 1 ELSE 0
    /\ x.pc # "idle" => x.rq \in Menus
    /\ x.pc \in Waiting \cup Serving => Decided(x, L)
    /\ x.pc = "reading" => x.limit = NoCap
    /\ x.pc = "counting" => x.limit # NoCap
    /\ x.pc = "streaming" => x.status \in {200, 429, 500}

\* The types of the rest of the state.
Typed ==
    /\ LimitsTypeOK
    /\ play \in DOMAIN Plays /\ now \in DOMAIN Configs /\ saves \in 0..scene.saves
    /\ live \subseteq Logins
    /\ call = [t \in Tasks |-> call[t]]
    /\ lived \in [Tasks -> SUBSET DOMAIN Configs]
    /\ owed \in [Consumers -> 0..MaxLevel]

\* The inductive invariant: every call is sound for what it has lived under, the configuration
\* in force among it, and pacing is owed for.
PipelineInductive ==
    /\ Typed
    /\ \A t \in Tasks : CallSound(call[t], lived[t]) /\ (call[t].pc # "idle" => now \in lived[t])
    /\ PacingIsEarned

(* A call goes on. *)

\* Where a call is changes.
LEMMA Moved ==
    ASSUME NEW x, Shape(x), NEW v, NEW y, y = [x EXCEPT !.pc = v]
    PROVE  /\ Shape(y) /\ y.pc = v /\ y.rq = x.rq /\ y.path = x.path /\ y.route = x.route /\ y.limit = x.limit
           /\ y.login = x.login /\ y.tries = x.tries /\ y.rows = x.rows /\ y.status = x.status
<1> DEFINE z == [pc |-> x.pc, rq |-> x.rq, path |-> x.path, route |-> x.route, limit |-> x.limit,
                 login |-> x.login, tries |-> x.tries, rows |-> x.rows, status |-> x.status]
<1>1. x = z
  BY DEF Shape
<1>2. [z EXCEPT !.pc = v]
     = [pc |-> v, rq |-> x.rq, path |-> x.path, route |-> x.route, limit |-> x.limit,
        login |-> x.login, tries |-> x.tries, rows |-> x.rows, status |-> x.status]
  OBVIOUS
<1>3. y = [z EXCEPT !.pc = v]
  BY <1>1
<1> QED
  BY <1>2, <1>3 DEF Shape

\* Its path.
LEMMA WithPath ==
    ASSUME NEW x, Shape(x), NEW v, NEW y, y = [x EXCEPT !.path = v]
    PROVE  /\ Shape(y) /\ y.pc = x.pc /\ y.rq = x.rq /\ y.path = v /\ y.route = x.route /\ y.limit = x.limit
           /\ y.login = x.login /\ y.tries = x.tries /\ y.rows = x.rows /\ y.status = x.status
<1> DEFINE z == [pc |-> x.pc, rq |-> x.rq, path |-> x.path, route |-> x.route, limit |-> x.limit,
                 login |-> x.login, tries |-> x.tries, rows |-> x.rows, status |-> x.status]
<1>1. x = z
  BY DEF Shape
<1>2. [z EXCEPT !.path = v]
     = [pc |-> x.pc, rq |-> x.rq, path |-> v, route |-> x.route, limit |-> x.limit,
        login |-> x.login, tries |-> x.tries, rows |-> x.rows, status |-> x.status]
  OBVIOUS
<1>3. y = [z EXCEPT !.path = v]
  BY <1>1
<1> QED
  BY <1>2, <1>3 DEF Shape

\* Its route.
LEMMA WithRoute ==
    ASSUME NEW x, Shape(x), NEW v, NEW y, y = [x EXCEPT !.route = v]
    PROVE  /\ Shape(y) /\ y.pc = x.pc /\ y.rq = x.rq /\ y.path = x.path /\ y.route = v /\ y.limit = x.limit
           /\ y.login = x.login /\ y.tries = x.tries /\ y.rows = x.rows /\ y.status = x.status
<1> DEFINE z == [pc |-> x.pc, rq |-> x.rq, path |-> x.path, route |-> x.route, limit |-> x.limit,
                 login |-> x.login, tries |-> x.tries, rows |-> x.rows, status |-> x.status]
<1>1. x = z
  BY DEF Shape
<1>2. [z EXCEPT !.route = v]
     = [pc |-> x.pc, rq |-> x.rq, path |-> x.path, route |-> v, limit |-> x.limit,
        login |-> x.login, tries |-> x.tries, rows |-> x.rows, status |-> x.status]
  OBVIOUS
<1>3. y = [z EXCEPT !.route = v]
  BY <1>1
<1> QED
  BY <1>2, <1>3 DEF Shape

\* Its cap.
LEMMA WithLimit ==
    ASSUME NEW x, Shape(x), NEW v, NEW y, y = [x EXCEPT !.limit = v]
    PROVE  /\ Shape(y) /\ y.pc = x.pc /\ y.rq = x.rq /\ y.path = x.path /\ y.route = x.route /\ y.limit = v
           /\ y.login = x.login /\ y.tries = x.tries /\ y.rows = x.rows /\ y.status = x.status
<1> DEFINE z == [pc |-> x.pc, rq |-> x.rq, path |-> x.path, route |-> x.route, limit |-> x.limit,
                 login |-> x.login, tries |-> x.tries, rows |-> x.rows, status |-> x.status]
<1>1. x = z
  BY DEF Shape
<1>2. [z EXCEPT !.limit = v]
     = [pc |-> x.pc, rq |-> x.rq, path |-> x.path, route |-> x.route, limit |-> v,
        login |-> x.login, tries |-> x.tries, rows |-> x.rows, status |-> x.status]
  OBVIOUS
<1>3. y = [z EXCEPT !.limit = v]
  BY <1>1
<1> QED
  BY <1>2, <1>3 DEF Shape

\* Its login changes.
LEMMA WithLogin ==
    ASSUME NEW x, Shape(x), NEW v, NEW y, y = [x EXCEPT !.login = v]
    PROVE  /\ Shape(y) /\ y.pc = x.pc /\ y.rq = x.rq /\ y.path = x.path /\ y.route = x.route /\ y.limit = x.limit
           /\ y.login = v /\ y.tries = x.tries /\ y.rows = x.rows /\ y.status = x.status
<1> DEFINE z == [pc |-> x.pc, rq |-> x.rq, path |-> x.path, route |-> x.route, limit |-> x.limit,
                 login |-> x.login, tries |-> x.tries, rows |-> x.rows, status |-> x.status]
<1>1. x = z
  BY DEF Shape
<1>2. [z EXCEPT !.login = v]
     = [pc |-> x.pc, rq |-> x.rq, path |-> x.path, route |-> x.route, limit |-> x.limit,
        login |-> v, tries |-> x.tries, rows |-> x.rows, status |-> x.status]
  OBVIOUS
<1>3. y = [z EXCEPT !.login = v]
  BY <1>1
<1> QED
  BY <1>2, <1>3 DEF Shape

\* Its tries.
LEMMA WithTries ==
    ASSUME NEW x, Shape(x), NEW v, NEW y, y = [x EXCEPT !.tries = v]
    PROVE  /\ Shape(y) /\ y.pc = x.pc /\ y.rq = x.rq /\ y.path = x.path /\ y.route = x.route /\ y.limit = x.limit
           /\ y.login = x.login /\ y.tries = v /\ y.rows = x.rows /\ y.status = x.status
<1> DEFINE z == [pc |-> x.pc, rq |-> x.rq, path |-> x.path, route |-> x.route, limit |-> x.limit,
                 login |-> x.login, tries |-> x.tries, rows |-> x.rows, status |-> x.status]
<1>1. x = z
  BY DEF Shape
<1>2. [z EXCEPT !.tries = v]
     = [pc |-> x.pc, rq |-> x.rq, path |-> x.path, route |-> x.route, limit |-> x.limit,
        login |-> x.login, tries |-> v, rows |-> x.rows, status |-> x.status]
  OBVIOUS
<1>3. y = [z EXCEPT !.tries = v]
  BY <1>1
<1> QED
  BY <1>2, <1>3 DEF Shape

\* Its rows.
LEMMA WithRows ==
    ASSUME NEW x, Shape(x), NEW v, NEW y, y = [x EXCEPT !.rows = v]
    PROVE  /\ Shape(y) /\ y.pc = x.pc /\ y.rq = x.rq /\ y.path = x.path /\ y.route = x.route /\ y.limit = x.limit
           /\ y.login = x.login /\ y.tries = x.tries /\ y.rows = v /\ y.status = x.status
<1> DEFINE z == [pc |-> x.pc, rq |-> x.rq, path |-> x.path, route |-> x.route, limit |-> x.limit,
                 login |-> x.login, tries |-> x.tries, rows |-> x.rows, status |-> x.status]
<1>1. x = z
  BY DEF Shape
<1>2. [z EXCEPT !.rows = v]
     = [pc |-> x.pc, rq |-> x.rq, path |-> x.path, route |-> x.route, limit |-> x.limit,
        login |-> x.login, tries |-> x.tries, rows |-> v, status |-> x.status]
  OBVIOUS
<1>3. y = [z EXCEPT !.rows = v]
  BY <1>1
<1> QED
  BY <1>2, <1>3 DEF Shape

\* Its status.
LEMMA WithStatus ==
    ASSUME NEW x, Shape(x), NEW v, NEW y, y = [x EXCEPT !.status = v]
    PROVE  /\ Shape(y) /\ y.pc = x.pc /\ y.rq = x.rq /\ y.path = x.path /\ y.route = x.route /\ y.limit = x.limit
           /\ y.login = x.login /\ y.tries = x.tries /\ y.rows = x.rows /\ y.status = v
<1> DEFINE z == [pc |-> x.pc, rq |-> x.rq, path |-> x.path, route |-> x.route, limit |-> x.limit,
                 login |-> x.login, tries |-> x.tries, rows |-> x.rows, status |-> x.status]
<1>1. x = z
  BY DEF Shape
<1>2. [z EXCEPT !.status = v]
     = [pc |-> x.pc, rq |-> x.rq, path |-> x.path, route |-> x.route, limit |-> x.limit,
        login |-> x.login, tries |-> x.tries, rows |-> x.rows, status |-> v]
  OBVIOUS
<1>3. y = [z EXCEPT !.status = v]
  BY <1>1
<1> QED
  BY <1>2, <1>3 DEF Shape

\* A call that ends, with n rows.
EndedAs(x, s, n) == [x EXCEPT !.pc = "done", !.status = s, !.rows = n]

\* The fields of a call that ended with n rows.
LEMMA Ended ==
    ASSUME NEW x, Shape(x), NEW s, NEW n
    PROVE  LET y == EndedAs(x, s, n) IN
           /\ Shape(y) /\ y.pc = "done" /\ y.rq = x.rq /\ y.path = x.path /\ y.route = x.route
           /\ y.limit = x.limit /\ y.login = x.login /\ y.tries = x.tries /\ y.rows = n /\ y.status = s
<1> DEFINE u == [x EXCEPT !.pc = "done"]
           v == [u EXCEPT !.status = s]
           w == [v EXCEPT !.rows = n]
<1>1. w = EndedAs(x, s, n)
  BY DEF EndedAs
<1>2. /\ Shape(u) /\ u.pc = "done" /\ u.rq = x.rq /\ u.path = x.path /\ u.route = x.route /\ u.limit = x.limit
      /\ u.login = x.login /\ u.tries = x.tries
  BY Moved
<1> HIDE DEF u
<1>3. /\ Shape(v) /\ v.pc = "done" /\ v.rq = x.rq /\ v.path = x.path /\ v.route = x.route /\ v.limit = x.limit
      /\ v.login = x.login /\ v.tries = x.tries /\ v.status = s
  BY <1>2, WithStatus
<1> HIDE DEF v
<1>4. /\ Shape(w) /\ w.pc = "done" /\ w.rq = x.rq /\ w.path = x.path /\ w.route = x.route /\ w.limit = x.limit
      /\ w.login = x.login /\ w.tries = x.tries /\ w.status = s /\ w.rows = n
  BY <1>3, WithRows
<1> HIDE DEF w
<1> QED
  BY <1>1, <1>4

\* ... without a row.
EndedBy(x, s) == [x EXCEPT !.pc = "done", !.status = s]

\* The fields of a call that ended without one more row.
LEMMA EndedBare ==
    ASSUME NEW x, Shape(x), NEW s
    PROVE  LET y == EndedBy(x, s) IN
           /\ Shape(y) /\ y.pc = "done" /\ y.rq = x.rq /\ y.path = x.path /\ y.route = x.route
           /\ y.limit = x.limit /\ y.login = x.login /\ y.tries = x.tries /\ y.rows = x.rows /\ y.status = s
<1> DEFINE u == [x EXCEPT !.pc = "done"]
           v == [u EXCEPT !.status = s]
<1>1. v = EndedBy(x, s)
  BY DEF EndedBy
<1>2. /\ Shape(u) /\ u.pc = "done" /\ u.rq = x.rq /\ u.path = x.path /\ u.route = x.route /\ u.limit = x.limit
      /\ u.login = x.login /\ u.tries = x.tries /\ u.rows = x.rows
  BY Moved
<1> HIDE DEF u
<1>3. /\ Shape(v) /\ v.pc = "done" /\ v.rq = x.rq /\ v.path = x.path /\ v.route = x.route /\ v.limit = x.limit
      /\ v.login = x.login /\ v.tries = x.tries /\ v.rows = x.rows /\ v.status = s
  BY <1>2, WithStatus
<1> HIDE DEF v
<1> QED
  BY <1>1, <1>3

(* Continuations. *)

\* Call t goes on, soundly.
Continues(t) ==
    /\ call' = [call EXCEPT ![t] = call'[t]]
    /\ CallSound(call'[t], lived[t]) /\ call'[t].pc # "idle"
    /\ log' \in [Paths -> 0..MaxUsage]

\* It keeps its project and its cap.
Keeps(t, x) == call'[t].path = x.path /\ call'[t].limit = x.limit

\* The calls and the log are typed.
Callable == call = [t \in Tasks |-> call[t]] /\ log \in [Paths -> 0..MaxUsage]

\* Recording a call keeps the log typed.
LEMMA RecordTyped ==
    ASSUME log \in [Paths -> 0..MaxUsage], NEW p, Record(p)
    PROVE  log' \in [Paths -> 0..MaxUsage]
<1>1. CASE p \in Paths /\ log[p] < MaxUsage
  <2>1. log' = [log EXCEPT ![p] = log[p] + 1] /\ log[p] + 1 \in 0..MaxUsage
    BY <1>1, LimitsAssumption DEF Record
  <2> QED
    BY <2>1
<1>2. CASE ~(p \in Paths /\ log[p] < MaxUsage)
  BY <1>2 DEF Record
<1> QED
  BY <1>1, <1>2

\* The step of a call sets its record.
LEMMA Set ==
    ASSUME Callable, NEW t \in Tasks, NEW y, call' = [call EXCEPT ![t] = y]
    PROVE  call'[t] = y /\ call' = [call EXCEPT ![t] = call'[t]]
<1> DEFINE old == [u \in Tasks |-> call[u]]
<1>1. call = old
  BY DEF Callable
<1>2. call' = [old EXCEPT ![t] = y]
  BY <1>1
<1>3. call'[t] = y
  BY <1>2
<1> QED
  BY <1>3

\* What was decided for a call stands while its project, route and cap stay.
LEMMA SameDecision ==
    ASSUME NEW x, NEW L, Decided(x, L), NEW y,
           y.rq = x.rq, y.path = x.path, y.route = x.route, y.limit = x.limit
    PROVE  Decided(y, L)
<1>1. PICK n \in L : DecidedBy(Configs[n], x)
  BY DEF Decided
<1>2. DecidedBy(Configs[n], y)
  BY <1>1 DEF DecidedBy
<1> QED
  BY <1>2 DEF Decided

\* A call that is let in goes on soundly to any wait or to its service (Step).
LEMMA StepSound ==
    ASSUME Callable, NEW t \in Tasks, NEW x, Unrowed(x), Decided(x, lived[t]),
           NEW p \in Waiting \cup Serving, p = "counting" => x.limit # NoCap,
           p = "streaming" => x.status \in {200, 429, 500}, Step(t, x, p)
    PROVE  Continues(t) /\ call'[t].pc = p /\ Keeps(t, x)
<1> DEFINE y == [x EXCEPT !.pc = p]
<1>1. call'[t] = y /\ call' = [call EXCEPT ![t] = call'[t]]
  BY Set DEF Step
<1>2. /\ Shape(y) /\ y.pc = p /\ y.rq = x.rq /\ y.path = x.path /\ y.route = x.route /\ y.limit = x.limit
      /\ y.login = x.login /\ y.tries = x.tries /\ y.rows = x.rows /\ y.status = x.status
  BY Moved DEF Unrowed
<1> HIDE DEF y
<1>3. Decided(y, lived[t])
  BY <1>2, SameDecision
<1>4. CallSound(y, lived[t])
  BY <1>2, <1>3 DEF CallSound, Unrowed, Pcs, Waiting, Serving
<1>5. log' = log /\ y.pc # "idle"
  BY <1>2 DEF Step, Waiting, Serving
<1> QED
  BY <1>1, <1>2, <1>4, <1>5 DEF Continues, Callable, Keeps

\* A call that is answered through the log ends with its one row (End).
LEMMA EndSound ==
    ASSUME Callable, NEW t \in Tasks, NEW x, Unrowed(x), NEW s, s \notin {0, 413, 503},
           s # 400 \/ x.rq.post, NEW p, End(t, x, s, p)
    PROVE  Continues(t) /\ call'[t].pc = "done" /\ Keeps(t, x)
<1> DEFINE y == EndedAs(x, s, x.rows + 1)
<1>1. call' = [call EXCEPT ![t] = y] /\ Record(p)
  BY DEF End, EndedAs
<1>2. call'[t] = y /\ call' = [call EXCEPT ![t] = call'[t]]
  BY <1>1, Set
<1>3. /\ Shape(y) /\ y.pc = "done" /\ y.rq = x.rq /\ y.path = x.path /\ y.route = x.route
      /\ y.limit = x.limit /\ y.login = x.login /\ y.tries = x.tries /\ y.rows = x.rows + 1 /\ y.status = s
  BY Ended DEF Unrowed
<1> HIDE DEF y
<1>4. ~Rowless(y)
  BY <1>3 DEF Rowless
<1>5. CallSound(y, lived[t])
  BY <1>3, <1>4 DEF CallSound, Unrowed, Pcs, Waiting, Serving
<1> QED
  BY <1>1, <1>2, <1>3, <1>5, RecordTyped DEF Continues, Callable, Keeps

\* A refusal that is not logged ends with none (EndUnlogged).
LEMMA EndBareSound ==
    ASSUME Callable, NEW t \in Tasks, NEW x, Unrowed(x), NEW s,
           s \in {0, 413, 503} \/ (s = 400 /\ ~x.rq.post), EndUnlogged(t, x, s)
    PROVE  Continues(t) /\ call'[t].pc = "done" /\ Keeps(t, x)
<1> DEFINE y == EndedBy(x, s)
<1>1. call' = [call EXCEPT ![t] = y] /\ log' = log
  BY DEF EndUnlogged, EndedBy
<1>2. call'[t] = y /\ call' = [call EXCEPT ![t] = call'[t]]
  BY <1>1, Set
<1>3. /\ Shape(y) /\ y.pc = "done" /\ y.rq = x.rq /\ y.path = x.path /\ y.route = x.route
      /\ y.limit = x.limit /\ y.login = x.login /\ y.tries = x.tries /\ y.rows = x.rows /\ y.status = s
  BY EndedBare DEF Unrowed
<1> HIDE DEF y
<1>4. Rowless(y)
  BY <1>3 DEF Rowless
<1>5. CallSound(y, lived[t])
  BY <1>3, <1>4 DEF CallSound, Unrowed, Pcs, Waiting, Serving
<1> QED
  BY <1>1, <1>2, <1>3, <1>5 DEF Continues, Callable, Keeps

\* Dispatch: a login or none, then the slot or the upstream.
LEMMA DispatchSound ==
    ASSUME Callable, live \subseteq Logins, NEW t \in Tasks, NEW x, Unrowed(x), Decided(x, lived[t]), Dispatch(t, x)
    PROVE  Continues(t) /\ call'[t].pc # "counting" /\ Keeps(t, x)
<1> DEFINE ready == IF cfg.jsonEnforce /\ x.rq.json THEN "json" ELSE "sent"
<1>0. ready \in Waiting \cup Serving /\ ready \notin {"counting", "streaming"}
  BY DEF Waiting, Serving
<1> HIDE DEF ready
<1>1. CASE x.route.provider # "claudecode"
  <2>1. PICK p \in {"queued", ready} : Step(t, x, p)
    BY <1>1 DEF Dispatch, ready
  <2>2. p \in Waiting \cup Serving /\ p \notin {"counting", "streaming"}
    BY <1>0, <2>1 DEF Waiting, Serving
  <2> QED
    BY <2>1, <2>2, StepSound
<1>2. CASE x.route.provider = "claudecode"
  <2>1. (\E l \in live : Step(t, [x EXCEPT !.login = l], ready)) \/ End(t, x, 403, x.path)
    BY <1>2 DEF Dispatch, ready
  <2>2. ASSUME NEW l \in live, Step(t, [x EXCEPT !.login = l], ready)
        PROVE  Continues(t) /\ call'[t].pc # "counting" /\ Keeps(t, x)
    <3> DEFINE y == [x EXCEPT !.login = l]
    <3>1. /\ Shape(y) /\ y.pc = x.pc /\ y.rq = x.rq /\ y.path = x.path /\ y.route = x.route
          /\ y.limit = x.limit /\ y.login = l /\ y.tries = x.tries /\ y.rows = x.rows /\ y.status = x.status
      BY WithLogin DEF Unrowed
    <3>2. Step(t, y, ready)
      BY <2>2
    <3> HIDE DEF y
    <3>3. Unrowed(y) /\ Decided(y, lived[t])
      BY <3>1, SameDecision DEF Unrowed
    <3> QED
      BY <1>0, <3>1, <3>2, <3>3, StepSound DEF Keeps
  <2>3. CASE End(t, x, 403, x.path)
    BY <2>3, EndSound
  <2> QED
    BY <2>1, <2>2, <2>3
<1> QED
  BY <1>1, <1>2

\* Proceed: the bearer gate, the compressor, dispatch.
LEMMA ProceedSound ==
    ASSUME Callable, live \subseteq Logins, NEW t \in Tasks, NEW x, Unrowed(x), Decided(x, lived[t]), Proceed(t, x)
    PROVE  Continues(t) /\ call'[t].pc # "counting" /\ Keeps(t, x)
<1>1. End(t, x, 401, x.path) \/ Step(t, x, "compressing") \/ Dispatch(t, x)
  BY DEF Proceed
<1>2. CASE End(t, x, 401, x.path)
  BY <1>2, EndSound
<1>3. CASE Step(t, x, "compressing")
  <2>1. "compressing" \in Waiting \cup Serving
    BY DEF Waiting
  <2> QED
    BY <1>3, <2>1, StepSound
<1>4. CASE Dispatch(t, x)
  BY <1>4, DispatchSound
<1> QED
  BY <1>1, <1>2, <1>3, <1>4

(* Back-pressure. *)

\* The records of back-pressure are typed and owed for.
Owed == /\ level \in [Consumers -> 0..MaxLevel] /\ hot \in [Consumers -> BOOLEAN]
        /\ owed \in [Consumers -> 0..MaxLevel] /\ PacingIsEarned

\* Forgiving a consumer keeps its pacing owed for.
LEMMA ForgiveOwed ==
    ASSUME Owed, NEW n, Forgive(n), UNCHANGED owed
    PROVE  Owed'
<1>1. CASE n \notin Consumers
  BY <1>1 DEF Owed, Forgive, PacingIsEarned
<1>2. CASE n \in Consumers
  <2>1. level' = [level EXCEPT ![n] = 0] /\ hot' = [hot EXCEPT ![n] = FALSE]
    BY <1>2 DEF Forgive
  <2>2. level' \in [Consumers -> 0..MaxLevel]
    BY <1>2, <2>1, LimitsAssumption DEF Owed
  <2>4. hot' \in [Consumers -> BOOLEAN]
    BY <2>1 DEF Owed
  <2>3. ASSUME NEW m \in Consumers PROVE level'[m] <= owed'[m]
    BY <1>2, <2>1, LimitsAssumption DEF Owed, PacingIsEarned
  <2> QED
    BY <2>2, <2>3, <2>4 DEF Owed, PacingIsEarned
<1> QED
  BY <1>1, <1>2

\* Pace: back-pressure drops a record that ran out, and holds back or lets go on.
LEMMA PaceSound ==
    ASSUME Callable, live \subseteq Logins, NEW t \in Tasks, NEW x, Unrowed(x), Decided(x, lived[t]), Pace(t, x),
           Owed, UNCHANGED owed
    PROVE  Continues(t) /\ call'[t].pc # "counting" /\ Keeps(t, x) /\ Owed'
<1>1. CASE ~x.rq.post \/ x.path = None
  <2>1. Proceed(t, x) /\ UNCHANGED <<level, hot>>
    BY <1>1 DEF Pace
  <2> QED
    BY <2>1, ProceedSound DEF Owed, PacingIsEarned
<1>2. CASE ~(~x.rq.post \/ x.path = None)
  <2>1. AskDelay(cfg, x.path[1]) /\ (Step(t, x, "paced") \/ Proceed(t, x))
    BY <1>2 DEF Pace
  <2>2. Forgive(x.path[1]) \/ UNCHANGED <<level, hot>>
    BY <2>1 DEF AskDelay
  <2>3. Owed'
    BY <2>2, ForgiveOwed DEF Owed, PacingIsEarned
  <2>4. "paced" \in Waiting \cup Serving
    BY DEF Waiting
  <2> QED
    BY <2>1, <2>3, <2>4, StepSound, ProceedSound
<1> QED
  BY <1>1, <1>2

\* Judge: the call is refused, slowed or let go on; it is never let go on against a blocking cap.
LEMMA JudgeSound ==
    ASSUME Callable, live \subseteq Logins, NEW t \in Tasks, NEW x, Unrowed(x), Decided(x, lived[t]),
           NEW u, Judge(t, x, u), Owed, UNCHANGED owed
    PROVE  /\ Continues(t) /\ call'[t].pc # "counting" /\ Keeps(t, x) /\ Owed'
           /\ call'[t].pc # "done" => Action(u, x.limit.lim) # "block"
<1>1. CASE Action(u, x.limit.lim) = "block"
  <2>1. End(t, x, 429, x.path) /\ UNCHANGED <<level, hot>>
    BY <1>1 DEF Judge
  <2> QED
    BY <2>1, EndSound DEF Owed, PacingIsEarned
<1>2. CASE Action(u, x.limit.lim) = "slow"
  <2>1. Step(t, x, "slowed") /\ UNCHANGED <<level, hot>>
    BY <1>2 DEF Judge
  <2>2. "slowed" \in Waiting \cup Serving
    BY DEF Waiting
  <2> QED
    BY <1>2, <2>1, <2>2, StepSound DEF Owed, PacingIsEarned
<1>3. CASE Action(u, x.limit.lim) \notin {"block", "slow"}
  <2>1. Pace(t, x)
    BY <1>3 DEF Judge
  <2> QED
    BY <1>3, <2>1, PaceSound
<1> QED
  BY <1>1, <1>2, <1>3

\* Meter: the cap is looked up in the configuration that decided the rest.
LEMMA MeterSound ==
    ASSUME Callable, live \subseteq Logins, NEW t \in Tasks, NEW x, Unrowed(x),
           now \in lived[t], DecidedBy(cfg, x), Meter(t, x), Owed, UNCHANGED owed
    PROVE  Continues(t) /\ Owed'
<1> DEFINE lim == ResolveLimit(cfg, x.path)
           y == [x EXCEPT !.limit = lim]
           key == <<lim.scope, lim.folded>>
<1>1. Pace(t, x) \/ Judge(t, y, cache[key]) \/ (lim # NoCap /\ Step(t, y, "counting") /\ UNCHANGED <<level, hot>>)
  BY DEF Meter
<1>2. /\ Shape(y) /\ y.pc = x.pc /\ y.rq = x.rq /\ y.path = x.path /\ y.route = x.route
      /\ y.limit = lim /\ y.login = x.login /\ y.tries = x.tries /\ y.rows = x.rows /\ y.status = x.status
  BY WithLimit DEF Unrowed
<1> HIDE DEF y, key
<1>3. DecidedBy(cfg, y)
  BY <1>2 DEF DecidedBy
<1>4. Unrowed(y) /\ Decided(y, lived[t]) /\ Decided(x, lived[t])
  BY <1>2, <1>3 DEF Unrowed, Decided, cfg
<1>5. CASE Pace(t, x)
  BY <1>4, <1>5, PaceSound
<1>6. CASE Judge(t, y, cache[key])
  BY <1>4, <1>6, JudgeSound
<1>7. CASE lim # NoCap /\ Step(t, y, "counting") /\ UNCHANGED <<level, hot>>
  <2>1. "counting" \in Waiting \cup Serving
    BY DEF Waiting
  <2> QED
    BY <1>2, <1>4, <1>7, <2>1, StepSound DEF Owed, PacingIsEarned
<1> QED
  BY <1>1, <1>5, <1>6, <1>7

(* The steps of a call. *)

\* What the invariant says of one call.
LEMMA CallParts ==
    ASSUME PipelineInductive, NEW t \in Tasks
    PROVE  /\ Callable /\ Owed /\ live \subseteq Logins /\ LimitsTypeOK
           /\ CallSound(call[t], lived[t])
           /\ call[t].pc \notin {"idle", "done"} => Unrowed(call[t])
           /\ call[t].pc \in Waiting \cup Serving => Decided(call[t], lived[t])
           /\ call[t].pc # "idle" => now \in lived[t]
           /\ now \in DOMAIN Configs /\ lived[t] \subseteq DOMAIN Configs
<1>1. /\ Callable /\ Owed /\ live \subseteq Logins /\ LimitsTypeOK
      /\ now \in DOMAIN Configs /\ lived[t] \subseteq DOMAIN Configs
  BY DEF PipelineInductive, Typed, LimitsTypeOK, Callable, Owed
<1>2. CallSound(call[t], lived[t]) /\ (call[t].pc # "idle" => now \in lived[t])
  BY DEF PipelineInductive
<1> QED
  BY <1>1, <1>2 DEF CallSound, Unrowed

\* A sound step of one call keeps the invariant.
LEMMA CallStep ==
    ASSUME PipelineInductive, NEW t \in Tasks, Continues(t), Owed',
           cache' \in [Scopes -> {None} \cup 0..(MaxUsage * Cardinality(Paths))],
           UNCHANGED <<play, now, saves, live, lived>>, call[t].pc # "idle"
    PROVE  PipelineInductive'
<1>1. Typed'
  <2>1. LimitsTypeOK'
    BY DEF LimitsTypeOK, Continues, Owed
  <2>2. call' = [u \in Tasks |-> call'[u]]
    BY DEF Continues, PipelineInductive, Typed
  <2> QED
    BY <2>1, <2>2 DEF PipelineInductive, Typed, Owed, scene
<1>2. ASSUME NEW u \in Tasks PROVE CallSound(call'[u], lived'[u]) /\ (call'[u].pc # "idle" => now' \in lived'[u])
  <2>1. CASE u = t
    BY <2>1 DEF Continues, PipelineInductive
  <2>2. CASE u # t
    <3>1. call'[u] = call[u]
      BY <2>2 DEF Continues, PipelineInductive, Typed
    <3> QED
      BY <3>1 DEF PipelineInductive
  <2> QED
    BY <2>1, <2>2
<1>3. PacingIsEarned'
  BY DEF Owed
<1> QED
  BY <1>1, <1>2, <1>3 DEF PipelineInductive

\* Where back-pressure and the cache stay.
LEMMA QuietCallStep ==
    ASSUME PipelineInductive, NEW t \in Tasks, Continues(t),
           UNCHANGED <<cache, level, hot, play, now, saves, live, lived, owed>>, call[t].pc # "idle"
    PROVE  PipelineInductive'
<1>1. Owed'
  BY CallParts DEF Owed, PacingIsEarned
<1>2. cache' \in [Scopes -> {None} \cup 0..(MaxUsage * Cardinality(Paths))]
  BY DEF PipelineInductive, Typed, LimitsTypeOK
<1> QED
  BY <1>1, <1>2, CallStep

\* A body that is too large keeps the invariant.
LEMMA TooLargeStep == ASSUME PipelineInductive, NEW t \in Tasks, TooLarge(t) PROVE PipelineInductive'
<1>1. call[t].pc = "reading" /\ EndUnlogged(t, call[t], 413)
      /\ UNCHANGED <<cache, level, hot, play, now, saves, live, lived, owed>>
  BY DEF TooLarge
<1>2. Continues(t)
  BY <1>1, CallParts, EndBareSound
<1> QED
  BY <1>1, <1>2, QuietCallStep

\* A call under its path and route.
RoutedAs(x, p, r) == [x EXCEPT !.path = p, !.route = r]

\* The fields of a call under its path and route.
LEMMA Routed ==
    ASSUME NEW x, Shape(x), NEW p, NEW r
    PROVE  LET y == RoutedAs(x, p, r) IN
           /\ Shape(y) /\ y.pc = x.pc /\ y.rq = x.rq /\ y.path = p /\ y.route = r /\ y.limit = x.limit
           /\ y.login = x.login /\ y.tries = x.tries /\ y.rows = x.rows /\ y.status = x.status
<1> DEFINE u == [x EXCEPT !.path = p]
           v == [u EXCEPT !.route = r]
<1>1. v = RoutedAs(x, p, r)
  BY DEF RoutedAs
<1>2. /\ Shape(u) /\ u.pc = x.pc /\ u.rq = x.rq /\ u.path = p /\ u.limit = x.limit
      /\ u.login = x.login /\ u.tries = x.tries /\ u.rows = x.rows /\ u.status = x.status
  <2>1. PICK w : w = [x EXCEPT !.path = p]
    OBVIOUS
  <2>2. /\ Shape(w) /\ w.pc = x.pc /\ w.rq = x.rq /\ w.path = p /\ w.limit = x.limit
        /\ w.login = x.login /\ w.tries = x.tries /\ w.rows = x.rows /\ w.status = x.status
    BY <2>1, WithPath
  <2> QED
    BY <2>1, <2>2
<1> HIDE DEF u
<1>3. /\ Shape(v) /\ v.pc = x.pc /\ v.rq = x.rq /\ v.path = p /\ v.route = r /\ v.limit = x.limit
      /\ v.login = x.login /\ v.tries = x.tries /\ v.rows = x.rows /\ v.status = x.status
  BY <1>2, WithRoute
<1> HIDE DEF v
<1> QED
  BY <1>1, <1>3

\* The decision at the end of the body keeps it: all of it is made under the configuration in force.
LEMMA DecideStep == ASSUME PipelineInductive, NEW t \in Tasks, Decide(t) PROVE PipelineInductive'
<1> DEFINE rq == call[t].rq
           path == Project(cfg, rq)
           route == ResolveRoute(cfg, rq.model, path)
           x == RoutedAs(call[t], path, route)
           status == Verdict(cfg, rq, path, route)
<1>1. call[t].pc = "reading" /\ UNCHANGED <<cache, play, now, saves, live, lived, owed>>
  BY DEF Decide
<1>2. IF status # 0
      THEN /\ UNCHANGED <<level, hot>>
           /\ IF rq.post THEN End(t, x, status, BookedOn(cfg, rq, path)) ELSE EndUnlogged(t, x, status)
      ELSE Meter(t, x)
  BY DEF Decide, RoutedAs
<1>3. /\ Shape(x) /\ x.rq = rq /\ x.path = path /\ x.route = route /\ x.limit = NoCap
      /\ x.login = call[t].login /\ x.tries = call[t].tries /\ x.rows = call[t].rows
  BY <1>1, CallParts, Routed DEF CallSound
<1>4. status \in {0, 400, 401, 403} /\ (~rq.post => status \in {0, 400})
  BY DEF Verdict
<1> HIDE DEF x
<1>5. Unrowed(x)
  BY <1>1, <1>3, CallParts DEF Unrowed
<1>6. CASE status # 0 /\ rq.post
  <2>1. End(t, x, status, BookedOn(cfg, rq, path)) /\ UNCHANGED <<level, hot>>
    BY <1>2, <1>6
  <2>2. Continues(t)
    BY <1>3, <1>4, <1>5, <1>6, <2>1, CallParts, EndSound
  <2> QED
    BY <1>1, <2>1, <2>2, QuietCallStep
<1>7. CASE status # 0 /\ ~rq.post
  <2>1. EndUnlogged(t, x, status) /\ UNCHANGED <<level, hot>>
    BY <1>2, <1>7
  <2>2. Continues(t)
    BY <1>3, <1>4, <1>5, <1>7, <2>1, CallParts, EndBareSound
  <2> QED
    BY <1>1, <2>1, <2>2, QuietCallStep
<1>8. CASE status = 0
  <2>1. Meter(t, x)
    BY <1>2, <1>8
  <2>2. DecidedBy(cfg, x)
    BY <1>3, <1>8 DEF DecidedBy
  <2>3. Continues(t) /\ Owed'
    BY <1>1, <1>5, <2>1, <2>2, CallParts, MeterSound
  <2>4. cache' \in [Scopes -> {None} \cup 0..(MaxUsage * Cardinality(Paths))]
    BY <1>1 DEF PipelineInductive, Typed, LimitsTypeOK
  <2> QED
    BY <1>1, <2>3, <2>4, CallStep
<1> QED
  BY <1>6, <1>7, <1>8

\* What a count counts is bounded.
LEMMA CountTyped ==
    ASSUME NEW S \in SUBSET Paths
    PROVE  Cardinality(Rows(S)) \in 0..(MaxUsage * Cardinality(Paths))
<1>1. IsFiniteSet(1..MaxUsage) /\ Cardinality(1..MaxUsage) = MaxUsage
  BY FS_Interval, LimitsAssumption
<1>2. /\ IsFiniteSet(Paths \X (1..MaxUsage))
      /\ Cardinality(Paths \X (1..MaxUsage)) = Cardinality(Paths) * Cardinality(1..MaxUsage)
  BY <1>1, FS_Product, LimitsAssumption
<1>3. Rows(S) \subseteq Paths \X (1..MaxUsage)
  BY DEF Rows
<1>4. IsFiniteSet(Rows(S)) /\ Cardinality(Rows(S)) <= Cardinality(Paths \X (1..MaxUsage))
  BY <1>2, <1>3, FS_Subset
<1>5. Cardinality(Rows(S)) \in Nat /\ Cardinality(Paths) \in Nat
  BY <1>4, FS_CardinalityType, LimitsAssumption
<1>6. Cardinality(Paths) * MaxUsage = MaxUsage * Cardinality(Paths) /\ MaxUsage * Cardinality(Paths) \in Nat
  BY <1>5, LimitsAssumption
<1>7. Cardinality(Rows(S)) <= MaxUsage * Cardinality(Paths)
  BY <1>1, <1>2, <1>4, <1>6
<1> QED
  BY <1>5, <1>6, <1>7

\* The count that comes back keeps it.
LEMMA CountedStep == ASSUME PipelineInductive, NEW t \in Tasks, Counted(t) PROVE PipelineInductive'
<1> DEFINE lim == call[t].limit
           key == <<lim.scope, lim.folded>>
           N == MaxUsage * Cardinality(Paths)
<1>1. PICK usage \in {Count(lim.scope, lim.folded), 0} :
         /\ cache' = IF key \in Scopes THEN [cache EXCEPT ![key] = usage] ELSE cache
         /\ Judge(t, call[t], usage)
  BY DEF Counted
<1>2. call[t].pc = "counting" /\ UNCHANGED <<play, now, saves, live, lived, owed>>
  BY DEF Counted
<1>3. usage \in 0..N
  <2>1. Counts(lim.scope, lim.folded) \in SUBSET Paths
    BY DEF Counts
  <2>2. Count(lim.scope, lim.folded) \in 0..N
    BY <2>1, CountTyped DEF Count
  <2>3. N \in Nat
    BY FS_CardinalityType, LimitsAssumption
  <2> QED
    BY <2>2, <2>3
<1>4. cache \in [Scopes -> {None} \cup 0..N]
  BY DEF PipelineInductive, Typed, LimitsTypeOK
<1> HIDE DEF N, key
<1>5. cache' \in [Scopes -> {None} \cup 0..N]
  BY <1>1, <1>3, <1>4
<1>6. "counting" \in Waiting
  BY DEF Waiting
<1>7. Continues(t) /\ Owed'
  BY <1>1, <1>2, <1>6, CallParts, JudgeSound
<1> QED
  BY <1>2, <1>5, <1>7, CallStep DEF N

\* The ends of the waits keep it.
LEMMA WaitSteps ==
    ASSUME PipelineInductive, NEW t \in Tasks, Slowed(t) \/ Paced(t) \/ Compressed(t) \/ Admitted(t)
    PROVE  PipelineInductive'
<1>1. {"slowed", "paced", "compressing", "queued"} \subseteq Waiting /\ {"json", "sent"} \subseteq Serving
  BY DEF Waiting, Serving
<1>2. CASE Slowed(t)
  <2>1. call[t].pc = "slowed" /\ Pace(t, call[t]) /\ UNCHANGED <<cache, play, now, saves, live, lived, owed>>
    BY <1>2 DEF Slowed
  <2>2. Continues(t) /\ Owed'
    BY <1>1, <2>1, CallParts, PaceSound
  <2>3. cache' \in [Scopes -> {None} \cup 0..(MaxUsage * Cardinality(Paths))]
    BY <2>1 DEF PipelineInductive, Typed, LimitsTypeOK
  <2> QED
    BY <2>1, <2>2, <2>3, CallStep
<1>3. CASE Paced(t)
  <2>1. call[t].pc = "paced" /\ Proceed(t, call[t]) /\ UNCHANGED <<cache, level, hot, play, now, saves, live, lived, owed>>
    BY <1>3 DEF Paced
  <2>2. Continues(t)
    BY <1>1, <2>1, CallParts, ProceedSound
  <2> QED
    BY <2>1, <2>2, QuietCallStep
<1>4. CASE Compressed(t)
  <2>1. call[t].pc = "compressing" /\ Dispatch(t, call[t]) /\ UNCHANGED <<cache, level, hot, play, now, saves, live, lived, owed>>
    BY <1>4 DEF Compressed
  <2>2. Continues(t)
    BY <1>1, <2>1, CallParts, DispatchSound
  <2> QED
    BY <2>1, <2>2, QuietCallStep
<1>5. CASE Admitted(t)
  <2>1. call[t].pc = "queued" /\ UNCHANGED <<cache, level, hot, play, now, saves, live, lived, owed>>
    BY <1>5 DEF Admitted
  <2>2. PICK p \in {"json", "sent"} : Step(t, call[t], p) \/ EndUnlogged(t, call[t], 503)
    BY <1>5 DEF Admitted
  <2>3. Continues(t)
    BY <1>1, <2>1, <2>2, CallParts, StepSound, EndBareSound
  <2> QED
    BY <2>1, <2>3, QuietCallStep
<1> QED
  BY <1>2, <1>3, <1>4, <1>5

(* Answers. *)

\* The head of an answer is there.
LEMMA AnswerSound ==
    ASSUME PipelineInductive, NEW t \in Tasks, call[t].pc = "sent", NEW s \in {200, 429, 500},
           Step(t, [call[t] EXCEPT !.status = s], "streaming")
    PROVE  Continues(t)
<1> DEFINE y == [call[t] EXCEPT !.status = s]
<1>1. "sent" \in Serving /\ "streaming" \in Waiting \cup Serving
  BY DEF Serving
<1>2. Unrowed(call[t]) /\ Decided(call[t], lived[t]) /\ Callable
  BY <1>1, CallParts
<1>3. /\ Shape(y) /\ y.rq = call[t].rq /\ y.path = call[t].path /\ y.route = call[t].route /\ y.limit = call[t].limit
      /\ y.login = call[t].login /\ y.tries = call[t].tries /\ y.rows = call[t].rows /\ y.status = s
  <2>1. Shape(call[t])
    BY <1>2 DEF Unrowed
  <2> QED
    BY <2>1, WithStatus
<1>4. Step(t, y, "streaming")
  OBVIOUS
<1> HIDE DEF y
<1>5. Unrowed(y) /\ Decided(y, lived[t])
  BY <1>2, <1>3, SameDecision DEF Unrowed
<1>6. Continues(t) /\ call'[t].pc = "streaming"
  BY <1>1, <1>2, <1>3, <1>4, <1>5, StepSound
<1> QED
  BY <1>6

\* A success keeps it: pacing and what is owed are cleared together, for the whole consumer.
LEMMA SucceededStep == ASSUME PipelineInductive, NEW t \in Tasks, Succeeded(t) PROVE PipelineInductive'
<1> DEFINE p == call[t].path
<1>1. /\ call[t].pc = "sent" /\ UNCHANGED <<cache, play, now, saves, live, lived>>
      /\ Step(t, [call[t] EXCEPT !.status = 200], "streaming")
  BY DEF Succeeded
<1>2. IF p = None THEN UNCHANGED <<level, hot, owed>>
      ELSE /\ Forgive(p[1])
           /\ owed' = IF p[1] \in Consumers THEN [owed EXCEPT ![p[1]] = 0] ELSE owed
  BY DEF Succeeded
<1>3. Continues(t)
  BY <1>1, AnswerSound
<1>4. Owed
  BY CallParts
<1> HIDE DEF p
<1>5. Owed'
  <2>1. CASE p = None
    BY <1>2, <1>4, <2>1 DEF Owed, PacingIsEarned
  <2>2. CASE p # None /\ p[1] \notin Consumers
    BY <1>2, <1>4, <2>2 DEF Owed, PacingIsEarned, Forgive
  <2>3. CASE p # None /\ p[1] \in Consumers
    <3>1. /\ level' = [level EXCEPT ![p[1]] = 0] /\ hot' = [hot EXCEPT ![p[1]] = FALSE]
          /\ owed' = [owed EXCEPT ![p[1]] = 0]
      BY <1>2, <2>3 DEF Forgive
    <3>2. hot' \in [Consumers -> BOOLEAN]
      BY <1>4, <3>1 DEF Owed
    <3>3. level' \in [Consumers -> 0..MaxLevel] /\ owed' \in [Consumers -> 0..MaxLevel]
      BY <1>4, <2>3, <3>1, LimitsAssumption DEF Owed
    <3>4. ASSUME NEW m \in Consumers PROVE level'[m] <= owed'[m]
      BY <1>4, <2>3, <3>1, LimitsAssumption DEF Owed, PacingIsEarned
    <3> QED
      BY <3>2, <3>3, <3>4 DEF Owed, PacingIsEarned
  <2> QED
    BY <2>1, <2>2, <2>3
<1>6. cache' \in [Scopes -> {None} \cup 0..(MaxUsage * Cardinality(Paths))]
  BY <1>1 DEF PipelineInductive, Typed, LimitsTypeOK
<1> QED
  BY <1>1, <1>3, <1>5, <1>6, CallStep

\* A 429 keeps it: pacing goes up by one at most, and so does what is owed.
LEMMA RateLimitedStep == ASSUME PipelineInductive, NEW t \in Tasks, RateLimited(t) PROVE PipelineInductive'
<1> DEFINE p == call[t].path
<1>1. /\ call[t].pc = "sent" /\ UNCHANGED <<cache, play, now, saves, live, lived>>
      /\ Step(t, [call[t] EXCEPT !.status = 429], "streaming")
  BY DEF RateLimited
<1>2. IF p = None THEN UNCHANGED <<level, hot, owed>>
      ELSE /\ Note429(cfg, p[1])
           /\ owed' = IF p[1] \in Consumers /\ owed[p[1]] < MaxLevel THEN [owed EXCEPT ![p[1]] = owed[p[1]] + 1] ELSE owed
  BY DEF RateLimited
<1>3. Continues(t)
  BY <1>1, AnswerSound
<1>4. Owed
  BY CallParts
<1> HIDE DEF p
<1>5. Owed'
  <2>1. CASE p = None \/ p[1] \notin Consumers
    BY <1>2, <1>4, <2>1 DEF Owed, PacingIsEarned, Note429
  <2>2. CASE p # None /\ p[1] \in Consumers
    <3> DEFINE n == p[1]
               up == IF level[n] < MaxLevel THEN level[n] + 1 ELSE level[n]
               due == IF owed[n] < MaxLevel THEN owed[n] + 1 ELSE owed[n]
    <3>1. level[n] \in 0..MaxLevel /\ owed[n] \in 0..MaxLevel /\ level[n] <= owed[n]
      BY <1>4, <2>2 DEF Owed, PacingIsEarned
    <3>2. up \in 0..MaxLevel /\ due \in 0..MaxLevel /\ up <= due /\ level[n] <= due
      BY <3>1, LimitsAssumption
    <3>3. owed' = [owed EXCEPT ![n] = due]
      BY <1>2, <1>4, <2>2 DEF Owed
    <3>4. \/ UNCHANGED <<level, hot>>
          \/ level' = [level EXCEPT ![n] = up] /\ hot' = [hot EXCEPT ![n] = TRUE]
      BY <1>2, <2>2 DEF Note429
    <3> HIDE DEF n, up, due
    <3>5. hot' \in [Consumers -> BOOLEAN]
      BY <1>4, <3>4 DEF Owed
    <3>6. level' \in [Consumers -> 0..MaxLevel] /\ owed' \in [Consumers -> 0..MaxLevel]
      BY <1>4, <3>2, <3>3, <3>4 DEF Owed
    <3>7. ASSUME NEW m \in Consumers PROVE level'[m] <= owed'[m]
      BY <1>4, <3>1, <3>2, <3>3, <3>4 DEF Owed, PacingIsEarned
    <3> QED
      BY <3>5, <3>6, <3>7 DEF Owed, PacingIsEarned
  <2> QED
    BY <2>1, <2>2
<1>6. cache' \in [Scopes -> {None} \cup 0..(MaxUsage * Cardinality(Paths))]
  BY <1>1 DEF PipelineInductive, Typed, LimitsTypeOK
<1> QED
  BY <1>1, <1>3, <1>5, <1>6, CallStep

\* The ends of calls keep it.
LEMMA EndSteps ==
    ASSUME PipelineInductive, NEW t \in Tasks,
           Failed(t) \/ Unreachable(t) \/ BodyEnds(t) \/ StreamBreaks(t) \/ JsonAnswered(t)
    PROVE  PipelineInductive'
<1>0. {"sent", "streaming", "json"} \subseteq Serving
  BY DEF Serving
<1>1. CASE Failed(t)
  <2>1. /\ call[t].pc = "sent" /\ Step(t, [call[t] EXCEPT !.status = 500], "streaming")
        /\ UNCHANGED <<cache, level, hot, play, now, saves, live, lived, owed>>
    BY <1>1 DEF Failed
  <2> QED
    BY <2>1, AnswerSound, QuietCallStep
<1>2. CASE Unreachable(t)
  <2>1. /\ call[t].pc = "sent" /\ End(t, call[t], 502, call[t].path)
        /\ UNCHANGED <<cache, level, hot, play, now, saves, live, lived, owed>>
    BY <1>2 DEF Unreachable
  <2>2. Continues(t)
    BY <2>1, CallParts, EndSound
  <2> QED
    BY <2>1, <2>2, QuietCallStep
<1>3. CASE BodyEnds(t)
  <2>1. /\ call[t].pc = "streaming" /\ End(t, call[t], call[t].status, call[t].path)
        /\ UNCHANGED <<cache, level, hot, play, now, saves, live, lived, owed>>
    BY <1>3 DEF BodyEnds
  <2>2. call[t].status \in {200, 429, 500}
    BY <2>1, CallParts DEF CallSound
  <2>3. Continues(t)
    BY <2>1, <2>2, CallParts, EndSound
  <2> QED
    BY <2>1, <2>3, QuietCallStep
<1>4. CASE StreamBreaks(t)
  <2>1. /\ call[t].pc = "streaming" /\ EndUnlogged(t, call[t], 0)
        /\ UNCHANGED <<cache, level, hot, play, now, saves, live, lived, owed>>
    BY <1>4 DEF StreamBreaks
  <2>2. Continues(t)
    BY <2>1, CallParts, EndBareSound
  <2> QED
    BY <2>1, <2>2, QuietCallStep
<1>5. CASE JsonAnswered(t)
  <2>1. /\ call[t].pc = "json"
        /\ UNCHANGED <<cache, level, hot, play, now, saves, live, lived, owed>>
    BY <1>5 DEF JsonAnswered
  <2>2. PICK s \in {200, 429, 500, 502} : End(t, call[t], s, call[t].path)
    BY <1>5 DEF JsonAnswered
  <2>3. Continues(t)
    BY <2>1, <2>2, CallParts, EndSound
  <2> QED
    BY <2>1, <2>3, QuietCallStep
<1> QED
  BY <1>1, <1>2, <1>3, <1>4, <1>5

\* An answer that is not JSON keeps it: no row before the last.
LEMMA JsonInvalidStep == ASSUME PipelineInductive, NEW t \in Tasks, JsonInvalid(t) PROVE PipelineInductive'
<1>1. call[t].pc = "json" /\ UNCHANGED <<cache, level, hot, play, now, saves, live, lived, owed>>
  BY DEF JsonInvalid
<1>2. "json" \in Serving
  BY DEF Serving
<1>3. Unrowed(call[t]) /\ Decided(call[t], lived[t]) /\ Callable
  BY <1>1, <1>2, CallParts
<1>4. CASE call[t].tries < JsonRetries
  <2> DEFINE y == [call[t] EXCEPT !.tries = call[t].tries + 1]
  <2>1. Step(t, y, "json")
    BY <1>4 DEF JsonInvalid
  <2>2. /\ Shape(y) /\ y.rq = call[t].rq /\ y.path = call[t].path /\ y.route = call[t].route /\ y.limit = call[t].limit
        /\ y.login = call[t].login /\ y.tries = call[t].tries + 1 /\ y.rows = call[t].rows /\ y.status = call[t].status
    <3>1. Shape(call[t])
      BY <1>3 DEF Unrowed
    <3> QED
      BY <3>1, WithTries
  <2> HIDE DEF y
  <2>3. Unrowed(y) /\ Decided(y, lived[t])
    BY <1>3, <1>4, <2>2, SameDecision, PipelineAssumption DEF Unrowed
  <2>4. Continues(t)
    BY <1>2, <1>3, <2>1, <2>3, StepSound
  <2> QED
    BY <1>1, <2>4, QuietCallStep
<1>5. CASE ~(call[t].tries < JsonRetries)
  <2>1. End(t, call[t], 422, call[t].path)
    BY <1>5 DEF JsonInvalid
  <2>2. Continues(t)
    BY <1>1, <1>3, <2>1, EndSound
  <2> QED
    BY <1>1, <2>2, QuietCallStep
<1> QED
  BY <1>4, <1>5

(* The rest of the system. *)

\* A call is set anew.
LEMMA NewCall ==
    ASSUME PipelineInductive, NEW t \in Tasks, NEW y, NEW L \in SUBSET DOMAIN Configs,
           call' = [call EXCEPT ![t] = y], lived' = [lived EXCEPT ![t] = L],
           CallSound(y, L), y.pc # "idle" => now \in L,
           UNCHANGED <<play, now, saves, live>>, LimitsTypeOK', Owed'
    PROVE  PipelineInductive'
<1>1. call'[t] = y /\ call' = [u \in Tasks |-> call'[u]]
  BY DEF PipelineInductive, Typed
<1>2. lived'[t] = L /\ lived' \in [Tasks -> SUBSET DOMAIN Configs]
  BY DEF PipelineInductive, Typed
<1>3. Typed'
  BY <1>1, <1>2 DEF PipelineInductive, Typed, Owed, scene
<1>4. ASSUME NEW u \in Tasks PROVE CallSound(call'[u], lived'[u]) /\ (call'[u].pc # "idle" => now' \in lived'[u])
  <2>1. CASE u = t
    BY <1>1, <1>2, <2>1
  <2>2. CASE u # t
    <3>1. call'[u] = call[u] /\ lived'[u] = lived[u]
      BY <2>2 DEF PipelineInductive, Typed
    <3> QED
      BY <3>1 DEF PipelineInductive
  <2> QED
    BY <2>1, <2>2
<1> QED
  BY <1>3, <1>4 DEF PipelineInductive, Owed

\* A fresh call is sound, and so is one that has just come.
LEMMA FreshSound ==
    /\ CallSound(Fresh, {}) /\ Fresh.pc = "idle"
    /\ \A rq \in Menus : \A L : LET y == [Fresh EXCEPT !.pc = "reading", !.rq = rq] IN CallSound(y, L) /\ y.pc = "reading"
<1>1. CallSound(Fresh, {}) /\ Fresh.pc = "idle"
  BY PipelineAssumption DEF Fresh, CallSound, Shape, Pcs, Waiting, Serving
<1>2. ASSUME NEW rq \in Menus, NEW L
      PROVE  LET y == [Fresh EXCEPT !.pc = "reading", !.rq = rq] IN CallSound(y, L) /\ y.pc = "reading"
  <2> DEFINE u == [Fresh EXCEPT !.pc = "reading"]
             y == [pc |-> "reading", rq |-> rq, path |-> None, route |-> Blocked, limit |-> NoCap,
                   login |-> None, tries |-> 0, rows |-> 0, status |-> 0]
  <2>1. [Fresh EXCEPT !.pc = "reading", !.rq = rq] = y
    <3>1. [Fresh EXCEPT !.pc = "reading", !.rq = rq] = [u EXCEPT !.rq = rq]
      OBVIOUS
    <3>2. u = [pc |-> "reading", rq |-> None, path |-> None, route |-> Blocked, limit |-> NoCap,
               login |-> None, tries |-> 0, rows |-> 0, status |-> 0]
      BY DEF Fresh
    <3> HIDE DEF u
    <3> QED
      BY <3>1, <3>2
  <2>2. CallSound(y, L) /\ y.pc = "reading"
    BY PipelineAssumption DEF CallSound, Shape, Pcs, Waiting, Serving
  <2> QED
    BY <2>1, <2>2
<1> QED
  BY <1>1, <1>2

\* An arrival keeps it.
LEMMA ArriveStep ==
    ASSUME PipelineInductive, NEW t \in Tasks, NEW rq \in scene.menu, Arrive(t, rq)
    PROVE  PipelineInductive'
<1>1. /\ call' = [call EXCEPT ![t] = [Fresh EXCEPT !.pc = "reading", !.rq = rq]]
      /\ lived' = [lived EXCEPT ![t] = {now}]
      /\ UNCHANGED <<limitVars, play, now, saves, live, owed>>
  BY DEF Arrive
<1>2. LimitsTypeOK' /\ Owed'
  BY <1>1, CallParts DEF limitVars, LimitsTypeOK, Owed, PacingIsEarned
<1>3. {now} \in SUBSET DOMAIN Configs
  BY CallParts
<1>4. rq \in Menus
  BY DEF Menus, scene, PipelineInductive, Typed
<1> QED
  BY <1>1, <1>2, <1>3, <1>4, FreshSound, NewCall

\* A call that makes room for the next keeps it, also where an hour passes.
LEMMA RecycleStep == ASSUME PipelineInductive, NEW t \in Tasks, Recycle(t) PROVE PipelineInductive'
<1>1. /\ call' = [call EXCEPT ![t] = Fresh] /\ lived' = [lived EXCEPT ![t] = {}]
      /\ UNCHANGED <<play, now, saves, live>>
  BY DEF Recycle
<1>2. LimitsTypeOK' /\ Owed'
  <2>1. CASE UNCHANGED <<limitVars, owed>>
    BY <2>1, CallParts DEF limitVars, LimitsTypeOK, Owed, PacingIsEarned
  <2>2. CASE /\ log' = [p \in Paths |-> 0] /\ cache' = [s \in Scopes |-> None]
             /\ level' = [n \in Consumers |-> 0] /\ hot' = [n \in Consumers |-> FALSE]
             /\ owed' = [n \in Consumers |-> 0]
    BY <2>2, LimitsAssumption DEF LimitsTypeOK, Owed, PacingIsEarned
  <2> QED
    BY <2>1, <2>2 DEF Recycle
<1> QED
  BY <1>1, <1>2, FreshSound, NewCall

\* What holds of a call under some configurations holds under more.
LEMMA Outlived ==
    ASSUME NEW x, NEW L, NEW M, L \subseteq M, CallSound(x, L)
    PROVE  CallSound(x, M)
BY DEF CallSound, Decided

\* A saved configuration keeps it: it is one more that the calls in flight lived under.
LEMMA SaveStep == ASSUME PipelineInductive, Save PROVE PipelineInductive'
<1>1. /\ saves < scene.saves /\ now' \in scene.configs /\ saves' = saves + 1
      /\ lived' = [t \in Tasks |-> IF call[t].pc = "idle" THEN {} ELSE lived[t] \cup {now'}]
      /\ UNCHANGED <<limitVars, play, live, call, owed>>
  BY DEF Save
<1>2. scene.configs \subseteq DOMAIN Configs /\ scene.saves \in Nat
  BY PipelineAssumption DEF PipelineInductive, Typed, scene
<1>3. Typed'
  <2>1. lived' \in [Tasks -> SUBSET DOMAIN Configs]
    BY <1>1, <1>2 DEF PipelineInductive, Typed
  <2>2. LimitsTypeOK'
    BY <1>1 DEF PipelineInductive, Typed, limitVars, LimitsTypeOK
  <2>3. scene' = scene /\ saves' \in 0..scene.saves /\ now' \in DOMAIN Configs
    BY <1>1, <1>2 DEF PipelineInductive, Typed, scene
  <2> QED
    BY <1>1, <2>1, <2>2, <2>3 DEF PipelineInductive, Typed
<1>4. ASSUME NEW t \in Tasks PROVE CallSound(call'[t], lived'[t]) /\ (call'[t].pc # "idle" => now' \in lived'[t])
  <2>1. CallSound(call[t], lived[t]) /\ call'[t] = call[t]
    BY <1>1 DEF PipelineInductive
  <2>2. CASE call[t].pc = "idle"
    <3>1. CallSound(call[t], lived'[t])
      BY <2>1, <2>2 DEF CallSound, Waiting, Serving
    <3> QED
      BY <2>1, <2>2, <3>1
  <2>3. CASE call[t].pc # "idle"
    <3>1. lived'[t] = lived[t] \cup {now'}
      BY <1>1, <2>3
    <3> QED
      BY <2>1, <3>1, Outlived
  <2> QED
    BY <2>2, <2>3
<1>5. PacingIsEarned'
  BY <1>1 DEF PipelineInductive, PacingIsEarned, limitVars
<1> QED
  BY <1>3, <1>4, <1>5 DEF PipelineInductive

\* Steps that leave the calls alone.
LEMMA CallsStay ==
    ASSUME PipelineInductive, UNCHANGED <<play, now, saves, call, lived>>, live' \subseteq Logins,
           LimitsTypeOK', Owed'
    PROVE  PipelineInductive'
<1>1. Typed'
  BY DEF PipelineInductive, Typed, Owed, scene
<1> QED
  BY <1>1 DEF PipelineInductive, Owed

\* A login parked or back keeps it.
LEMMA FlipStep == ASSUME PipelineInductive, NEW l \in Logins, Flip(l) PROVE PipelineInductive'
<1>1. live' \subseteq Logins /\ UNCHANGED <<limitVars, play, now, saves, call, lived, owed>>
  BY DEF Flip, PipelineInductive, Typed
<1>2. LimitsTypeOK' /\ Owed'
  BY <1>1 DEF PipelineInductive, Typed, limitVars, LimitsTypeOK, Owed, PacingIsEarned
<1> QED
  BY <1>1, <1>2, CallsStay

\* Time keeps it: windows, readings and records run out.
LEMMA TimeSteps ==
    ASSUME PipelineInductive,
           \/ \E p \in Paths : WindowRolls(p)
           \/ \E s \in Scopes : ReadingAges(s)
           \/ \E n \in Consumers : Cools(n)
    PROVE  PipelineInductive'
<1>1. UNCHANGED <<play, now, saves, live, call, lived, owed>>
  BY DEF WindowRolls, ReadingAges, Cools, rest
<1>2. LimitsTypeOK' /\ Owed'
  <2>0. LimitsTypeOK /\ Owed
    BY DEF PipelineInductive, Typed, LimitsTypeOK, Owed
  <2>1. ASSUME NEW p \in Paths, WindowRolls(p) PROVE LimitsTypeOK' /\ Owed'
    <3>1. log' = [log EXCEPT ![p] = 0] /\ UNCHANGED <<cache, level, hot>>
      BY <2>1 DEF WindowRolls, Roll
    <3> QED
      BY <1>1, <2>0, <3>1, LimitsAssumption DEF LimitsTypeOK, Owed, PacingIsEarned
  <2>2. ASSUME NEW s \in Scopes, ReadingAges(s) PROVE LimitsTypeOK' /\ Owed'
    <3>1. cache' = [cache EXCEPT ![s] = None] /\ UNCHANGED <<log, level, hot>>
      BY <2>2 DEF ReadingAges, GrowOld
    <3> QED
      BY <1>1, <2>0, <3>1 DEF LimitsTypeOK, Owed, PacingIsEarned
  <2>3. ASSUME NEW n \in Consumers, Cools(n) PROVE LimitsTypeOK' /\ Owed'
    <3>1. hot' = [hot EXCEPT ![n] = FALSE] /\ UNCHANGED <<log, cache, level>>
      BY <2>3 DEF Cools, Cool
    <3>2. hot' \in [Consumers -> BOOLEAN]
      BY <2>0, <3>1 DEF Owed
    <3> QED
      BY <1>1, <2>0, <3>1, <3>2 DEF LimitsTypeOK, Owed, PacingIsEarned
  <2> QED
    BY <2>1, <2>2, <2>3
<1> QED
  BY <1>1, <1>2, CallsStay DEF PipelineInductive, Typed

\* Every step of a call keeps it.
LEMMA HandleStep == ASSUME PipelineInductive, NEW t \in Tasks, Handle(t) PROVE PipelineInductive'
BY TooLargeStep, DecideStep, CountedStep, WaitSteps, SucceededStep, RateLimitedStep, EndSteps, JsonInvalidStep DEF Handle

\* It holds at the start.
LEMMA PipelineInit == Init => PipelineInductive
<1> SUFFICES ASSUME Init PROVE PipelineInductive
  OBVIOUS
<1>1. LimitsTypeOK
  BY LimitsAssumption DEF Init, LimitsInit, LimitsTypeOK
<1>2. scene.configs \subseteq DOMAIN Configs /\ scene.saves \in Nat
  BY PipelineAssumption DEF Init, scene
<1>3. Typed
  BY <1>1, <1>2, LimitsAssumption DEF Init, Typed
<1>4. ASSUME NEW t \in Tasks PROVE CallSound(call[t], lived[t]) /\ (call[t].pc # "idle" => now \in lived[t])
  <2>1. call[t] = Fresh /\ lived[t] = {}
    BY DEF Init
  <2> QED
    BY <2>1, FreshSound
<1>5. PacingIsEarned
  BY DEF Init, LimitsInit, PacingIsEarned
<1> QED
  BY <1>3, <1>4, <1>5 DEF PipelineInductive

\* Every step keeps it.
LEMMA PipelineStep == PipelineInductive /\ [Next]_vars => PipelineInductive'
<1> SUFFICES ASSUME PipelineInductive, [Next]_vars PROVE PipelineInductive'
  OBVIOUS
<1>1. ASSUME NEW t \in Tasks, Handle(t) \/ Recycle(t) \/ \E rq \in scene.menu : Arrive(t, rq)
      PROVE  PipelineInductive'
  BY <1>1, HandleStep, RecycleStep, ArriveStep
<1>2. CASE Save
  BY <1>2, SaveStep
<1>3. ASSUME NEW l \in Logins, Flip(l) PROVE PipelineInductive'
  BY <1>3, FlipStep
<1>4. CASE \/ \E p \in Paths : WindowRolls(p)
           \/ \E s \in Scopes : ReadingAges(s)
           \/ \E n \in Consumers : Cools(n)
  BY <1>4, TimeSteps
<1>5. CASE UNCHANGED vars
  <2>1. UNCHANGED <<play, now, saves, live, call, lived, owed, log, cache, level, hot>>
    BY <1>5 DEF vars, limitVars
  <2>2. LimitsTypeOK' /\ Owed' /\ live' \subseteq Logins
    BY <2>1 DEF PipelineInductive, Typed, LimitsTypeOK, Owed, PacingIsEarned
  <2> QED
    BY <2>1, <2>2, CallsStay
<1> QED
  BY <1>1, <1>2, <1>3, <1>4, <1>5 DEF Next

\* The invariant holds, for any configurations, requests, saves and number of calls (server.js,
\* routing.js).
THEOREM PipelineHolds == Spec => []PipelineInductive
BY PipelineInit, PipelineStep, PTL DEF Spec

(* What it says of the system. *)

\* What the doors of server.js and identity.js decided is what Admits asks.
LEMMA DecidedAdmits ==
    ASSUME NEW n \in DOMAIN Configs, NEW x, x.rq \in Menus, DecidedBy(Configs[n], x)
    PROVE  Admits(Configs[n], x.rq, x.path, x.route)
<1> DEFINE c == Configs[n]
           rq == x.rq
           path == x.path
<1>1. /\ x.route = ResolveRoute(c, rq.model, path) /\ path = Project(c, rq)
      /\ Verdict(c, rq, path, x.route) = 0
  BY DEF DecidedBy
<1>2. x.route # Blocked
  BY <1>1 DEF Verdict
<1>3. rq.post => /\ ~BadKey(c, rq) /\ ~Unkeyed(c, rq) /\ ~WrongClient(c, rq)
                 /\ ~(c.requireProject /\ path = None) /\ ~Unregistered(c, path)
  BY <1>1 DEF Verdict
<1>4. ASSUME rq.post, c.authMode # "off", rq.key # None
      PROVE  /\ KeyGood(c, rq.key) /\ path # None /\ path[1] = c.keyOf[rq.key]
             /\ c.allowUa[path[1]] = {} \/ rq.ua \in c.allowUa[path[1]]
  <2>1. KeyGood(c, rq.key)
    BY <1>3, <1>4 DEF BadKey
  <2>2. path = Keyed(c, rq)
    BY <1>1, <1>4, <2>1 DEF Project
  <2>3. path[1] = c.keyOf[rq.key]
    BY <2>2 DEF Keyed
  <2>4. path # None
    BY <2>1, <2>2, ProjectsAssumption DEF Menus
  <2> QED
    BY <1>3, <1>4, <2>1, <2>3, <2>4 DEF WrongClient
<1> QED
  BY <1>1, <1>2, <1>3, <1>4 DEF Admits, Unkeyed, Unregistered

\* A route that was not refused keeps to the allowlists of the rule (enforceAllow).
LEMMA DecidedIsAllowed ==
    ASSUME NEW c, NEW x, DecidedBy(c, x), x.path # None
    PROVE  LET rule == RuleFor(c, x.path) IN
           rule # None =>
               /\ ~rule.block
               /\ rule.allowProviders = {} \/ x.route.provider \in rule.allowProviders
               /\ rule.allowModels = {} \/ x.route.sent \in rule.allowModels
<1> DEFINE rule == RuleFor(c, x.path)
           m == x.rq.model
           r == IF rule.provider = None THEN BaseRoute(c, m) ELSE Rewritten(rule, m)
<1>1. x.route = ResolveRoute(c, m, x.path) /\ x.route # Blocked
  BY DEF DecidedBy, Verdict
<1>2. ASSUME rule # None PROVE ~rule.block /\ x.route = EnforceAllow(r, m, rule)
  BY <1>1, <1>2 DEF ResolveRoute
<1> HIDE DEF r, rule
<1>3. ASSUME rule # None
      PROVE  /\ rule.allowProviders = {} \/ x.route.provider \in rule.allowProviders
             /\ rule.allowModels = {} \/ x.route.sent \in rule.allowModels
  BY <1>1, <1>2, <1>3 DEF EnforceAllow
<1> QED
  BY <1>2, <1>3 DEF rule

\* The first lane that claims a model has it.
LEMMA FirstLane ==
    ASSUME NEW c, NEW m, NEW i \in 1..9, Claims(c, m, Lanes[i]), \A j \in 1..(i - 1) : ~Claims(c, m, Lanes[j])
    PROVE  LaneOf(c, m) = Lanes[i]
<1> DEFINE First(k) == Claims(c, m, Lanes[k]) /\ \A j \in 1..(k - 1) : ~Claims(c, m, Lanes[j])
           k == CHOOSE k \in DOMAIN Lanes : First(k)
<1>1. DOMAIN Lanes = 1..9
  BY DEF Lanes
<1>2. k \in 1..9 /\ First(k)
  BY <1>1
<1>3. LaneOf(c, m) = Lanes[k]
  BY DEF LaneOf
<1> HIDE DEF k
<1>4. k = i
  BY <1>2
<1> QED
  BY <1>3, <1>4

\* The lanes up to the free ones, in their order.
LEMMA LaneNames ==
    /\ Lanes[1] = "force" /\ Lanes[2] = "override" /\ Lanes[3] = "local" /\ Lanes[4] = "claude" /\ Lanes[5] = "nothing"
    /\ Lanes[6] = "groq" /\ Lanes[7] = "openrouter"
BY DEF Lanes

\* baseRoute: a model that some free lane serves goes to a free lane, unless forced or overridden.
LEMMA FreeLaneWins ==
    ASSUME NEW c, None \notin c.groqModels \cup c.catalogFree, NEW m,
           c.force = None, m \notin DOMAIN c.modelRoutes, FreeFor(c, m) # {}
    PROVE  BaseRoute(c, m).provider \in FreeFor(c, m)
<1>1. ~Claims(c, m, "force") /\ ~Claims(c, m, "override")
  BY DEF Claims
<1>2. CASE m \in DOMAIN c.localMap
  <2>1. Claims(c, m, "local")
    BY <1>2 DEF Claims
  <2>2. LaneOf(c, m) = "local"
    <3>1. \A j \in 1..(3 - 1) : ~Claims(c, m, Lanes[j])
      BY <1>1, LaneNames
    <3> QED
      BY <2>1, <3>1, LaneNames, FirstLane
  <2>3. BaseRoute(c, m).provider = "local"
    BY <2>2 DEF BaseRoute, RouteTo
  <2> QED
    BY <1>2, <2>3 DEF FreeFor, Providers
<1>3. CASE m \notin DOMAIN c.localMap /\ m \in ClaudeModels
  <2>1. ~Claims(c, m, "local") /\ Claims(c, m, "claude")
    BY <1>3 DEF Claims
  <2>2. LaneOf(c, m) = "claude"
    <3>1. \A j \in 1..(4 - 1) : ~Claims(c, m, Lanes[j])
      BY <1>1, <2>1, LaneNames
    <3> QED
      BY <2>1, <3>1, LaneNames, FirstLane
  <2>3. BaseRoute(c, m).provider = "claudecode"
    BY <2>2 DEF BaseRoute, RouteTo
  <2> QED
    BY <1>3, <2>3 DEF FreeFor, Providers
<1>4. CASE m \notin DOMAIN c.localMap /\ m \notin ClaudeModels
  <2>1. ~Claims(c, m, "local") /\ ~Claims(c, m, "claude")
    BY <1>4 DEF Claims
  <2>2. m # None
    BY <1>4 DEF FreeFor
  <2>3. ~Claims(c, m, "nothing")
    BY <2>2 DEF Claims
  <2>4. CASE Claims(c, m, "groq")
    <3>1. LaneOf(c, m) = "groq"
      <4>1. \A j \in 1..(6 - 1) : ~Claims(c, m, Lanes[j])
        BY <1>1, <2>1, <2>3, LaneNames
      <4> QED
        BY <2>4, <4>1, LaneNames, FirstLane
    <3>2. BaseRoute(c, m).provider = "groq"
      BY <3>1 DEF BaseRoute, RouteTo
    <3> QED
      BY <2>4, <3>2 DEF Claims, FreeFor, Providers
  <2>5. CASE ~Claims(c, m, "groq")
    <3>1. Configured(c, "openrouter") /\ m \in c.catalogFree
      BY <1>4, <2>5 DEF FreeFor, Claims
    <3>2. Claims(c, m, "openrouter")
      BY <3>1 DEF Claims, OpenrouterTarget
    <3>3. LaneOf(c, m) = "openrouter"
      <4>1. \A j \in 1..(7 - 1) : ~Claims(c, m, Lanes[j])
        BY <1>1, <2>1, <2>3, <2>5, LaneNames
      <4> QED
        BY <3>2, <4>1, LaneNames, FirstLane
    <3>4. BaseRoute(c, m).provider = "openrouter"
      BY <3>3 DEF BaseRoute, RouteTo
    <3> QED
      BY <3>1, <3>4 DEF FreeFor, Providers
  <2> QED
    BY <2>4, <2>5
<1> QED
  BY <1>2, <1>3, <1>4

\* The same of a decided call, under its rule.
LEMMA DecidedIsFree ==
    ASSUME NEW n \in DOMAIN Configs, NEW x, DecidedBy(Configs[n], x)
    PROVE  LET c == Configs[n] IN
           /\ x.route = ResolveRoute(c, x.rq.model, x.path)
           /\ Written(c, x.rq.model, x.path) \/ FreeFor(c, x.rq.model) = {}
                \/ x.route.provider \in FreeFor(c, x.rq.model)
<1> DEFINE c == Configs[n]
           m == x.rq.model
           rule == IF x.path = None THEN None ELSE RuleFor(c, x.path)
<1>1. x.route = ResolveRoute(c, m, x.path) /\ x.route # Blocked
  BY DEF DecidedBy, Verdict
<1>2. ASSUME ~Written(c, m, x.path), FreeFor(c, m) # {}
      PROVE  x.route.provider \in FreeFor(c, m)
  <2>1. c.force = None /\ m \notin DOMAIN c.modelRoutes /\ (rule = None \/ rule.provider = None)
    BY <1>2 DEF Written
  <2>2. x.route = BaseRoute(c, m)
    <3>1. \/ x.route = BaseRoute(c, m)
          \/ x.route = EnforceAllow(BaseRoute(c, m), m, rule)
      BY <1>1, <2>1 DEF ResolveRoute
    <3> HIDE DEF rule
    <3> QED
      BY <1>1, <3>1 DEF EnforceAllow
  <2>3. None \notin c.groqModels \cup c.catalogFree
    BY ConfigsAssumption
  <2> QED
    BY <1>2, <2>1, <2>2, <2>3, FreeLaneWins
<1> QED
  BY <1>1, <1>2
\* The invariants of the runs follow.
LEMMA InductiveSound ==
    PipelineInductive => PipelineInv /\ AdmittedUnderOneConfig /\ PacingIsEarned /\ FreeBeforePaid
<1> SUFFICES ASSUME PipelineInductive
             PROVE  PipelineInv /\ AdmittedUnderOneConfig /\ PacingIsEarned /\ FreeBeforePaid
  OBVIOUS
<1>1. ASSUME NEW t \in Tasks
      PROVE  CallSound(call[t], lived[t]) /\ lived[t] \subseteq DOMAIN Configs
  BY <1>1 DEF PipelineInductive, Typed
<1>2. TypeOK
  <2>1. \A t \in Tasks : /\ call[t].pc \in {"idle", "reading", "done"} \cup Waiting \cup Serving
                         /\ call[t].rows \in 0..1 /\ call[t].tries \in 0..JsonRetries
                         /\ call[t].login \in Logins \cup {None}
    BY <1>1 DEF CallSound, Pcs
  <2> QED
    BY <2>1 DEF PipelineInductive, Typed, TypeOK
<1>3. OneRowEach
  BY <1>1 DEF OneRowEach, CallSound, Rowless
<1>4. ASSUME NEW t \in Tasks, call[t].pc \in Waiting \cup Serving
      PROVE  \E n \in lived[t] : n \in DOMAIN Configs /\ DecidedBy(Configs[n], call[t])
  BY <1>1, <1>4 DEF CallSound, Decided
<1>5. AllowlistKept
  BY <1>4, DecidedIsAllowed DEF AllowlistKept
<1>6. AdmittedUnderOneConfig
  <2> SUFFICES ASSUME NEW t \in Tasks, call[t].pc \in Waiting \cup Serving
               PROVE  \E n \in lived[t] : Admits(Configs[n], call[t].rq, call[t].path, call[t].route)
    BY DEF AdmittedUnderOneConfig
  <2>1. call[t].rq \in Menus
    BY <1>1 DEF CallSound, Waiting, Serving
  <2> QED
    BY <1>4, <2>1, DecidedAdmits
<1>7. FreeBeforePaid
  BY <1>4, DecidedIsFree DEF FreeBeforePaid
<1> QED
  BY <1>2, <1>3, <1>5, <1>6, <1>7 DEF PipelineInv, PipelineInductive

\* However a call ends it leaves the row it should, and it went nowhere its rule forbids (server.js,
\* routing.js enforceAllow).
THEOREM PipelineSound == Spec => []PipelineInv
BY PipelineHolds, InductiveSound, PTL

\* The project, the rule and the route a call is served under are those of one configuration in
\* force since it came, however often the configuration is saved during its waits.
THEOREM OneConfigDecides == Spec => []AdmittedUnderOneConfig
BY PipelineHolds, InductiveSound, PTL

\* A consumer is held back for no more doublings than it drew 429s since its last success
\* (routing.js note429, forgive).
THEOREM PacingEarned == Spec => []PacingIsEarned
BY PipelineHolds, InductiveSound, PTL

\* A free lane is never passed over for a metered one, unless an operator wrote it down (routing.js
\* baseRoute).
THEOREM FreeFirst == Spec => []FreeBeforePaid
BY PipelineHolds, InductiveSound, PTL

(* Caps. *)

\* The cap of a call and what is counted under it.
LEMMA CapOf ==
    ASSUME NEW n \in DOMAIN Configs, NEW x, DecidedBy(Configs[n], x), x.limit # NoCap
    PROVE  /\ x.limit.lim.cap \in Nat
           /\ Counts(x.limit.scope, x.limit.folded) = Together(Configs[n], x.path)
<1> DEFINE c == Configs[n]
           path == x.path
           bare == Bare(path[1])
<1>1. x.limit = ResolveLimit(c, path)
  BY DEF DecidedBy
<1>2. /\ \A p \in DOMAIN c.limits : c.limits[p].cap \in Nat
      /\ c.limitDefault # None => c.limitDefault.cap \in Nat
  BY ConfigsAssumption
<1>3. bare[1] = path[1]
  BY DEF Bare
<1>4. CASE path \in DOMAIN c.limits
  <2>1. x.limit = [lim |-> c.limits[path], scope |-> path, folded |-> path = bare]
    BY <1>1, <1>4 DEF ResolveLimit, Capped
  <2>2. x.limit.lim.cap \in Nat /\ x.limit.scope = path /\ x.limit.folded = (path = bare)
    BY <1>2, <1>4, <2>1
  <2>3. CASE path = bare
    BY <1>3, <1>4, <2>2, <2>3 DEF Counts, Together
  <2>4. CASE path # bare
    BY <1>4, <2>2, <2>4 DEF Counts, Together
  <2> QED
    BY <2>2, <2>3, <2>4
<1>5. CASE path \notin DOMAIN c.limits /\ bare \in DOMAIN c.limits
  <2>1. x.limit = [lim |-> c.limits[bare], scope |-> bare, folded |-> TRUE]
    BY <1>1, <1>5 DEF ResolveLimit, Capped
  <2> QED
    BY <1>2, <1>3, <1>5, <2>1 DEF Counts, Together
<1>6. CASE path \notin DOMAIN c.limits /\ bare \notin DOMAIN c.limits
  <2>1. c.limitDefault # None /\ x.limit = [lim |-> c.limitDefault, scope |-> path, folded |-> FALSE]
    BY <1>1, <1>6 DEF ResolveLimit, Capped
  <2> QED
    BY <1>2, <1>6, <2>1 DEF Counts, Together
<1> QED
  BY <1>4, <1>5, <1>6

\* A step of a call leaves the others alone.
Alone(t) == \A u \in Tasks \ {t} : call'[u] = call[u]

\* A step of a call sets no other call.
LEMMA StepsAlone ==
    ASSUME Callable, NEW t \in Tasks, NEW x,
           (\E p : Step(t, x, p)) \/ (\E s, p : End(t, x, s, p)) \/ (\E s : EndUnlogged(t, x, s))
    PROVE  Alone(t)
<1>1. PICK y : call' = [call EXCEPT ![t] = y]
  BY DEF Step, End, EndUnlogged
<1> QED
  BY <1>1 DEF Alone, Callable

\* Nor do the bearer gate and dispatch.
LEMMA ProceedAlone ==
    ASSUME Callable, NEW t \in Tasks, NEW x, Proceed(t, x) \/ Dispatch(t, x)
    PROVE  Alone(t)
<1>1. CASE Dispatch(t, x)
  BY <1>1, StepsAlone DEF Dispatch
<1>2. CASE Proceed(t, x)
  BY <1>1, <1>2, StepsAlone DEF Proceed
<1> QED
  BY <1>1, <1>2

\* Nor does back-pressure.
LEMMA PaceAlone ==
    ASSUME Callable, NEW t \in Tasks, NEW x, Pace(t, x)
    PROVE  Alone(t)
BY StepsAlone, ProceedAlone DEF Pace

\* Nor does the cap.
LEMMA JudgeAlone ==
    ASSUME Callable, NEW t \in Tasks, NEW x, NEW u, Judge(t, x, u)
    PROVE  Alone(t)
BY StepsAlone, PaceAlone DEF Judge

\* Nor does the meter.
LEMMA MeterAlone ==
    ASSUME Callable, NEW t \in Tasks, NEW x, Meter(t, x)
    PROVE  Alone(t)
BY StepsAlone, PaceAlone, JudgeAlone DEF Meter

\* Nor does any step; and a call that is being counted goes on by its count only.
LEMMA HandleAlone ==
    ASSUME Callable, NEW t \in Tasks, Handle(t)
    PROVE  Alone(t) /\ (call[t].pc = "counting" => Counted(t))
<1>1. call[t].pc = "counting" => Counted(t)
  BY DEF Handle, TooLarge, Decide, Slowed, Paced, Compressed, Admitted, Succeeded, RateLimited, Failed, Unreachable,
         BodyEnds, StreamBreaks, JsonAnswered, JsonInvalid
<1>2. CASE TooLarge(t) \/ StreamBreaks(t)
  BY <1>2, StepsAlone DEF TooLarge, StreamBreaks
<1>3. CASE Decide(t)
  BY <1>3, StepsAlone, MeterAlone DEF Decide
<1>4. CASE Counted(t)
  BY <1>4, JudgeAlone DEF Counted
<1>5. CASE Slowed(t)
  BY <1>5, PaceAlone DEF Slowed
<1>6. CASE Paced(t) \/ Compressed(t)
  BY <1>6, ProceedAlone DEF Paced, Compressed
<1>7. CASE Admitted(t)
  BY <1>7, StepsAlone DEF Admitted
<1>8. CASE Succeeded(t) \/ RateLimited(t) \/ Failed(t) \/ JsonInvalid(t)
  BY <1>8, StepsAlone DEF Succeeded, RateLimited, Failed, JsonInvalid
<1>9. CASE Unreachable(t) \/ BodyEnds(t) \/ JsonAnswered(t)
  BY <1>9, StepsAlone DEF Unreachable, BodyEnds, JsonAnswered
<1> QED
  BY <1>1, <1>2, <1>3, <1>4, <1>5, <1>6, <1>7, <1>8, <1>9 DEF Handle
\* A count leaves a call its project and its cap.
LEMMA CountedKeeps ==
    ASSUME PipelineInductive, NEW t \in Tasks, Counted(t)
    PROVE  Keeps(t, call[t])
<1>1. call[t].pc = "counting" /\ UNCHANGED owed
  BY DEF Counted
<1>2. "counting" \in Waiting
  BY DEF Waiting
<1>3. PICK u : Judge(t, call[t], u)
  BY DEF Counted
<1> QED
  BY <1>1, <1>2, <1>3, CallParts, JudgeSound

\* A call that is let pass has been counted.
LEMMA CountedPasses ==
    ASSUME PipelineInductive, NEW t \in Tasks, Counted(t), call'[t].pc # "done", call[t].limit.lim.hard = "block",
           LET lim == call[t].limit IN <<lim.scope, lim.folded>> \in Scopes /\ cache'[<<lim.scope, lim.folded>>] > 0
    PROVE  \E n \in lived[t] : Cardinality(Rows(Together(Configs[n], call[t].path))) < call[t].limit.lim.cap
<1> DEFINE lim == call[t].limit
           key == <<lim.scope, lim.folded>>
           path == call[t].path
<1>1. call[t].pc = "counting" /\ UNCHANGED <<now, lived, owed>>
  BY DEF Counted
<1>2. PICK usage \in {Count(lim.scope, lim.folded), 0} :
         /\ cache' = IF key \in Scopes THEN [cache EXCEPT ![key] = usage] ELSE cache
         /\ Judge(t, call[t], usage)
  BY DEF Counted
<1>3. /\ Callable /\ Owed /\ live \subseteq Logins /\ LimitsTypeOK /\ CallSound(call[t], lived[t])
      /\ Unrowed(call[t]) /\ Decided(call[t], lived[t]) /\ lived[t] \subseteq DOMAIN Configs
  <2>1. call[t].pc \in Waiting
    BY <1>1 DEF Waiting
  <2> QED
    BY <1>1, <2>1, CallParts
<1>4. Action(usage, lim.lim) # "block"
  BY <1>1, <1>2, <1>3, JudgeSound
<1>5. lim # NoCap
  BY <1>1, <1>3 DEF CallSound
<1>6. PICK n \in lived[t] : DecidedBy(Configs[n], call[t])
  BY <1>3 DEF Decided
<1>7. lim.lim.cap \in Nat /\ Counts(lim.scope, lim.folded) = Together(Configs[n], path)
  BY <1>3, <1>5, <1>6, CapOf
<1>8. cache'[key] = usage
  BY <1>2, <1>3 DEF LimitsTypeOK
<1>9. usage = Count(lim.scope, lim.folded)
  BY <1>2, <1>8
<1>10. usage = Cardinality(Rows(Together(Configs[n], path)))
  BY <1>7, <1>9 DEF Count
<1>11. usage \in Nat
  <2>1. Counts(lim.scope, lim.folded) \in SUBSET Paths
    BY DEF Counts
  <2>2. Count(lim.scope, lim.folded) \in 0..(MaxUsage * Cardinality(Paths))
    BY <2>1, CountTyped DEF Count
  <2> QED
    BY <1>9, <2>2
<1>12. usage < lim.lim.cap
  <2>1. ~(usage >= lim.lim.cap)
    BY <1>4 DEF Action
  <2> QED
    BY <1>7, <1>11, <2>1
<1> QED
  BY <1>10, <1>12

\* No other step takes a call out of its count.
LEMMA OnlyCounted ==
    ASSUME PipelineInductive, [Next]_vars, NEW t \in Tasks, call[t].pc = "counting",
           call'[t].pc \in Waiting \cup Serving, call'[t].pc # "counting"
    PROVE  Counted(t)
<1>1. Callable
  BY CallParts
<1>2. ASSUME call'[t] = call[t] PROVE FALSE
  BY <1>2
<1>3. ASSUME NEW u \in Tasks, Handle(u) PROVE Counted(t)
  <2>1. Alone(u) /\ (call[u].pc = "counting" => Counted(u))
    BY <1>1, <1>3, HandleAlone
  <2> QED
    BY <1>2, <2>1 DEF Alone
<1>4. ASSUME NEW u \in Tasks, Recycle(u) \/ \E rq \in scene.menu : Arrive(u, rq) PROVE FALSE
  <2>1. PICK y : call' = [call EXCEPT ![u] = y]
    BY <1>4 DEF Recycle, Arrive
  <2>2. u # t
    BY <1>4 DEF Recycle, Arrive
  <2> QED
    BY <1>1, <1>2, <2>1, <2>2 DEF Callable
<1>5. CASE Save
  BY <1>2, <1>5 DEF Save
<1>6. ASSUME NEW l \in Logins, Flip(l) PROVE FALSE
  BY <1>2, <1>6 DEF Flip
<1>7. CASE \/ \E p \in Paths : WindowRolls(p)
           \/ \E s \in Scopes : ReadingAges(s)
           \/ \E n \in Consumers : Cools(n)
  BY <1>2, <1>7 DEF WindowRolls, ReadingAges, Cools, rest
<1>8. CASE UNCHANGED vars
  BY <1>2, <1>8 DEF vars
<1> QED
  BY <1>3, <1>4, <1>5, <1>6, <1>7, <1>8 DEF Next

\* The step that CapCountsEveryJob is about.
LEMMA CapStep ==
    PipelineInductive /\ [Next]_vars =>
      \A t \in Tasks :
         LET x == call'[t]
             key == <<x.limit.scope, x.limit.folded>>
         IN (/\ call[t].pc = "counting" /\ x.pc \in (Waiting \cup Serving) \ {"counting"}
             /\ x.limit.lim.hard = "block" /\ key \in Scopes /\ cache'[key] > 0)
            => \E n \in lived[t] : Cardinality(Rows(Together(Configs[n], x.path))) < x.limit.lim.cap
<1> SUFFICES ASSUME PipelineInductive, [Next]_vars, NEW t \in Tasks,
                    call[t].pc = "counting", call'[t].pc \in (Waiting \cup Serving) \ {"counting"},
                    call'[t].limit.lim.hard = "block",
                    <<call'[t].limit.scope, call'[t].limit.folded>> \in Scopes,
                    cache'[<<call'[t].limit.scope, call'[t].limit.folded>>] > 0
             PROVE  \E n \in lived[t] :
                       Cardinality(Rows(Together(Configs[n], call'[t].path))) < call'[t].limit.lim.cap
  OBVIOUS
<1>1. Counted(t)
  BY OnlyCounted
<1>2. call'[t].pc # "done"
  BY DEF Waiting, Serving
<1>3. call'[t].limit = call[t].limit /\ call'[t].path = call[t].path
  BY <1>1, CountedKeeps DEF Keeps
<1> QED
  BY <1>1, <1>2, <1>3, CountedPasses

\* A call that passes a blocking cap on its count was counted with every job the cap is on: they
\* had fewer calls in the log than the cap (routing.js resolveLimit, usageFor).
THEOREM CapsCount == Spec => CapCountsEveryJob
<1>1. PipelineInductive /\ [Next]_vars =>
      [\A t \in Tasks :
         LET x == call'[t]
             key == <<x.limit.scope, x.limit.folded>>
         IN (/\ call[t].pc = "counting" /\ x.pc \in (Waiting \cup Serving) \ {"counting"}
             /\ x.limit.lim.hard = "block" /\ key \in Scopes /\ cache'[key] > 0)
            => \E n \in lived[t] : Cardinality(Rows(Together(Configs[n], x.path))) < x.limit.lim.cap]_vars
  BY CapStep
<1> QED
  BY <1>1, PipelineHolds, PTL DEF Spec, CapCountsEveryJob
=============================================================================
