------------------------------ MODULE Pipeline ------------------------------
(***************************************************************************)
(* The request pipeline (server.js): from the body of a call to its        *)
(* dispatch and the row it leaves.                                         *)
(*                                                                         *)
(* Who calls, whether he may, and where the call goes are decided at one   *)
(* instant, once the body is there.  After that the call waits: for the    *)
(* count of its usage, for a slowdown, for back-pressure, for the          *)
(* compressor, for a slot; the configuration is edited meanwhile.          *)
(*                                                                         *)
(* The configuration in force is one of Configs.  The login of a call is   *)
(* what accountFor answers, any that is live (module Accounts); the slot   *)
(* is module Gate, the attempts of a claudecode call are module Failover.  *)
(***************************************************************************)
EXTENDS Limits

CONSTANTS Tasks,        \* calls in flight
          Configs,      \* the configurations, by name
          Plays,        \* instances: which configurations are saved, how often, what is called, which calls
                      \* there are
          Logins,       \* the claudecode pool
          JsonRetries   \* CFG.jsonMaxRetries

ASSUME PipelineAssumption ==
    /\ JsonRetries \in Nat
    /\ \A i \in DOMAIN Plays : Plays[i].configs \subseteq DOMAIN Configs /\ Plays[i].saves \in Nat

\* A list of ids holds no missing one, and a cap is a number.
ASSUME ConfigsAssumption ==
    \A n \in DOMAIN Configs : LET c == Configs[n] IN
        /\ None \notin c.groqModels \cup c.catalogFree
        /\ \A p \in DOMAIN c.limits : c.limits[p].cap \in Nat
        /\ c.limitDefault # None => c.limitDefault.cap \in Nat

VARIABLES
    play,    \* the instance (by number)
    now,     \* the name of the configuration in force
    saves,   \* configurations saved so far
    live,    \* logins that are enabled
    call,    \* where each call is, and what was decided for it
    lived,   \* configurations in force since a call arrived (history)
    owed     \* 429s of each consumer since its last success (history)

vars == <<limitVars, play, now, saves, live, call, lived, owed>>

cfg == Configs[now]
scene == Plays[play]

Fresh == [pc |-> "idle", rq |-> None, path |-> None, route |-> Blocked, limit |-> NoCap,
          login |-> None, tries |-> 0, rows |-> 0, status |-> 0]

Waiting == {"counting", "slowed", "paced", "compressing", "queued"}
Serving == {"sent", "streaming", "json"}

TypeOK ==
    /\ LimitsTypeOK
    /\ play \in DOMAIN Plays /\ now \in DOMAIN Configs /\ saves \in 0..scene.saves
    /\ live \subseteq Logins
    /\ \A t \in Tasks :
          /\ call[t].pc \in {"idle", "reading", "done"} \cup Waiting \cup Serving
          /\ call[t].rows \in 0..1 /\ call[t].tries \in 0..JsonRetries
          /\ call[t].login \in Logins \cup {None}

Init ==
    /\ LimitsInit
    /\ play \in DOMAIN Plays
    /\ now \in scene.configs
    /\ saves = 0
    /\ live = Logins
    /\ call = [t \in Tasks |-> Fresh]
    /\ lived = [t \in Tasks |-> {}]
    /\ owed = [n \in Consumers |-> 0]

-----------------------------------------------------------------------------
(* Who is calling (identity.js). *)

\* A name of old is folded onto the path it stands for; a job that was given wins.
Normalized(c, p) ==
    IF p = None \/ p[1] \notin DOMAIN c.aliases THEN p
    ELSE LET target == c.aliases[p[1]] IN <<target[1], IF p[2] # None THEN p[2] ELSE target[2]>>

\* authenticate: a key is good when it is in the index and its consumer is registered.
KeyGood(c, key) == key \in DOMAIN c.keyOf /\ c.keyOf[key] \in DOMAIN c.kind

\* A good key says who; only the job is taken on trust.
Keyed(c, rq) ==
    LET said == Normalized(c, rq.claims) IN
    <<c.keyOf[rq.key], IF rq.job # None THEN rq.job
                       ELSE IF said = None THEN None ELSE said[2]>>

\* None is no project.
ASSUME ProjectsAssumption ==
    \A n \in DOMAIN Configs : \A i \in DOMAIN Plays : \A rq \in Plays[i].menu :
        KeyGood(Configs[n], rq.key) => Keyed(Configs[n], rq) # None

\* Without a good key the caller says both.
Project(c, rq) == IF c.authMode # "off" /\ KeyGood(c, rq.key) THEN Keyed(c, rq)
                  ELSE Normalized(c, rq.claims)

BadKey(c, rq) == c.authMode # "off" /\ rq.key # None /\ ~KeyGood(c, rq.key)
Unkeyed(c, rq) == c.authMode = "required" /\ ~KeyGood(c, rq.key)

\* allowUa: the clients a consumer's key may be presented by; none listed, any.
WrongClient(c, rq) ==
    /\ c.authMode # "off" /\ KeyGood(c, rq.key)
    /\ LET allowed == c.allowUa[c.keyOf[rq.key]] IN allowed # {} /\ rq.ua \notin allowed

Unregistered(c, path) == c.requireRegistered /\ path # None /\ path[1] \notin DOMAIN c.kind

\* The status the doors before dispatch answer, 0 when all are open, in their order.
Verdict(c, rq, path, route) ==
    IF rq.post /\ (BadKey(c, rq) \/ Unkeyed(c, rq)) THEN 401
    ELSE IF rq.post /\ WrongClient(c, rq) THEN 403
    ELSE IF rq.post /\ c.requireProject /\ path = None THEN 400
    ELSE IF rq.post /\ Unregistered(c, path) THEN 403
    ELSE IF route = Blocked THEN 400
    ELSE 0

\* keyFail books the refusal on the name the caller claimed.
BookedOn(c, rq, path) ==
    IF ~(BadKey(c, rq) \/ Unkeyed(c, rq)) THEN path
    ELSE LET said == Normalized(c, rq.claims) IN IF said = None THEN None ELSE Bare(said[1])

-----------------------------------------------------------------------------
(* How a call goes on; x is the record of the call so far. *)

Step(t, x, pc) == /\ call' = [call EXCEPT ![t] = [x EXCEPT !.pc = pc]]
                  /\ UNCHANGED log

\* Answered, with a row.
End(t, x, status, path) ==
    /\ call' = [call EXCEPT ![t] = [x EXCEPT !.pc = "done", !.status = status, !.rows = @ + 1]]
    /\ Record(path)

\* A call that is not an inference is answered 400 without a row.
EndUnlogged(t, x, status) ==
    /\ call' = [call EXCEPT ![t] = [x EXCEPT !.pc = "done", !.status = status]]
    /\ UNCHANGED log

\* Defect: the route is looked up again when the waits are over.
DefectDispatch(t, x) ==
    LET y == [x EXCEPT !.route = IF x.rq.model = None THEN @ ELSE BaseRoute(cfg, x.rq.model)] IN
    IF y.route.provider # "claudecode" THEN Step(t, y, "sent")
    ELSE \E l \in live : Step(t, [y EXCEPT !.login = l], "sent")

\* The login, and then the slot: local is gated, claudecode goes straight through.
Dispatch(t, x) ==
    LET ready == IF cfg.jsonEnforce /\ x.rq.json THEN "json" ELSE "sent" IN
    IF x.route.provider # "claudecode"
    THEN Step(t, x, IF x.route.provider = "local" THEN "queued" ELSE ready)
    ELSE \/ \E l \in live : Step(t, [x EXCEPT !.login = l], ready)
         \/ End(t, x, 403, x.path)

\* The bearer gate of the uncensored models, the compressor, and dispatch.
Proceed(t, x) ==
    IF x.route.provider = "local" /\ x.route.sent \in cfg.gated /\ ~x.rq.bearer
    THEN End(t, x, 401, x.path)
    ELSE \/ /\ x.rq.post /\ x.route.provider \in {"local", "crazyrouter"}
            /\ Step(t, x, "compressing")
         \/ Dispatch(t, x)

\* Back-pressure, of inference calls that have a project.
Pace(t, x) ==
    IF ~x.rq.post \/ x.path = None THEN Proceed(t, x) /\ UNCHANGED <<level, hot>>
    ELSE /\ AskDelay(cfg, x.path[1])
         /\ IF Delay(cfg, x.path[1]) > 0 THEN Step(t, x, "paced") ELSE Proceed(t, x)

\* What the usage allows.
Judge(t, x, usage) ==
    LET act == Action(usage, x.limit.lim) IN
    IF act = "block" THEN End(t, x, 429, x.path) /\ UNCHANGED <<level, hot>>
    ELSE IF act = "slow" THEN Step(t, x, "slowed") /\ UNCHANGED <<level, hot>>
    ELSE Pace(t, x)

\* Developers and calls without a cap pass; a young reading is used; else one is taken.
Meter(t, x) ==
    LET lim == ResolveLimit(cfg, x.path)
        y == [x EXCEPT !.limit = lim]
        key == <<lim.scope, lim.folded>>
    IN IF ~x.rq.post \/ x.path = None THEN Pace(t, x)
       ELSE IF IsDev(cfg, x.path[1]) \/ lim = NoCap THEN Pace(t, x)
       ELSE IF key \in Scopes /\ cache[key] # None THEN Judge(t, y, cache[key])
       ELSE Step(t, y, "counting") /\ UNCHANGED <<level, hot>>

-----------------------------------------------------------------------------
(* The steps of a call. *)

\* The head of a request is there; its body is being read.
Arrive(t, rq) ==
    /\ call[t].pc = "idle"
    /\ t \in scene.tasks
    /\ call' = [call EXCEPT ![t] = [Fresh EXCEPT !.pc = "reading", !.rq = rq]]
    /\ lived' = [lived EXCEPT ![t] = {now}]
    /\ UNCHANGED <<limitVars, play, now, saves, live, owed>>

\* The body is over MAX_BODY_MB: 413, and no row.
TooLarge(t) ==
    /\ call[t].pc = "reading"
    /\ EndUnlogged(t, call[t], 413)
    /\ UNCHANGED <<cache, level, hot, play, now, saves, live, lived, owed>>

\* The body is there: everything up to the first wait, in one piece.
Decide(t) ==
    /\ call[t].pc = "reading"
    /\ LET rq == call[t].rq
           path == Project(cfg, rq)
           route == ResolveRoute(cfg, rq.model, path)
           x == [call[t] EXCEPT !.path = path, !.route = route]
           status == Verdict(cfg, rq, path, route)
       IN IF status # 0
          THEN /\ UNCHANGED <<level, hot>>
               /\ IF rq.post THEN End(t, x, status, BookedOn(cfg, rq, path))
                             ELSE EndUnlogged(t, x, status)
          ELSE Meter(t, x)
    /\ UNCHANGED <<cache, play, now, saves, live, lived, owed>>

\* The count is there, or the query failed: then nothing was used.
Counted(t) ==
    /\ call[t].pc = "counting"
    /\ LET lim == call[t].limit
           key == <<lim.scope, lim.folded>>
       IN \E usage \in {Count(lim.scope, lim.folded), 0} :
             /\ cache' = IF key \in Scopes THEN [cache EXCEPT ![key] = usage] ELSE cache
             /\ Judge(t, call[t], usage)
    /\ UNCHANGED <<play, now, saves, live, lived, owed>>

\* The slowdown of the quota is over.
Slowed(t) ==
    /\ call[t].pc = "slowed"
    /\ Pace(t, call[t])
    /\ UNCHANGED <<cache, play, now, saves, live, lived, owed>>

\* Defect: back-pressure is asked again after each wait.
DefectPaced(t) ==
    /\ call[t].pc = "paced"
    /\ Pace(t, call[t])
    /\ UNCHANGED <<cache, play, now, saves, live, lived, owed>>

\* The pacing is over; it is not asked again.
Paced(t) ==
    /\ call[t].pc = "paced"
    /\ Proceed(t, call[t])
    /\ UNCHANGED <<cache, level, hot, play, now, saves, live, lived, owed>>

\* The compressor answered, failed or ran out of time.
Compressed(t) ==
    /\ call[t].pc = "compressing"
    /\ Dispatch(t, call[t])
    /\ UNCHANGED <<cache, level, hot, play, now, saves, live, lived, owed>>

\* A slot, or the refusal of the gate, which leaves no row.
Admitted(t) ==
    /\ call[t].pc = "queued"
    /\ \/ Step(t, call[t], IF cfg.jsonEnforce /\ call[t].rq.json THEN "json" ELSE "sent")
       \/ EndUnlogged(t, call[t], 503)
    /\ UNCHANGED <<cache, level, hot, play, now, saves, live, lived, owed>>

-----------------------------------------------------------------------------
(* The answer. *)

\* Defect: a success clears the record of its own path only.
DefectSucceeded(t) ==
    /\ call[t].pc = "sent"
    /\ Step(t, [call[t] EXCEPT !.status = 200], "streaming")
    /\ LET p == call[t].path IN
       /\ IF p # None /\ p = Bare(p[1]) THEN Forgive(p[1]) ELSE UNCHANGED <<level, hot>>
       /\ owed' = IF p # None /\ p[1] \in Consumers THEN [owed EXCEPT ![p[1]] = 0] ELSE owed
    /\ UNCHANGED <<cache, play, now, saves, live, lived>>

Succeeded(t) ==
    /\ call[t].pc = "sent"
    /\ Step(t, [call[t] EXCEPT !.status = 200], "streaming")
    /\ LET p == call[t].path IN
       IF p = None THEN UNCHANGED <<level, hot, owed>>
       ELSE /\ Forgive(p[1])
            /\ owed' = IF p[1] \in Consumers THEN [owed EXCEPT ![p[1]] = 0] ELSE owed
    /\ UNCHANGED <<cache, play, now, saves, live, lived>>

RateLimited(t) ==
    /\ call[t].pc = "sent"
    /\ Step(t, [call[t] EXCEPT !.status = 429], "streaming")
    /\ LET p == call[t].path IN
       IF p = None THEN UNCHANGED <<level, hot, owed>>
       ELSE /\ Note429(cfg, p[1])
            /\ owed' = IF p[1] \in Consumers /\ owed[p[1]] < MaxLevel
                       THEN [owed EXCEPT ![p[1]] = @ + 1] ELSE owed
    /\ UNCHANGED <<cache, play, now, saves, live, lived>>

\* Any other status of 400 and up.
Failed(t) ==
    /\ call[t].pc = "sent"
    /\ Step(t, [call[t] EXCEPT !.status = 500], "streaming")
    /\ UNCHANGED <<cache, level, hot, play, now, saves, live, lived, owed>>

\* Unreachable, or no headers in time.
Unreachable(t) ==
    /\ call[t].pc = "sent"
    /\ End(t, call[t], 502, call[t].path)
    /\ UNCHANGED <<cache, level, hot, play, now, saves, live, lived, owed>>

\* The body has ended, or broken off: the row.
BodyEnds(t) ==
    /\ call[t].pc = "streaming"
    /\ End(t, call[t], call[t].status, call[t].path)
    /\ UNCHANGED <<cache, level, hot, play, now, saves, live, lived, owed>>

\* A translated stream breaks: proxy() throws, and neither the row nor the end is written.
StreamBreaks(t) ==
    /\ call[t].pc = "streaming" /\ call[t].route.provider = "claudecode" /\ call[t].status = 200
    /\ EndUnlogged(t, call[t], 0)
    /\ UNCHANGED <<cache, level, hot, play, now, saves, live, lived, owed>>

-----------------------------------------------------------------------------
(* JSON enforcement (jsonenforce.js): the login is the one of the dispatch.  Its     *)
(* answers neither arm back-pressure nor clear it.                                    *)

\* Valid JSON, tool calls, or an error of the upstream, which is surfaced; or no answer.
JsonAnswered(t) ==
    /\ call[t].pc = "json"
    /\ \E status \in {200, 429, 500, 502} : End(t, call[t], status, call[t].path)
    /\ UNCHANGED <<cache, level, hot, play, now, saves, live, lived, owed>>

\* Defect: every attempt that is not JSON leaves a row.
DefectJsonInvalid(t) ==
    /\ call[t].pc = "json"
    /\ IF call[t].tries < JsonRetries
       THEN /\ call' = [call EXCEPT ![t].tries = @ + 1, ![t].rows = @ + 1]
            /\ Record(call[t].path)
       ELSE End(t, call[t], 422, call[t].path)
    /\ UNCHANGED <<cache, level, hot, play, now, saves, live, lived, owed>>

\* Not JSON: asked again, and in the end refused.
JsonInvalid(t) ==
    /\ call[t].pc = "json"
    /\ IF call[t].tries < JsonRetries
       THEN Step(t, [call[t] EXCEPT !.tries = @ + 1], "json")
       ELSE End(t, call[t], 422, call[t].path)
    /\ UNCHANGED <<cache, level, hot, play, now, saves, live, lived, owed>>

-----------------------------------------------------------------------------
(* The rest of the system. *)

\* Another call may come.  In a quiet scene it comes an hour later.
Recycle(t) ==
    /\ call[t].pc = "done"
    /\ call' = [call EXCEPT ![t] = Fresh]
    /\ lived' = [lived EXCEPT ![t] = {}]
    /\ IF ~scene.quiet THEN UNCHANGED <<limitVars, owed>>
       ELSE /\ log' = [p \in Paths |-> 0]
            /\ cache' = [s \in Scopes |-> None]
            /\ level' = [n \in Consumers |-> 0]
            /\ hot' = [n \in Consumers |-> FALSE]
            /\ owed' = [n \in Consumers |-> 0]
    /\ UNCHANGED <<play, now, saves, live>>

\* An operator saves, or the registry is projected anew.
Save ==
    /\ saves < scene.saves
    /\ now' \in scene.configs \ {now}
    /\ saves' = saves + 1
    /\ lived' = [t \in Tasks |-> IF call[t].pc = "idle" THEN {} ELSE lived[t] \cup {now'}]
    /\ UNCHANGED <<limitVars, play, live, call, owed>>

\* A login is parked or comes back.
Flip(l) ==
    /\ scene.flips
    /\ live' = IF l \in live THEN live \ {l} ELSE live \cup {l}
    /\ UNCHANGED <<limitVars, play, now, saves, call, lived, owed>>

rest == <<play, now, saves, live, call, lived, owed>>

WindowRolls(p) == Roll(p) /\ UNCHANGED rest
ReadingAges(s) == GrowOld(s) /\ UNCHANGED rest
Cools(n) == Cool(n) /\ UNCHANGED rest

Handle(t) ==
    \/ TooLarge(t) \/ Decide(t) \/ Counted(t) \/ Slowed(t) \/ Paced(t) \/ Compressed(t) \/ Admitted(t)
    \/ Succeeded(t) \/ RateLimited(t) \/ Failed(t) \/ Unreachable(t) \/ BodyEnds(t) \/ StreamBreaks(t)
    \/ JsonAnswered(t) \/ JsonInvalid(t)

Next ==
    \/ \E t \in Tasks : Handle(t) \/ Recycle(t) \/ \E rq \in scene.menu : Arrive(t, rq)
    \/ Save
    \/ \E l \in Logins : Flip(l)
    \/ \E p \in Paths : WindowRolls(p)
    \/ \E s \in Scopes : ReadingAges(s)
    \/ \E n \in Consumers : Cools(n)

Spec == Init /\ [][Next]_vars

\* Node runs every callback that is due; upstreams, the database and the compressor
\* answer or time out.
FairSpec == Spec /\ \A t \in Tasks : WF_vars(Handle(t))

-----------------------------------------------------------------------------
(* Safety. *)

\* What a configuration asks of a call before it is served for a project by a route.
Admits(c, rq, path, route) ==
    /\ route = ResolveRoute(c, rq.model, path) /\ route # Blocked
    /\ rq.post =>
         /\ c.authMode = "required" => KeyGood(c, rq.key)
         /\ (c.authMode # "off" /\ rq.key # None) =>
               /\ KeyGood(c, rq.key)
               /\ path # None /\ path[1] = c.keyOf[rq.key]
               /\ c.allowUa[path[1]] = {} \/ rq.ua \in c.allowUa[path[1]]
         /\ c.requireProject => path # None
         /\ (c.requireRegistered /\ path # None) => path[1] \in DOMAIN c.kind

\* The consumer, the rule and the route a call is served under are those of one
\* configuration that was in force since it came: saves during its waits mix nothing.
AdmittedUnderOneConfig ==
    \A t \in Tasks : call[t].pc \in Waiting \cup Serving =>
        \E n \in lived[t] : Admits(Configs[n], call[t].rq, call[t].path, call[t].route)

\* The calls that are counted together under the cap that governs a project.
Together(c, path) ==
    IF path # Bare(path[1]) /\ path \in DOMAIN c.limits THEN {path} \cap Paths
    ELSE IF Bare(path[1]) \in DOMAIN c.limits THEN {p \in Paths : p[1] = path[1]}
    ELSE {path} \cap Paths

\* A count that lets a call pass under a blocking cap has seen every job the cap is on:
\* their calls in the log are fewer than the cap (unless the query failed and read none).
CapCountsEveryJob ==
    [][\A t \in Tasks :
         LET x == call'[t]
             key == <<x.limit.scope, x.limit.folded>>
         IN (/\ call[t].pc = "counting" /\ x.pc \in (Waiting \cup Serving) \ {"counting"}
             /\ x.limit.lim.hard = "block" /\ key \in Scopes /\ cache'[key] > 0)
            => \E n \in lived[t] : Cardinality(Rows(Together(Configs[n], x.path))) < x.limit.lim.cap]_vars

\* Pacing is earned: a consumer is held back for no more doublings than it drew 429s since
\* its last success, whichever of its jobs drew or succeeded.
PacingIsEarned == \A n \in Consumers : level[n] <= owed[n]

\* A call that was answered through the log leaves one row, however often the model was
\* asked; only refusals at the door of the router and of the gate, and a translated stream
\* that breaks, leave none.
OneRowEach ==
    \A t \in Tasks : call[t].pc = "done" =>
        call[t].rows = IF call[t].status \in {0, 413, 503} \/ (call[t].status = 400 /\ ~call[t].rq.post)
                       THEN 0 ELSE 1

\* A free lane is never passed over for a metered one, unless an operator wrote it down.
FreeBeforePaid ==
    \A t \in Tasks : LET x == call[t] IN
        (x.pc \in Waiting \cup Serving) =>
            \E n \in lived[t] : LET c == Configs[n] IN
                /\ x.route = ResolveRoute(c, x.rq.model, x.path)
                /\ Written(c, x.rq.model, x.path) \/ FreeFor(c, x.rq.model) = {}
                     \/ x.route.provider \in FreeFor(c, x.rq.model)

\* An allowlist is not left by any way a call is routed.
AllowlistKept ==
    \A t \in Tasks : LET x == call[t] IN
        (x.pc \in Waiting \cup Serving /\ x.path # None) =>
            \E n \in lived[t] : LET rule == RuleFor(Configs[n], x.path) IN
                rule # None =>
                    /\ ~rule.block
                    /\ rule.allowProviders = {} \/ x.route.provider \in rule.allowProviders
                    /\ rule.allowModels = {} \/ x.route.sent \in rule.allowModels

\* However a call ended, it left the row it should, and went nowhere its rule forbids.
PipelineInv ==
    /\ TypeOK
    /\ OneRowEach
    /\ AllowlistKept

-----------------------------------------------------------------------------
(* Liveness. *)

\* Waits end: every call is answered, however it is slowed, paced and queued.
EveryCallEnds == \A t \in Tasks : call[t].pc = "reading" ~> call[t].pc = "done"
=============================================================================
