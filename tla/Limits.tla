------------------------------- MODULE Limits -------------------------------
(***************************************************************************)
(* Usage limits and back-pressure (routing.js).                            *)
(*                                                                         *)
(* A cap governs a project: the entry of its exact path, then the one of   *)
(* its consumer, then the default.  What counts against it is read from    *)
(* the call log and kept for five seconds.  A 429 from upstream paces the  *)
(* calls of the whole consumer for a minute; one success forgives it.      *)
(*                                                                         *)
(* Tokens and calls are capped alike; one unit of usage is one recorded    *)
(* call.  Clocks are left out: a reading may grow old, and a record of a   *)
(* 429 may cool down, at any time.                                         *)
(***************************************************************************)
EXTENDS Routing, FiniteSets

CONSTANTS Paths,      \* projects that call: <<consumer, job>>
          MaxUsage,   \* bound on the calls counted in the window of one path
          MaxLevel    \* T_MAX_LVL

ASSUME LimitsAssumption == IsFiniteSet(Paths) /\ MaxUsage \in Nat /\ MaxLevel \in Nat

VARIABLES
    log,      \* calls of each path that are in the log and in the window
    cache,    \* _usageCache: what was counted, by <<path or consumer, folded>>, or None
    level,    \* APP_THROTTLE: 429s in a row of a consumer, 0 without a record
    hot       \* its record has not run out

limitVars == <<log, cache, level, hot>>

Consumers == {p[1] : p \in Paths}
Bare(consumer) == <<consumer, None>>
Scopes == (Paths \cup {Bare(n) : n \in Consumers}) \X BOOLEAN

LimitsTypeOK ==
    /\ log \in [Paths -> 0..MaxUsage]
    /\ cache \in [Scopes -> {None} \cup 0..(MaxUsage * Cardinality(Paths))]
    /\ level \in [Consumers -> 0..MaxLevel]
    /\ hot \in [Consumers -> BOOLEAN]

LimitsInit ==
    /\ log = [p \in Paths |-> 0]
    /\ cache = [s \in Scopes |-> None]
    /\ level = [n \in Consumers |-> 0]
    /\ hot = [n \in Consumers |-> FALSE]

-----------------------------------------------------------------------------
(* The cap of a project and what counts against it. *)

IsDev(c, consumer) == consumer \in DOMAIN c.kind /\ c.kind[consumer] = "dev"

NoCap == [lim |-> None, scope |-> None, folded |-> FALSE]

\* An entry that caps nothing exempts.
Capped(lim, scope, folded) ==
    IF lim.cap = 0 THEN NoCap ELSE [lim |-> lim, scope |-> scope, folded |-> folded]

\* Defect: an exact entry meters its own path only, a consumer's too.
DefectResolveLimit(c, path) ==
    LET bare == Bare(path[1]) IN
    IF path \in DOMAIN c.limits THEN Capped(c.limits[path], path, FALSE)
    ELSE IF bare \in DOMAIN c.limits THEN Capped(c.limits[bare], bare, TRUE)
    ELSE IF c.limitDefault = None THEN NoCap
    ELSE Capped(c.limitDefault, path, FALSE)

ResolveLimit(c, path) ==
    LET bare == Bare(path[1]) IN
    IF path \in DOMAIN c.limits THEN Capped(c.limits[path], path, path = bare)
    ELSE IF bare \in DOMAIN c.limits THEN Capped(c.limits[bare], bare, TRUE)
    ELSE IF c.limitDefault = None THEN NoCap
    ELSE Capped(c.limitDefault, path, FALSE)

\* The query: the calls of the path, or of every job of its consumer.
Counts(scope, folded) ==
    IF folded THEN {p \in Paths : p[1] = scope[1]} ELSE {p \in Paths : p = scope}

\* The rows of a set of paths, by path and number.
Rows(S) == {r \in S \X (1..MaxUsage) : r[2] <= log[r[1]]}

Count(scope, folded) == Cardinality(Rows(Counts(scope, folded)))

Action(usage, lim) ==
    IF usage >= lim.cap THEN lim.hard
    ELSE IF usage >= lim.slowAt THEN "slow"
    ELSE IF usage >= lim.warnAt THEN "warn"
    ELSE "ok"

\* A recorded call.  Counting stops at the bound of the instance.
Record(path) ==
    log' = IF path \in Paths /\ log[path] < MaxUsage THEN [log EXCEPT ![path] = @ + 1] ELSE log

-----------------------------------------------------------------------------
(* Back-pressure. *)

Note429(c, consumer) ==
    IF consumer \notin Consumers \/ IsDev(c, consumer) THEN UNCHANGED <<level, hot>>
    ELSE /\ level' = [level EXCEPT ![consumer] = IF @ < MaxLevel THEN @ + 1 ELSE @]
         /\ hot' = [hot EXCEPT ![consumer] = TRUE]

Forgive(consumer) ==
    IF consumer \notin Consumers THEN UNCHANGED <<level, hot>>
    ELSE /\ level' = [level EXCEPT ![consumer] = 0]
         /\ hot' = [hot EXCEPT ![consumer] = FALSE]

\* throttleDelay: how many doublings to wait for, 0 for not at all.
Delay(c, consumer) ==
    IF consumer \notin Consumers \/ IsDev(c, consumer) \/ ~hot[consumer] THEN 0 ELSE level[consumer]

\* ... which drops a record that has run out.
AskDelay(c, consumer) ==
    IF consumer \in Consumers /\ ~IsDev(c, consumer) /\ ~hot[consumer] THEN Forgive(consumer)
    ELSE UNCHANGED <<level, hot>>

-----------------------------------------------------------------------------
(* Time. *)

\* The calls of a path leave the window.
Roll(path) ==
    /\ log[path] > 0
    /\ log' = [log EXCEPT ![path] = 0]
    /\ UNCHANGED <<cache, level, hot>>

\* Five seconds after it was asked for, a reading is not used again.
GrowOld(s) ==
    /\ cache[s] # None
    /\ cache' = [cache EXCEPT ![s] = None]
    /\ UNCHANGED <<log, level, hot>>

\* A minute after the last 429 of the consumer.
Cool(consumer) ==
    /\ hot[consumer]
    /\ hot' = [hot EXCEPT ![consumer] = FALSE]
    /\ UNCHANGED <<log, cache, level>>
=============================================================================
