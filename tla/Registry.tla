------------------------------ MODULE Registry ------------------------------
(***************************************************************************)
(* The consumer registry (registry.js): consumers, their keys and the      *)
(* aliases live in Postgres; requests read a projection of them in CFG.    *)
(* Every write ends with refresh(), which reads the tables with one query  *)
(* after the other and then replaces the projection.                       *)
(*                                                                         *)
(* One action is one statement at the database, with what the handler does *)
(* with its result up to the next statement; Project is what refresh()     *)
(* does after its last read.  Handlers interleave at every statement.      *)
(*                                                                         *)
(* Developers, notes and client policies ride along with the rows and are  *)
(* left out, and so is the file the projection is mirrored to.             *)
(***************************************************************************)
EXTENDS Naturals, FiniteSets

CONSTANTS Tasks,    \* handlers of the control surface in flight
          Names,    \* names of consumers and aliases
          Keys,     \* ids of the keys that are ever minted
          Scenes,   \* instances: handlers at once, operations, rows ever inserted, faults
          None

\* Faults: "read", a query fails; "write", a statement fails; "lose", its reply is lost.
ASSUME RegistryAssumption ==
    /\ None \notin Names \cup Keys
    /\ IsFiniteSet(Tasks)
    /\ \A s \in Scenes : s.flight \in Nat /\ s.rows \in Nat
ASSUME NoneAssumption == \A ks \in SUBSET Keys : ks # None

VARIABLES
    scene,      \* the instance
    row,        \* consumers: the id of the row of a name, 0 without one
    rows,       \* rows inserted so far
    keyRow,     \* api_keys: consumer_id of a key, 0 without a row
    revoked,    \* api_keys: keys with revoked_at
    alias,      \* consumer_aliases: the target of an alias, or None
    consumers,  \* CFG.consumers: the keys of a consumer that may authenticate, or None
    aliases,    \* CFG.consumerAliases
    issuedFor,  \* the consumer each key was issued for (history)
    rowOf,      \* the name each row was inserted for (history)
    pc,         \* the statement each handler sends next
    op,         \* its operation
    seen,       \* the consumer id it has read
    snap        \* what its refresh has read so far

db == <<row, rows, keyRow, revoked, alias, issuedFor, rowOf>>
cfg == <<consumers, aliases>>
vars == <<scene, db, cfg, pc, op, seen, snap>>

Rows == 0..scene.rows
NoSnap == [row |-> [n \in Names |-> 0], keyRow |-> [k \in Keys |-> 0], revoked |-> {},
           alias |-> [n \in Names |-> None]]
Ops == [kind : {"add", "remove", "issue", "revoke", "alias", "unalias"}, name : Names, to : Names, key : Keys \cup {None}]

Steps == {"idle", "aliased", "insert", "delete", "find", "again", "mint", "revoke",
          "shadows", "known", "chained", "link", "unlink",
          "consumers", "keys", "aliases", "project", "done", "failed"}

TypeOK ==
    /\ scene \in Scenes
    /\ row \in [Names -> Rows] /\ rows \in Rows
    /\ keyRow \in [Keys -> Rows] /\ revoked \subseteq Keys
    /\ alias \in [Names -> Names \cup {None}]
    /\ \A n \in Names : consumers[n] = None \/ consumers[n] \subseteq Keys
    /\ aliases \in [Names -> Names \cup {None}]
    /\ issuedFor \in [Keys -> Names \cup {None}]
    /\ rowOf \in [1..scene.rows -> Names \cup {None}]
    /\ pc \in [Tasks -> Steps]
    /\ op \in [Tasks -> Ops \cup {None}]
    /\ seen \in [Tasks -> Rows]

Init ==
    /\ scene \in Scenes
    /\ row = [n \in Names |-> 0] /\ rows = 0
    /\ keyRow = [k \in Keys |-> 0] /\ revoked = {}
    /\ alias = [n \in Names |-> None]
    /\ consumers = [n \in Names |-> None]
    /\ aliases = [n \in Names |-> None]
    /\ issuedFor = [k \in Keys |-> None]
    /\ rowOf = [r \in 1..scene.rows |-> None]
    /\ pc = [t \in Tasks |-> "idle"]
    /\ op = [t \in Tasks |-> None]
    /\ seen = [t \in Tasks |-> 0]
    /\ snap = [t \in Tasks |-> NoSnap]

-----------------------------------------------------------------------------
At(t, p) == pc[t] = p
To(t, p) == pc' = [pc EXCEPT ![t] = p]

Name(t) == op[t].name
Target(t) == op[t].to

\* dbRows swallows an error and answers "no rows".
ReadFails == "read" \in scene.faults

\* A statement that fails: the handler throws, and the caller gets an error.  So
\* ends an INSERT past the bounds of the instance, too.
Full == rows = scene.rows \/ \A k \in Keys : issuedFor[k] # None
WriteFails(t) == ("write" \in scene.faults \/ Full) /\ To(t, "failed") /\ UNCHANGED db

\* After a write: refresh(); or its reply is lost on the way, and the handler throws.
Written(t) == \/ To(t, "consumers")
              \/ "lose" \in scene.faults /\ To(t, "failed")

\* The refusals: 400, 404, 409.
Refused(t) == To(t, "failed")

-----------------------------------------------------------------------------
\* A request of the control surface arrives.
Begin(t, o) ==
    /\ At(t, "idle")
    /\ Cardinality({u \in Tasks : ~At(u, "idle")}) < scene.flight
    /\ o.kind \in scene.kinds
    /\ o.kind = "revoke" <=> o.key # None
    /\ o.kind = "alias" <=> o.to # o.name
    /\ op' = [op EXCEPT ![t] = o]
    /\ To(t, CASE o.kind = "add"     -> "aliased"
               [] o.kind = "remove"  -> "delete"
               [] o.kind = "issue"   -> "find"
               [] o.kind = "revoke"  -> "revoke"
               [] o.kind = "alias"   -> "shadows"
               [] o.kind = "unalias" -> "unlink")
    /\ UNCHANGED <<scene, db, cfg, seen, snap>>

\* addConsumer: a name that is an alias is refused.
CheckAliased(t) ==
    /\ At(t, "aliased")
    /\ \/ alias[Name(t)] # None /\ Refused(t)
       \/ alias[Name(t)] = None /\ To(t, "insert")
       \/ ReadFails /\ To(t, "insert")
    /\ UNCHANGED <<scene, db, cfg, op, seen, snap>>

\* ... INSERT ... ON CONFLICT (name) DO UPDATE.
InsertConsumer(t) ==
    /\ At(t, "insert")
    /\ \/ /\ row[Name(t)] = 0 /\ rows < scene.rows
          /\ rows' = rows + 1
          /\ row' = [row EXCEPT ![Name(t)] = rows + 1]
          /\ rowOf' = [rowOf EXCEPT ![rows + 1] = Name(t)]
          /\ UNCHANGED <<keyRow, revoked, alias, issuedFor>>
          /\ Written(t)
       \/ /\ row[Name(t)] # 0
          /\ Written(t)
          /\ UNCHANGED db
       \/ WriteFails(t)
    /\ UNCHANGED <<scene, cfg, op, seen, snap>>

\* removeConsumer: the keys go with the row (ON DELETE CASCADE).
DeleteConsumer(t) ==
    /\ At(t, "delete")
    /\ \/ row[Name(t)] = 0 /\ Refused(t) /\ UNCHANGED db
       \/ /\ row[Name(t)] # 0
          /\ row' = [row EXCEPT ![Name(t)] = 0]
          /\ keyRow' = [k \in Keys |-> IF keyRow[k] = row[Name(t)] THEN 0 ELSE keyRow[k]]
          /\ UNCHANGED <<rows, revoked, alias, issuedFor, rowOf>>
          /\ Written(t)
       \/ WriteFails(t)
    /\ UNCHANGED <<scene, cfg, op, seen, snap>>

\* issueKey: the consumer, or a new one through addConsumer, unless no kind was given.
FindConsumer(t) ==
    /\ At(t, "find")
    /\ \/ row[Name(t)] # 0 /\ seen' = [seen EXCEPT ![t] = row[Name(t)]] /\ To(t, "mint")
       \/ /\ row[Name(t)] = 0 \/ ReadFails
          /\ UNCHANGED seen
          /\ To(t, "aliased") \/ Refused(t)
    /\ UNCHANGED <<scene, db, cfg, op, snap>>

\* ... read again after addConsumer has inserted it and refreshed.
FindAgain(t) ==
    /\ At(t, "again")
    /\ \/ row[Name(t)] # 0 /\ seen' = [seen EXCEPT ![t] = row[Name(t)]] /\ To(t, "mint")
       \/ (row[Name(t)] = 0 \/ ReadFails) /\ UNCHANGED seen /\ To(t, "failed")
    /\ UNCHANGED <<scene, db, cfg, op, snap>>

\* ... INSERT INTO api_keys; the foreign key refuses a consumer that is gone.
MintKey(t) ==
    /\ At(t, "mint")
    /\ \/ /\ \E n \in Names : row[n] = seen[t]
          /\ \E k \in Keys :
                /\ issuedFor[k] = None
                /\ keyRow' = [keyRow EXCEPT ![k] = seen[t]]
                /\ issuedFor' = [issuedFor EXCEPT ![k] = Name(t)]
          /\ UNCHANGED <<row, rows, revoked, alias, rowOf>>
          /\ Written(t)
       \/ /\ \A n \in Names : row[n] # seen[t]
          /\ To(t, "failed") /\ UNCHANGED db
       \/ WriteFails(t)
    /\ UNCHANGED <<scene, cfg, op, seen, snap>>

\* Defect: no refresh after the UPDATE.
DefectRevokeKey(t) ==
    /\ At(t, "revoke")
    /\ revoked' = IF keyRow[op[t].key] # 0 THEN revoked \cup {op[t].key} ELSE revoked
    /\ To(t, "done")
    /\ UNCHANGED <<scene, row, rows, keyRow, alias, issuedFor, rowOf, cfg, op, seen, snap>>

\* revokeKey: one UPDATE, joined with the consumer.
RevokeKey(t) ==
    /\ At(t, "revoke")
    /\ LET k == op[t].key
           hit == keyRow[k] # 0 /\ keyRow[k] = row[Name(t)] /\ k \notin revoked
       IN \/ /\ hit
             /\ revoked' = revoked \cup {k}
             /\ UNCHANGED <<row, rows, keyRow, alias, issuedFor, rowOf>>
             /\ Written(t)
          \/ ~hit /\ Refused(t) /\ UNCHANGED db
          \/ WriteFails(t)
    /\ UNCHANGED <<scene, cfg, op, seen, snap>>

\* Defect: the name of the alias is not looked up.
DefectCheckShadows(t) ==
    /\ At(t, "shadows")
    /\ To(t, "known")
    /\ UNCHANGED <<scene, db, cfg, op, seen, snap>>

\* setAlias, three reads: the alias is not a registered consumer,
CheckShadows(t) ==
    /\ At(t, "shadows")
    /\ \/ row[Name(t)] # 0 /\ Refused(t)
       \/ (row[Name(t)] = 0 \/ ReadFails) /\ To(t, "known")
    /\ UNCHANGED <<scene, db, cfg, op, seen, snap>>

\* its target is one,
CheckKnown(t) ==
    /\ At(t, "known")
    /\ \/ row[Target(t)] # 0 /\ To(t, "chained")
       \/ (row[Target(t)] = 0 \/ ReadFails) /\ Refused(t)
    /\ UNCHANGED <<scene, db, cfg, op, seen, snap>>

\* and the target is not an alias itself;
CheckChained(t) ==
    /\ At(t, "chained")
    /\ \/ alias[Target(t)] # None /\ Refused(t)
       \/ (alias[Target(t)] = None \/ ReadFails) /\ To(t, "link")
    /\ UNCHANGED <<scene, db, cfg, op, seen, snap>>

\* then the write.
Link(t) ==
    /\ At(t, "link")
    /\ \/ /\ alias' = [alias EXCEPT ![Name(t)] = Target(t)]
          /\ UNCHANGED <<row, rows, keyRow, revoked, issuedFor, rowOf>>
          /\ Written(t)
       \/ WriteFails(t)
    /\ UNCHANGED <<scene, cfg, op, seen, snap>>

\* setAlias {to: null}.
Unlink(t) ==
    /\ At(t, "unlink")
    /\ \/ /\ alias' = [alias EXCEPT ![Name(t)] = None]
          /\ UNCHANGED <<row, rows, keyRow, revoked, issuedFor, rowOf>>
          /\ Written(t)
       \/ WriteFails(t)
    /\ UNCHANGED <<scene, cfg, op, seen, snap>>

-----------------------------------------------------------------------------
(* refresh(). *)

\* issueKey goes on after the refresh of its addConsumer; every other refresh is the
\* handler's last step.
AfterRefresh(t) == IF op[t].kind = "issue" /\ seen[t] = 0 THEN "again" ELSE "done"

ReadConsumers(t) ==
    /\ At(t, "consumers")
    /\ snap' = [snap EXCEPT ![t].row = row]
    /\ To(t, "keys")
    /\ UNCHANGED <<scene, db, cfg, op, seen>>

ReadKeys(t) ==
    /\ At(t, "keys")
    /\ snap' = [snap EXCEPT ![t].keyRow = keyRow, ![t].revoked = revoked]
    /\ To(t, "aliases")
    /\ UNCHANGED <<scene, db, cfg, op, seen>>

ReadAliases(t) ==
    /\ At(t, "aliases")
    /\ snap' = [snap EXCEPT ![t].alias = alias]
    /\ To(t, "project")
    /\ UNCHANGED <<scene, db, cfg, op, seen>>

\* Defect: a read that fails counts as no rows (refresh() before it read with dbExec).
DefectRefreshFails(t) ==
    /\ ReadFails /\ At(t, "keys")
    /\ snap' = [snap EXCEPT ![t].keyRow = [k \in Keys |-> 0]]
    /\ To(t, "aliases")
    /\ UNCHANGED <<scene, db, cfg, op, seen>>

\* One of the reads fails: the previous projection stays, and the handler goes on.
RefreshFails(t) ==
    /\ ReadFails /\ pc[t] \in {"consumers", "keys", "aliases"}
    /\ snap' = [snap EXCEPT ![t] = NoSnap]
    /\ To(t, AfterRefresh(t))
    /\ UNCHANGED <<scene, db, cfg, op, seen>>

\* Defect: the join is undone; every key that is not revoked is everybody's.
DefectKeysOf(s, n) == IF s.row[n] = 0 THEN None
                      ELSE {k \in Keys : s.keyRow[k] # 0} \ s.revoked

\* The keys that authenticate as n by what s holds: joined by the id of the row.
KeysOf(s, n) == IF s.row[n] = 0 THEN None
                ELSE {k \in Keys : s.keyRow[k] = s.row[n]} \ s.revoked

Project(t) ==
    /\ At(t, "project")
    /\ consumers' = [n \in Names |-> KeysOf(snap[t], n)]
    /\ aliases' = snap[t].alias
    /\ snap' = [snap EXCEPT ![t] = NoSnap]
    /\ To(t, AfterRefresh(t))
    /\ UNCHANGED <<scene, db, op, seen>>

\* The handler has answered.
Finish(t) ==
    /\ pc[t] \in {"done", "failed"}
    /\ To(t, "idle")
    /\ op' = [op EXCEPT ![t] = None]
    /\ seen' = [seen EXCEPT ![t] = 0]
    /\ UNCHANGED <<scene, db, cfg, snap>>

Handle(t) ==
    \/ CheckAliased(t) \/ InsertConsumer(t) \/ DeleteConsumer(t)
    \/ FindConsumer(t) \/ FindAgain(t) \/ MintKey(t) \/ RevokeKey(t)
    \/ CheckShadows(t) \/ CheckKnown(t) \/ CheckChained(t) \/ Link(t) \/ Unlink(t)
    \/ ReadConsumers(t) \/ ReadKeys(t) \/ ReadAliases(t) \/ RefreshFails(t)
    \/ Project(t) \/ Finish(t)

Next == \E t \in Tasks : Handle(t) \/ \E o \in Ops : Begin(t, o)

Spec == Init /\ [][Next]_vars

-----------------------------------------------------------------------------
(* Safety. *)

\* What a request that presents key k is authenticated as.
AuthenticatesAs(k) == {n \in Names : consumers[n] # None /\ k \in consumers[n]}

\* A key never authenticates as another consumer than the one it was issued for:
\* not after its consumer was removed and the name registered again, and not from a
\* refresh that read consumers and keys at different times.
KeyNeverMoves == \A k \in Keys : AuthenticatesAs(k) \subseteq {issuedFor[k]}

\* A key that works and is neither revoked nor deleted goes on working, whatever read
\* or write fails (one handler at a time).
KeysKept ==
    \A k \in Keys : (scene.flight = 1 /\ AuthenticatesAs(k) # {} /\ keyRow'[k] # 0 /\ k \notin revoked)
          => AuthenticatesAs(k)' # {}
LiveKeyKeepsWorking == [][KeysKept]_vars

AtRest == \A t \in Tasks : pc[t] \in {"idle", "done", "failed"}

\* With one handler at a time and no faults, a write that was answered is what
\* requests see: the projection is the database.
ProjectionCurrent ==
    (AtRest /\ scene.flight = 1 /\ scene.faults = {}) =>
              /\ \A n \in Names : consumers[n] = KeysOf([row |-> row, keyRow |-> keyRow,
                                                         revoked |-> revoked], n)
              /\ aliases = alias

\* No alias takes the calls of a registered consumer (one handler at a time, no faults).
NoShadow ==
    (scene.flight = 1 /\ scene.faults = {}) => \A n \in Names : alias[n] # None => row[n] = 0

\* The tables are sound, requests see what they hold, and a key never changes hands: the
\* guards that read before they write, and the joins of refresh, left no contradiction
\* between the tables, the projection and what the keys were issued for.
RegistryInv == TypeOK /\ NoShadow /\ ProjectionCurrent /\ KeyNeverMoves

-----------------------------------------------------------------------------
(* What comments say and the code does not do. *)

\* config.js:557 "a stale index can never authenticate a dead key": at rest, a
\* revoked key authenticates nobody.
RevokedIsDead == AtRest => \A k \in revoked : AuthenticatesAs(k) = {}
=============================================================================
