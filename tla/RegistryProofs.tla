--------------------------- MODULE RegistryProofs ---------------------------
(***************************************************************************)
(* Proofs about Registry for any number of handlers, names and keys, any   *)
(* interleaving of their statements and any of the faults: a key never     *)
(* authenticates as another consumer than the one it was issued for.  And  *)
(* for one handler at a time: what is answered is what requests see, no    *)
(* alias takes a consumer's calls, and no fault takes a good key away.     *)
(***************************************************************************)
EXTENDS Registry, FiniteSetTheorems, TLAPS

USE RegistryAssumption

(* ------------------------- the inductive invariant ------------------------ *)

\* What a refresh has read has the types of the tables.
SnapTypeOK ==
    snap \in [Tasks -> [row : [Names -> Rows], keyRow : [Keys -> Rows], revoked : SUBSET Keys,
                        alias : [Names -> Names \cup {None}]]]

\* A handler that is under way has an operation, and the row it has read is its consumer's.
HandlersTrue ==
    \A t \in Tasks :
        /\ pc[t] # "idle" => op[t] \in Ops
        /\ pc[t] = "idle" => seen[t] = 0
        /\ pc[t] = "revoke" => op[t].key \in Keys
        /\ pc[t] = "mint" => seen[t] # 0
        /\ seen[t] # 0 => seen[t] <= rows /\ rowOf[seen[t]] = op[t].name

\* The rows ever inserted have names, and whoever holds the id of one, in the tables or in
\* what a refresh has read, holds it under that name.
RowTrue(f) == \A n \in Names : f[n] # 0 => f[n] <= rows /\ rowOf[f[n]] = n
KeyTrue(f) == \A k \in Keys : f[k] # 0 => f[k] <= rows /\ rowOf[f[k]] = issuedFor[k]
IdsTrue ==
    /\ \A r \in Rows : 0 < r /\ r <= rows => rowOf[r] \in Names
    /\ RowTrue(row) /\ KeyTrue(keyRow)
    /\ \A t \in Tasks : RowTrue(snap[t].row) /\ KeyTrue(snap[t].keyRow)

\* The foreign key: a key's row is there.
KeysHaveRows == \A k \in Keys : keyRow[k] # 0 => row[issuedFor[k]] = keyRow[k]

\* One handler at a time: nobody comes between the reads of its refresh.
Alone == \A t, u \in Tasks : pc[t] # "idle" /\ pc[u] # "idle" => t = u
SnapCurrent ==
    \A t \in Tasks :
        /\ pc[t] \in {"keys", "aliases", "project"} => snap[t].row = row
        /\ pc[t] \in {"aliases", "project"} => snap[t].keyRow = keyRow /\ snap[t].revoked = revoked
        /\ pc[t] = "project" => snap[t].alias = alias

\* ... and if nothing fails, what a guard has read still holds at the write, and outside of
\* refreshes the projection is the database.
GuardsHold ==
    \A t \in Tasks :
        /\ pc[t] = "insert" => alias[op[t].name] = None
        /\ pc[t] \in {"known", "chained", "link"} => row[op[t].name] = 0
Shadowless == \A n \in Names : alias[n] # None => row[n] = 0
Refreshing == \E t \in Tasks : pc[t] \in {"consumers", "keys", "aliases", "project"}
Current ==
    /\ \A n \in Names : consumers[n] = KeysOf([row |-> row, keyRow |-> keyRow, revoked |-> revoked], n)
    /\ aliases = alias

Single == scene.flight = 1
Calm == Single /\ scene.faults = {}

Inductive ==
    /\ TypeOK /\ SnapTypeOK /\ HandlersTrue /\ IdsTrue /\ KeysHaveRows /\ KeyNeverMoves
    /\ Single => Alone /\ SnapCurrent
    /\ Calm => GuardsHold /\ Shadowless /\ (~Refreshing => Current)

(* ------------------------------- the steps ------------------------------- *)

\* What an operation names.
LEMMA OpsNamed ==
    ASSUME NEW o \in Ops
    PROVE  o.name \in Names /\ o.to \in Names /\ o.key \in Keys \cup {None}
  BY DEF Ops

\* The statements that write.
Registered(n) ==
    /\ row[n] = 0 /\ rows < scene.rows
    /\ rows' = rows + 1
    /\ row' = [row EXCEPT ![n] = rows + 1]
    /\ rowOf' = [rowOf EXCEPT ![rows + 1] = n]
    /\ UNCHANGED <<keyRow, revoked, alias, issuedFor>>
Removed(n) ==
    /\ row[n] # 0
    /\ row' = [row EXCEPT ![n] = 0]
    /\ keyRow' = [k \in Keys |-> IF keyRow[k] = row[n] THEN 0 ELSE keyRow[k]]
    /\ UNCHANGED <<rows, revoked, alias, issuedFor, rowOf>>
Minted(t, k) ==
    /\ pc[t] = "mint" /\ issuedFor[k] = None
    /\ \E n \in Names : row[n] = seen[t]
    /\ keyRow' = [keyRow EXCEPT ![k] = seen[t]]
    /\ issuedFor' = [issuedFor EXCEPT ![k] = op[t].name]
    /\ UNCHANGED <<row, rows, revoked, alias, rowOf>>
RevokedNow(k) ==
    /\ revoked' = revoked \cup {k}
    /\ UNCHANGED <<row, rows, keyRow, alias, issuedFor, rowOf>>
Aliased(n, m) ==
    /\ alias' = [alias EXCEPT ![n] = m]
    /\ UNCHANGED <<row, rows, keyRow, revoked, issuedFor, rowOf>>
DbStep ==
    \/ UNCHANGED db
    \/ \E n \in Names : Registered(n) \/ Removed(n) \/ \E m \in Names \cup {None} : Aliased(n, m)
    \/ \E t \in Tasks, k \in Keys : Minted(t, k)
    \/ \E k \in Keys : RevokedNow(k)

\* A step writes one of these, or nothing.
LEMMA DbSteps ==
    ASSUME HandlersTrue, [Next]_vars
    PROVE  DbStep
<1>1. ASSUME NEW t \in Tasks, InsertConsumer(t) PROVE DbStep
  <2>1. op[t].name \in Names
    BY <1>1, OpsNamed DEF HandlersTrue, InsertConsumer, At
  <2> QED
    BY <1>1, <2>1 DEF InsertConsumer, At, Name, Written, WriteFails, Refused, DbStep, Registered
<1>2. ASSUME NEW t \in Tasks, DeleteConsumer(t) PROVE DbStep
  <2>1. op[t].name \in Names
    BY <1>2, OpsNamed DEF HandlersTrue, DeleteConsumer, At
  <2> QED
    BY <1>2, <2>1 DEF DeleteConsumer, At, Name, Written, WriteFails, Refused, DbStep, Removed
<1>3. ASSUME NEW t \in Tasks, MintKey(t) PROVE DbStep
  BY <1>3 DEF MintKey, At, Name, WriteFails, DbStep, Minted
<1>4. ASSUME NEW t \in Tasks, RevokeKey(t) PROVE DbStep
  <2>1. op[t].key \in Keys
    BY <1>4 DEF HandlersTrue, RevokeKey, At
  <2> QED
    BY <1>4, <2>1 DEF RevokeKey, At, WriteFails, DbStep, RevokedNow
<1>5. ASSUME NEW t \in Tasks, Link(t) PROVE DbStep
  <2>1. op[t].name \in Names /\ op[t].to \in Names
    BY <1>5, OpsNamed DEF HandlersTrue, Link, At
  <2> QED
    BY <1>5, <2>1 DEF Link, Name, Target, WriteFails, DbStep, Aliased
<1>6. ASSUME NEW t \in Tasks, Unlink(t) PROVE DbStep
  <2>1. op[t].name \in Names
    BY <1>6, OpsNamed DEF HandlersTrue, Unlink, At
  <2> QED
    BY <1>6, <2>1 DEF Unlink, Name, WriteFails, DbStep, Aliased
<1>7. CASE UNCHANGED db
  BY <1>7 DEF DbStep
<1> QED
  BY <1>1, <1>2, <1>3, <1>4, <1>5, <1>6, <1>7 DEF Next, Handle, vars, Begin, CheckAliased, FindConsumer,
      FindAgain, CheckShadows, CheckKnown, CheckChained, ReadConsumers, ReadKeys, ReadAliases, RefreshFails,
      Project, Finish

\* A handler goes from one of its statements to another.
Moves(t) == \E p \in Steps : To(t, p)
\* The statements stay statements.
LEMMA MovesType ==
    ASSUME TypeOK, NEW t \in Tasks, Moves(t)
    PROVE  pc' \in [Tasks -> Steps]
  BY DEF TypeOK, Moves, To

\* A step moves one handler.
LEMMA PcSteps ==
    ASSUME TypeOK, [Next]_vars
    PROVE  (\E u \in Tasks : Moves(u)) \/ UNCHANGED pc
<1>1. ASSUME NEW t \in Tasks, CheckAliased(t) PROVE (\E u \in Tasks : Moves(u)) \/ UNCHANGED pc
  BY <1>1 DEF CheckAliased, Refused, To, Moves, Steps
<1>2. ASSUME NEW t \in Tasks, InsertConsumer(t) PROVE (\E u \in Tasks : Moves(u)) \/ UNCHANGED pc
  BY <1>2 DEF InsertConsumer, Written, WriteFails, To, Moves, Steps
<1>3. ASSUME NEW t \in Tasks, DeleteConsumer(t) PROVE (\E u \in Tasks : Moves(u)) \/ UNCHANGED pc
  BY <1>3 DEF DeleteConsumer, Refused, Written, WriteFails, To, Moves, Steps
<1>4. ASSUME NEW t \in Tasks, FindConsumer(t) PROVE (\E u \in Tasks : Moves(u)) \/ UNCHANGED pc
  BY <1>4 DEF FindConsumer, Refused, To, Moves, Steps
<1>5. ASSUME NEW t \in Tasks, FindAgain(t) PROVE (\E u \in Tasks : Moves(u)) \/ UNCHANGED pc
  BY <1>5 DEF FindAgain, To, Moves, Steps
<1>6. ASSUME NEW t \in Tasks, MintKey(t) PROVE (\E u \in Tasks : Moves(u)) \/ UNCHANGED pc
  BY <1>6 DEF MintKey, Written, WriteFails, To, Moves, Steps
<1>7. ASSUME NEW t \in Tasks, RevokeKey(t) PROVE (\E u \in Tasks : Moves(u)) \/ UNCHANGED pc
  BY <1>7 DEF RevokeKey, Refused, Written, WriteFails, To, Moves, Steps
<1>8. ASSUME NEW t \in Tasks, CheckShadows(t) PROVE (\E u \in Tasks : Moves(u)) \/ UNCHANGED pc
  BY <1>8 DEF CheckShadows, Refused, To, Moves, Steps
<1>9. ASSUME NEW t \in Tasks, CheckKnown(t) PROVE (\E u \in Tasks : Moves(u)) \/ UNCHANGED pc
  BY <1>9 DEF CheckKnown, At, To, Name, Refused, Target, Moves, Steps
<1>10. ASSUME NEW t \in Tasks, CheckChained(t) PROVE (\E u \in Tasks : Moves(u)) \/ UNCHANGED pc
  BY <1>10 DEF CheckChained, At, To, Name, Refused, Target, Moves, Steps
<1>11. ASSUME NEW t \in Tasks, Link(t) PROVE (\E u \in Tasks : Moves(u)) \/ UNCHANGED pc
  BY <1>11 DEF Link, At, To, Name, Written, WriteFails, Target, Moves, Steps
<1>12. ASSUME NEW t \in Tasks, Unlink(t) PROVE (\E u \in Tasks : Moves(u)) \/ UNCHANGED pc
  BY <1>12 DEF Unlink, Written, WriteFails, To, Moves, Steps
<1>13. ASSUME NEW t \in Tasks, ReadConsumers(t) PROVE (\E u \in Tasks : Moves(u)) \/ UNCHANGED pc
  BY <1>13 DEF ReadConsumers, To, Moves, Steps
<1>14. ASSUME NEW t \in Tasks, ReadKeys(t) PROVE (\E u \in Tasks : Moves(u)) \/ UNCHANGED pc
  BY <1>14 DEF ReadKeys, To, Moves, Steps
<1>15. ASSUME NEW t \in Tasks, ReadAliases(t) PROVE (\E u \in Tasks : Moves(u)) \/ UNCHANGED pc
  BY <1>15 DEF ReadAliases, To, Moves, Steps
<1>16. ASSUME NEW t \in Tasks, RefreshFails(t) PROVE (\E u \in Tasks : Moves(u)) \/ UNCHANGED pc
  BY <1>16 DEF RefreshFails, AfterRefresh, To, Moves, Steps
<1>17. ASSUME NEW t \in Tasks, Project(t) PROVE (\E u \in Tasks : Moves(u)) \/ UNCHANGED pc
  BY <1>17 DEF Project, AfterRefresh, To, Moves, Steps
<1>18. ASSUME NEW t \in Tasks, Finish(t) PROVE (\E u \in Tasks : Moves(u)) \/ UNCHANGED pc
  BY <1>18 DEF Finish, To, Moves, Steps
<1>19. ASSUME NEW t \in Tasks, NEW o \in Ops, Begin(t, o) PROVE (\E u \in Tasks : Moves(u)) \/ UNCHANGED pc
  <2>1. o.kind \in {"add", "remove", "issue", "revoke", "alias", "unalias"}
    BY DEF Ops
  <2> QED
    BY <1>19, <2>1 DEF Begin, To, Moves, Steps
<1>20. CASE UNCHANGED vars
  BY <1>20 DEF vars, db, cfg, vars
<1> QED
  BY <1>1, <1>2, <1>3, <1>4, <1>5, <1>6, <1>7, <1>8, <1>9, <1>10, <1>11, <1>12, <1>13, <1>14, <1>15, <1>16,
      <1>17, <1>18, <1>19, <1>20 DEF Next, Handle

\* The instance stays.
LEMMA SceneStays ==
    ASSUME [Next]_vars
    PROVE  scene' = scene
  BY DEF Next, Handle, vars, CheckAliased, InsertConsumer, DeleteConsumer, FindConsumer, FindAgain, MintKey,
      RevokeKey, CheckShadows, CheckKnown, CheckChained, Link, Unlink, ReadConsumers, ReadKeys, ReadAliases,
      RefreshFails, Project, Finish, Begin

\* Ids of rows are given once: what is known of one stays so.
Grown ==
    /\ rows <= rows'
    /\ \A r \in Rows : r # 0 /\ r <= rows => rowOf'[r] = rowOf[r]
    /\ \A k \in Keys : issuedFor[k] # None => issuedFor'[k] = issuedFor[k]

\* The tables keep their types.
LEMMA DbTypes ==
    ASSUME TypeOK, HandlersTrue, [Next]_vars
    PROVE  /\ row' \in [Names -> Rows] /\ rows' \in Rows
           /\ keyRow' \in [Keys -> Rows] /\ revoked' \subseteq Keys
           /\ alias' \in [Names -> Names \cup {None}]
           /\ issuedFor' \in [Keys -> Names \cup {None}]
           /\ rowOf' \in [1..scene.rows -> Names \cup {None}]
           /\ Grown
<1> DEFINE Goal ==
           /\ row' \in [Names -> Rows] /\ rows' \in Rows
           /\ keyRow' \in [Keys -> Rows] /\ revoked' \subseteq Keys
           /\ alias' \in [Names -> Names \cup {None}]
           /\ issuedFor' \in [Keys -> Names \cup {None}]
           /\ rowOf' \in [1..scene.rows -> Names \cup {None}]
           /\ Grown
<1>0. scene.rows \in Nat
  BY DEF TypeOK
<1>1. CASE UNCHANGED db
  BY <1>0, <1>1 DEF db, TypeOK, Rows, Grown
<1>2. ASSUME NEW n \in Names, Registered(n) PROVE Goal
  <2>1. rows + 1 \in Rows /\ rows + 1 \in 1..scene.rows
    BY <1>0, <1>2 DEF Registered, TypeOK, Rows
  <2>2. row' \in [Names -> Rows] /\ rows' \in Rows
    BY <1>2, <2>1 DEF Registered, TypeOK
  <2>3. rowOf' \in [1..scene.rows -> Names \cup {None}]
    BY <1>2, <2>1 DEF Registered, TypeOK
  <2>4. Grown
    BY <1>0, <1>2 DEF Registered, TypeOK, Rows, Grown
  <2> QED
    BY <1>2, <2>2, <2>3, <2>4 DEF Registered, TypeOK
<1>3. ASSUME NEW n \in Names, Removed(n) PROVE Goal
  <2>1. 0 \in Rows
    BY <1>0 DEF Rows
  <2>2. row' \in [Names -> Rows] /\ keyRow' \in [Keys -> Rows]
    BY <1>3, <2>1 DEF Removed, TypeOK
  <2>3. Grown
    BY <1>0, <1>3 DEF Removed, TypeOK, Rows, Grown
  <2> QED
    BY <1>3, <2>2, <2>3 DEF Removed, TypeOK
<1>4. ASSUME NEW n \in Names, NEW m \in Names \cup {None}, Aliased(n, m) PROVE Goal
  BY <1>0, <1>4 DEF Aliased, TypeOK, Rows, Grown
<1>5. ASSUME NEW t \in Tasks, NEW k \in Keys, Minted(t, k) PROVE Goal
  <2>1. op[t].name \in Names
    BY <1>5, OpsNamed DEF HandlersTrue, Minted
  <2>2. keyRow' \in [Keys -> Rows] /\ issuedFor' \in [Keys -> Names \cup {None}]
    BY <1>5, <2>1 DEF Minted, TypeOK
  <2>3. Grown
    BY <1>0, <1>5 DEF Minted, TypeOK, Rows, Grown
  <2> QED
    BY <1>5, <2>2, <2>3 DEF Minted, TypeOK
<1>6. ASSUME NEW k \in Keys, RevokedNow(k) PROVE Goal
  BY <1>0, <1>6 DEF RevokedNow, TypeOK, Rows, Grown
<1> QED
  BY <1>1, <1>2, <1>3, <1>4, <1>5, <1>6, DbSteps DEF DbStep

\* A step of t leaves the other handlers alone, and t with an operation to its statement: it goes
\* on with the row it had read, or with the one its consumer has now.
Frame(t) ==
    \A u \in Tasks \ {t} : pc'[u] = pc[u] /\ op'[u] = op[u] /\ seen'[u] = seen[u] /\ snap'[u] = snap[u]
Equipped(t) ==
    /\ op' \in [Tasks -> Ops \cup {None}] /\ seen' \in [Tasks -> Rows]
    /\ pc'[t] # "idle" => op'[t] \in Ops
    /\ pc'[t] = "idle" => seen'[t] = 0
    /\ pc'[t] = "revoke" => op'[t].key \in Keys
    /\ pc'[t] = "mint" => seen'[t] # 0
    /\ seen'[t] # 0 => op'[t] = op[t] /\ seen'[t] \in {seen[t], row[op[t].name]}
Own(t) == Frame(t) /\ Equipped(t)

\* A handler moves nobody but itself, and is equipped for its next statement.
LEMMA OwnSteps ==
    ASSUME NEW t \in Tasks, Handle(t) \/ \E o \in Ops : Begin(t, o),
           TypeOK, SnapTypeOK, HandlersTrue
    PROVE  Own(t)
<1>1. CASE CheckAliased(t)
  <2>1. Frame(t)
    BY <1>1 DEF CheckAliased, At, To, Refused, Frame, TypeOK, SnapTypeOK
  <2>2. Equipped(t)
    BY <1>1, OpsNamed DEF CheckAliased, At, To, Refused, Name, Equipped, TypeOK, HandlersTrue, Rows
  <2> QED
    BY <2>1, <2>2 DEF Own
<1>2. CASE InsertConsumer(t)
  <2>1. Frame(t)
    BY <1>2 DEF InsertConsumer, At, To, Written, WriteFails, Frame, TypeOK, SnapTypeOK
  <2>2. Equipped(t)
    BY <1>2, OpsNamed DEF InsertConsumer, At, To, Written, WriteFails, Name, Equipped, TypeOK, HandlersTrue,
        Rows
  <2> QED
    BY <2>1, <2>2 DEF Own
<1>3. CASE DeleteConsumer(t)
  <2>1. Frame(t)
    BY <1>3 DEF DeleteConsumer, At, To, Refused, Written, WriteFails, Frame, TypeOK, SnapTypeOK
  <2>2. Equipped(t)
    BY <1>3, OpsNamed DEF DeleteConsumer, At, To, Refused, Written, WriteFails, Name, Equipped, TypeOK,
        HandlersTrue, Rows
  <2> QED
    BY <2>1, <2>2 DEF Own
<1>4. CASE FindConsumer(t)
  <2>1. Frame(t)
    BY <1>4 DEF FindConsumer, At, To, Refused, Frame, TypeOK, SnapTypeOK
  <2>2. row[op[t].name] \in Rows
    BY <1>4, OpsNamed DEF FindConsumer, At, TypeOK, HandlersTrue
  <2>3. seen' \in [Tasks -> Rows]
    BY <1>4, <2>2 DEF FindConsumer, Name, TypeOK
  <2>4. Equipped(t)
    BY <1>4, <2>3 DEF FindConsumer, At, To, Refused, Name, Equipped, TypeOK, HandlersTrue
  <2> QED
    BY <2>1, <2>4 DEF Own
<1>5. CASE FindAgain(t)
  <2>1. Frame(t)
    BY <1>5 DEF FindAgain, At, To, Frame, TypeOK, SnapTypeOK
  <2>2. row[op[t].name] \in Rows
    BY <1>5, OpsNamed DEF FindAgain, At, TypeOK, HandlersTrue
  <2>3. seen' \in [Tasks -> Rows]
    BY <1>5, <2>2 DEF FindAgain, Name, TypeOK
  <2>4. Equipped(t)
    BY <1>5, <2>3 DEF FindAgain, At, To, Name, Equipped, TypeOK, HandlersTrue
  <2> QED
    BY <2>1, <2>4 DEF Own
<1>6. CASE MintKey(t)
  <2>1. Frame(t)
    BY <1>6 DEF MintKey, At, To, Written, WriteFails, Frame, TypeOK, SnapTypeOK
  <2>2. Equipped(t)
    BY <1>6, OpsNamed DEF MintKey, At, To, Written, WriteFails, Name, Equipped, TypeOK, HandlersTrue, Rows
  <2> QED
    BY <2>1, <2>2 DEF Own
<1>7. CASE RevokeKey(t)
  <2>1. Frame(t)
    BY <1>7 DEF RevokeKey, At, To, Refused, Written, WriteFails, Frame, TypeOK, SnapTypeOK
  <2>2. Equipped(t)
    BY <1>7, OpsNamed DEF RevokeKey, At, To, Refused, Written, WriteFails, Name, Equipped, TypeOK,
        HandlersTrue, Rows
  <2> QED
    BY <2>1, <2>2 DEF Own
<1>8. CASE CheckShadows(t)
  <2>1. Frame(t)
    BY <1>8 DEF CheckShadows, At, To, Refused, Frame, TypeOK, SnapTypeOK
  <2>2. Equipped(t)
    BY <1>8, OpsNamed DEF CheckShadows, At, To, Refused, Name, Equipped, TypeOK, HandlersTrue, Rows
  <2> QED
    BY <2>1, <2>2 DEF Own
<1>9. CASE CheckKnown(t)
  <2>1. Frame(t)
    BY <1>9 DEF CheckKnown, At, To, Refused, Target, Frame, TypeOK, SnapTypeOK
  <2>2. Equipped(t)
    BY <1>9, OpsNamed DEF CheckKnown, At, To, Refused, Target, Name, Equipped, TypeOK, HandlersTrue, Rows
  <2> QED
    BY <2>1, <2>2 DEF Own
<1>10. CASE CheckChained(t)
  <2>1. Frame(t)
    BY <1>10 DEF CheckChained, At, To, Refused, Target, Frame, TypeOK, SnapTypeOK
  <2>2. Equipped(t)
    BY <1>10, OpsNamed DEF CheckChained, At, To, Refused, Target, Name, Equipped, TypeOK, HandlersTrue, Rows
  <2> QED
    BY <2>1, <2>2 DEF Own
<1>11. CASE Link(t)
  <2>1. Frame(t)
    BY <1>11 DEF Link, At, To, Written, WriteFails, Target, Frame, TypeOK, SnapTypeOK
  <2>2. Equipped(t)
    BY <1>11, OpsNamed DEF Link, At, To, Written, WriteFails, Target, Name, Equipped, TypeOK, HandlersTrue, Rows
  <2> QED
    BY <2>1, <2>2 DEF Own
<1>12. CASE Unlink(t)
  <2>1. Frame(t)
    BY <1>12 DEF Unlink, At, To, Written, WriteFails, Frame, TypeOK, SnapTypeOK
  <2>2. Equipped(t)
    BY <1>12, OpsNamed DEF Unlink, At, To, Written, WriteFails, Name, Equipped, TypeOK, HandlersTrue, Rows
  <2> QED
    BY <2>1, <2>2 DEF Own
<1>13. CASE ReadConsumers(t)
  <2>1. Frame(t)
    BY <1>13 DEF ReadConsumers, At, To, Frame, TypeOK, SnapTypeOK
  <2>2. Equipped(t)
    BY <1>13, OpsNamed DEF ReadConsumers, At, To, Name, Equipped, TypeOK, HandlersTrue, Rows
  <2> QED
    BY <2>1, <2>2 DEF Own
<1>14. CASE ReadKeys(t)
  <2>1. Frame(t)
    BY <1>14 DEF ReadKeys, At, To, Frame, TypeOK, SnapTypeOK
  <2>2. Equipped(t)
    BY <1>14, OpsNamed DEF ReadKeys, At, To, Name, Equipped, TypeOK, HandlersTrue, Rows
  <2> QED
    BY <2>1, <2>2 DEF Own
<1>15. CASE ReadAliases(t)
  <2>1. Frame(t)
    BY <1>15 DEF ReadAliases, At, To, Frame, TypeOK, SnapTypeOK
  <2>2. Equipped(t)
    BY <1>15, OpsNamed DEF ReadAliases, At, To, Name, Equipped, TypeOK, HandlersTrue, Rows
  <2> QED
    BY <2>1, <2>2 DEF Own
<1>16. CASE RefreshFails(t)
  <2>1. Frame(t)
    BY <1>16 DEF RefreshFails, At, To, AfterRefresh, Frame, TypeOK, SnapTypeOK
  <2>2. Equipped(t)
    BY <1>16, OpsNamed DEF RefreshFails, At, To, AfterRefresh, Name, Equipped, TypeOK, HandlersTrue, Rows
  <2> QED
    BY <2>1, <2>2 DEF Own
<1>17. CASE Project(t)
  <2>1. Frame(t)
    BY <1>17 DEF Project, At, To, AfterRefresh, Frame, TypeOK, SnapTypeOK
  <2>2. Equipped(t)
    BY <1>17, OpsNamed DEF Project, At, To, AfterRefresh, Name, Equipped, TypeOK, HandlersTrue, Rows
  <2> QED
    BY <2>1, <2>2 DEF Own
<1>18. CASE Finish(t)
  <2>1. Frame(t)
    BY <1>18 DEF Finish, At, To, Frame, TypeOK, SnapTypeOK
  <2>2. Equipped(t)
    BY <1>18, OpsNamed DEF Finish, At, To, Name, Equipped, TypeOK, HandlersTrue, Rows
  <2> QED
    BY <2>1, <2>2 DEF Own
<1>19. ASSUME NEW o \in Ops, Begin(t, o) PROVE Own(t)
  <2>1. Frame(t)
    BY <1>19 DEF Begin, To, Frame, TypeOK, SnapTypeOK
  <2>2. o.kind \in {"add", "remove", "issue", "revoke", "alias", "unalias"} /\ o.key \in Keys \cup {None}
    BY DEF Ops
  <2>3. Equipped(t)
    BY <1>19, <2>2 DEF Begin, At, To, Equipped, TypeOK, HandlersTrue
  <2> QED
    BY <2>1, <2>3 DEF Own
<1> QED
  BY <1>1, <1>2, <1>3, <1>4, <1>5, <1>6, <1>7, <1>8, <1>9, <1>10, <1>11, <1>12, <1>13, <1>14, <1>15, <1>16,
      <1>17, <1>18, <1>19 DEF Handle

\* What the refreshes do: they read a table, drop what they have read, or put it in force.
SnapStep ==
    \/ UNCHANGED snap
    \/ \E t \in Tasks :
          \/ snap' = [snap EXCEPT ![t].row = row]
          \/ snap' = [snap EXCEPT ![t].keyRow = keyRow, ![t].revoked = revoked]
          \/ snap' = [snap EXCEPT ![t].alias = alias]
          \/ snap' = [snap EXCEPT ![t] = NoSnap]
CfgStep ==
    \/ UNCHANGED cfg
    \/ \E t \in Tasks :
          /\ consumers' = [n \in Names |-> KeysOf(snap[t], n)]
          /\ aliases' = snap[t].alias

\* Nothing but a refresh does that.
LEMMA RefreshSteps ==
    ASSUME [Next]_vars
    PROVE  SnapStep /\ CfgStep
<1>1. CASE UNCHANGED vars
  BY <1>1 DEF vars, cfg, SnapStep, CfgStep
<1>2. ASSUME NEW t \in Tasks, Handle(t) PROVE SnapStep /\ CfgStep
  <2>1. SnapStep
    BY <1>2 DEF Handle, CheckAliased, InsertConsumer, DeleteConsumer, FindConsumer, FindAgain, MintKey,
        RevokeKey, CheckShadows, CheckKnown, CheckChained, Link, Unlink, ReadConsumers, ReadKeys, ReadAliases,
        RefreshFails, Project, Finish, SnapStep
  <2>2. CfgStep
    BY <1>2 DEF Handle, CheckAliased, InsertConsumer, DeleteConsumer, FindConsumer, FindAgain, MintKey,
        RevokeKey, CheckShadows, CheckKnown, CheckChained, Link, Unlink, ReadConsumers, ReadKeys, ReadAliases,
        RefreshFails, Project, Finish, CfgStep
  <2> QED
    BY <2>1, <2>2
<1>3. ASSUME NEW t \in Tasks, NEW o \in Ops, Begin(t, o) PROVE SnapStep /\ CfgStep
  BY <1>3 DEF Begin, SnapStep, CfgStep
<1> QED
  BY <1>1, <1>2, <1>3 DEF Next

\* The types are kept.
LEMMA TypesStep ==
    ASSUME TypeOK, SnapTypeOK, HandlersTrue, [Next]_vars
    PROVE  TypeOK' /\ SnapTypeOK'
<1>1. scene' = scene /\ scene.rows \in Nat
  BY SceneStays DEF TypeOK
<1>2. pc' \in [Tasks -> Steps]
  BY PcSteps, MovesType DEF TypeOK
<1>3. op' \in [Tasks -> Ops \cup {None}] /\ seen' \in [Tasks -> Rows]
  BY OwnSteps DEF TypeOK, Own, Equipped, Next, vars
<1>4. /\ \A n \in Names : consumers'[n] = None \/ consumers'[n] \subseteq Keys
      /\ aliases' \in [Names -> Names \cup {None}]
  <2>1. CASE UNCHANGED cfg
    BY <2>1 DEF cfg, TypeOK
  <2>2. ASSUME NEW t \in Tasks, consumers' = [n \in Names |-> KeysOf(snap[t], n)], aliases' = snap[t].alias
        PROVE  /\ \A n \in Names : consumers'[n] = None \/ consumers'[n] \subseteq Keys
               /\ aliases' \in [Names -> Names \cup {None}]
    BY <2>2 DEF KeysOf, SnapTypeOK
  <2> QED
    BY <2>1, <2>2, RefreshSteps DEF CfgStep
<1>5. TypeOK'
  BY <1>1, <1>2, <1>3, <1>4, DbTypes DEF TypeOK, Rows
<1>6. SnapTypeOK'
  <2> DEFINE Snaps == [row : [Names -> Rows], keyRow : [Keys -> Rows], revoked : SUBSET Keys,
                       alias : [Names -> Names \cup {None}]]
  <2>1. snap \in [Tasks -> Snaps]
    BY DEF SnapTypeOK
  <2>2. NoSnap \in Snaps
    BY <1>1 DEF NoSnap, Rows
  <2>3. snap' \in [Tasks -> Snaps]
    <3>1. ASSUME NEW t \in Tasks, snap' = [snap EXCEPT ![t].row = row] PROVE snap' \in [Tasks -> Snaps]
      BY <2>1, <3>1 DEF TypeOK
    <3>2. ASSUME NEW t \in Tasks, snap' = [snap EXCEPT ![t].keyRow = keyRow, ![t].revoked = revoked]
          PROVE snap' \in [Tasks -> Snaps]
      <4>0. keyRow \in [Keys -> Rows] /\ revoked \in SUBSET Keys /\ snap[t] \in Snaps
        BY <2>1 DEF TypeOK
      <4>1. [snap[t] EXCEPT !.keyRow = keyRow, !.revoked = revoked] \in Snaps
        <5>1. [snap[t] EXCEPT !.keyRow = keyRow] \in Snaps
          BY <4>0
        <5>2. ASSUME NEW s \in Snaps PROVE [s EXCEPT !.revoked = revoked] \in Snaps
          BY <4>0
        <5> HIDE DEF Snaps
        <5> QED
          BY <5>1, <5>2
      <4>2. snap' = [snap EXCEPT ![t] = [snap[t] EXCEPT !.keyRow = keyRow, !.revoked = revoked]]
        BY <3>2
      <4> HIDE DEF Snaps
      <4> QED
        BY <2>1, <4>1, <4>2
    <3>3. ASSUME NEW t \in Tasks, snap' = [snap EXCEPT ![t].alias = alias] PROVE snap' \in [Tasks -> Snaps]
      BY <2>1, <3>3 DEF TypeOK
    <3>4. ASSUME NEW t \in Tasks, snap' = [snap EXCEPT ![t] = NoSnap] PROVE snap' \in [Tasks -> Snaps]
      BY <2>1, <2>2, <3>4
    <3> HIDE DEF Snaps
    <3> QED
      BY <2>1, <3>1, <3>2, <3>3, <3>4, RefreshSteps DEF SnapStep
  <2> QED
    BY <1>1, <2>3 DEF SnapTypeOK, Rows
<1> QED
  BY <1>5, <1>6

\* A handler that has read a row has read its consumer's, also after the rows have changed.
LEMMA HandlersStep ==
    ASSUME TypeOK, SnapTypeOK, HandlersTrue, IdsTrue, [Next]_vars
    PROVE  HandlersTrue'
<1>1. \A r \in Rows : r # 0 /\ r <= rows => r <= rows' /\ rowOf'[r] = rowOf[r]
  <2>1. rows \in Nat /\ rows' \in Nat /\ Grown
    BY DbTypes DEF TypeOK, Rows
  <2> QED
    BY <2>1 DEF Grown, Rows
<1>0. \A u \in Tasks : seen[u] \in Rows
  BY DEF TypeOK
<1>2. CASE UNCHANGED <<pc, op, seen, snap>>
  BY <1>0, <1>1, <1>2 DEF HandlersTrue
<1>3. ASSUME NEW t \in Tasks, Own(t) PROVE HandlersTrue'
  <2>1. SUFFICES ASSUME NEW u \in Tasks
        PROVE /\ pc'[u] # "idle" => op'[u] \in Ops
              /\ pc'[u] = "idle" => seen'[u] = 0
              /\ pc'[u] = "revoke" => op'[u].key \in Keys
              /\ pc'[u] = "mint" => seen'[u] # 0
              /\ seen'[u] # 0 => seen'[u] <= rows' /\ rowOf'[seen'[u]] = op'[u].name
    BY DEF HandlersTrue
  <2>2. CASE u # t
    BY <1>0, <1>1, <1>3, <2>2 DEF Own, Frame, HandlersTrue
  <2>3. CASE u = t
    <3>1. ASSUME seen'[t] # 0 PROVE seen'[t] <= rows' /\ rowOf'[seen'[t]] = op'[t].name
      <4>1. op'[t] = op[t] /\ seen'[t] \in {seen[t], row[op[t].name]} /\ pc'[t] # "idle" /\ op'[t] \in Ops
        BY <1>3, <3>1 DEF Own, Equipped
      <4>2. op[t].name \in Names
        BY <4>1, OpsNamed
      <4>3. seen'[t] <= rows /\ rowOf[seen'[t]] = op[t].name
        BY <3>1, <4>1, <4>2 DEF HandlersTrue, IdsTrue, RowTrue
      <4>4. seen'[t] \in Rows
        BY <1>3, SceneStays DEF Own, Equipped, Rows
      <4> QED
        BY <1>1, <3>1, <4>1, <4>3, <4>4
    <3> QED
      BY <1>3, <2>3, <3>1 DEF Own, Equipped
  <2> QED
    BY <2>2, <2>3
<1> QED
  BY <1>2, <1>3, OwnSteps DEF Next, vars

\* Whoever holds the id of a row holds it under the row's name.
LEMMA IdsStep ==
    ASSUME TypeOK, SnapTypeOK, HandlersTrue, IdsTrue, [Next]_vars
    PROVE  IdsTrue'
<1>0. scene' = scene /\ scene.rows \in Nat /\ Rows' = Rows /\ rows \in Nat /\ rows' \in Nat
  BY SceneStays, DbTypes DEF TypeOK, Rows
<1>1. \A r \in Rows : r # 0 /\ r <= rows => r <= rows' /\ rowOf'[r] = rowOf[r]
  BY <1>0, DbTypes DEF Grown, Rows
<1>2. \A k \in Keys : issuedFor[k] # None => issuedFor'[k] = issuedFor[k]
  BY DbTypes DEF Grown
<1>3. \A r \in Rows : 0 < r /\ r <= rows' => rowOf'[r] \in Names
  <2>1. CASE \E n \in Names : Registered(n)
    BY <1>0, <1>1, <2>1 DEF Registered, IdsTrue, TypeOK, Rows
  <2>2. CASE rows' = rows /\ rowOf' = rowOf
    BY <1>0, <2>2 DEF IdsTrue
  <2> QED
    BY <2>1, <2>2, DbSteps DEF DbStep, db, Removed, Aliased, Minted, RevokedNow
<1>4. RowTrue(row)'
  <2>1. ASSUME NEW n \in Names, Registered(n) PROVE RowTrue(row)'
    BY <1>0, <1>1, <2>1 DEF Registered, IdsTrue, RowTrue, TypeOK, Rows
  <2>2. ASSUME NEW n \in Names, Removed(n) PROVE RowTrue(row)'
    BY <2>2 DEF Removed, IdsTrue, RowTrue, TypeOK
  <2>3. CASE UNCHANGED <<row, rows, rowOf>>
    BY <2>3 DEF IdsTrue, RowTrue
  <2> QED
    BY <2>1, <2>2, <2>3, DbSteps DEF DbStep, db, Aliased, Minted, RevokedNow
\* A key whose row is known has been issued, so what holds of it goes on to hold.
<1>5. ASSUME NEW f \in [Keys -> Rows], KeyTrue(f)
      PROVE \A k \in Keys : f[k] # 0 => f[k] <= rows' /\ rowOf'[f[k]] = issuedFor'[k]
  <2>1. SUFFICES ASSUME NEW k \in Keys, f[k] # 0 PROVE f[k] <= rows' /\ rowOf'[f[k]] = issuedFor'[k]
    OBVIOUS
  <2>2. f[k] \in Rows /\ f[k] <= rows /\ rowOf[f[k]] = issuedFor[k]
    BY <1>5, <2>1 DEF KeyTrue
  <2>3. rowOf[f[k]] \in Names
    BY <1>0, <2>1, <2>2 DEF IdsTrue, Rows
  <2>4. issuedFor[k] # None
    BY <2>2, <2>3
  <2> QED
    BY <1>1, <1>2, <2>1, <2>2, <2>4
<1>6. KeyTrue(keyRow)'
  <2>0. keyRow \in [Keys -> Rows] /\ KeyTrue(keyRow)
    BY DEF TypeOK, IdsTrue
  <2>1. CASE keyRow' = keyRow
    BY <1>5, <2>0, <2>1 DEF KeyTrue
  <2>2. ASSUME NEW n \in Names, Removed(n) PROVE KeyTrue(keyRow)'
    <3>1. \A k \in Keys : keyRow'[k] # 0 => keyRow'[k] = keyRow[k]
      BY <2>2 DEF Removed
    <3> QED
      BY <1>5, <2>0, <3>1 DEF KeyTrue
  <2>3. ASSUME NEW t \in Tasks, NEW k \in Keys, Minted(t, k) PROVE KeyTrue(keyRow)'
    <3>1. seen[t] \in Rows /\ seen[t] # 0 /\ seen[t] <= rows /\ rowOf[seen[t]] = op[t].name
      BY <2>3 DEF Minted, HandlersTrue, TypeOK
    <3>2. rows' = rows /\ rowOf' = rowOf
      BY <2>3 DEF Minted
    <3>3. keyRow'[k] = seen[t] /\ issuedFor'[k] = op[t].name
      BY <2>3 DEF Minted, TypeOK
    <3>4. \A j \in Keys \ {k} : keyRow'[j] = keyRow[j]
      BY <2>3 DEF Minted, TypeOK
    <3> QED
      BY <1>5, <2>0, <3>1, <3>2, <3>3, <3>4 DEF KeyTrue
  <2> QED
    BY <2>1, <2>2, <2>3, DbSteps DEF DbStep, db, Registered, Aliased, RevokedNow
<1>7. ASSUME NEW u \in Tasks PROVE RowTrue(snap[u].row)' /\ KeyTrue(snap[u].keyRow)'
  <2>1. snap[u].row \in [Names -> Rows] /\ snap[u].keyRow \in [Keys -> Rows]
    BY DEF SnapTypeOK
  <2>2. RowTrue(snap[u].row) /\ KeyTrue(snap[u].keyRow)
    BY DEF IdsTrue
  <2>3. ASSUME NEW f \in [Names -> Rows], RowTrue(f)
        PROVE \A n \in Names : f[n] # 0 => f[n] <= rows' /\ rowOf'[f[n]] = n
    BY <1>1, <2>3 DEF RowTrue
  <2>4. /\ snap'[u].row \in {snap[u].row, row, [n \in Names |-> 0]}
        /\ snap'[u].keyRow \in {snap[u].keyRow, keyRow, [k \in Keys |-> 0]}
    <3> DEFINE Known == /\ snap'[u].row \in {snap[u].row, row, NoSnap.row}
                        /\ snap'[u].keyRow \in {snap[u].keyRow, keyRow, NoSnap.keyRow}
    <3>0. snap[u] = [row |-> snap[u].row, keyRow |-> snap[u].keyRow, revoked |-> snap[u].revoked,
                     alias |-> snap[u].alias]
      BY DEF SnapTypeOK
    <3>1. ASSUME NEW t \in Tasks, snap' = [snap EXCEPT ![t].row = row] PROVE Known
      BY <3>0, <3>1 DEF SnapTypeOK
    <3>2. ASSUME NEW t \in Tasks, snap' = [snap EXCEPT ![t].keyRow = keyRow, ![t].revoked = revoked] PROVE Known
      <4>1. snap' = [snap EXCEPT ![t] = [snap[t] EXCEPT !.keyRow = keyRow, !.revoked = revoked]]
        BY <3>2
      <4>2. CASE u = t
        <5>1. snap'[u] = [snap[u] EXCEPT !.keyRow = keyRow, !.revoked = revoked]
          BY <4>1, <4>2 DEF SnapTypeOK
        <5> QED
          BY <3>0, <5>1
      <4>3. CASE u # t
        BY <4>1, <4>3 DEF SnapTypeOK
      <4> QED
        BY <4>2, <4>3
    <3>3. ASSUME NEW t \in Tasks, snap' = [snap EXCEPT ![t].alias = alias] PROVE Known
      BY <3>0, <3>3 DEF SnapTypeOK
    <3>4. ASSUME NEW t \in Tasks, snap' = [snap EXCEPT ![t] = NoSnap] PROVE Known
      BY <3>4 DEF SnapTypeOK
    <3>5. Known
      <4> HIDE DEF Known
      <4>1. CASE UNCHANGED snap
        BY <4>1 DEF Known
      <4> QED
        BY <3>1, <3>2, <3>3, <3>4, <4>1, RefreshSteps DEF SnapStep
    <3> QED
      BY <3>5 DEF NoSnap
  <2>5. row \in [Names -> Rows] /\ RowTrue(row) /\ keyRow \in [Keys -> Rows] /\ KeyTrue(keyRow)
    BY DEF TypeOK, IdsTrue
  <2>6. RowTrue(snap[u].row)'
    BY <2>1, <2>2, <2>3, <2>4, <2>5 DEF RowTrue
  <2>7. KeyTrue(snap[u].keyRow)'
    BY <1>5, <2>1, <2>2, <2>4, <2>5 DEF KeyTrue
  <2> QED
    BY <2>6, <2>7
<1> QED
  BY <1>0, <1>3, <1>4, <1>6, <1>7 DEF IdsTrue

\* A key whose row is known was issued for a consumer's name.
LEMMA Issued ==
    ASSUME TypeOK, IdsTrue, NEW f \in [Keys -> Rows], KeyTrue(f), NEW k \in Keys, f[k] # 0
    PROVE  issuedFor[k] \in Names /\ rowOf[f[k]] = issuedFor[k]
  BY DEF IdsTrue, KeyTrue, Rows, TypeOK

\* The foreign key holds: rows take the keys along.
LEMMA KeysHaveRowsStep ==
    ASSUME TypeOK, SnapTypeOK, HandlersTrue, IdsTrue, KeysHaveRows, [Next]_vars
    PROVE  KeysHaveRows'
<1>0. keyRow \in [Keys -> Rows] /\ KeyTrue(keyRow)
  BY DEF TypeOK, IdsTrue
<1>1. CASE UNCHANGED <<row, keyRow, issuedFor>>
  BY <1>1 DEF KeysHaveRows
<1>2. ASSUME NEW n \in Names, Registered(n) PROVE KeysHaveRows'
  <2>1. ASSUME NEW k \in Keys, keyRow[k] # 0 PROVE row'[issuedFor[k]] = keyRow[k]
    BY <1>0, <1>2, <2>1, Issued DEF Registered, KeysHaveRows, TypeOK
  <2> QED
    BY <1>2, <2>1 DEF Registered, KeysHaveRows
<1>3. ASSUME NEW n \in Names, Removed(n) PROVE KeysHaveRows'
  <2>1. ASSUME NEW k \in Keys, keyRow'[k] # 0 PROVE row'[issuedFor[k]] = keyRow'[k]
    <3>1. keyRow'[k] = keyRow[k] /\ keyRow[k] # row[n]
      BY <1>3, <2>1 DEF Removed
    <3>2. row[issuedFor[k]] = keyRow[k] /\ issuedFor[k] \in Names
      BY <1>0, <2>1, <3>1, Issued DEF KeysHaveRows
    <3> QED
      BY <1>3, <3>1, <3>2 DEF Removed, TypeOK
  <2> QED
    BY <1>3, <2>1 DEF Removed, KeysHaveRows
<1>4. ASSUME NEW t \in Tasks, NEW k \in Keys, Minted(t, k) PROVE KeysHaveRows'
  <2>1. PICK n \in Names : row[n] = seen[t]
    BY <1>4 DEF Minted
  <2>2. seen[t] # 0 /\ rowOf[seen[t]] = op[t].name
    BY <1>4 DEF Minted, HandlersTrue
  <2>3. n = op[t].name
    BY <2>1, <2>2 DEF IdsTrue, RowTrue
  <2>4. keyRow'[k] = seen[t] /\ issuedFor'[k] = n /\ row' = row
    BY <1>4, <2>3 DEF Minted, TypeOK
  <2>5. \A j \in Keys \ {k} : keyRow'[j] = keyRow[j] /\ issuedFor'[j] = issuedFor[j]
    BY <1>4 DEF Minted, TypeOK
  <2> QED
    BY <2>1, <2>4, <2>5 DEF KeysHaveRows
<1> QED
  BY <1>1, <1>2, <1>3, <1>4, DbSteps DEF DbStep, db, Aliased, RevokedNow

\* Nobody but the consumer a key was issued for is ever authenticated by it.
LEMMA KeyNeverMovesStep ==
    ASSUME TypeOK, SnapTypeOK, HandlersTrue, IdsTrue, KeyNeverMoves, [Next]_vars
    PROVE  KeyNeverMoves'
<1>1. CASE UNCHANGED cfg
  <2>1. SUFFICES ASSUME NEW k \in Keys, NEW n \in Names, consumers[n] # None, k \in consumers[n]
        PROVE  n = issuedFor'[k]
    BY <1>1 DEF cfg, KeyNeverMoves, AuthenticatesAs
  <2>2. n = issuedFor[k]
    BY <2>1 DEF KeyNeverMoves, AuthenticatesAs
  <2> QED
    BY <2>2, DbTypes DEF Grown
<1>2. ASSUME NEW t \in Tasks, consumers' = [n \in Names |-> KeysOf(snap[t], n)] PROVE KeyNeverMoves'
  <2>1. SUFFICES ASSUME NEW k \in Keys, NEW n \in Names, consumers'[n] # None, k \in consumers'[n]
        PROVE  n = issuedFor'[k]
    BY DEF KeyNeverMoves, AuthenticatesAs
  <2>2. snap[t].row[n] # 0 /\ snap[t].keyRow[k] = snap[t].row[n]
    BY <1>2, <2>1 DEF KeysOf
  <2>3. rowOf[snap[t].row[n]] = n
    BY <2>2 DEF IdsTrue, RowTrue
  <2>4. n = issuedFor[k]
    BY <2>2, <2>3 DEF IdsTrue, KeyTrue
  <2> QED
    BY <2>4, DbTypes DEF Grown
<1> QED
  BY <1>1, <1>2, RefreshSteps DEF CfgStep

(* ------------------------ one handler at a time -------------------------- *)

\* With one handler at a time, whoever takes a step is the only one under way, also after it.
LEMMA AloneStep ==
    ASSUME TypeOK, SnapTypeOK, HandlersTrue, Single, Alone,
           NEW t \in Tasks, Handle(t) \/ \E o \in Ops : Begin(t, o)
    PROVE  \A u \in Tasks \ {t} : pc[u] = "idle" /\ pc'[u] = "idle"
<1>1. Frame(t)
  BY OwnSteps DEF Own
<1>2. CASE Handle(t)
  <2>1. pc[t] # "idle"
    BY <1>2 DEF Handle, At, CheckAliased, InsertConsumer, DeleteConsumer, FindConsumer, FindAgain, MintKey,
        RevokeKey, CheckShadows, CheckKnown, CheckChained, Link, Unlink, ReadConsumers, ReadKeys, ReadAliases,
        RefreshFails, Project, Finish
  <2> QED
    BY <1>1, <2>1 DEF Alone, Frame
<1>3. ASSUME NEW o \in Ops, Begin(t, o) PROVE \A u \in Tasks \ {t} : pc[u] = "idle"
  <2> DEFINE Busy == {u \in Tasks : ~At(u, "idle")}
  <2>1. IsFiniteSet(Busy)
    BY FS_Subset DEF RegistryAssumption
  <2>2. Cardinality(Busy) \in Nat /\ Cardinality(Busy) < 1
    BY <1>3, <2>1, FS_CardinalityType DEF Begin, Single
  <2>3. Busy = {}
    <3> HIDE DEF Busy
    <3> QED
      BY <2>1, <2>2, FS_EmptySet
  <2> QED
    BY <2>3 DEF At
<1> QED
  BY <1>1, <1>2, <1>3 DEF Frame

SnapCurrentOf(t) ==
    /\ pc[t] \in {"keys", "aliases", "project"} => snap[t].row = row
    /\ pc[t] \in {"aliases", "project"} => snap[t].keyRow = keyRow /\ snap[t].revoked = revoked
    /\ pc[t] = "project" => snap[t].alias = alias
GuardsHoldFor(t) ==
    /\ pc[t] = "insert" => alias[op[t].name] = None
    /\ pc[t] \in {"known", "chained", "link"} => row[op[t].name] = 0

\* What a refresh has read is what the tables hold.
LEMMA SnapOwn ==
    ASSUME NEW t \in Tasks, Handle(t) \/ \E o \in Ops : Begin(t, o),
           TypeOK, SnapTypeOK, SnapCurrent
    PROVE  SnapCurrentOf(t)'
<1>1. CASE CheckAliased(t)
  BY <1>1 DEF CheckAliased, To, Refused, TypeOK, SnapCurrentOf
<1>2. CASE InsertConsumer(t)
  BY <1>2 DEF InsertConsumer, To, Written, WriteFails, TypeOK, SnapCurrentOf
<1>3. CASE DeleteConsumer(t)
  BY <1>3 DEF DeleteConsumer, To, Refused, Written, WriteFails, TypeOK, SnapCurrentOf
<1>4. CASE FindConsumer(t)
  BY <1>4 DEF FindConsumer, To, Refused, TypeOK, SnapCurrentOf
<1>5. CASE FindAgain(t)
  BY <1>5 DEF FindAgain, To, TypeOK, SnapCurrentOf
<1>6. CASE MintKey(t)
  BY <1>6 DEF MintKey, To, Written, WriteFails, TypeOK, SnapCurrentOf
<1>7. CASE RevokeKey(t)
  BY <1>7 DEF RevokeKey, To, Refused, Written, WriteFails, TypeOK, SnapCurrentOf
<1>8. CASE CheckShadows(t)
  BY <1>8 DEF CheckShadows, To, Refused, TypeOK, SnapCurrentOf
<1>9. CASE CheckKnown(t)
  BY <1>9 DEF CheckKnown, To, Refused, Target, TypeOK, SnapCurrentOf
<1>10. CASE CheckChained(t)
  BY <1>10 DEF CheckChained, To, Refused, Target, TypeOK, SnapCurrentOf
<1>11. CASE Link(t)
  BY <1>11 DEF Link, To, Written, WriteFails, Target, TypeOK, SnapCurrentOf
<1>12. CASE Unlink(t)
  BY <1>12 DEF Unlink, To, Written, WriteFails, TypeOK, SnapCurrentOf
<1>13. CASE ReadConsumers(t)
  BY <1>13 DEF ReadConsumers, At, To, db, TypeOK, SnapTypeOK, SnapCurrent, SnapCurrentOf
<1>14. CASE ReadKeys(t)
  <2>1. snap' = [snap EXCEPT ![t] = [snap[t] EXCEPT !.keyRow = keyRow, !.revoked = revoked]]
    BY <1>14 DEF ReadKeys
  <2>2. snap'[t] = [snap[t] EXCEPT !.keyRow = keyRow, !.revoked = revoked]
    BY <2>1 DEF SnapTypeOK
  <2>3. snap[t] = [row |-> snap[t].row, keyRow |-> snap[t].keyRow, revoked |-> snap[t].revoked,
                   alias |-> snap[t].alias]
    BY DEF SnapTypeOK
  <2>4. snap'[t].row = snap[t].row /\ snap'[t].keyRow = keyRow /\ snap'[t].revoked = revoked
    BY <2>2, <2>3
  <2> QED
    BY <1>14, <2>4 DEF ReadKeys, At, To, db, TypeOK, SnapCurrent, SnapCurrentOf
<1>15. CASE ReadAliases(t)
  BY <1>15 DEF ReadAliases, At, To, db, TypeOK, SnapTypeOK, SnapCurrent, SnapCurrentOf
<1>16. CASE RefreshFails(t)
  <2>1. pc'[t] \in {"again", "done"}
    BY <1>16 DEF RefreshFails, To, AfterRefresh, TypeOK
  <2> QED
    BY <2>1 DEF SnapCurrentOf
<1>17. CASE Project(t)
  <2>1. pc'[t] \in {"again", "done"}
    BY <1>17 DEF Project, To, AfterRefresh, TypeOK
  <2> QED
    BY <2>1 DEF SnapCurrentOf
<1>18. CASE Finish(t)
  BY <1>18 DEF Finish, To, TypeOK, SnapCurrentOf
<1>19. ASSUME NEW o \in Ops, Begin(t, o) PROVE SnapCurrentOf(t)'
  <2>1. o.kind \in {"add", "remove", "issue", "revoke", "alias", "unalias"}
    BY DEF Ops
  <2> QED
    BY <1>19, <2>1 DEF Begin, To, TypeOK, SnapCurrentOf
<1> QED
  BY <1>1, <1>2, <1>3, <1>4, <1>5, <1>6, <1>7, <1>8, <1>9, <1>10, <1>11, <1>12, <1>13, <1>14, <1>15, <1>16,
      <1>17, <1>18, <1>19 DEF Handle

\* What a guard has read holds until the write.
LEMMA GuardsOwn ==
    ASSUME NEW t \in Tasks, Handle(t) \/ \E o \in Ops : Begin(t, o),
           TypeOK, Calm, GuardsHold
    PROVE  GuardsHoldFor(t)'
<1>1. CASE CheckAliased(t)
  BY <1>1 DEF CheckAliased, To, Name, db, ReadFails, Calm, TypeOK, Refused, GuardsHoldFor
<1>2. CASE InsertConsumer(t)
  BY <1>2 DEF InsertConsumer, To, Written, WriteFails, TypeOK, GuardsHoldFor
<1>3. CASE DeleteConsumer(t)
  BY <1>3 DEF DeleteConsumer, To, Refused, Written, WriteFails, TypeOK, GuardsHoldFor
<1>4. CASE FindConsumer(t)
  BY <1>4 DEF FindConsumer, To, Refused, TypeOK, GuardsHoldFor
<1>5. CASE FindAgain(t)
  BY <1>5 DEF FindAgain, To, TypeOK, GuardsHoldFor
<1>6. CASE MintKey(t)
  BY <1>6 DEF MintKey, To, Written, WriteFails, TypeOK, GuardsHoldFor
<1>7. CASE RevokeKey(t)
  BY <1>7 DEF RevokeKey, To, Refused, Written, WriteFails, TypeOK, GuardsHoldFor
<1>8. CASE CheckShadows(t)
  BY <1>8 DEF CheckShadows, To, Name, db, ReadFails, Calm, TypeOK, Refused, GuardsHoldFor
<1>9. CASE CheckKnown(t)
  BY <1>9 DEF CheckKnown, At, To, Name, db, TypeOK, Refused, GuardsHold, GuardsHoldFor
<1>10. CASE CheckChained(t)
  BY <1>10 DEF CheckChained, At, To, Name, db, TypeOK, Refused, GuardsHold, GuardsHoldFor
<1>11. CASE Link(t)
  BY <1>11 DEF Link, To, Written, WriteFails, Target, TypeOK, GuardsHoldFor
<1>12. CASE Unlink(t)
  BY <1>12 DEF Unlink, To, Written, WriteFails, TypeOK, GuardsHoldFor
<1>13. CASE ReadConsumers(t)
  BY <1>13 DEF ReadConsumers, To, TypeOK, GuardsHoldFor
<1>14. CASE ReadKeys(t)
  BY <1>14 DEF ReadKeys, To, TypeOK, GuardsHoldFor
<1>15. CASE ReadAliases(t)
  BY <1>15 DEF ReadAliases, To, TypeOK, GuardsHoldFor
<1>16. CASE RefreshFails(t)
  <2>1. pc'[t] \in {"again", "done"}
    BY <1>16 DEF RefreshFails, To, AfterRefresh, TypeOK
  <2> QED
    BY <2>1 DEF GuardsHoldFor
<1>17. CASE Project(t)
  <2>1. pc'[t] \in {"again", "done"}
    BY <1>17 DEF Project, To, AfterRefresh, TypeOK
  <2> QED
    BY <2>1 DEF GuardsHoldFor
<1>18. CASE Finish(t)
  BY <1>18 DEF Finish, To, TypeOK, GuardsHoldFor
<1>19. ASSUME NEW o \in Ops, Begin(t, o) PROVE GuardsHoldFor(t)'
  <2>1. o.kind \in {"add", "remove", "issue", "revoke", "alias", "unalias"}
    BY DEF Ops
  <2> QED
    BY <1>19, <2>1 DEF Begin, To, TypeOK, GuardsHoldFor
<1> QED
  BY <1>1, <1>2, <1>3, <1>4, <1>5, <1>6, <1>7, <1>8, <1>9, <1>10, <1>11, <1>12, <1>13, <1>14, <1>15, <1>16,
      <1>17, <1>18, <1>19 DEF Handle

\* The two halves of the invariant that are about one handler at a time.
SingleInv == Single => Alone /\ SnapCurrent

\* Nobody comes between the reads of a refresh.
LEMMA SingleStep ==
    ASSUME TypeOK, SnapTypeOK, HandlersTrue, SingleInv, [Next]_vars
    PROVE  SingleInv'
<1>1. CASE UNCHANGED vars
  BY <1>1 DEF vars, db, cfg, SingleInv, Single, Alone, SnapCurrent
<1>2. ASSUME NEW t \in Tasks, Handle(t) \/ \E o \in Ops : Begin(t, o) PROVE SingleInv'
  <2>1. SUFFICES ASSUME Single PROVE Alone' /\ SnapCurrent'
    BY SceneStays DEF SingleInv, Single
  <2>2. \A u \in Tasks \ {t} : pc'[u] = "idle"
    BY <1>2, <2>1, AloneStep DEF SingleInv
  <2>3. SnapCurrentOf(t)'
    BY <1>2, <2>1, SnapOwn DEF SingleInv
  <2>4. Alone'
    BY <2>2 DEF Alone
  <2>5. SnapCurrent'
    BY <2>2, <2>3 DEF SnapCurrent, SnapCurrentOf
  <2> QED
    BY <2>4, <2>5
<1> QED
  BY <1>1, <1>2 DEF Next

CalmInv == Calm => GuardsHold /\ Shadowless /\ (~Refreshing => Current)

\* Without faults no alias is put on a consumer's name, and no consumer on an alias's.
LEMMA ShadowStep ==
    ASSUME TypeOK, HandlersTrue, GuardsHold, Shadowless,
           NEW t \in Tasks, Handle(t) \/ \E o \in Ops : Begin(t, o)
    PROVE  Shadowless'
<1>1. CASE InsertConsumer(t)
  <2>1. op[t].name \in Names /\ alias[op[t].name] = None
    BY <1>1, OpsNamed DEF InsertConsumer, At, HandlersTrue, GuardsHold
  <2> QED
    BY <1>1, <2>1 DEF InsertConsumer, Name, WriteFails, db, TypeOK, Shadowless
<1>2. CASE DeleteConsumer(t)
  BY <1>2 DEF DeleteConsumer, WriteFails, db, TypeOK, Shadowless
<1>3. CASE Link(t)
  <2>1. op[t].name \in Names /\ row[op[t].name] = 0
    BY <1>3, OpsNamed DEF Link, At, HandlersTrue, GuardsHold
  <2> QED
    BY <1>3, <2>1 DEF Link, Name, WriteFails, db, TypeOK, Shadowless
<1>4. CASE Unlink(t)
  BY <1>4 DEF Unlink, WriteFails, db, TypeOK, Shadowless
<1>5. CASE UNCHANGED <<row, alias>>
  BY <1>5 DEF Shadowless
<1>6. CASE MintKey(t) \/ RevokeKey(t)
  BY <1>5, <1>6 DEF MintKey, RevokeKey, WriteFails, db
<1> QED
  BY <1>1, <1>2, <1>3, <1>4, <1>5, <1>6 DEF Handle, db, Begin, CheckAliased, FindConsumer, FindAgain,
      CheckShadows, CheckKnown, CheckChained, ReadConsumers, ReadKeys, ReadAliases, RefreshFails, Project,
      Finish

\* A refresh is under way.
Projecting == {"consumers", "keys", "aliases", "project"}

\* What was written is projected before the handler answers.
LEMMA CurrentOwn ==
    ASSUME NEW t \in Tasks, Handle(t) \/ \E o \in Ops : Begin(t, o),
           TypeOK, SnapTypeOK, Calm, SnapCurrent, pc[t] \notin Projecting => Current
    PROVE  pc'[t] \notin Projecting => Current'
<1>1. CASE CheckAliased(t)
  BY <1>1 DEF CheckAliased, At, db, cfg, Current, KeysOf, Projecting
<1>2. CASE InsertConsumer(t)
  <2>1. CASE To(t, "consumers")
    BY <2>1 DEF To, TypeOK, Projecting
  <2>2. CASE UNCHANGED <<db, cfg>> /\ pc[t] \notin Projecting
    BY <2>2 DEF db, cfg, Current, KeysOf
  <2> QED
    BY <1>2, <2>1, <2>2 DEF InsertConsumer, At, Written, WriteFails, ReadFails, Calm, Projecting
<1>3. CASE DeleteConsumer(t)
  <2>1. CASE To(t, "consumers")
    BY <2>1 DEF To, TypeOK, Projecting
  <2>2. CASE UNCHANGED <<db, cfg>> /\ pc[t] \notin Projecting
    BY <2>2 DEF db, cfg, Current, KeysOf
  <2> QED
    BY <1>3, <2>1, <2>2 DEF DeleteConsumer, At, Refused, Written, WriteFails, ReadFails, Calm, Projecting
<1>4. CASE FindConsumer(t)
  BY <1>4 DEF FindConsumer, At, db, cfg, Current, KeysOf, Projecting
<1>5. CASE FindAgain(t)
  BY <1>5 DEF FindAgain, At, db, cfg, Current, KeysOf, Projecting
<1>6. CASE MintKey(t)
  <2>1. CASE To(t, "consumers")
    BY <2>1 DEF To, TypeOK, Projecting
  <2>2. CASE UNCHANGED <<db, cfg>> /\ pc[t] \notin Projecting
    BY <2>2 DEF db, cfg, Current, KeysOf
  <2> QED
    BY <1>6, <2>1, <2>2 DEF MintKey, At, Written, WriteFails, ReadFails, Calm, Projecting
<1>7. CASE RevokeKey(t)
  <2>1. CASE To(t, "consumers")
    BY <2>1 DEF To, TypeOK, Projecting
  <2>2. CASE UNCHANGED <<db, cfg>> /\ pc[t] \notin Projecting
    BY <2>2 DEF db, cfg, Current, KeysOf
  <2> QED
    BY <1>7, <2>1, <2>2 DEF RevokeKey, At, Refused, Written, WriteFails, ReadFails, Calm, Projecting
<1>8. CASE CheckShadows(t)
  BY <1>8 DEF CheckShadows, At, db, cfg, Current, KeysOf, Projecting
<1>9. CASE CheckKnown(t)
  BY <1>9 DEF CheckKnown, At, db, cfg, Current, KeysOf, Projecting
<1>10. CASE CheckChained(t)
  BY <1>10 DEF CheckChained, At, db, cfg, Current, KeysOf, Projecting
<1>11. CASE Link(t)
  <2>1. CASE To(t, "consumers")
    BY <2>1 DEF To, TypeOK, Projecting
  <2>2. CASE UNCHANGED <<db, cfg>> /\ pc[t] \notin Projecting
    BY <2>2 DEF db, cfg, Current, KeysOf
  <2> QED
    BY <1>11, <2>1, <2>2 DEF Link, At, Written, WriteFails, Target, ReadFails, Calm, Projecting
<1>12. CASE Unlink(t)
  <2>1. CASE To(t, "consumers")
    BY <2>1 DEF To, TypeOK, Projecting
  <2>2. CASE UNCHANGED <<db, cfg>> /\ pc[t] \notin Projecting
    BY <2>2 DEF db, cfg, Current, KeysOf
  <2> QED
    BY <1>12, <2>1, <2>2 DEF Unlink, At, Written, WriteFails, ReadFails, Calm, Projecting
<1>13. CASE ReadConsumers(t)
  BY <1>13 DEF ReadConsumers, To, TypeOK, Projecting
<1>14. CASE ReadKeys(t)
  BY <1>14 DEF ReadKeys, To, TypeOK, Projecting
<1>15. CASE ReadAliases(t)
  BY <1>15 DEF ReadAliases, To, TypeOK, Projecting
<1>16. CASE RefreshFails(t)
  BY <1>16 DEF RefreshFails, ReadFails, Calm
<1>17. CASE Project(t)
  <2>1. /\ snap[t].row = row /\ snap[t].keyRow = keyRow /\ snap[t].revoked = revoked
        /\ snap[t].alias = alias
    BY <1>17 DEF Project, At, SnapCurrent
  <2> QED
    BY <1>17, <2>1 DEF Project, db, Current, KeysOf
<1>18. CASE Finish(t)
  BY <1>18 DEF Finish, At, db, cfg, Current, KeysOf, Projecting
<1>19. ASSUME NEW o \in Ops, Begin(t, o) PROVE pc'[t] \notin Projecting => Current'
  BY <1>19 DEF Begin, At, db, cfg, Current, KeysOf, Projecting
<1> QED
  BY <1>1, <1>2, <1>3, <1>4, <1>5, <1>6, <1>7, <1>8, <1>9, <1>10, <1>11, <1>12, <1>13, <1>14, <1>15, <1>16,
      <1>17, <1>18, <1>19 DEF Handle

\* Without faults guards and projection stay true.
LEMMA CalmStep ==
    ASSUME TypeOK, SnapTypeOK, HandlersTrue, SingleInv, CalmInv, [Next]_vars
    PROVE  CalmInv'
<1>1. CASE UNCHANGED vars
  BY <1>1 DEF vars, db, cfg, CalmInv, Calm, Single, GuardsHold, Shadowless, Refreshing, Current, KeysOf
<1>2. ASSUME NEW t \in Tasks, Handle(t) \/ \E o \in Ops : Begin(t, o) PROVE CalmInv'
  <2>1. SUFFICES ASSUME Calm PROVE GuardsHold' /\ Shadowless' /\ (~Refreshing => Current)'
    BY SceneStays DEF CalmInv, Calm, Single
  <2>2. \A u \in Tasks \ {t} : pc[u] = "idle" /\ pc'[u] = "idle"
    BY <1>2, <2>1, AloneStep DEF SingleInv, Calm
  <2>3. Shadowless'
    BY <1>2, <2>1, ShadowStep DEF CalmInv
  <2>4. GuardsHoldFor(t)'
    BY <1>2, <2>1, GuardsOwn DEF CalmInv
  <2>5. GuardsHold'
    BY <2>2, <2>4 DEF GuardsHold, GuardsHoldFor
  <2>6. pc[t] \notin Projecting => Current
    BY <2>1, <2>2 DEF CalmInv, Refreshing, Projecting
  <2>7. pc'[t] \notin Projecting => Current'
    BY <1>2, <2>1, <2>6, CurrentOwn DEF SingleInv, Calm
  <2>8. (~Refreshing => Current)'
    BY <2>7 DEF Refreshing, Projecting
  <2> QED
    BY <2>3, <2>5, <2>8
<1> QED
  BY <1>1, <1>2 DEF Next

(* ------------------------------ the theorems ----------------------------- *)

\* The invariant holds at boot.
LEMMA InductiveInit ==
    ASSUME Init
    PROVE  Inductive
<1>1. scene.rows \in Nat
  BY DEF Init
<1>2. TypeOK /\ SnapTypeOK /\ HandlersTrue
  BY <1>1 DEF Init, TypeOK, SnapTypeOK, HandlersTrue, NoSnap, Rows, Steps
<1>3. IdsTrue /\ KeysHaveRows /\ KeyNeverMoves
  BY <1>1 DEF Init, IdsTrue, RowTrue, KeyTrue, KeysHaveRows, KeyNeverMoves, AuthenticatesAs, NoSnap, Rows
<1>4. Alone /\ SnapCurrent /\ GuardsHold /\ Shadowless
  BY DEF Init, Alone, SnapCurrent, GuardsHold, Shadowless
<1>5. Current
  BY DEF Init, Current, KeysOf
<1> QED
  BY <1>2, <1>3, <1>4, <1>5 DEF Inductive

\* Every step keeps the invariant.
LEMMA InductiveStep ==
    ASSUME Inductive, [Next]_vars
    PROVE  Inductive'
<1>1. TypeOK /\ SnapTypeOK /\ HandlersTrue /\ IdsTrue /\ KeysHaveRows /\ KeyNeverMoves /\ SingleInv /\ CalmInv
  BY DEF Inductive, SingleInv, CalmInv
<1>2. TypeOK' /\ SnapTypeOK' /\ HandlersTrue' /\ IdsTrue'
  BY <1>1, TypesStep, HandlersStep, IdsStep
<1>3. KeysHaveRows' /\ KeyNeverMoves'
  BY <1>1, KeysHaveRowsStep, KeyNeverMovesStep
<1>4. SingleInv' /\ CalmInv'
  BY <1>1, SingleStep, CalmStep
<1> QED
  BY <1>2, <1>3, <1>4 DEF Inductive, SingleInv, CalmInv

\* Every state of the registry, whatever handlers run and whatever fails, satisfies the invariant.
THEOREM RegistryInductive == Spec => []Inductive
<1>1. Init => Inductive
  BY InductiveInit
<1>2. Inductive /\ [Next]_vars => Inductive'
  BY InductiveStep
<1> QED
  BY <1>1, <1>2, PTL DEF Spec

\* The registry's invariant (registry.js:154-190, refresh, and the guards of its handlers): no key ever
\* authenticates as another consumer than the one it was issued for; and with one handler at a
\* time and no
\* faults the projection is the database at rest, and no alias takes a registered consumer's calls.
THEOREM RegistryHolds == Spec => []RegistryInv
<1>1. Inductive => RegistryInv
  <2>1. SUFFICES ASSUME Inductive PROVE RegistryInv
    OBVIOUS
  <2>2. NoShadow
    BY <2>1 DEF Inductive, Calm, Single, Shadowless, NoShadow
  <2>3. ASSUME AtRest PROVE ~Refreshing
    BY <2>3 DEF AtRest, Refreshing
  <2>4. ProjectionCurrent
    BY <2>1, <2>3 DEF Inductive, Calm, Single, Current, ProjectionCurrent
  <2> QED
    BY <2>1, <2>2, <2>4 DEF Inductive, RegistryInv
<1> QED
  BY <1>1, RegistryInductive, PTL

\* No fault takes a working key away (refresh keeps the previous projection when a read fails,
\* registry.js:154-165).
LEMMA LiveKeyStep ==
    ASSUME Inductive, [Next]_vars, NEW k \in Keys, Single, AuthenticatesAs(k) # {}, keyRow'[k] # 0, k \notin
        revoked
    PROVE  AuthenticatesAs(k)' # {}
<1>1. CASE UNCHANGED cfg
  BY <1>1 DEF cfg, AuthenticatesAs
<1>2. ASSUME NEW t \in Tasks, Project(t) PROVE AuthenticatesAs(k)' # {}
  <2>1. snap[t].row = row /\ snap[t].keyRow = keyRow /\ snap[t].revoked = revoked
    BY <1>2 DEF Inductive, Project, At, SnapCurrent
  <2>2. keyRow[k] # 0
    BY <1>2 DEF Project, db
  <2>3. keyRow \in [Keys -> Rows] /\ KeyTrue(keyRow) /\ TypeOK /\ IdsTrue
    BY DEF Inductive, TypeOK, IdsTrue
  <2>4. issuedFor[k] \in Names /\ row[issuedFor[k]] = keyRow[k]
    BY <2>2, <2>3, Issued DEF Inductive, KeysHaveRows
  <2>5. consumers'[issuedFor[k]] = KeysOf(snap[t], issuedFor[k])
    BY <1>2, <2>4 DEF Project
  <2>6. KeysOf(snap[t], issuedFor[k]) = {j \in Keys : keyRow[j] = row[issuedFor[k]]} \ revoked
    BY <2>1, <2>2, <2>4 DEF KeysOf
  <2>7. k \in consumers'[issuedFor[k]] /\ k \in KeysOf(snap[t], issuedFor[k])
    BY <2>4, <2>5, <2>6
  <2>8. consumers'[issuedFor[k]] # None
    BY <2>5, <2>6, NoneAssumption
  <2> QED
    BY <2>4, <2>7, <2>8 DEF AuthenticatesAs
<1> QED
  BY <1>1, <1>2 DEF Next, Handle, vars, Begin, CheckAliased, InsertConsumer, DeleteConsumer, FindConsumer,
      FindAgain, MintKey, RevokeKey, CheckShadows, CheckKnown, CheckChained, Link, Unlink, ReadConsumers,
      ReadKeys, ReadAliases, RefreshFails, Finish

\* One handler at a time: a key that works goes on working until it is revoked or deleted, whatever fails
\* (refresh() keeps the previous projection, registry.js:154-165).
THEOREM RegistryLiveKeyKeepsWorking == Spec => LiveKeyKeepsWorking
<1>1. Inductive /\ [Next]_vars => KeysKept
  BY LiveKeyStep DEF Single, KeysKept
<1> QED
  BY <1>1, RegistryInductive, PTL DEF Spec, LiveKeyKeepsWorking
=============================================================================
