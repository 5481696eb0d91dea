---------------------------- MODULE ConfigStore -----------------------------
(***************************************************************************)
(* The configuration and who changes it (config.js, admin.js, accounts.js, *)
(* consumers.js createApp, alert.js).                                      *)
(*                                                                         *)
(* CFG is one object, mutated in place.  Every save writes the whole of it *)
(* to a file that the next boot overlays on the defaults; the same save    *)
(* rebuilds the key index and looks for apps that have come to reach the   *)
(* premium models.  The registry (module Registry) projects its consumers  *)
(* into CFG.  Handlers are one turn of the event loop each, but for        *)
(* createApp, which awaits the catalogs and the registry between its steps.*)
(*                                                                         *)
(* Of CFG are kept: the account pool, the pins under their two names, the  *)
(* rules, the projection of the registry, one switch, and what session     *)
(* signatures are made of.                                                 *)
(***************************************************************************)
EXTENDS Naturals, FiniteSets

CONSTANTS Makers,    \* createApp calls in flight
          Names,     \* names of apps
          Logins,    \* names of accounts
          Tiers,     \* the rules a tier resolves to; no rule, and the tier "any", are None
          Premium,   \* the tiers that reach the premium models
          Scenes,    \* instances: the operations, the rules and pins at the start
          MaxEpoch,  \* bound on the logouts that are counted
          Torn,      \* a file that broke off in the middle
          None

ASSUME ConfigStoreAssumption ==
    /\ None \notin Logins \cup Tiers
    /\ Premium \subseteq Tiers
    /\ MaxEpoch \in Nat \ {0}

VARIABLES
    scene,     \* the instance
    cfg,       \* CFG
    file,      \* CONFIG_FILE: what was saved, None without one
    writable,  \* the volume takes writes
    index,     \* KEY_INDEX: the consumers whose keys are found
    baseline,  \* alert.js: the apps that reached the premium models at the last look
    page,      \* what an open panel has rendered
    db,        \* the registry: consumers that hold a key, and those locked to their clients
    pc,        \* where each createApp is
    req,       \* its request
    prev, had, \* `prev` and `had` of createApp
    dead,      \* signatures that were logged out (history)
    strayed    \* a boot found another configuration than the one before it had (history)

makers == <<pc, req, prev, had>>
store == <<file, index, baseline>>
vars == <<scene, cfg, store, writable, page, db, makers, dead, strayed>>

Rules == Tiers \cup {None}
Maps == [Names -> Rules]
Pins == [Names -> Logins \cup {None}]
NoPins == [n \in Names |-> None]
NoRules == [n \in Names |-> None]
Requests == [name : Names, rule : Rules, account : Logins \cup {None}, lock : BOOLEAN]

\* pins and oldPins are projectAccounts and its legacy name; shared, that both are one object.
Cfgs == [pool : SUBSET Logins, pins : Pins, oldPins : Pins, shared : BOOLEAN, routes : Maps,
         consumers : SUBSET Names, locked : SUBSET Names, required : BOOLEAN,
         password : {"env", "new"}, epoch : 1..MaxEpoch]

\* The scenes begin with maps of the apps, and files are told from their absence.
ASSUME ScenesAssumption == \A s \in Scenes : s.routes \subseteq Maps /\ s.pins \subseteq Pins
ASSUME FilesAssumption == None \notin Cfgs /\ Torn \notin Cfgs /\ None \notin Requests

TypeOK ==
    /\ scene \in Scenes
    /\ cfg \in Cfgs /\ file \in Cfgs \cup {None, Torn} /\ writable \in BOOLEAN
    /\ index \subseteq Names /\ baseline \subseteq Names
    /\ page \in [pins : Pins, routes : Maps]
    /\ db \in [keyed : SUBSET Names, locked : SUBSET Names]
    /\ pc \in [Makers -> {"idle", "catalog", "issuing", "locking", "made", "failed"}]
    /\ req \in [Makers -> Requests \cup {None}]
    /\ prev \in [Makers -> Maps] /\ had \in [Makers -> BOOLEAN]
    /\ dead \subseteq {"env", "new"} \X (1..MaxEpoch) /\ strayed \in BOOLEAN

-----------------------------------------------------------------------------
(* config.js. *)

\* envDefaults: the pool of the environment, and nobody pinned, ruled or registered.
Env == [pool |-> Logins, pins |-> NoPins, oldPins |-> NoPins, shared |-> FALSE, routes |-> NoRules,
        consumers |-> {}, locked |-> {}, required |-> FALSE, password |-> "env", epoch |-> 1]

\* The two names of the pins become one; the new name wins.  Without a pin the defaults stay.
Union(c) == [n \in Names |-> IF c.pins[n] # None THEN c.pins[n] ELSE c.oldPins[n]]

\* mergeConfig: a saved configuration over the defaults.
MergeConfig(c) == [c EXCEPT !.pins = Union(c), !.oldPins = Union(c), !.shared = Union(c) # NoPins]

\* reindexKeys: the keys of the consumers of CFG.
KeysOf(c) == c.consumers

\* premiumApps: apps without a rule, or whose rule leaves a premium model.
PremiumApps(c) == {n \in c.consumers : c.routes[n] \in Premium \cup {None}}

\* Defect: the apps are compared before the new configuration is in force.
DefectPersist(c) ==
    IF writable THEN file' = c /\ index' = KeysOf(c) /\ baseline' = PremiumApps(cfg)
    ELSE UNCHANGED <<file, index, baseline>>

\* persistConfig: the file, the index, and a look for premium apps; none of them when the
\* write fails.
Persist(c) ==
    IF writable THEN file' = c /\ index' = KeysOf(c) /\ baseline' = PremiumApps(c)
    ELSE UNCHANGED <<file, index, baseline>>

Save(c) == cfg' = c /\ Persist(c)

\* registry.js refresh: the projection, saved; the index is rebuilt even when the write fails.
Project(c, d) ==
    LET next == [c EXCEPT !.consumers = d.keyed, !.locked = d.locked] IN
    /\ cfg' = next
    /\ IF writable THEN Persist(next) ELSE index' = KeysOf(next) /\ UNCHANGED <<file, baseline>>

Init ==
    /\ scene \in Scenes
    /\ \E routes \in scene.routes, pins \in scene.pins :
          cfg = [Env EXCEPT !.routes = routes, !.pins = pins, !.oldPins = pins, !.shared = pins # NoPins]
    /\ file = cfg /\ writable = TRUE
    /\ index = {} /\ baseline = {}
    /\ page = [pins |-> cfg.pins, routes |-> cfg.routes]
    /\ db = [keyed |-> {}, locked |-> {}]
    /\ pc = [m \in Makers |-> "idle"]
    /\ req = [m \in Makers |-> None]
    /\ prev = [m \in Makers |-> NoRules]
    /\ had = [m \in Makers |-> FALSE]
    /\ dead = {} /\ strayed = FALSE

-----------------------------------------------------------------------------
May(op) == op \in scene.ops

\* What the signature of a session cookie is keyed with.
Signature(c) == <<c.password, c.epoch>>

(* The control surface, one turn of the event loop each. *)

\* POST logout: the epoch is the revocation.
Logout ==
    /\ May("logout") /\ cfg.epoch < MaxEpoch
    /\ dead' = dead \cup {Signature(cfg)}
    /\ Save([cfg EXCEPT !.epoch = @ + 1])
    /\ UNCHANGED <<scene, writable, page, db, makers, strayed>>

\* The panel loads the state it will edit.
Render ==
    /\ May("config")
    /\ page' = [pins |-> cfg.pins, routes |-> cfg.routes]
    /\ UNCHANGED <<scene, cfg, store, writable, db, makers, dead, strayed>>

\* POST config: the maps of the page, one entry edited, take the place of those in force; a
\* field that is not in the patch stays.
SaveConfig ==
    /\ May("config")
    /\ \E n \in Names :
          \/ \E r \in Rules : Save(MergeConfig([cfg EXCEPT !.routes = [page.routes EXCEPT ![n] = r]]))
          \/ \E a \in Logins \cup {None} :
                Save(MergeConfig([cfg EXCEPT !.pins = [page.pins EXCEPT ![n] = a], !.shared = FALSE]))
          \/ Save(MergeConfig([cfg EXCEPT !.password = "new"]))
    /\ UNCHANGED <<scene, writable, page, db, makers, dead, strayed>>

\* Defect: everything goes back to the environment.
DefectReset ==
    /\ May("reset")
    /\ cfg' = Env /\ file' = None /\ index' = KeysOf(cfg')
    /\ UNCHANGED <<scene, baseline, writable, page, db, makers, dead, strayed>>

\* POST reset: the file goes, the defaults come back; the epoch is carried in memory.
Reset ==
    /\ May("reset")
    /\ cfg' = [Env EXCEPT !.epoch = cfg.epoch]
    /\ file' = IF writable THEN None ELSE file
    /\ index' = KeysOf(cfg')
    /\ UNCHANGED <<scene, baseline, writable, page, db, makers, dead, strayed>>

\* Defect: the pin is saved under its new name only.
DefectSetPin(n, a) ==
    /\ May("pin") /\ (a # None => a \in cfg.pool)
    /\ Save([cfg EXCEPT !.pins[n] = a, !.shared = FALSE])
    /\ UNCHANGED <<scene, writable, page, db, makers, dead, strayed>>

\* POST pins: one pin, under both names; an account that is not in the pool is refused.
SetPin(n, a) ==
    /\ May("pin") /\ (a # None => a \in cfg.pool)
    /\ LET pins == [cfg.pins EXCEPT ![n] = a] IN
       Save([cfg EXCEPT !.pins = pins, !.oldPins = pins, !.shared = TRUE])
    /\ UNCHANGED <<scene, writable, page, db, makers, dead, strayed>>

\* POST routes: one rule, or none.
SetRoute(n, r) ==
    /\ May(IF r = None THEN "clear" ELSE "route")
    /\ Save([cfg EXCEPT !.routes[n] = r])
    /\ UNCHANGED <<scene, writable, page, db, makers, dead, strayed>>

\* POST auth, strategy, enforce: one switch.
SetMode(b) ==
    /\ May("mode")
    /\ Save([cfg EXCEPT !.required = b])
    /\ UNCHANGED <<scene, writable, page, db, makers, dead, strayed>>

\* removeAccount: refused while a project pins the account, unless forced; then the pins go
\* from the object that projectAccounts is.
RemoveAccount(a, force) ==
    /\ May(IF force THEN "force" ELSE "remove") /\ a \in cfg.pool
    /\ LET pinned == {n \in Names : cfg.pins[n] = a}
           left == [n \in Names |-> IF n \in pinned THEN None ELSE cfg.pins[n]]
       IN /\ pinned # {} => force
          /\ Save([cfg EXCEPT !.pool = @ \ {a}, !.pins = left,
                              !.oldPins = IF cfg.shared THEN left ELSE @])
    /\ UNCHANGED <<scene, writable, page, db, makers, dead, strayed>>

\* accounts/token: an account comes (back) into the pool.
ImportAccount(a) ==
    /\ May("import") /\ a \notin cfg.pool
    /\ Save([cfg EXCEPT !.pool = @ \cup {a}])
    /\ UNCHANGED <<scene, writable, page, db, makers, dead, strayed>>

\* Another write of the registry: a consumer with a key is added or removed.
Register(n) ==
    /\ May("register")
    /\ \E d \in {[db EXCEPT !.keyed = @ \cup {n}], [keyed |-> db.keyed \ {n}, locked |-> db.locked \ {n}]} :
          /\ d # db
          /\ db' = d
          /\ Project(cfg, d)
    /\ UNCHANGED <<scene, writable, page, makers, dead, strayed>>

-----------------------------------------------------------------------------
(* createApp. *)

Name(m) == req[m].name

To(m, p) == pc' = [pc EXCEPT ![m] = p]

\* The request is validated: an account that is not in the pool is refused.  The
\* models of the tier are awaited next.
Ask(m) ==
    /\ pc[m] = "idle" /\ May("make")
    /\ \E r \in Requests :
          /\ r.account # None => r.account \in cfg.pool /\ May("account")
          /\ r.lock => May("lock")
          /\ req' = [req EXCEPT ![m] = r]
    /\ To(m, "catalog")
    /\ UNCHANGED <<scene, cfg, store, writable, page, db, prev, had, dead, strayed>>

\* Defect: the key is asked for first; the rule is written when it has come.
DefectWriteRule(m) ==
    /\ pc[m] = "catalog"
    /\ prev' = [prev EXCEPT ![m] = cfg.routes]
    /\ had' = [had EXCEPT ![m] = cfg.routes[Name(m)] # None]
    /\ To(m, "issuing")
    /\ UNCHANGED <<scene, cfg, store, writable, page, db, req, dead, strayed>>

\* The models are there: the rule goes in before the key, in memory.
WriteRule(m) ==
    /\ pc[m] = "catalog"
    /\ prev' = [prev EXCEPT ![m] = cfg.routes]
    /\ had' = [had EXCEPT ![m] = cfg.routes[Name(m)] # None]
    /\ cfg' = IF req[m].rule = None THEN cfg ELSE [cfg EXCEPT !.routes[Name(m)] = req[m].rule]
    /\ To(m, "issuing")
    /\ UNCHANGED <<scene, store, writable, page, db, req, dead, strayed>>

\* REG.issueKey returns, and has projected and saved; the pin is written to a new object.
\* Without a lock that is saved too.
Issued(m) ==
    /\ pc[m] = "issuing"
    /\ db' = [db EXCEPT !.keyed = @ \cup {Name(m)}]
    /\ LET a == req[m].account
           c == IF a = None THEN cfg ELSE [cfg EXCEPT !.pins[Name(m)] = a, !.shared = FALSE]
       IN IF ~req[m].lock THEN Project(c, db')
          ELSE LET seen == [cfg EXCEPT !.consumers = db'.keyed, !.locked = db'.locked] IN
               /\ cfg' = [c EXCEPT !.consumers = db'.keyed, !.locked = db'.locked]
               /\ IF writable THEN Persist(seen) ELSE index' = KeysOf(seen) /\ UNCHANGED <<file, baseline>>
    /\ To(m, IF req[m].lock THEN "locking" ELSE "made")
    /\ UNCHANGED <<scene, writable, page, req, prev, had, dead, strayed>>

\* REG.setClientPolicy returns, and has projected and saved.
Locked(m) ==
    /\ pc[m] = "locking"
    /\ db' = [db EXCEPT !.locked = @ \cup ({Name(m)} \cap db.keyed)]
    /\ Project(cfg, db')
    /\ To(m, "made")
    /\ UNCHANGED <<scene, writable, page, req, prev, had, dead, strayed>>

\* Defect: the map of before the call is put back in both cases.
DefectRollback(m) == prev[m]

\* Defect: a rule that was there before is not put back.
DefectForget(m) == [cfg.routes EXCEPT ![Name(m)] = None]

\* The catch of createApp: the rule goes; where there was one before, the whole map
\* of before the call is put back.  In memory.
Rollback(m) == IF had[m] THEN prev[m] ELSE [cfg.routes EXCEPT ![Name(m)] = None]

\* REG.issueKey or REG.setClientPolicy throws: no database, or a reply that is lost after
\* the statement was done.
StepFails(m) ==
    /\ pc[m] \in {"issuing", "locking"} /\ May("fail")
    /\ cfg' = [cfg EXCEPT !.routes = Rollback(m)]
    /\ db' \in {db} \cup (IF pc[m] = "issuing" THEN {[db EXCEPT !.keyed = @ \cup {Name(m)}]}
                          ELSE {[db EXCEPT !.locked = @ \cup ({Name(m)} \cap db.keyed)]})
    /\ To(m, "failed")
    /\ UNCHANGED <<scene, store, writable, page, req, prev, had, dead, strayed>>

\* The answer is sent; the next call of the control surface is another app.
Done(m) ==
    /\ pc[m] \in {"made", "failed"}
    /\ To(m, "idle")
    /\ req' = [req EXCEPT ![m] = None]
    /\ UNCHANGED <<scene, cfg, store, writable, page, db, prev, had, dead, strayed>>

-----------------------------------------------------------------------------
(* The process and its volume. *)

\* The volume fills up or is mounted read-only; or takes writes again.
Remount ==
    /\ May("readonly")
    /\ writable' = ~writable
    /\ UNCHANGED <<scene, cfg, store, page, db, makers, dead, strayed>>

\* What the next boot makes of a file.
Loaded(f) == IF f \in {None, Torn} THEN Env ELSE MergeConfig(f)

\* Deploys, and crashes: in-flight calls are gone, and the file is overlaid on the defaults.
\* The first look for premium apps is silent.
Restart ==
    /\ May("restart")
    /\ cfg' = Loaded(file)
    /\ strayed' = (strayed \/ file # cfg)
    /\ index' = KeysOf(cfg') /\ baseline' = PremiumApps(cfg')
    /\ pc' = [m \in Makers |-> "idle"] /\ req' = [m \in Makers |-> None]
    /\ UNCHANGED <<scene, file, writable, page, db, prev, had, dead>>

\* A crash in the middle of the write leaves part of the file, and the boot the defaults.
Tear ==
    /\ May("tear") /\ writable
    /\ file' = Torn
    /\ cfg' = Loaded(Torn)
    /\ strayed' = TRUE
    /\ index' = KeysOf(cfg') /\ baseline' = PremiumApps(cfg')
    /\ pc' = [m \in Makers |-> "idle"] /\ req' = [m \in Makers |-> None]
    /\ UNCHANGED <<scene, writable, page, db, prev, had, dead>>

\* initRegistry, with the database up and not empty: the projection anew.
Reproject ==
    /\ May("restart") /\ db.keyed # {}
    /\ Project(cfg, db)
    /\ UNCHANGED <<scene, writable, page, db, makers, dead, strayed>>

Make(m) == \/ Ask(m) \/ WriteRule(m) \/ Issued(m) \/ Locked(m) \/ StepFails(m) \/ Done(m)

Next ==
    \/ \E m \in Makers : Make(m)
    \/ Logout \/ Render \/ SaveConfig \/ Reset
    \/ \E n \in Names, a \in Logins \cup {None} : SetPin(n, a)
    \/ \E n \in Names, r \in Rules : SetRoute(n, r)
    \/ \E b \in BOOLEAN : SetMode(b)
    \/ \E a \in Logins, force \in BOOLEAN : RemoveAccount(a, force)
    \/ \E a \in Logins : ImportAccount(a)
    \/ \E n \in Names : Register(n)
    \/ Remount \/ Restart \/ Tear \/ Reproject

Spec == Init /\ [][Next]_vars

\* Deploys go on, and every handler that was started goes on.
FairSpec == Spec /\ WF_vars(Restart) /\ \A m \in Makers : WF_vars(Make(m))

-----------------------------------------------------------------------------
(* Safety. *)

\* A consumer never comes to hold a key before it has a rule, unless no rule was
\* asked for: the premium watcher would see it unrestricted for an instant (where
\* nobody clears rules, stale maps or the whole configuration meanwhile).
KeyedUnderRule ==
    [][\A m \in Makers :
          (/\ pc[m] = "issuing" /\ pc'[m] \in {"locking", "made"} /\ req[m].rule # None
           /\ scene.ops \cap {"clear", "config", "reset"} = {})
          => cfg'.routes[Name(m)] # None]_vars

\* The rules as a create finds them when nobody else has saved any meanwhile.
AsWritten(m) == [prev[m] EXCEPT ![Name(m)] = IF req[m].rule = None THEN @ ELSE req[m].rule]

\* A create that fails with nobody else at the rules leaves all of them as it found
\* them, whichever step failed and whether or not the app had a rule before.
FailureRestoresRules ==
    [][\A m \in Makers : (pc[m] # "failed" /\ pc'[m] = "failed" /\ cfg.routes = AsWritten(m))
          => cfg'.routes = prev[m]]_vars

\* A create of a name that had no rule touches no other rule, not even when it fails
\* after other rules were saved.
OnlyItsOwnRule ==
    [][\A m \in Makers : pc'[m] # pc[m] /\ pc'[m] # "idle" /\ ~had'[m]
          => \A n \in Names : cfg'.routes[n] # cfg.routes[n] => n = Name(m)]_vars

\* A key that CFG lists is found, and one that it does not list is not, at every moment:
\* also while nothing can be written, after a reset and after a boot.
IndexTrue == index = KeysOf(cfg)

\* Whatever is saved was looked at: an app that reaches the premium models by the file is
\* one that was there at boot or has been alerted about.
PremiumSeen == file = cfg => PremiumApps(cfg) \subseteq baseline

\* The memory agrees with itself and with what the watcher has seen, whatever is saved,
\* reset, booted or could not be written.
StoreInv ==
    /\ TypeOK
    /\ IndexTrue
    /\ PremiumSeen

\* What a configuration makes the router do.
InForce(c) == [pool |-> c.pool, pins |-> c.pins, routes |-> c.routes, consumers |-> c.consumers,
               locked |-> c.locked, required |-> c.required, signature |-> Signature(c)]

\* A boot changes nothing that was saved: no field is dropped by the loader, and no pin that
\* was cleared comes back under its old name (while no create has pinned an account).
RestartKeeps ==
    (file = cfg /\ ~May("account")) => InForce(Loaded(file)) = InForce(cfg)

\* A session that was logged out is not let in again: not after more logouts, changes of the
\* password, saves of stale pages, resets or boots (that found what was in force before).
LoggedOutStaysOut == ~strayed => Signature(cfg) \notin dead

-----------------------------------------------------------------------------
(* What comments say and the code does not do. *)

\* admin.js:263 "The session epoch is the ONE field a reset must carry forward rather than
\* restore": a session that was logged out is never let in again.
LogoutIsFinal == Signature(cfg) \notin dead
=============================================================================
