-------------------------- MODULE ConfigStoreProofs -------------------------
(***************************************************************************)
(* Theorems about ConfigStore, for any apps, accounts, tiers, operations   *)
(* and creates in flight: the memory agrees with itself, boots keep what   *)
(* was saved, logouts last, and creates leave the rules as they should.    *)
(***************************************************************************)
EXTENDS ConfigStore, TLAPS

(* The inductive invariant, by parts. *)

\* Whatever is in the file was looked at for premium apps: PremiumSeen, whether or not the
\* memory has moved on since.
PremiumKept == file \in Cfgs => PremiumApps(file) \subseteq baseline

\* The two names of the pins tell the same, and are one object wherever a pin exists, so
\* that a removal reaches both.
PinsOne(c) == c.pins = c.oldPins /\ (c.shared \/ c.oldPins = NoPins)
\* Where no create may ask for an account, none has, and the pins are one.
NobodyPins ==
    ~May("account") =>
        /\ \A m \in Makers : req[m] # None => req[m].account = None
        /\ PinsOne(cfg)

\* Every logout raised the epoch, and nothing but a boot from an older file lowers it.
OldEpochs == ~strayed => \A s \in dead : s[2] < cfg.epoch

\* A create in flight has its request.
Makes(m) == pc[m] \notin {"idle", "made", "failed"} => req[m] # None
\* `had` says of a create that waits whether `prev` holds a rule of its name.
HadTrue(m) == pc[m] \in {"issuing", "locking"} => (had[m] <=> prev[m][Name(m)] # None)

\* No step of a create fails.
NobodyFails == \A s \in Scenes : "fail" \notin s.ops
\* The rollback of one create does not meet another: none fails, or there is one at a time.
Undisturbed == NobodyFails \/ \A m \in Makers, n \in Makers : m = n
\* Nobody clears rules, saves a page of them or resets them.
NobodyClears == scene.ops \cap {"clear", "config", "reset"} = {}
\* A create that waits for its key has its rule in force.
RuleFirst ==
    (Undisturbed /\ NobodyClears) =>
        \A m \in Makers : (pc[m] = "issuing" /\ req[m].rule # None) => cfg.routes[Name(m)] # None

\* The inductive invariant.
StoreInductive ==
    /\ TypeOK /\ IndexTrue /\ PremiumKept
    /\ \A m \in Makers : Makes(m) /\ HadTrue(m)
    /\ NobodyPins /\ OldEpochs /\ RuleFirst

(* Operators. *)

\* The maps of nobody, and the environment, are of their types.
LEMMA NamesTyped ==
    /\ NoPins \in Pins /\ NoRules \in Maps
    /\ Env \in Cfgs
BY ConfigStoreAssumption DEF NoPins, NoRules, Pins, Maps, Rules, Env, Cfgs

\* What mergeConfig returns: a configuration whose pins are one under both names, and which
\* is otherwise the one it was given.
LEMMA MergeTyped ==
    ASSUME NEW c \in Cfgs
    PROVE  /\ Union(c) \in Pins
           /\ MergeConfig(c) \in Cfgs
           /\ MergeConfig(c) = [c EXCEPT !.pins = Union(c), !.oldPins = Union(c), !.shared = Union(c) # NoPins]
           /\ MergeConfig(c).routes = c.routes /\ MergeConfig(c).consumers = c.consumers
           /\ MergeConfig(c).epoch = c.epoch /\ MergeConfig(c).password = c.password
           /\ MergeConfig(c).pool = c.pool /\ MergeConfig(c).locked = c.locked
           /\ MergeConfig(c).required = c.required /\ MergeConfig(c).pins = Union(c)
           /\ PinsOne(MergeConfig(c))
<1>1. Union(c) \in Pins
  BY DEF Union, Pins, Cfgs
<1>2. MergeConfig(c) \in Cfgs
  BY <1>1 DEF MergeConfig, Cfgs
<1>3. /\ MergeConfig(c).routes = c.routes /\ MergeConfig(c).consumers = c.consumers
      /\ MergeConfig(c).epoch = c.epoch /\ MergeConfig(c).password = c.password
      /\ MergeConfig(c).pool = c.pool /\ MergeConfig(c).locked = c.locked
      /\ MergeConfig(c).required = c.required /\ MergeConfig(c).pins = Union(c)
  BY DEF MergeConfig, Cfgs
<1>4. PinsOne(MergeConfig(c))
  BY <1>1 DEF MergeConfig, Cfgs, PinsOne
<1> QED
  BY <1>1, <1>2, <1>3, <1>4 DEF MergeConfig

\* Pins that are one already are those mergeConfig leaves.
LEMMA OneStays ==
    ASSUME NEW c \in Cfgs, PinsOne(c)
    PROVE  Union(c) = c.pins
BY DEF Union, PinsOne, Cfgs, Pins

\* What a save changes.
LEMMA Persisted ==
    ASSUME TypeOK, IndexTrue, PremiumKept, NEW c \in Cfgs, Persist(c), NEW d \in Cfgs, cfg' = d, c.consumers = d.consumers,
           ~writable => d.consumers = cfg.consumers
    PROVE  /\ file' \in Cfgs \cup {None, Torn} /\ index' \subseteq Names /\ baseline' \subseteq Names
           /\ IndexTrue' /\ PremiumKept'
<1>0. c.consumers \subseteq Names
  BY DEF Cfgs
<1>1. CASE writable
  <2>1. file' = c /\ index' = d.consumers /\ baseline' = PremiumApps(c)
    BY <1>1 DEF Persist, KeysOf
  <2>2. PremiumApps(c) \subseteq Names
    BY <1>0 DEF PremiumApps
  <2> QED
    BY <1>0, <2>1, <2>2 DEF IndexTrue, KeysOf, PremiumKept
<1>2. CASE ~writable
  BY <1>2 DEF Persist, TypeOK, IndexTrue, KeysOf, PremiumKept
<1> QED
  BY <1>1, <1>2

\* Where the makers have not moved, what is known of them stays.
LEMMA MakersStay ==
    ASSUME StoreInductive, UNCHANGED <<scene, makers>>
    PROVE  /\ scene' \in Scenes
           /\ pc' \in [Makers -> {"idle", "catalog", "issuing", "locking", "made", "failed"}]
           /\ req' \in [Makers -> Requests \cup {None}]
           /\ prev' \in [Makers -> Maps] /\ had' \in [Makers -> BOOLEAN]
           /\ \A m \in Makers : Makes(m)' /\ HadTrue(m)'
BY DEF StoreInductive, TypeOK, makers, Makes, HadTrue, Name

\* A step that leaves the makers, the logouts and the consumers alone.
LEMMA QuietStep ==
    ASSUME StoreInductive, UNCHANGED <<scene, makers, strayed, dead>>,
           cfg' \in Cfgs, writable' \in BOOLEAN, page' \in [pins : Pins, routes : Maps],
           db' \in [keyed : SUBSET Names, locked : SUBSET Names],
           file' \in Cfgs \cup {None, Torn}, index' \subseteq Names, baseline' \subseteq Names,
           IndexTrue', PremiumKept',
           cfg'.epoch = cfg.epoch,
           ~May("account") => PinsOne(cfg'),
           NobodyClears => \A n \in Names : cfg.routes[n] # None => cfg'.routes[n] # None
    PROVE  StoreInductive'
<1>1. TypeOK'
  BY MakersStay DEF StoreInductive, TypeOK
<1>2. NobodyPins'
  BY DEF StoreInductive, NobodyPins, May, makers
<1>3. OldEpochs'
  BY DEF StoreInductive, OldEpochs
<1>4. RuleFirst'
  <2>1. ASSUME Undisturbed, NobodyClears', NEW m \in Makers, pc'[m] = "issuing", req'[m].rule # None
        PROVE  cfg'.routes[Name(m)'] # None
    <3>1. NobodyClears /\ pc[m] = "issuing" /\ req'[m] = req[m] /\ req[m].rule # None
      BY <2>1 DEF NobodyClears, makers
    <3>2. cfg.routes[Name(m)] # None
      BY <2>1, <3>1 DEF StoreInductive, RuleFirst
    <3>3. Name(m) \in Names
      <4>1. req[m] # None
        BY <3>1 DEF StoreInductive, Makes
      <4> QED
        BY <4>1 DEF StoreInductive, TypeOK, Requests, Name
    <3> QED
      BY <3>1, <3>2, <3>3 DEF Name
  <2> QED
    BY <2>1 DEF RuleFirst, Undisturbed
<1> QED
  BY <1>1, <1>2, <1>3, <1>4, MakersStay DEF StoreInductive

\* A save of a configuration that keeps the epoch, the consumers and, where asked, the rules.
LEMMA SaveStep ==
    ASSUME StoreInductive, NEW c \in Cfgs, Save(c), UNCHANGED <<scene, writable, page, db, makers, strayed, dead>>,
           c.consumers = cfg.consumers, c.epoch = cfg.epoch,
           ~May("account") => PinsOne(c),
           NobodyClears => \A n \in Names : cfg.routes[n] # None => c.routes[n] # None
    PROVE  StoreInductive'
<1>1. TypeOK /\ IndexTrue /\ PremiumKept
  BY DEF StoreInductive
<1>2. cfg' = c /\ Persist(c)
  BY DEF Save
<1>3. /\ file' \in Cfgs \cup {None, Torn} /\ index' \subseteq Names /\ baseline' \subseteq Names
      /\ IndexTrue' /\ PremiumKept'
  BY <1>1, <1>2, Persisted
<1> QED
  BY <1>1, <1>2, <1>3, QuietStep DEF TypeOK

\* A logout raises the epoch above every signature that was logged out before.
LEMMA LogoutStep == ASSUME StoreInductive, Logout PROVE StoreInductive'
<1>1. TypeOK /\ IndexTrue /\ PremiumKept
  BY DEF StoreInductive
<1> DEFINE c == [cfg EXCEPT !.epoch = @ + 1]
<1>2. c \in Cfgs /\ c.consumers = cfg.consumers /\ c.epoch = cfg.epoch + 1 /\ c.routes = cfg.routes
      /\ c.pins = cfg.pins /\ c.oldPins = cfg.oldPins /\ c.shared = cfg.shared
  BY <1>1, ConfigStoreAssumption DEF Logout, TypeOK, Cfgs
<1>3. cfg' = c /\ Persist(c) /\ UNCHANGED <<scene, writable, page, db, makers, strayed>>
  BY DEF Logout, Save
<1> HIDE DEF c
<1>4. /\ file' \in Cfgs \cup {None, Torn} /\ index' \subseteq Names /\ baseline' \subseteq Names
      /\ IndexTrue' /\ PremiumKept'
  BY <1>1, <1>2, <1>3, Persisted
<1>5. dead' = dead \cup {<<cfg.password, cfg.epoch>>} /\ cfg.epoch \in 1..MaxEpoch /\ cfg.password \in {"env", "new"}
  BY <1>1 DEF Logout, Signature, TypeOK, Cfgs
<1>6. TypeOK'
  BY <1>1, <1>2, <1>3, <1>4, <1>5, MakersStay DEF TypeOK
<1>7. NobodyPins'
  BY <1>2, <1>3 DEF StoreInductive, NobodyPins, May, makers, PinsOne
<1>8. OldEpochs'
  <2>1. ASSUME ~strayed, NEW s \in dead' PROVE s[2] < cfg'.epoch
    <3>1. CASE s \in dead
      <4>1. s[2] < cfg.epoch /\ s[2] \in 1..MaxEpoch
        BY <1>1, <2>1, <3>1 DEF StoreInductive, OldEpochs, TypeOK
      <4> QED
        BY <1>2, <1>3, <1>5, <4>1, ConfigStoreAssumption
    <3>2. CASE s = <<cfg.password, cfg.epoch>>
      BY <1>2, <1>3, <1>5, <3>2, ConfigStoreAssumption
    <3> QED
      BY <1>5, <2>1, <3>1, <3>2
  <2> QED
    BY <1>3, <2>1 DEF OldEpochs
<1>9. RuleFirst'
  BY <1>2, <1>3 DEF StoreInductive, RuleFirst, NobodyClears, Undisturbed, Name, makers
<1> QED
  BY <1>3, <1>4, <1>6, <1>7, <1>8, <1>9, MakersStay DEF StoreInductive

\* A page that is saved over the configuration.
LEMMA SaveConfigStep == ASSUME StoreInductive, SaveConfig PROVE StoreInductive'
<1>1. TypeOK
  BY DEF StoreInductive
<1>2. ~NobodyClears
  BY DEF SaveConfig, May, NobodyClears
<1>3. ASSUME NEW c \in Cfgs, Save(MergeConfig(c)), c.consumers = cfg.consumers, c.epoch = cfg.epoch PROVE StoreInductive'
  <2>1. UNCHANGED <<scene, writable, page, db, makers, strayed, dead>>
    BY DEF SaveConfig
  <2> QED
    BY <1>2, <1>3, <2>1, MergeTyped, SaveStep
<1>4. PICK n \in Names :
          \/ \E r \in Rules : Save(MergeConfig([cfg EXCEPT !.routes = [page.routes EXCEPT ![n] = r]]))
          \/ \E a \in Logins \cup {None} :
                Save(MergeConfig([cfg EXCEPT !.pins = [page.pins EXCEPT ![n] = a], !.shared = FALSE]))
          \/ Save(MergeConfig([cfg EXCEPT !.password = "new"]))
  BY DEF SaveConfig
<1>5. CASE \E r \in Rules : Save(MergeConfig([cfg EXCEPT !.routes = [page.routes EXCEPT ![n] = r]]))
  <2>1. PICK r \in Rules : Save(MergeConfig([cfg EXCEPT !.routes = [page.routes EXCEPT ![n] = r]]))
    BY <1>5
  <2> DEFINE c == [cfg EXCEPT !.routes = [page.routes EXCEPT ![n] = r]]
  <2>2. [page.routes EXCEPT ![n] = r] \in Maps
    BY <1>1 DEF TypeOK, Maps
  <2>3. c \in Cfgs /\ c.consumers = cfg.consumers /\ c.epoch = cfg.epoch
    BY <1>1, <2>2 DEF TypeOK, Cfgs
  <2> HIDE DEF c
  <2> QED
    BY <1>3, <2>1, <2>3 DEF c
<1>6. CASE \E a \in Logins \cup {None} : Save(MergeConfig([cfg EXCEPT !.pins = [page.pins EXCEPT ![n] = a], !.shared = FALSE]))
  <2>1. PICK a \in Logins \cup {None} : Save(MergeConfig([cfg EXCEPT !.pins = [page.pins EXCEPT ![n] = a], !.shared = FALSE]))
    BY <1>6
  <2> DEFINE c == [cfg EXCEPT !.pins = [page.pins EXCEPT ![n] = a], !.shared = FALSE]
  <2>2. [page.pins EXCEPT ![n] = a] \in Pins
    BY <1>1 DEF TypeOK, Pins
  <2>3. c \in Cfgs /\ c.consumers = cfg.consumers /\ c.epoch = cfg.epoch
    BY <1>1, <2>2 DEF TypeOK, Cfgs
  <2> HIDE DEF c
  <2> QED
    BY <1>3, <2>1, <2>3 DEF c
<1>7. CASE Save(MergeConfig([cfg EXCEPT !.password = "new"]))
  <2> DEFINE c == [cfg EXCEPT !.password = "new"]
  <2>1. c \in Cfgs /\ c.consumers = cfg.consumers /\ c.epoch = cfg.epoch
    BY <1>1 DEF TypeOK, Cfgs
  <2> HIDE DEF c
  <2> QED
    BY <1>3, <1>7, <2>1 DEF c
<1> QED
  BY <1>4, <1>5, <1>6, <1>7

\* The panel loads a page.
LEMMA RenderStep == ASSUME StoreInductive, Render PROVE StoreInductive'
<1>1. TypeOK
  BY DEF StoreInductive
<1>2. page' \in [pins : Pins, routes : Maps]
  BY <1>1 DEF Render, TypeOK, Cfgs
<1> QED
  BY <1>1, <1>2, QuietStep DEF Render, StoreInductive, TypeOK, IndexTrue, PremiumKept, KeysOf, store, NobodyPins

\* A reset empties the index with the consumers and keeps the epoch.
LEMMA ResetStep == ASSUME StoreInductive, Reset PROVE StoreInductive'
<1>1. TypeOK
  BY DEF StoreInductive
<1>2. cfg' = [Env EXCEPT !.epoch = cfg.epoch] /\ UNCHANGED <<scene, baseline, writable, page, db, makers, dead, strayed>>
  BY DEF Reset
<1>3. cfg' \in Cfgs /\ cfg'.epoch = cfg.epoch /\ PinsOne(cfg')
  BY <1>1, <1>2, NamesTyped DEF TypeOK, Cfgs, PinsOne, Env
<1>4. index' = cfg'.consumers /\ cfg'.consumers \subseteq Names
  BY <1>3 DEF Reset, KeysOf, Cfgs
<1>5. file' \in {None, file}
  BY DEF Reset
<1>6. file' \in Cfgs \cup {None, Torn} /\ PremiumKept'
  BY <1>1, <1>2, <1>5, FilesAssumption DEF StoreInductive, PremiumKept, TypeOK
<1>7. ~NobodyClears
  BY DEF Reset, May, NobodyClears
<1> QED
  BY <1>1, <1>2, <1>3, <1>4, <1>6, <1>7, QuietStep DEF TypeOK, IndexTrue, KeysOf

\* Pins, rules, the switch, removal and import of accounts.
LEMMA SwitchStep ==
    ASSUME StoreInductive
    PROVE  /\ \A n \in Names, a \in Logins \cup {None} : SetPin(n, a) => StoreInductive'
           /\ \A n \in Names, r \in Rules : SetRoute(n, r) => StoreInductive'
           /\ \A b \in BOOLEAN : SetMode(b) => StoreInductive'
           /\ \A a \in Logins, force \in BOOLEAN : RemoveAccount(a, force) => StoreInductive'
           /\ \A a \in Logins : ImportAccount(a) => StoreInductive'
<1>0. TypeOK /\ cfg \in Cfgs /\ (~May("account") => PinsOne(cfg))
  BY DEF StoreInductive, TypeOK, NobodyPins
<1>1. ASSUME NEW n \in Names, NEW a \in Logins \cup {None}, SetPin(n, a) PROVE StoreInductive'
  <2> DEFINE q == [cfg.pins EXCEPT ![n] = a]
             c == [cfg EXCEPT !.pins = q, !.oldPins = q, !.shared = TRUE]
  <2>1. q \in Pins
    BY <1>0 DEF Cfgs, Pins
  <2>2. c \in Cfgs /\ c.consumers = cfg.consumers /\ c.epoch = cfg.epoch /\ c.routes = cfg.routes /\ PinsOne(c)
    BY <1>0, <2>1 DEF Cfgs, PinsOne
  <2>3. Save(c) /\ UNCHANGED <<scene, writable, page, db, makers, dead, strayed>>
    BY <1>1 DEF SetPin
  <2> HIDE DEF c
  <2> QED
    BY <2>2, <2>3, SaveStep
<1>2. ASSUME NEW n \in Names, NEW r \in Rules, SetRoute(n, r) PROVE StoreInductive'
  <2> DEFINE c == [cfg EXCEPT !.routes[n] = r]
  <2>1. c \in Cfgs /\ c.consumers = cfg.consumers /\ c.epoch = cfg.epoch /\ c.routes = [cfg.routes EXCEPT ![n] = r]
        /\ c.pins = cfg.pins /\ c.oldPins = cfg.oldPins /\ c.shared = cfg.shared
    BY <1>0 DEF Cfgs, Maps
  <2>2. Save(c) /\ UNCHANGED <<scene, writable, page, db, makers, dead, strayed>>
    BY <1>2 DEF SetRoute
  <2>3. NobodyClears => \A k \in Names : cfg.routes[k] # None => c.routes[k] # None
    <3>1. NobodyClears => r # None
      BY <1>2 DEF SetRoute, May, NobodyClears
    <3> QED
      BY <1>0, <2>1, <3>1 DEF Cfgs, Maps
  <2> HIDE DEF c
  <2> QED
    BY <1>0, <2>1, <2>2, <2>3, SaveStep DEF PinsOne
<1>3. ASSUME NEW b \in BOOLEAN, SetMode(b) PROVE StoreInductive'
  <2> DEFINE c == [cfg EXCEPT !.required = b]
  <2>1. c \in Cfgs /\ c.consumers = cfg.consumers /\ c.epoch = cfg.epoch /\ c.routes = cfg.routes
        /\ c.pins = cfg.pins /\ c.oldPins = cfg.oldPins /\ c.shared = cfg.shared
    BY <1>0 DEF Cfgs
  <2>2. Save(c) /\ UNCHANGED <<scene, writable, page, db, makers, dead, strayed>>
    BY <1>3 DEF SetMode
  <2> HIDE DEF c
  <2> QED
    BY <1>0, <2>1, <2>2, SaveStep DEF PinsOne
<1>4. ASSUME NEW a \in Logins, NEW force \in BOOLEAN, RemoveAccount(a, force) PROVE StoreInductive'
  <2> DEFINE pinned == {n \in Names : cfg.pins[n] = a}
             left == [n \in Names |-> IF n \in pinned THEN None ELSE cfg.pins[n]]
             old == IF cfg.shared THEN left ELSE cfg.oldPins
             c == [cfg EXCEPT !.pool = @ \ {a}, !.pins = left, !.oldPins = old]
  <2>1. left \in Pins /\ old \in Pins
    BY <1>0 DEF Cfgs, Pins
  <2>2. c \in Cfgs /\ c.consumers = cfg.consumers /\ c.epoch = cfg.epoch /\ c.routes = cfg.routes
        /\ c.pins = left /\ c.oldPins = old /\ c.shared = cfg.shared
    BY <1>0, <2>1 DEF Cfgs
  <2>3. PinsOne(cfg) => PinsOne(c)
    <3>1. CASE cfg.shared
      BY <2>2, <3>1 DEF PinsOne
    <3>2. ASSUME ~cfg.shared, PinsOne(cfg) PROVE PinsOne(c)
      <4>1. cfg.pins = NoPins /\ cfg.oldPins = NoPins
        BY <3>2 DEF PinsOne
      <4>2. left = NoPins
        BY <4>1 DEF NoPins
      <4> QED
        BY <2>2, <3>2, <4>1, <4>2 DEF PinsOne
    <3> QED
      BY <3>1, <3>2
  <2>4. Save(c) /\ UNCHANGED <<scene, writable, page, db, makers, dead, strayed>>
    BY <1>4 DEF RemoveAccount
  <2> HIDE DEF c
  <2> QED
    BY <1>0, <2>2, <2>3, <2>4, SaveStep
<1>5. ASSUME NEW a \in Logins, ImportAccount(a) PROVE StoreInductive'
  <2> DEFINE c == [cfg EXCEPT !.pool = @ \cup {a}]
  <2>1. c \in Cfgs /\ c.consumers = cfg.consumers /\ c.epoch = cfg.epoch /\ c.routes = cfg.routes
        /\ c.pins = cfg.pins /\ c.oldPins = cfg.oldPins /\ c.shared = cfg.shared
    BY <1>0 DEF Cfgs
  <2>2. Save(c) /\ UNCHANGED <<scene, writable, page, db, makers, dead, strayed>>
    BY <1>5 DEF ImportAccount
  <2> HIDE DEF c
  <2> QED
    BY <1>0, <2>1, <2>2, SaveStep DEF PinsOne
<1> QED
  BY <1>1, <1>2, <1>3, <1>4, <1>5

\* The projection of the registry, saved.
LEMMA Projected ==
    ASSUME TypeOK, IndexTrue, PremiumKept, NEW c \in Cfgs,
           NEW d \in [keyed : SUBSET Names, locked : SUBSET Names], Project(c, d)
    PROVE  /\ cfg' \in Cfgs
           /\ cfg'.epoch = c.epoch /\ cfg'.routes = c.routes
           /\ cfg'.pins = c.pins /\ cfg'.oldPins = c.oldPins /\ cfg'.shared = c.shared
           /\ file' \in Cfgs \cup {None, Torn} /\ index' \subseteq Names /\ baseline' \subseteq Names
           /\ IndexTrue' /\ PremiumKept'
<1> DEFINE next == [c EXCEPT !.consumers = d.keyed, !.locked = d.locked]
<1>1. /\ next \in Cfgs /\ next.consumers = d.keyed /\ next.epoch = c.epoch /\ next.routes = c.routes
      /\ next.pins = c.pins /\ next.oldPins = c.oldPins /\ next.shared = c.shared
  BY DEF Cfgs
<1>2. cfg' = next /\ IF writable THEN Persist(next) ELSE index' = KeysOf(next) /\ UNCHANGED <<file, baseline>>
  BY DEF Project
<1> HIDE DEF next
<1>3. CASE writable
  BY <1>1, <1>2, <1>3, Persisted
<1>4. CASE ~writable
  <2>1. cfg' = next /\ index' = next.consumers /\ UNCHANGED <<file, baseline>>
    BY <1>2, <1>4 DEF KeysOf
  <2>2. next.consumers \subseteq Names
    BY <1>1
  <2>3. IndexTrue' /\ PremiumKept'
    BY <2>1 DEF IndexTrue, KeysOf, PremiumKept
  <2>4. file' \in Cfgs \cup {None, Torn} /\ index' \subseteq Names /\ baseline' \subseteq Names
    BY <2>1, <2>2 DEF TypeOK
  <2>5. cfg' \in Cfgs /\ cfg'.epoch = c.epoch /\ cfg'.routes = c.routes
        /\ cfg'.pins = c.pins /\ cfg'.oldPins = c.oldPins /\ cfg'.shared = c.shared
    BY <1>1, <2>1
  <2> QED
    BY <2>3, <2>4, <2>5
<1>5. cfg' \in Cfgs /\ cfg'.epoch = c.epoch /\ cfg'.routes = c.routes
      /\ cfg'.pins = c.pins /\ cfg'.oldPins = c.oldPins /\ cfg'.shared = c.shared
  BY <1>1, <1>2
<1> QED
  BY <1>3, <1>4, <1>5

\* The parts of the invariant that a step needs most.
LEMMA StoreParts ==
    ASSUME StoreInductive
    PROVE  /\ TypeOK /\ IndexTrue /\ PremiumKept
           /\ cfg \in Cfgs /\ writable \in BOOLEAN /\ page \in [pins : Pins, routes : Maps]
           /\ db \in [keyed : SUBSET Names, locked : SUBSET Names]
           /\ ~May("account") => PinsOne(cfg)
BY DEF StoreInductive, TypeOK, NobodyPins

\* A write of the registry projects.
LEMMA RegisterStep == ASSUME StoreInductive, NEW n \in Names, Register(n) PROVE StoreInductive'
<1>1. PICK d \in {[db EXCEPT !.keyed = @ \cup {n}], [keyed |-> db.keyed \ {n}, locked |-> db.locked \ {n}]} :
         db' = d /\ Project(cfg, d)
  BY DEF Register
<1>2. d \in [keyed : SUBSET Names, locked : SUBSET Names]
  BY StoreParts
<1>3. UNCHANGED <<scene, writable, page, makers, dead, strayed>>
  BY DEF Register
<1> QED
  BY <1>1, <1>2, <1>3, StoreParts, Projected, QuietStep DEF PinsOne

\* So does initRegistry.
LEMMA ReprojectStep == ASSUME StoreInductive, Reproject PROVE StoreInductive'
<1>1. Project(cfg, db) /\ UNCHANGED <<scene, writable, page, db, makers, dead, strayed>>
  BY DEF Reproject
<1> QED
  BY <1>1, StoreParts, Projected, QuietStep DEF PinsOne

\* The volume changes its mode and nothing else.
LEMMA RemountStep == ASSUME StoreInductive, Remount PROVE StoreInductive'
<1>1. writable' \in BOOLEAN /\ UNCHANGED <<scene, cfg, store, page, db, makers, dead, strayed>>
  BY StoreParts DEF Remount
<1> QED
  BY <1>1, StoreParts, QuietStep DEF store, TypeOK, IndexTrue, PremiumKept, KeysOf

(* createApp. *)

\* A step of maker m; the configuration as under QuietStep.
LEMMA MakerStep ==
    ASSUME StoreInductive, NEW m \in Makers, UNCHANGED <<scene, writable, page, strayed, dead>>,
           cfg' \in Cfgs, db' \in [keyed : SUBSET Names, locked : SUBSET Names],
           file' \in Cfgs \cup {None, Torn}, index' \subseteq Names, baseline' \subseteq Names,
           IndexTrue', PremiumKept',
           cfg'.epoch = cfg.epoch, ~May("account") => PinsOne(cfg'),
           NEW p \in {"idle", "catalog", "issuing", "locking", "made", "failed"}, pc' = [pc EXCEPT ![m] = p],
           NEW q \in Requests \cup {None}, req' = [req EXCEPT ![m] = q],
           prev' \in [Makers -> Maps], had' \in [Makers -> BOOLEAN],
           \A n \in Makers \ {m} : prev'[n] = prev[n] /\ had'[n] = had[n],
           Makes(m)', HadTrue(m)',
           ~May("account") /\ q # None => q.account = None,
           NobodyFails => \A n \in Names : cfg.routes[n] # None => cfg'.routes[n] # None,
           Undisturbed /\ NobodyClears /\ p = "issuing" /\ q.rule # None => cfg'.routes[q.name] # None
    PROVE  StoreInductive'
<1>0. /\ pc \in [Makers -> {"idle", "catalog", "issuing", "locking", "made", "failed"}]
      /\ req \in [Makers -> Requests \cup {None}]
  BY DEF StoreInductive, TypeOK
<1>1. TypeOK'
  BY <1>0 DEF StoreInductive, TypeOK
<1>2. \A n \in Makers : Makes(n)' /\ HadTrue(n)'
  <2>1. ASSUME NEW n \in Makers \ {m} PROVE Makes(n)' /\ HadTrue(n)'
    <3>1. pc'[n] = pc[n] /\ req'[n] = req[n] /\ prev'[n] = prev[n] /\ had'[n] = had[n]
      BY <1>0
    <3> QED
      BY <3>1 DEF StoreInductive, Makes, HadTrue, Name
  <2> QED
    BY <2>1
<1>3. NobodyPins'
  <2>1. ASSUME ~May("account"), NEW n \in Makers, req'[n] # None PROVE req'[n].account = None
    BY <1>0, <2>1 DEF StoreInductive, NobodyPins
  <2>2. May("account")' <=> May("account")
    BY DEF May
  <2> QED
    BY <2>1, <2>2 DEF NobodyPins
<1>4. OldEpochs'
  BY DEF StoreInductive, OldEpochs
<1>5. RuleFirst'
  <2>1. ASSUME Undisturbed, NobodyClears', NEW n \in Makers, pc'[n] = "issuing", req'[n].rule # None
        PROVE  cfg'.routes[Name(n)'] # None
    <3>1. NobodyClears
      BY <2>1 DEF NobodyClears
    <3>2. CASE n = m
      BY <1>0, <2>1, <3>1, <3>2 DEF Name
    <3>3. CASE n # m
      <4>1. NobodyFails
        BY <2>1, <3>3 DEF Undisturbed
      <4>2. pc[n] = "issuing" /\ req'[n] = req[n]
        BY <1>0, <2>1, <3>3
      <4>3. cfg.routes[Name(n)] # None
        BY <2>1, <3>1, <4>2 DEF StoreInductive, RuleFirst
      <4>4. req[n] \in Requests
        BY <1>0, <4>2 DEF StoreInductive, Makes
      <4>5. Name(n) \in Names
        BY <4>4 DEF Requests, Name
      <4> QED
        BY <4>1, <4>2, <4>3, <4>5 DEF Name
    <3> QED
      BY <3>2, <3>3
  <2> QED
    BY <2>1 DEF RuleFirst, Undisturbed
<1> QED
  BY <1>1, <1>2, <1>3, <1>4, <1>5 DEF StoreInductive

\* Where nothing is saved and no consumer comes or goes, the file, the index and the baseline
\* stay right.
LEMMA SameStore ==
    ASSUME StoreInductive, UNCHANGED store, cfg'.consumers = cfg.consumers
    PROVE  /\ file' \in Cfgs \cup {None, Torn} /\ index' \subseteq Names /\ baseline' \subseteq Names
           /\ IndexTrue' /\ PremiumKept'
BY DEF StoreInductive, TypeOK, IndexTrue, PremiumKept, KeysOf, store

\* What is known of a maker that waits.
LEMMA Waiting ==
    ASSUME StoreInductive, NEW m \in Makers
    PROVE  /\ pc \in [Makers -> {"idle", "catalog", "issuing", "locking", "made", "failed"}]
           /\ req \in [Makers -> Requests \cup {None}]
           /\ prev \in [Makers -> Maps] /\ had \in [Makers -> BOOLEAN]
           /\ req = [req EXCEPT ![m] = req[m]]
           /\ ~May("account") /\ req[m] # None => req[m].account = None
           /\ pc[m] \notin {"idle", "made", "failed"} => /\ req[m] \in Requests /\ req[m] # None
                                                         /\ Name(m) \in Names /\ req[m].rule \in Rules
                                                         /\ req[m].account \in Logins \cup {None}
           /\ cfg.routes \in Maps /\ cfg.pins \in Pins
BY DEF StoreInductive, TypeOK, NobodyPins, Makes, Requests, Name, Cfgs

\* A create begins.
LEMMA AskStep == ASSUME StoreInductive, NEW m \in Makers, Ask(m) PROVE StoreInductive'
<1>1. PICK r \in Requests : /\ r.account # None => May("account")
                            /\ req' = [req EXCEPT ![m] = r]
  BY DEF Ask
<1>2. pc' = [pc EXCEPT ![m] = "catalog"] /\ UNCHANGED <<scene, cfg, store, writable, page, db, prev, had, dead, strayed>>
  BY DEF Ask, To
<1>3. Makes(m)' /\ HadTrue(m)'
  BY <1>1, <1>2, Waiting, FilesAssumption DEF Makes, HadTrue
<1> QED
  BY <1>1, <1>2, <1>3, Waiting, StoreParts, SameStore, MakerStep

\* Its rule is written; the rules of the others stay.
LEMMA WriteRuleStep == ASSUME StoreInductive, NEW m \in Makers, WriteRule(m) PROVE StoreInductive'
<1>1. /\ pc[m] = "catalog" /\ pc' = [pc EXCEPT ![m] = "issuing"]
      /\ prev' = [prev EXCEPT ![m] = cfg.routes] /\ had' = [had EXCEPT ![m] = cfg.routes[Name(m)] # None]
      /\ cfg' = IF req[m].rule = None THEN cfg ELSE [cfg EXCEPT !.routes[Name(m)] = req[m].rule]
      /\ UNCHANGED <<scene, store, writable, page, db, req, dead, strayed>>
  BY DEF WriteRule, To
<1>2. req[m] # None /\ Name(m) \in Names /\ req[m].rule \in Rules /\ Name(m) = req[m].name
  BY <1>1, Waiting DEF Name
<1>3. /\ cfg' \in Cfgs /\ cfg'.consumers = cfg.consumers /\ cfg'.epoch = cfg.epoch
      /\ cfg'.pins = cfg.pins /\ cfg'.oldPins = cfg.oldPins /\ cfg'.shared = cfg.shared
      /\ req[m].rule # None => cfg'.routes[Name(m)] # None
      /\ \A n \in Names : cfg.routes[n] # None => cfg'.routes[n] # None
  BY <1>1, <1>2, StoreParts DEF Cfgs, Maps
<1>4. prev' \in [Makers -> Maps] /\ had' \in [Makers -> BOOLEAN]
      /\ \A n \in Makers \ {m} : prev'[n] = prev[n] /\ had'[n] = had[n]
  BY <1>1, Waiting
<1>5. Makes(m)' /\ HadTrue(m)'
  BY <1>1, <1>2, Waiting DEF Makes, HadTrue, Name
<1>6. req' = [req EXCEPT ![m] = req[m]] /\ req[m] \in Requests \cup {None}
  BY <1>1, Waiting
<1>7. ~May("account") => PinsOne(cfg')
  BY <1>3, StoreParts DEF PinsOne
<1>8. /\ file' \in Cfgs \cup {None, Torn} /\ index' \subseteq Names /\ baseline' \subseteq Names
      /\ IndexTrue' /\ PremiumKept'
  BY <1>1, <1>3, SameStore
<1>9. /\ UNCHANGED <<scene, writable, page, strayed, dead>>
      /\ db' \in [keyed : SUBSET Names, locked : SUBSET Names]
      /\ ~May("account") /\ req[m] # None => req[m].account = None
  BY <1>1, StoreParts, Waiting
<1>10. req[m].rule # None => cfg'.routes[req[m].name] # None
  BY <1>2, <1>3
<1> QED
  BY <1>1, <1>3, <1>4, <1>5, <1>6, <1>7, <1>8, <1>9, <1>10, MakerStep

\* Its key comes, and with it the projection; the pin goes to one name only, which is why
\* NobodyPins is conditional.
LEMMA IssuedStep == ASSUME StoreInductive, NEW m \in Makers, Issued(m) PROVE StoreInductive'
<1> DEFINE a == req[m].account
           c == IF a = None THEN cfg ELSE [cfg EXCEPT !.pins[Name(m)] = a, !.shared = FALSE]
           seen == [cfg EXCEPT !.consumers = db'.keyed, !.locked = db'.locked]
           p == IF req[m].lock THEN "locking" ELSE "made"
<1>1. /\ pc[m] = "issuing" /\ pc' = [pc EXCEPT ![m] = p]
      /\ UNCHANGED <<scene, writable, page, req, prev, had, dead, strayed>>
      /\ db' = [db EXCEPT !.keyed = @ \cup {Name(m)}]
  BY DEF Issued, To
<1>2. req[m] # None /\ Name(m) \in Names /\ a \in Logins \cup {None}
  BY <1>1, Waiting
<1>3. db' \in [keyed : SUBSET Names, locked : SUBSET Names]
  BY <1>1, <1>2, StoreParts
<1>4. /\ c \in Cfgs /\ c.epoch = cfg.epoch /\ c.routes = cfg.routes
      /\ a = None => c = cfg
  BY <1>2, StoreParts DEF Cfgs, Pins
<1>5. ~May("account") => PinsOne(c)
  BY <1>2, <1>4, Waiting, StoreParts
<1>6. /\ cfg' \in Cfgs /\ cfg'.epoch = cfg.epoch /\ cfg'.routes = cfg.routes
      /\ cfg'.pins = c.pins /\ cfg'.oldPins = c.oldPins /\ cfg'.shared = c.shared
      /\ file' \in Cfgs \cup {None, Torn} /\ index' \subseteq Names /\ baseline' \subseteq Names
      /\ IndexTrue' /\ PremiumKept'
  <2>1. CASE ~req[m].lock
    <3>1. Project(c, db')
      BY <2>1 DEF Issued
    <3> HIDE DEF c
    <3> QED
      BY <1>3, <1>4, <3>1, StoreParts, Projected
  <2>2. CASE req[m].lock
    <3>1. /\ cfg' = [c EXCEPT !.consumers = db'.keyed, !.locked = db'.locked]
          /\ IF writable THEN Persist(seen) ELSE index' = KeysOf(seen) /\ UNCHANGED <<file, baseline>>
      BY <2>2 DEF Issued
    <3>2. seen \in Cfgs /\ seen.consumers = db'.keyed
      BY <1>3, StoreParts DEF Cfgs
    <3> HIDE DEF c, seen
    <3>3. /\ cfg' \in Cfgs /\ cfg'.epoch = c.epoch /\ cfg'.routes = c.routes /\ cfg'.consumers = db'.keyed
          /\ cfg'.pins = c.pins /\ cfg'.oldPins = c.oldPins /\ cfg'.shared = c.shared
      BY <1>3, <1>4, <3>1 DEF Cfgs
    <3>4. CASE writable
      BY <1>4, <3>1, <3>2, <3>3, <3>4, StoreParts, Persisted
    <3>5. CASE ~writable
      <4>1. index' = db'.keyed /\ UNCHANGED <<file, baseline>>
        BY <3>1, <3>2, <3>5 DEF KeysOf
      <4> QED
        BY <1>3, <1>4, <3>3, <4>1, StoreParts DEF TypeOK, IndexTrue, KeysOf, PremiumKept
    <3> QED
      BY <3>4, <3>5
  <2> QED
    BY <2>1, <2>2
<1>7. p \in {"idle", "catalog", "issuing", "locking", "made", "failed"} /\ p # "issuing"
  OBVIOUS
<1>8. Makes(m)' /\ HadTrue(m)'
  BY <1>1, <1>2, Waiting DEF StoreInductive, Makes, HadTrue, Name
<1> HIDE DEF a, c, seen, p
<1>9. req' = [req EXCEPT ![m] = req[m]] /\ req[m] \in Requests \cup {None}
  BY <1>1, Waiting
<1>10. ~May("account") => PinsOne(cfg')
  BY <1>5, <1>6 DEF PinsOne
<1> QED
  BY <1>1, <1>3, <1>6, <1>7, <1>8, <1>9, <1>10, Waiting, MakerStep

\* The lock on its clients comes.
LEMMA LockedStep == ASSUME StoreInductive, NEW m \in Makers, Locked(m) PROVE StoreInductive'
<1>1. /\ pc[m] = "locking" /\ pc' = [pc EXCEPT ![m] = "made"]
      /\ UNCHANGED <<scene, writable, page, req, prev, had, dead, strayed>>
      /\ db' = [db EXCEPT !.locked = @ \cup ({Name(m)} \cap db.keyed)]
      /\ Project(cfg, db')
  BY DEF Locked, To
<1>2. db' \in [keyed : SUBSET Names, locked : SUBSET Names]
  BY <1>1, StoreParts
<1>3. Makes(m)' /\ HadTrue(m)'
  BY <1>1, Waiting DEF Makes, HadTrue
<1>4. req' = [req EXCEPT ![m] = req[m]] /\ req[m] \in Requests \cup {None}
  BY <1>1, Waiting
<1>5. /\ cfg' \in Cfgs /\ cfg'.epoch = cfg.epoch /\ cfg'.routes = cfg.routes /\ (~May("account") => PinsOne(cfg'))
      /\ file' \in Cfgs \cup {None, Torn} /\ index' \subseteq Names /\ baseline' \subseteq Names
      /\ IndexTrue' /\ PremiumKept'
  BY <1>1, <1>2, StoreParts, Projected DEF PinsOne
<1> QED
  BY <1>1, <1>2, <1>3, <1>4, <1>5, Waiting, MakerStep

\* A step of it fails.  The map that is put back may be older than the rules of others, which
\* is why RuleFirst is conditional.
LEMMA StepFailsStep == ASSUME StoreInductive, NEW m \in Makers, StepFails(m) PROVE StoreInductive'
<1>0. ~NobodyFails
  BY StoreParts DEF StepFails, NobodyFails, May, TypeOK
<1>1. /\ pc[m] \in {"issuing", "locking"} /\ pc' = [pc EXCEPT ![m] = "failed"]
      /\ cfg' = [cfg EXCEPT !.routes = Rollback(m)]
      /\ UNCHANGED <<scene, store, writable, page, req, prev, had, dead, strayed>>
  BY DEF StepFails, To
<1>2. db' \in [keyed : SUBSET Names, locked : SUBSET Names]
  BY <1>1, Waiting, StoreParts DEF StepFails
<1>3. Rollback(m) \in Maps
  BY <1>1, Waiting DEF Rollback, Maps, Rules
<1>4. /\ cfg' \in Cfgs /\ cfg'.consumers = cfg.consumers /\ cfg'.epoch = cfg.epoch
      /\ cfg'.pins = cfg.pins /\ cfg'.oldPins = cfg.oldPins /\ cfg'.shared = cfg.shared
  BY <1>1, <1>3, StoreParts DEF Cfgs
<1>5. Makes(m)' /\ HadTrue(m)'
  BY <1>1, Waiting DEF Makes, HadTrue
<1>6. req' = [req EXCEPT ![m] = req[m]] /\ req[m] \in Requests \cup {None}
  BY <1>1, Waiting
<1> QED
  BY <1>0, <1>1, <1>2, <1>4, <1>5, <1>6, Waiting, StoreParts, SameStore, MakerStep DEF PinsOne

\* It is answered.
LEMMA DoneStep == ASSUME StoreInductive, NEW m \in Makers, Done(m) PROVE StoreInductive'
<1>1. /\ pc' = [pc EXCEPT ![m] = "idle"] /\ req' = [req EXCEPT ![m] = None]
      /\ UNCHANGED <<scene, cfg, store, writable, page, db, prev, had, dead, strayed>>
  BY DEF Done, To
<1>2. Makes(m)' /\ HadTrue(m)'
  BY <1>1, Waiting DEF Makes, HadTrue
<1> QED
  BY <1>1, <1>2, Waiting, StoreParts, SameStore, MakerStep

(* The process. *)

\* A boot: nobody makes an app, and the file is what there is.
LEMMA BootStep ==
    ASSUME StoreInductive, Restart \/ Tear
    PROVE  StoreInductive'
<1>0. /\ UNCHANGED <<scene, writable, page, db, prev, had, dead>>
      /\ pc' = [m \in Makers |-> "idle"] /\ req' = [m \in Makers |-> None]
      /\ cfg' = Loaded(file') /\ index' = KeysOf(cfg') /\ baseline' = PremiumApps(cfg')
      /\ file' \in Cfgs \cup {None, Torn}
  BY StoreParts DEF Restart, Tear, TypeOK
<1>1. cfg' \in Cfgs /\ PinsOne(cfg') /\ (file' \in Cfgs => PremiumApps(cfg') = PremiumApps(file'))
  <2>1. CASE file' \in {None, Torn}
    BY <1>0, <2>1, NamesTyped, FilesAssumption DEF Loaded, Env, PinsOne
  <2>2. CASE file' \in Cfgs
    <3>1. cfg' = MergeConfig(file')
      BY <1>0, <2>2, FilesAssumption DEF Loaded
    <3> QED
      BY <2>2, <3>1, MergeTyped, FilesAssumption DEF PremiumApps
  <2> QED
    BY <1>0, <2>1, <2>2
<1>2. cfg'.consumers \subseteq Names /\ PremiumApps(cfg') \subseteq Names
  BY <1>1 DEF Cfgs, PremiumApps
<1>3. strayed' \in BOOLEAN
  BY StoreParts DEF Restart, Tear, TypeOK
<1>4. TypeOK'
  BY <1>0, <1>1, <1>2, <1>3, StoreParts DEF TypeOK, KeysOf
<1>5. IndexTrue' /\ PremiumKept'
  BY <1>0, <1>1 DEF IndexTrue, PremiumKept
<1>6. (\A m \in Makers : Makes(m)' /\ HadTrue(m)') /\ NobodyPins' /\ RuleFirst'
  BY <1>0, <1>1 DEF Makes, HadTrue, NobodyPins, RuleFirst
<1>7. OldEpochs'
  <2>1. ASSUME ~strayed' PROVE cfg'.epoch = cfg.epoch /\ ~strayed
    <3>1. Restart /\ ~strayed /\ file = cfg /\ file' = file
      BY <2>1 DEF Restart, Tear
    <3> QED
      BY <1>0, <3>1, StoreParts, MergeTyped, FilesAssumption DEF Loaded
  <2> QED
    BY <1>0, <2>1 DEF StoreInductive, OldEpochs
<1> QED
  BY <1>4, <1>5, <1>6, <1>7 DEF StoreInductive

(* The first configuration is one of the menu, with the index of its
   consumers, saved and with no session and no create in flight. *)
LEMMA StoreInit == Init => StoreInductive
<1> SUFFICES ASSUME Init PROVE StoreInductive
  OBVIOUS
<1>1. PICK routes \in scene.routes, pins \in scene.pins :
         cfg = [Env EXCEPT !.routes = routes, !.pins = pins, !.oldPins = pins, !.shared = pins # NoPins]
  BY DEF Init
<1>2. scene \in Scenes /\ routes \in Maps /\ pins \in Pins
  BY ScenesAssumption DEF Init
<1>3. cfg \in Cfgs /\ cfg.consumers = {} /\ PinsOne(cfg) /\ cfg.pins \in Pins /\ cfg.routes \in Maps
  <2>1. Env \in Cfgs /\ Env.consumers = {}
    BY NamesTyped DEF Env
  <2> HIDE DEF Env
  <2> QED
    BY <1>1, <1>2, <2>1 DEF Cfgs, PinsOne
<1>4. /\ file = cfg /\ writable = TRUE /\ index = {} /\ baseline = {}
      /\ page = [pins |-> cfg.pins, routes |-> cfg.routes]
      /\ db = [keyed |-> {}, locked |-> {}]
      /\ pc = [m \in Makers |-> "idle"] /\ req = [m \in Makers |-> None]
      /\ prev = [m \in Makers |-> NoRules] /\ had = [m \in Makers |-> FALSE]
      /\ dead = {} /\ strayed = FALSE
  BY DEF Init
<1>5. TypeOK
  BY <1>2, <1>3, <1>4, NamesTyped DEF TypeOK
<1>6. IndexTrue /\ PremiumKept
  BY <1>3, <1>4 DEF IndexTrue, PremiumKept, KeysOf, PremiumApps
<1>7. \A m \in Makers : Makes(m) /\ HadTrue(m)
  BY <1>4 DEF Makes, HadTrue
<1>8. NobodyPins /\ OldEpochs /\ RuleFirst
  BY <1>3, <1>4 DEF NobodyPins, OldEpochs, RuleFirst
<1> QED
  BY <1>5, <1>6, <1>7, <1>8 DEF StoreInductive

\* Every step keeps the invariant.
LEMMA StoreStep == StoreInductive /\ [Next]_vars => StoreInductive'
<1> SUFFICES ASSUME StoreInductive, [Next]_vars PROVE StoreInductive'
  OBVIOUS
<1>1. ASSUME NEW m \in Makers, Make(m) PROVE StoreInductive'
  BY <1>1, AskStep, WriteRuleStep, IssuedStep, LockedStep, StepFailsStep, DoneStep DEF Make
<1>2. CASE Logout \/ Render \/ SaveConfig \/ Reset
  BY <1>2, LogoutStep, RenderStep, SaveConfigStep, ResetStep
<1>3. CASE \/ \E n \in Names, a \in Logins \cup {None} : SetPin(n, a)
           \/ \E n \in Names, r \in Rules : SetRoute(n, r)
           \/ \E b \in BOOLEAN : SetMode(b)
           \/ \E a \in Logins, force \in BOOLEAN : RemoveAccount(a, force)
           \/ \E a \in Logins : ImportAccount(a)
  BY <1>3, SwitchStep
<1>4. ASSUME NEW n \in Names, Register(n) PROVE StoreInductive'
  BY <1>4, RegisterStep
<1>5. CASE Remount \/ Restart \/ Tear \/ Reproject
  BY <1>5, RemountStep, BootStep, ReprojectStep
<1>6. CASE UNCHANGED vars
  <2>1. /\ UNCHANGED <<scene, makers, strayed, dead, cfg, writable, page, db, store>>
    BY <1>6 DEF vars
  <2>2. file' = file /\ index' = index /\ baseline' = baseline
    BY <2>1 DEF store
  <2>3. IndexTrue' /\ PremiumKept'
    BY <2>1, <2>2, StoreParts DEF IndexTrue, PremiumKept, KeysOf
  <2>4. file \in Cfgs \cup {None, Torn} /\ index \subseteq Names /\ baseline \subseteq Names
    BY StoreParts DEF TypeOK
  <2> QED
    BY <2>1, <2>2, <2>3, <2>4, StoreParts, QuietStep
<1> QED
  BY <1>1, <1>2, <1>3, <1>4, <1>5, <1>6 DEF Next

\* The invariant holds throughout (config.js persistConfig and mergeConfig, admin.js,
\* consumers.js createApp).
THEOREM StoreHolds == Spec => []StoreInductive
BY StoreInit, StoreStep, PTL DEF Spec

\* The key index is the one of the consumers in force, and nothing saved escaped the look for
\* premium apps (config.js reindexKeys, alert.js).
THEOREM StoreSound == Spec => []StoreInv
<1>1. StoreInductive => StoreInv
  BY DEF StoreInductive, StoreInv, PremiumKept, PremiumSeen, TypeOK
<1> QED
  BY <1>1, StoreHolds, PTL

\* A boot puts in force what was saved (config.js mergeConfig), while no create has pinned.
THEOREM BootsKeep == Spec => []RestartKeeps
<1>1. StoreInductive => RestartKeeps
  <2> SUFFICES ASSUME StoreInductive, file = cfg, ~May("account")
               PROVE  InForce(Loaded(file)) = InForce(cfg)
    BY DEF RestartKeeps
  <2>1. cfg \in Cfgs /\ PinsOne(cfg)
    BY StoreParts
  <2>2. Loaded(file) = MergeConfig(cfg)
    BY <2>1, FilesAssumption DEF Loaded
  <2>3. Union(cfg) = cfg.pins
    BY <2>1, OneStays
  <2> QED
    BY <2>1, <2>2, <2>3, MergeTyped DEF InForce, Signature
<1> QED
  BY <1>1, StoreHolds, PTL

\* A session that was logged out stays out (admin.js sessionEpoch).
THEOREM LoggedOutIsOut == Spec => []LoggedOutStaysOut
<1>1. StoreInductive => LoggedOutStaysOut
  <2> SUFFICES ASSUME StoreInductive, ~strayed, Signature(cfg) \in dead PROVE FALSE
    BY DEF LoggedOutStaysOut
  <2>1. Signature(cfg)[2] < cfg.epoch
    BY DEF StoreInductive, OldEpochs
  <2>2. cfg.epoch < cfg.epoch /\ cfg.epoch \in Nat
    BY <2>1, StoreParts, ConfigStoreAssumption DEF Signature, Cfgs
  <2> QED
    BY <2>2
<1> QED
  BY <1>1, StoreHolds, PTL

\* A create moves on only by a step of its own, or by a boot.
LEMMA MovedBy ==
    ASSUME StoreInductive, Next, NEW m \in Makers, pc'[m] # pc[m], pc'[m] # "idle"
    PROVE  Ask(m) \/ WriteRule(m) \/ Issued(m) \/ Locked(m) \/ StepFails(m)
<1>0. pc \in [Makers -> {"idle", "catalog", "issuing", "locking", "made", "failed"}]
  BY StoreParts DEF TypeOK
<1>1. ASSUME NEW k \in Makers, Make(k) PROVE Make(m)
  <2>1. PICK p \in {"idle", "catalog", "issuing", "locking", "made", "failed"} : pc' = [pc EXCEPT ![k] = p]
    BY <1>1 DEF Make, Ask, WriteRule, Issued, Locked, StepFails, Done, To
  <2>2. k = m
    BY <1>0, <2>1
  <2> QED
    BY <1>1, <2>2
<1>2. CASE Restart \/ Tear
  BY <1>2 DEF Restart, Tear
<1>3. CASE ~(Restart \/ Tear) /\ ~\E k \in Makers : Make(k)
  <2>1. UNCHANGED makers
    BY <1>3 DEF Next, Logout, Render, SaveConfig, Reset, SetPin, SetRoute, SetMode, RemoveAccount,
                ImportAccount, Register, Remount, Reproject
  <2> QED
    BY <2>1 DEF makers
<1>4. ~Done(m)
  BY <1>0 DEF Done, To
<1> QED
  BY <1>1, <1>2, <1>3, <1>4 DEF Make

\* A create that fails with nobody else at the rules leaves them as it found them
\* (consumers.js createApp, the catch).
THEOREM FailuresRestore == Spec => FailureRestoresRules
<1>1. StoreInductive /\ [Next]_vars
        => \A m \in Makers : (pc[m] # "failed" /\ pc'[m] = "failed" /\ cfg.routes = AsWritten(m))
             => cfg'.routes = prev[m]
  <2> SUFFICES ASSUME StoreInductive, [Next]_vars, NEW m \in Makers,
                      pc[m] # "failed", pc'[m] = "failed", cfg.routes = AsWritten(m)
               PROVE  cfg'.routes = prev[m]
    OBVIOUS
  <2>1. Next
    BY DEF vars, makers
  <2>2. StepFails(m)
    <3>1. Ask(m) \/ WriteRule(m) \/ Issued(m) \/ Locked(m) \/ StepFails(m)
      BY <2>1, MovedBy
    <3> QED
      BY <3>1, Waiting DEF Ask, WriteRule, Issued, Locked, To
  <2>3. cfg'.routes = Rollback(m) /\ pc[m] \in {"issuing", "locking"}
    BY <2>2, StoreParts DEF StepFails, Cfgs
  <2>4. prev[m] \in Maps /\ Name(m) \in Names
    BY <2>3, Waiting
  <2>5. CASE had[m]
    BY <2>3, <2>5 DEF Rollback
  <2>6. CASE ~had[m]
    <3>1. prev[m][Name(m)] = None
      BY <2>3, <2>6 DEF StoreInductive, HadTrue
    <3>2. cfg'.routes = [AsWritten(m) EXCEPT ![Name(m)] = None]
      BY <2>3, <2>6 DEF Rollback
    <3> QED
      BY <2>4, <3>1, <3>2 DEF AsWritten, Maps
  <2> QED
    BY <2>5, <2>6
<1> QED
  BY <1>1, StoreHolds, PTL DEF Spec, FailureRestoresRules

\* A create of a name that had no rule touches no other rule.
THEOREM RulesOfItsOwn == Spec => OnlyItsOwnRule
<1>1. StoreInductive /\ [Next]_vars
        => \A m \in Makers : pc'[m] # pc[m] /\ pc'[m] # "idle" /\ ~had'[m]
             => \A n \in Names : cfg'.routes[n] # cfg.routes[n] => n = Name(m)
  <2> SUFFICES ASSUME StoreInductive, [Next]_vars, NEW m \in Makers,
                      pc'[m] # pc[m], pc'[m] # "idle", ~had'[m],
                      NEW n \in Names, cfg'.routes[n] # cfg.routes[n]
               PROVE  n = Name(m)
    OBVIOUS
  <2>1. Next
    BY DEF vars, makers
  <2>2. Ask(m) \/ WriteRule(m) \/ Issued(m) \/ Locked(m) \/ StepFails(m)
    BY <2>1, MovedBy
  <2>3. cfg \in Cfgs /\ cfg.routes \in Maps
    BY StoreParts, Waiting
  <2>4. CASE Ask(m)
    BY <2>4 DEF Ask
  <2>5. CASE WriteRule(m)
    BY <2>3, <2>5 DEF WriteRule, Cfgs, Maps
  <2>6. CASE Issued(m) \/ Locked(m)
    BY <2>3, <2>6 DEF Issued, Locked, Project, Cfgs
  <2>7. CASE StepFails(m)
    BY <2>3, <2>7 DEF StepFails, Rollback, Cfgs, Maps
  <2> QED
    BY <2>2, <2>4, <2>5, <2>6, <2>7
<1> QED
  BY <1>1, StoreHolds, PTL DEF Spec, OnlyItsOwnRule

\* No consumer holds a key before the rule it was created with, where creates come one at a
\* time or do not fail: with two of them, the map that one puts back may lack the other's rule.
THEOREM KeysUnderRules == ASSUME Undisturbed PROVE Spec => KeyedUnderRule
<1>1. StoreInductive /\ [Next]_vars
        => \A m \in Makers :
             (/\ pc[m] = "issuing" /\ pc'[m] \in {"locking", "made"} /\ req[m].rule # None
              /\ scene.ops \cap {"clear", "config", "reset"} = {})
             => cfg'.routes[Name(m)] # None
  <2> SUFFICES ASSUME StoreInductive, [Next]_vars, NEW m \in Makers,
                      pc[m] = "issuing", pc'[m] \in {"locking", "made"}, req[m].rule # None, NobodyClears
               PROVE  cfg'.routes[Name(m)] # None
    BY DEF NobodyClears
  <2>1. Next
    BY DEF vars, makers
  <2>2. Issued(m)
    <3>1. Ask(m) \/ WriteRule(m) \/ Issued(m) \/ Locked(m) \/ StepFails(m)
      BY <2>1, MovedBy
    <3> QED
      BY <3>1, Waiting DEF Ask, WriteRule, Locked, StepFails, To
  <2>3. cfg.routes[Name(m)] # None
    BY DEF StoreInductive, RuleFirst
  <2>4. cfg'.routes = cfg.routes
    BY <2>2, StoreParts DEF Issued, Project, Cfgs
  <2> QED
    BY <2>3, <2>4
<1> QED
  BY <1>1, StoreHolds, PTL DEF Spec, KeyedUnderRule
=============================================================================
