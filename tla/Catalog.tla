------------------------------ MODULE Catalog ------------------------------
(***************************************************************************)
(* What the router learns of its upstreams: the ids the logins list        *)
(* (claudecode.js), the free ones of openrouter (openrouter.js), the       *)
(* windows of the logins (db.js) and the quotas of the others (quota.js).  *)
(*                                                                         *)
(* A sweep asks every login at once and follows its pages; the lists and   *)
(* the pool change meanwhile, and another sweep may be under way.  A       *)
(* reading of a window goes to a cache and, by one of several connections, *)
(* to a row; the first cache of a process is read back from the rows.      *)
(***************************************************************************)
EXTENDS Naturals, FiniteSets, FiniteSetsExt

CONSTANTS Shops,   \* instances: the logins, the ids and what they list at first, page size and the limit of
                   \* pages, the floor, how often lists change; the openrouter ids and configurations; the
                   \* number of readings, the quota keys, their limit and readings
          Unknown

\* Ten pages of a hundred ids "is far past any real catalog" (claudecode.js:62).
ASSUME CatalogAssumption ==
    \A n \in DOMAIN Shops : LET s == Shops[n] IN
        /\ s.ids \subseteq Nat \ {0} /\ IsFiniteSet(s.ids) /\ s.floor \subseteq s.ids
        /\ s.listed \in [s.logins -> SUBSET s.ids]
        /\ s.pageSize \in Nat \ {0} /\ s.maxPages \in Nat \ {0}
        /\ Cardinality(s.ids) <= s.maxPages * s.pageSize
        /\ \A c \in s.orConfigs : c.key \in BOOLEAN /\ c.freeOnly \in BOOLEAN /\ c.listed \subseteq s.orIds

VARIABLES
    shop,        \* the instance (by number)
    listing,     \* the ids each login's upstream lists
    changes,     \* of the bound
    disabled,    \* the logins the pool has given up on
    sweep,       \* refreshClaudecodeModels: of each, whether it runs, and how far each login is
    steady,      \* of each sweep, what a login has listed ever since it began (history)
    advertised,  \* CFG.claudecodeModels
    catalog,     \* claudecodeCatalog: which logins list an id
    orTable,     \* CATALOG of openrouter: which ids it has, and whether they are free
    orConfig,    \* the key is set, openrouterFreeOnly, openrouterModels
    clock,       \* replies with headers so far
    cache,       \* ACCT_CACHE, by the reply it was read from
    inserts,     \* upserts under way
    stored,      \* the row of acct_limits
    prime,       \* primeAcctCache: not yet, what its query read, done
    quota,       \* QUOTA
    lastReply    \* of each quota key, the last reply (history)

catalogVars == <<shop, listing, changes, disabled, sweep, steady, advertised, catalog, orTable, orConfig,
                 clock, cache, inserts, stored, prime, quota, lastReply>>

sh == Shops[shop]
\* A sweep that has read nothing yet.
Fresh(runs, pool) ==
    [runs |-> runs, pool |-> pool, at |-> [a \in sh.logins |-> 0], pages |-> [a \in sh.logins |-> 0],
     got |-> [a \in sh.logins |-> {}], done |-> {}, failed |-> {}]
Resting == Fresh(FALSE, {})

NotPrimed == [pc |-> "waiting", row |-> Unknown]
NothingListed == [a \in sh.logins |-> {}]

CatalogInit ==
    /\ shop \in DOMAIN Shops
    /\ listing = sh.listed /\ changes = 0 /\ disabled = {}
    /\ sweep = [w \in sh.sweeps |-> Resting]
    /\ steady = [w \in sh.sweeps |-> NothingListed]
    /\ advertised = sh.floor
    /\ catalog = [i \in {} |-> {}]
    /\ orTable = [i \in sh.orIds |-> "absent"] /\ orConfig \in sh.orConfigs
    /\ clock = 0 /\ cache = Unknown /\ inserts = {} /\ stored = Unknown /\ prime = NotPrimed
    /\ quota = [k \in {} |-> 0] /\ lastReply = [k \in sh.keys |-> 0]

OtherVars == <<orTable, orConfig, clock, cache, inserts, stored, prime, quota, lastReply>>
SweepVars == <<listing, changes, disabled, sweep, steady, advertised, catalog>>

(***************************************************************************)
(* The sweep of the logins' catalogs.                                      *)
(***************************************************************************)
\* refreshClaudecodeModels, fetchAnthropicModels: the logins that are not disabled are asked, all at once.
StartSweep(w) ==
    /\ w \in sh.sweeps /\ ~sweep[w].runs
    /\ sweep' = [sweep EXCEPT ![w] = Fresh(TRUE, sh.logins \ disabled)]
    /\ steady' = [steady EXCEPT ![w] = listing]
    /\ UNCHANGED <<shop, listing, changes, disabled, advertised, catalog>> /\ UNCHANGED OtherVars

Asking(w) == sweep[w].pool \ (sweep[w].done \cup sweep[w].failed)

PageOf(a, after) ==
    LET rest == {i \in listing[a] : i > after}
    IN  {i \in rest : Cardinality({k \in rest : k < i}) < sh.pageSize}

\* Defect: one page is the list.
DefectNoMore(a, page, n) == TRUE

\* A page that is empty or the last, or one page too many.
NoMore(a, page, n) ==
    \/ page = {}
    \/ ~ \E i \in listing[a] : i > Max(page)
    \/ n = sh.maxPages

\* The sweep q with one more page of a login.
Paged(q, a, page, over) ==
    [runs |-> q.runs, pool |-> q.pool, failed |-> q.failed,
     at |-> [q.at EXCEPT ![a] = IF page = {} THEN @ ELSE Max(page)],
     pages |-> [q.pages EXCEPT ![a] = @ + 1],
     got |-> [q.got EXCEPT ![a] = @ \cup page],
     done |-> IF over THEN q.done \cup {a} ELSE q.done]

\* fetchAccountModels: one page of one login.
ModelsPage(w, a) ==
    /\ w \in sh.sweeps /\ sweep[w].runs /\ a \in Asking(w)
    /\ LET page == PageOf(a, sweep[w].at[a])
       IN  sweep' = [sweep EXCEPT ![w] = Paged(@, a, page, NoMore(a, page, @.pages[a] + 1))]
    /\ UNCHANGED <<shop, listing, changes, disabled, steady, advertised, catalog>> /\ UNCHANGED OtherVars

\* An error status, or no answer in time.
ModelsFail(w, a) ==
    /\ w \in sh.sweeps /\ sweep[w].runs /\ a \in Asking(w)
    /\ sweep' = [sweep EXCEPT ![w].failed = @ \cup {a}]
    /\ UNCHANGED <<shop, listing, changes, disabled, steady, advertised, catalog>> /\ UNCHANGED OtherVars

\* The logins whose list was read, and is not empty.
Read(w) == {a \in sweep[w].done : sweep[w].got[a] # {}}

\* Defect: the aliases and the seed are lost with every sweep.
DefectUnion(w) == UNION {sweep[w].got[a] : a \in Read(w)}

Union(w) == (UNION {sweep[w].got[a] : a \in Read(w)}) \cup sh.floor

\* All of them are settled.  A sweep that no login answered changes nothing but the error it shows.
EndSweep(w) ==
    /\ w \in sh.sweeps /\ sweep[w].runs /\ Asking(w) = {}
    /\ IF Read(w) = {} THEN UNCHANGED <<advertised, catalog>>
       ELSE /\ advertised' = Union(w)
            /\ catalog' = [i \in UNION {sweep[w].got[a] : a \in Read(w)} |-> {a \in Read(w) : i \in sweep[w].got[a]}]
    /\ sweep' = [sweep EXCEPT ![w] = Resting]
    /\ steady' = [steady EXCEPT ![w] = NothingListed]
    /\ UNCHANGED <<shop, listing, changes, disabled>> /\ UNCHANGED OtherVars

\* The upstream lists more or less for a login, or the pool gives up on it or takes it back.
ListChanges(a) ==
    /\ a \in sh.logins /\ changes < sh.changes
    /\ listing' \in {[listing EXCEPT ![a] = new] : new \in (SUBSET sh.ids) \ {listing[a]}}
    /\ steady' = [w \in sh.sweeps |-> [steady[w] EXCEPT ![a] = @ \cap listing'[a]]]
    /\ changes' = changes + 1
    /\ UNCHANGED <<shop, disabled, sweep, advertised, catalog>> /\ UNCHANGED OtherVars

Toggled(a) ==
    /\ a \in sh.logins /\ changes < sh.changes
    /\ disabled' = IF a \in disabled THEN disabled \ {a} ELSE disabled \cup {a}
    /\ changes' = changes + 1
    /\ UNCHANGED <<shop, listing, sweep, steady, advertised, catalog>> /\ UNCHANGED OtherVars

(***************************************************************************)
(* openrouter.                                                             *)
(***************************************************************************)
Has(id) == orTable[id] # "absent"
On == orConfig.key

\* Defect: the guard is left out of what is advertised.
DefectOrEntries == IF ~On THEN {} ELSE {id \in sh.orIds : Has(id) \/ id \in orConfig.listed}

\* openrouterModelEntries: the ids that are advertised.
OrEntries ==
    IF ~On THEN {}
    ELSE {id \in sh.orIds : Has(id) /\ ~(orConfig.freeOnly /\ orTable[id] # "free" /\ id \notin orConfig.listed)}
           \cup {id \in orConfig.listed : ~Has(id)}

\* openrouterTarget: whether an id is theirs, and may be sent there.
OrTarget(id) ==
    /\ On
    /\ id \in orConfig.listed \/ (Has(id) /\ (orConfig.freeOnly => orTable[id] = "free"))

\* refreshOpenrouterModels: only a list that is not empty replaces the one before.
OrRefresh(rows) ==
    /\ rows \in [sh.orIds -> {"absent", "free", "paid"}] /\ sh.orIds # {}
    /\ orTable' = IF \A id \in sh.orIds : rows[id] = "absent" THEN orTable ELSE rows
    /\ UNCHANGED <<shop, orConfig, clock, cache, inserts, stored, prime, quota, lastReply>>
    /\ UNCHANGED SweepVars

\* A save of the configuration.
OrSaved(c) ==
    /\ c \in sh.orConfigs \ {orConfig}
    /\ orConfig' = c
    /\ UNCHANGED <<shop, orTable, clock, cache, inserts, stored, prime, quota, lastReply>>
    /\ UNCHANGED SweepVars

(***************************************************************************)
(* Windows and quotas.                                                     *)
(***************************************************************************)
\* recordLimits: the cache takes the reading, an upsert goes to one of the connections.
Harvest ==
    /\ clock < sh.replies /\ clock' = clock + 1
    /\ cache' = clock'
    /\ inserts' = inserts \cup {clock'}
    /\ UNCHANGED <<shop, orTable, orConfig, stored, prime, quota, lastReply>> /\ UNCHANGED SweepVars

\* The upsert commits, in the order the connections do; or it fails, and is counted.
UpsertLands(n) ==
    /\ n \in inserts /\ inserts' = inserts \ {n}
    /\ stored' \in {n, stored}
    /\ UNCHANGED <<shop, orTable, orConfig, clock, cache, prime, quota, lastReply>> /\ UNCHANGED SweepVars

\* primeAcctCache: a second after boot the rows are read, and then cached.
PrimeReads ==
    /\ prime.pc = "waiting" /\ sh.replies > 0
    /\ prime' = [pc |-> "read", row |-> stored]
    /\ UNCHANGED <<shop, orTable, orConfig, clock, cache, inserts, stored, quota, lastReply>>
    /\ UNCHANGED SweepVars

PrimeCaches ==
    /\ prime.pc = "read" /\ prime' = [pc |-> "over", row |-> Unknown]
    /\ cache' = IF prime.row = Unknown THEN cache ELSE prime.row
    /\ UNCHANGED <<shop, orTable, orConfig, clock, inserts, stored, quota, lastReply>> /\ UNCHANGED SweepVars

\* A restart: upserts under way may have been lost.
RebootCaches ==
    /\ sh.replies > 0
    /\ cache' = Unknown /\ inserts' = {} /\ prime' = NotPrimed
    /\ UNCHANGED <<shop, orTable, orConfig, clock, stored, quota, lastReply>> /\ UNCHANGED SweepVars

\* Defect: a store that is full takes no readings.
DefectTakesQuota(k) == Cardinality(DOMAIN quota) < sh.maxKeys

\* Only growth is refused at the limit.
TakesQuota(k) == k \in DOMAIN quota \/ Cardinality(DOMAIN quota) < sh.maxKeys

\* recordQuota: a reply that carries limits for a provider and a model.
QuotaReply(k) ==
    /\ k \in sh.keys /\ lastReply[k] < sh.quotaReplies
    /\ lastReply' = [lastReply EXCEPT ![k] = @ + 1]
    /\ quota' = IF TakesQuota(k)
                THEN [j \in DOMAIN quota \cup {k} |-> IF j = k THEN lastReply'[k] ELSE quota[j]] ELSE quota
    /\ UNCHANGED <<shop, orTable, orConfig, clock, cache, inserts, stored, prime>> /\ UNCHANGED SweepVars

CatalogNext ==
    \/ \E w \in sh.sweeps :
          \/ StartSweep(w) \/ EndSweep(w)
          \/ \E a \in sh.logins : ModelsPage(w, a) \/ ModelsFail(w, a)
    \/ \E a \in sh.logins : ListChanges(a) \/ Toggled(a)
    \/ \E t \in [sh.orIds -> {"absent", "free", "paid"}] : OrRefresh(t)
    \/ \E c \in sh.orConfigs : OrSaved(c)
    \/ \E n \in inserts : UpsertLands(n)
    \/ \E k \in sh.keys : QuotaReply(k)
    \/ Harvest \/ PrimeReads \/ PrimeCaches \/ RebootCaches

CatalogSpec == CatalogInit /\ [][CatalogNext]_catalogVars

CatalogTypeOK ==
    /\ disabled \subseteq sh.logins /\ advertised \subseteq sh.ids
    /\ \A w \in sh.sweeps : Read(w) \subseteq sweep[w].pool
    /\ {cache, stored} \subseteq {Unknown} \cup 1..clock

(***************************************************************************)
(* Properties.                                                             *)
(***************************************************************************)
\* What is advertised for openrouter is what is routed there, after any refresh and any save; and what costs
\* money is neither, unless it was written down.
AdvertisedIsRouted ==
    /\ OrEntries = {id \in sh.orIds : OrTarget(id)}
    /\ \A id \in OrEntries : orConfig.freeOnly => orTable[id] = "free" \/ id \in orConfig.listed

\* The known ids never fall below the floor, whatever sweep fails.
FloorKept == sh.floor \subseteq advertised

\* Until the rows are read back, a reading that is shown is the last reply's; a reading of a quota always is,
\* also when the store is full.
ReadingsAreReal ==
    /\ cache # Unknown /\ prime.pc # "over" => cache = clock
    /\ \A k \in DOMAIN quota : quota[k] = lastReply[k]

CatalogInv == CatalogTypeOK /\ AdvertisedIsRouted /\ FloorKept /\ ReadingsAreReal

\* The end of a sweep: whatever a login that answered listed all the while is advertised, with that login
\* under it, on whichever page it stood; and an id that is advertised was listed, or belongs to the floor.
SweepsAreWhole ==
    [][\A w \in sh.sweeps : sweep[w].runs /\ ~sweep'[w].runs /\ Read(w) # {} =>
          \A a \in Read(w) : \A i \in steady[w][a] : i \in advertised' /\ a \in catalog'[i]]_catalogVars

\* db.js:89-92: the rows prime the cache before the first reply, and never replace a newer reading.
PrimeIsFirst == [][cache' # Unknown /\ cache # Unknown => cache' >= cache]_catalogVars
=============================================================================
