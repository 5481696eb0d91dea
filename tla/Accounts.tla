------------------------------ MODULE Accounts ------------------------------
(***************************************************************************)
(* The pool of Claude Max logins: which one a project is billed to         *)
(* (routing.js accountFor), what takes a login out of the selection (the   *)
(* operator's flag, a dead subscription, a cooldown, a spent window), the  *)
(* operator's endpoints that change the pool (accounts.js) and the probes  *)
(* that read a login's windows (claudecode.js refreshAccountLimits).       *)
(*                                                                         *)
(* A login is a name; names are numbers because ties are broken by name.   *)
(* Its setup-token is a generation number: rotating it starts the next.    *)
(* Time is not counted: a cooldown and a window end at any moment.         *)
(***************************************************************************)
EXTENDS Naturals, Sequences, FiniteSets, SequencesExt

CONSTANTS
    Logins,     \* names of logins
    Projects,   \* the identities calls arrive with: consumers and their jobs
    ConsumerOf, \* parseConsumer: the consumer of each project
    Apps,       \* consumers the registry lists with kind "app"
    DefaultLogin,   \* CFG.defaultAccount, or None
    Readings,   \* the windows an upstream may report, see Reports
    Floor,      \* HEADROOM_FLOOR, in the unit of left
    Strategies, \* the account strategies an instance visits
    Ops,        \* what happens around the calls in an instance
    MaxGen,     \* bound on token rotations
    FirstPool,  \* the pool an instance starts with
    FirstPins,  \* and its pins
    None

\* left: how much of the fuller window is left; spent: acctSpentNow; reset: rank
\* of the weekly reset.
Reports == [left : Nat, spent : BOOLEAN, reset : Nat]

ASSUME AccountsAssumption ==
    /\ Logins \subseteq Nat /\ IsFiniteSet(Logins) /\ None \notin Logins
    /\ ConsumerOf \in [Projects -> Projects]
    /\ Apps \subseteq Projects
    /\ DefaultLogin \in Logins \cup {None}
    /\ Readings \subseteq Reports /\ None \notin Reports
    /\ Floor \in Nat /\ MaxGen \in Nat
    /\ Strategies \subseteq {"pinned", "soonest-weekly-reset", "any-available"}
    /\ FirstPool \in Seq(Logins) /\ IsInjective(FirstPool)
    /\ FirstPins \in [Projects -> {FirstPool[i] : i \in DOMAIN FirstPool} \cup {None}]

VARIABLES
    pool,       \* CFG.claudecodeAccountPool, the names in order
    disabled,   \* the entries with the `disabled` flag
    gen,        \* the token of each entry
    cancelled,  \* <<login, token>> whose subscription is cancelled (the vendor's state)
    dead,       \* ACCT_DEAD
    cool,       \* ACCT_COOL: the cooldowns that have not elapsed
    orgOf,      \* ORG_OF_ACCOUNT; the organisation of a login has the login's name
    window,     \* ACCT_CACHE: the last reading of each organisation
    strategy,   \* CFG.accountStrategy
    pins,       \* CFG.projectAccounts
    sweep,      \* entries a limits sweep has still to probe, each with its place in the list
    probes      \* entries probed one at a time on the operator's request

accountVars == <<pool, disabled, gen, cancelled, dead, cool, orgOf, window,
                 strategy, pins, sweep, probes>>

Gens == 0..MaxGen
Tokens == Logins \X Gens
InPool == {pool[i] : i \in DOMAIN pool}
\* An entry of the pool as an object: its name and the token it holds.
Entry(a) == <<a, gen[a]>>

AccountsTypeOK ==
    /\ pool \in Seq(Logins) /\ IsInjective(pool)
    /\ disabled \subseteq InPool
    /\ gen \in [Logins -> Gens]
    /\ cancelled \subseteq Tokens
    /\ dead \subseteq Logins /\ cool \subseteq Logins
    /\ orgOf \in [Logins -> Logins \cup {None}]
    /\ window \in [Logins -> Reports \cup {None}]
    /\ strategy \in Strategies
    /\ pins \in [Projects -> Logins \cup {None}]
    /\ sweep \subseteq Nat \X Tokens /\ probes \subseteq Tokens

\* After a boot: the pool and the pins of the config file, nothing known of them.
AccountsInit ==
    /\ pool = FirstPool /\ pins = FirstPins
    /\ disabled = {} /\ cancelled = {} /\ dead = {} /\ cool = {}
    /\ gen = [a \in Logins |-> 0]
    /\ orgOf = [a \in Logins |-> None]
    /\ window = [a \in Logins |-> None]
    /\ strategy \in Strategies
    /\ sweep = {} /\ probes = {}

-----------------------------------------------------------------------------
(* The selection. *)

\* acctReading.  A weekly window that has rolled is no reading any more.
Reading(a) == IF orgOf[a] = None THEN None ELSE window[orgOf[a]]

Spent(a) == Reading(a) # None /\ Reading(a).spent

Usable(a) == /\ a \notin disabled /\ a \notin dead /\ a \notin cool
             /\ ~Spent(a)

UsableLogins == {a \in InPool : Usable(a)}

\* Logins the auto-selector can put in order.
Candidates == {a \in UsableLogins : Reading(a) # None}

Roomy == {a \in Candidates : Reading(a).left >= Floor}

Sooner(a, b) == \/ Reading(a).reset < Reading(b).reset
                \/ Reading(a).reset = Reading(b).reset /\ a < b

Fuller(a, b) == \/ Reading(a).left > Reading(b).left
                \/ Reading(a).left = Reading(b).left /\ a < b

\* autoAccount: the weekly window that is forfeited first, among the logins with
\* something left; when none has, the one with the most left.
AutoAccount ==
    IF Roomy # {}
    THEN CHOOSE a \in Roomy : \A b \in Roomy \ {a} : Sooner(a, b)
    ELSE CHOOSE a \in Candidates : \A b \in Candidates \ {a} : Fuller(a, b)

\* The pin of the exact path, then of the consumer, then the default.
Want(p) == IF pins[p] # None THEN pins[p]
           ELSE IF pins[ConsumerOf[p]] # None THEN pins[ConsumerOf[p]]
           ELSE DefaultLogin

\* Defect: the mark of a pinned login is not looked at.
DefectPinned(p) == IF Want(p) \in InPool THEN Want(p) ELSE None

Pinned(p) == IF Want(p) \in InPool \ disabled THEN Want(p) ELSE None

\* Whether the strategy chooses for this caller.
Selects(p) == \/ strategy = "any-available"
              \/ strategy = "soonest-weekly-reset" /\ ConsumerOf[p] \in Apps

\* Defect: the pin is kept whether or not it can serve.
DefectAccountFor(p) ==
    IF ~Selects(p) THEN Pinned(p)
    ELSE IF Candidates # {} THEN AutoAccount
    ELSE IF Pinned(p) # None THEN Pinned(p)
    ELSE IF UsableLogins # {} THEN Min(UsableLogins)
    ELSE None

AccountFor(p) ==
    IF ~Selects(p) THEN Pinned(p)
    ELSE IF Candidates # {} THEN AutoAccount
    ELSE IF Pinned(p) # None /\ Usable(Pinned(p)) THEN Pinned(p)
    ELSE IF UsableLogins # {} THEN Min(UsableLogins)
    ELSE Pinned(p)

-----------------------------------------------------------------------------
(* The operator's endpoints. *)

May(op) == op \in Ops

\* setPin: an unknown login is refused.
SetPin(p, a) ==
    /\ May("pin") /\ a \in InPool
    /\ pins' = [pins EXCEPT ![p] = a]
    /\ UNCHANGED <<pool, disabled, gen, cancelled, dead, cool, orgOf, window, strategy, sweep, probes>>

ClearPin(p) ==
    /\ May("pin")
    /\ pins' = [pins EXCEPT ![p] = None]
    /\ UNCHANGED <<pool, disabled, gen, cancelled, dead, cool, orgOf, window, strategy, sweep, probes>>

\* setAccountToken: adds the login or rotates its token; `flag` sets, clears or
\* keeps the disabled mark.
ImportToken(a, flag) ==
    /\ May("import") /\ gen[a] < MaxGen
    /\ pool' = IF a \in InPool THEN pool ELSE Append(pool, a)
    /\ gen' = [gen EXCEPT ![a] = @ + 1]
    /\ disabled' = CASE flag = "set"   -> disabled \cup {a}
                     [] flag = "clear" -> disabled \ {a}
                     [] flag = "keep"  -> disabled
    /\ UNCHANGED <<cancelled, dead, cool, orgOf, window, strategy, pins, sweep, probes>>

\* setAccountDisabled.
SetDisabled(a, flag) ==
    /\ May("disable") /\ a \in InPool
    /\ disabled' = IF flag THEN disabled \cup {a} ELSE disabled \ {a}
    /\ UNCHANGED <<pool, gen, cancelled, dead, cool, orgOf, window, strategy, pins, sweep, probes>>

PinnedBy(a) == {p \in Projects : pins[p] = a}
PlaceOf(a) == CHOOSE i \in DOMAIN pool : pool[i] = a

\* Defect: the pins are left to dangle.
DefectRemoveAccount(a, force) ==
    /\ May("remove") /\ a \in InPool
    /\ PinnedBy(a) # {} => force
    /\ pool' = RemoveAt(pool, PlaceOf(a))
    /\ disabled' = disabled \ {a}
    /\ UNCHANGED <<gen, cancelled, dead, cool, orgOf, window, strategy, pins, sweep, probes>>

\* removeAccount: refused while a project pins it, unless forced; then the pins go too.
RemoveAccount(a, force) ==
    /\ May("remove") /\ a \in InPool
    /\ PinnedBy(a) # {} => force
    /\ pins' = [p \in Projects |-> IF p \in PinnedBy(a) THEN None ELSE pins[p]]
    /\ pool' = RemoveAt(pool, PlaceOf(a))
    /\ disabled' = disabled \ {a}
    /\ UNCHANGED <<gen, cancelled, dead, cool, orgOf, window, strategy, sweep, probes>>

SetStrategy(s) ==
    /\ May("strategy")
    /\ strategy' = s
    /\ UNCHANGED <<pool, disabled, gen, cancelled, dead, cool, orgOf, window, pins, sweep, probes>>

-----------------------------------------------------------------------------
(* The clock and the vendor. *)

\* A cooldown elapses (acctCooling prunes it).
CoolEnds(a) ==
    /\ a \in cool
    /\ cool' = cool \ {a}
    /\ UNCHANGED <<pool, disabled, gen, cancelled, dead, orgOf, window, strategy, pins, sweep, probes>>

\* The 5h window rolls, or the weekly one: a reading is a snapshot, and what it
\* says of a window ends with the window.
Roll(o) ==
    /\ May("roll") /\ window[o] # None
    /\ \E w \in {None, [window[o] EXCEPT !.spent = FALSE]} : window' = [window EXCEPT ![o] = w]
    /\ UNCHANGED <<pool, disabled, gen, cancelled, dead, cool, orgOf, strategy, pins, sweep, probes>>

\* noteAcctCooldown: a real 429 benches the logins for the auto-selector.
Bench(S) == cool' = cool \cup S

\* A 429 on a call that this module does not follow.
Refused429(a) ==
    /\ May("429")
    /\ Bench({a})
    /\ UNCHANGED <<pool, disabled, gen, cancelled, dead, orgOf, window, strategy, pins, sweep, probes>>

\* The vendor cancels the subscription behind a token; every later call gets 403.
Cancel(a) ==
    /\ May("cancel") /\ a \in InPool
    /\ cancelled' = cancelled \cup {Entry(a)}
    /\ UNCHANGED <<pool, disabled, gen, dead, cool, orgOf, window, strategy, pins, sweep, probes>>

-----------------------------------------------------------------------------
(* Probes.  refreshAccountLimits holds the entry it was given; what it learns it *)
(* writes under the entry's name.                                               *)

\* autoDisableAccount: marks the entry that bears the name now, if there is one.
AutoDisable(a) == disabled' = IF a \in InPool THEN disabled \cup {a} ELSE disabled

\* A fresh reading: the login is alive, and a cooldown of it is over.
LearnWindows(a, r) ==
    /\ orgOf' = [orgOf EXCEPT ![a] = a]
    /\ window' = [window EXCEPT ![a] = r]
    /\ dead' = dead \ {a}
    /\ cool' = cool \ {a}
    /\ UNCHANGED disabled

\* An answer without windows may still name its organisation.
MayLearnOrg(a) == orgOf' \in {orgOf, [orgOf EXCEPT ![a] = a]}

\* Defect: the probe marks the login dead and leaves the persistent flag alone.
DefectLearnDead(a) ==
    /\ dead' = dead \cup {a}
    /\ MayLearnOrg(a)
    /\ UNCHANGED <<disabled, cool, window>>

\* 403 permission_error: the login is dead, and out of routing across restarts.
LearnDead(a) ==
    /\ dead' = dead \cup {a}
    /\ AutoDisable(a)
    /\ MayLearnOrg(a)
    /\ UNCHANGED <<cool, window>>

\* What the probe of entry t comes to: no reading (a 429, no network), or an answer.
ProbeNothing(t) == MayLearnOrg(t[1]) /\ UNCHANGED <<disabled, dead, cool, window>>
ProbeAnswer(t) == IF t \in cancelled THEN LearnDead(t[1])
                  ELSE \E r \in Readings : LearnWindows(t[1], r)

\* Defect: the sweep leaves out the logins that are marked dead, too.
DefectUnparked == {a \in InPool : a \notin disabled \cup dead}

\* The entries a sweep goes through: those not disabled when it starts (the
\* timer's), or all (the operator's).
Unparked == {a \in InPool : a \notin disabled}
Listed(S) == {<<i, Entry(pool[i])>> : i \in {j \in DOMAIN pool : pool[j] \in S}}

\* The 30-minute timer; it does nothing under the "pinned" strategy.
StartSweep ==
    /\ May("sweep") /\ sweep = {} /\ strategy # "pinned"
    /\ sweep' = Listed(Unparked)
    /\ UNCHANGED <<pool, disabled, gen, cancelled, dead, cool, orgOf, window, strategy, pins, probes>>

SweepAll ==
    /\ May("all") /\ sweep = {}
    /\ sweep' = Listed(InPool)
    /\ UNCHANGED <<pool, disabled, gen, cancelled, dead, cool, orgOf, window, strategy, pins, probes>>

\* The entry whose probe is out: the sweep goes down the list, one at a time.
Due(u) == u \in sweep /\ \A v \in sweep : u[1] <= v[1]

\* That probe ends, and the next one starts.
SweepAnswered(a) ==
    /\ \E u \in sweep : /\ Due(u) /\ u[2][1] = a
                       /\ ProbeAnswer(u[2])
                       /\ sweep' = sweep \ {u}
    /\ UNCHANGED <<pool, gen, cancelled, strategy, pins, probes>>

SweepUnanswered(a) ==
    /\ \E u \in sweep : /\ Due(u) /\ u[2][1] = a
                       /\ ProbeNothing(u[2])
                       /\ sweep' = sweep \ {u}
    /\ UNCHANGED <<pool, gen, cancelled, strategy, pins, probes>>

AskProbe(a) ==
    /\ May("probe") /\ a \in InPool
    /\ probes' = probes \cup {Entry(a)}
    /\ UNCHANGED <<pool, disabled, gen, cancelled, dead, cool, orgOf, window, strategy, pins, sweep>>

ProbeEnds(t) ==
    /\ t \in probes
    /\ ProbeAnswer(t) \/ ProbeNothing(t)
    /\ probes' = probes \ {t}
    /\ UNCHANGED <<pool, gen, cancelled, strategy, pins, sweep>>

Operator ==
    \/ \E p \in Projects, a \in Logins : SetPin(p, a)
    \/ \E p \in Projects : ClearPin(p)
    \/ \E a \in Logins, flag \in {"set", "clear", "keep"} : ImportToken(a, flag)
    \/ \E a \in Logins, flag \in BOOLEAN : SetDisabled(a, flag) \/ RemoveAccount(a, flag)
    \/ \E s \in Strategies : SetStrategy(s)

Environment == \E a \in Logins : CoolEnds(a) \/ Refused429(a) \/ Roll(a) \/ Cancel(a)

Probing == \/ StartSweep \/ SweepAll
           \/ \E a \in Logins : SweepAnswered(a) \/ SweepUnanswered(a) \/ AskProbe(a)
           \/ \E t \in probes : ProbeEnds(t)

AccountsNext == Operator \/ Environment \/ Probing

AccountsSpec == AccountsInit /\ [][AccountsNext]_accountVars

\* The sweep's timer fires, every probe ends within its own 20 s, and a login that
\* is probed again and again is answered some time.
AccountsFairness ==
    /\ WF_accountVars(StartSweep)
    /\ \A a \in Logins : /\ WF_accountVars(SweepAnswered(a) \/ SweepUnanswered(a))
                         /\ SF_accountVars(SweepAnswered(a))

AccountsFairSpec == AccountsSpec /\ AccountsFairness

-----------------------------------------------------------------------------
(* Safety. *)

\* Whatever the strategy and whichever of the four ways the pick was made, a call is
\* never handed to a login that is parked or gone.
PickIsLive == \A p \in Projects : AccountFor(p) # None => AccountFor(p) \in InPool \ disabled

\* The selector does not run dry: as long as one login of the pool is usable, a
\* caller the strategy chooses for gets a usable one, whatever its pin points at.
NeverDry == \A p \in Projects : (Selects(p) /\ UsableLogins # {}) => AccountFor(p) \in UsableLogins

\* A pin always names a login of the pool (setPin refuses, removeAccount drops).
PinsResolve == \A p \in Projects : pins[p] # None => pins[p] \in InPool

\* The state of the pool is sound: its parts have their types, and no pin dangles after a
\* forced removal, an import or a save (setPin, removeAccount, setAccountToken).
AccountsInv == AccountsTypeOK /\ PinsResolve

-----------------------------------------------------------------------------
(* Liveness. *)

\* In rotation, with a token that is refused with 403 permission_error.
Revoked(a) == a \in InPool \ disabled /\ Entry(a) \in cancelled

\* A login that dies is taken out of routing without any traffic on it.
DeadLoginParked == \A a \in Logins : Revoked(a) ~> (~Revoked(a) \/ strategy = "pinned")

\* Enabled again with a token that works, but still marked dead.
Revived(a) == a \in InPool \ disabled /\ Entry(a) \notin cancelled /\ a \in dead

\* ... comes back into the selection.
RevivedIsUsed == \A a \in Logins : Revived(a) ~> (~Revived(a) \/ strategy = "pinned")

=============================================================================
