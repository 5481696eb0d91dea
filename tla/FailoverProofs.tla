--------------------------- MODULE FailoverProofs ---------------------------
(***************************************************************************)
(* Theorems about the pool of logins and the calls over it, for any        *)
(* logins, projects, readings, operations, calls and tries.                *)
(*                                                                         *)
(* Accounts: the pool is sound, no pick is parked or gone, and the         *)
(* selector does not run dry.  AccountsInv is inductive.  What a pick      *)
(* needs besides is that the orders of autoAccount and firstUsableAccount  *)
(* have a first login, which follows from the least-number principle and   *)
(* from the pool being finite.                                             *)
(*                                                                         *)
(* Failover: the books of the calls are sound, every attempt goes to a     *)
(* live login, a 429 reaches a caller only when the pool is dry or the     *)
(* tries are used up, and the next call of that caller goes elsewhere.     *)
(* TriesBounded and the rest of FailoverInv are not inductive: the tries   *)
(* are counted along one call, so that it must be known of every call that *)
(* its count is the size of the set of logins it asked, that an idle one   *)
(* has asked nobody, and that one in flight waits for a login it asked.    *)
(***************************************************************************)
EXTENDS Failover, FiniteSetTheorems, WellFoundedInduction, TLAPS

(* -------------------------------- the pool --------------------------------- *)
(* Numbers. *)

\* Less-than as a relation.
Below == {ss \in Nat \X Nat : ss[1] < ss[2]}

\* A set of natural numbers has a least one.
LEMMA LeastNumber ==
    ASSUME NEW S \in SUBSET Nat, S # {}
    PROVE  \E n \in S : \A m \in S : n <= m
<1>1. IsWellFoundedOn(Below, Nat)
  BY NatLessThanWellFounded DEF OpToRel, Below
<1>2. PICK n \in S : \A m \in S : ~(<<m, n>> \in Below)
  BY <1>1, WFMin
<1>3. ASSUME NEW m \in S PROVE n <= m
  <2>1. m \in Nat /\ n \in Nat /\ ~(<<m, n>> \in Below)
    BY <1>2
  <2> QED
    BY <2>1 DEF Below
<1> QED
  BY <1>3

\* ... which Min finds.
LEMMA MinIsLeast ==
    ASSUME NEW S \in SUBSET Nat, S # {}
    PROVE  Min(S) \in S /\ \A m \in S : Min(S) <= m
<1>1. PICK n \in S : \A m \in S : n <= m
  BY LeastNumber
<1> QED
  BY <1>1 DEF Min

\* A function on a finite set has a greatest value.
LEMMA GreatestValue ==
    ASSUME NEW S, IsFiniteSet(S), S # {}, NEW f \in [S -> Nat]
    PROVE  \E x \in S : \A y \in S : f[y] <= f[x]
<1> DEFINE HasMax(T) == \E x \in T : \A y \in T : f[y] <= f[x]
           Without == {T \in SUBSET S : T # {} /\ ~HasMax(T)}
           Sizes == {Cardinality(T) : T \in Without}
<1> SUFFICES ASSUME ~HasMax(S) PROVE FALSE
  OBVIOUS
<1>1. \A T \in SUBSET S : IsFiniteSet(T) /\ Cardinality(T) \in Nat
  BY FS_Subset, FS_CardinalityType
<1>2. S \in Without
  OBVIOUS
<1>3. PICK c \in Sizes : \A d \in Sizes : c <= d
  <2>1. Sizes \in SUBSET Nat
    BY <1>1
  <2>2. Sizes # {}
    BY <1>2
  <2> HIDE DEF Sizes
  <2> QED
    BY <2>1, <2>2, LeastNumber
<1>4. PICK T \in Without : \A U \in Without : Cardinality(T) <= Cardinality(U)
  BY <1>3
<1>5. PICK x \in T : TRUE
  BY <1>4
<1>6. Cardinality(T \ {x}) = Cardinality(T) - 1
  BY <1>1, <1>4, <1>5, FS_RemoveElement
<1>7. T \ {x} \notin Without
  <2>1. SUFFICES ASSUME T \ {x} \in Without PROVE FALSE
    OBVIOUS
  <2>2. Cardinality(T) <= Cardinality(T \ {x})
    BY <1>4, <2>1
  <2>3. Cardinality(T) \in Nat
    BY <1>1, <1>4
  <2> QED
    BY <1>6, <2>2, <2>3
<1>8. CASE T \ {x} = {}
  <2>1. \A y \in T : f[y] <= f[x]
    BY <1>4, <1>5, <1>8
  <2> QED
    BY <1>4, <1>5, <2>1
<1>9. CASE T \ {x} # {}
  <2>1. PICK z \in T \ {x} : \A y \in T \ {x} : f[y] <= f[z]
    BY <1>4, <1>7, <1>9
  <2>2. \A y \in T : f[y] \in Nat
    BY <1>4
  <2>3. CASE f[x] <= f[z]
    <3>1. \A y \in T : f[y] <= f[z]
      BY <2>1, <2>3
    <3> QED
      BY <1>4, <2>1, <3>1
  <2>4. CASE ~(f[x] <= f[z])
    <3>1. \A y \in T : f[y] <= f[x]
      BY <1>5, <2>1, <2>2, <2>4
    <3> QED
      BY <1>4, <1>5, <3>1
  <2> QED
    BY <2>3, <2>4
<1> QED
  BY <1>8, <1>9

-----------------------------------------------------------------------------
(* The pool as a sequence of names. *)

\* removeAccount: the sequence loses the name, keeps the others and stays without repetition.
LEMMA RemovedAt ==
    ASSUME NEW S, NEW s \in Seq(S), IsInjective(s), NEW i \in DOMAIN s
    PROVE  /\ RemoveAt(s, i) \in Seq(S)
           /\ IsInjective(RemoveAt(s, i))
           /\ {RemoveAt(s, i)[j] : j \in DOMAIN RemoveAt(s, i)} = {s[j] : j \in DOMAIN s} \ {s[i]}
<1> DEFINE t == RemoveAt(s, i)
<1>1. i \in 1..Len(s) /\ DOMAIN s = 1..Len(s) /\ Len(s) \in Nat
  OBVIOUS
<1>2. t \in Seq(S) /\ Len(t) = Len(s) - 1
  BY <1>1 DEF RemoveAt
<1>3. \A j \in 1..(Len(s) - 1) : t[j] = IF j < i THEN s[j] ELSE s[j + 1]
  <2> DEFINE u == SubSeq(s, 1, i - 1)
             v == SubSeq(s, i + 1, Len(s))
  <2>1. u \in Seq(S) /\ Len(u) = i - 1 /\ \A j \in 1..(i - 1) : u[j] = s[j]
    BY <1>1
  <2>2. v \in Seq(S) /\ Len(v) = Len(s) - i /\ \A j \in 1..(Len(s) - i) : v[j] = s[i + j]
    BY <1>1
  <2>3. t = u \o v
    BY DEF RemoveAt
  <2> HIDE DEF t, u, v
  <2>4. ASSUME NEW j \in 1..(Len(s) - 1) PROVE t[j] = IF j < i THEN s[j] ELSE s[j + 1]
    <3>1. t[j] = IF j <= i - 1 THEN u[j] ELSE v[j - (i - 1)]
      BY <1>1, <2>1, <2>2, <2>3
    <3>2. CASE j < i
      BY <1>1, <2>1, <3>1, <3>2
    <3>3. CASE ~(j < i)
      <4>1. j - (i - 1) \in 1..(Len(s) - i) /\ i + (j - (i - 1)) = j + 1
        BY <1>1, <3>3
      <4>2. t[j] = v[j - (i - 1)]
        BY <1>1, <3>1, <3>3
      <4>3. v[j - (i - 1)] = s[j + 1]
        BY <2>2, <4>1
      <4> QED
        BY <3>3, <4>2, <4>3
    <3> QED
      BY <3>2, <3>3
  <2> QED
    BY <2>4
<1>4. DOMAIN t = 1..(Len(s) - 1)
  BY <1>1, <1>2
<1> HIDE DEF t
<1>5. IsInjective(t)
  <2>1. ASSUME NEW j \in DOMAIN t, NEW k \in DOMAIN t, t[j] = t[k] PROVE j = k
    <3>1. j \in 1..(Len(s) - 1) /\ k \in 1..(Len(s) - 1)
      BY <1>4
    <3>2. \A x \in 1..Len(s), y \in 1..Len(s) : s[x] = s[y] => x = y
      BY <1>1 DEF IsInjective
    <3> QED
      BY <1>1, <1>3, <2>1, <3>1, <3>2
  <2> QED
    BY <2>1 DEF IsInjective
<1>6. {t[j] : j \in DOMAIN t} = {s[j] : j \in DOMAIN s} \ {s[i]}
  <2>1. ASSUME NEW j \in DOMAIN t PROVE t[j] \in {s[k] : k \in DOMAIN s} \ {s[i]}
    <3>1. PICK k \in DOMAIN s : k # i /\ t[j] = s[k]
      <4>1. j \in 1..(Len(s) - 1)
        BY <1>4
      <4>2. CASE j < i
        BY <1>1, <1>3, <4>1, <4>2
      <4>3. CASE ~(j < i)
        <5>1. j + 1 \in DOMAIN s /\ j + 1 # i
          BY <1>1, <4>1, <4>3
        <5> QED
          BY <1>3, <4>1, <4>3, <5>1
      <4> QED
        BY <4>2, <4>3
    <3> QED
      BY <3>1 DEF IsInjective
  <2>2. ASSUME NEW k \in DOMAIN s, k # i PROVE \E j \in DOMAIN t : t[j] = s[k]
    <3>1. CASE k < i
      <4>1. k \in DOMAIN t
        BY <1>1, <1>4, <3>1
      <4> QED
        BY <1>1, <1>3, <1>4, <3>1, <4>1
    <3>2. CASE i < k
      <4>1. k - 1 \in DOMAIN t /\ ~(k - 1 < i) /\ (k - 1) + 1 = k
        BY <1>1, <1>4, <3>2
      <4> QED
        BY <1>3, <1>4, <4>1
    <3> QED
      BY <1>1, <2>2, <3>1, <3>2
  <2> QED
    BY <2>1, <2>2
<1> QED
  BY <1>2, <1>5, <1>6 DEF t

\* setAccountToken of a new login: it goes to the end.
LEMMA Appended ==
    ASSUME NEW S, NEW s \in Seq(S), IsInjective(s), NEW a \in S, a \notin {s[j] : j \in DOMAIN s}
    PROVE  /\ Append(s, a) \in Seq(S)
           /\ IsInjective(Append(s, a))
           /\ {Append(s, a)[j] : j \in DOMAIN Append(s, a)} = {s[j] : j \in DOMAIN s} \cup {a}
<1> DEFINE t == Append(s, a)
<1>1. t \in Seq(S) /\ DOMAIN s = 1..Len(s) /\ Len(s) \in Nat /\ DOMAIN t = 1..(Len(s) + 1)
  OBVIOUS
<1>2. t[Len(s) + 1] = a /\ \A j \in 1..Len(s) : t[j] = s[j]
  OBVIOUS
<1> HIDE DEF t
<1>3. IsInjective(t)
  <2>1. ASSUME NEW j \in DOMAIN t, NEW k \in DOMAIN t, t[j] = t[k] PROVE j = k
    <3>1. CASE j \in 1..Len(s) /\ k \in 1..Len(s)
      BY <1>1, <1>2, <2>1, <3>1 DEF IsInjective
    <3>2. CASE j = Len(s) + 1 \/ k = Len(s) + 1
      BY <1>1, <1>2, <2>1, <3>2
    <3> QED
      BY <1>1, <3>1, <3>2
  <2> QED
    BY <2>1 DEF IsInjective
<1>4. {t[j] : j \in DOMAIN t} = {s[j] : j \in DOMAIN s} \cup {a}
  <2>1. \A j \in DOMAIN t : j \in DOMAIN s \/ j = Len(s) + 1
    BY <1>1
  <2>2. Len(s) + 1 \in DOMAIN t /\ \A j \in DOMAIN s : j \in DOMAIN t
    BY <1>1
  <2> QED
    BY <1>1, <1>2, <2>1, <2>2
<1> QED
  BY <1>1, <1>3, <1>4 DEF t

-----------------------------------------------------------------------------
(* The selection: each of the four ways to a login. *)

\* A reading of a login is what some upstream reported.
LEMMA ReadingType ==
    ASSUME AccountsTypeOK, NEW a \in Logins, Reading(a) # None
    PROVE  Reading(a) \in Reports
BY AccountsAssumption DEF AccountsTypeOK, Reading

\* The pool holds logins.
LEMMA PoolOfLogins ==
    ASSUME AccountsTypeOK
    PROVE  InPool \in SUBSET Logins
BY DEF AccountsTypeOK, InPool

\* The logins the selection chooses among, each set within the other.
LEMMA LoginSets ==
    ASSUME AccountsTypeOK
    PROVE  /\ UsableLogins \in SUBSET InPool /\ Candidates \in SUBSET UsableLogins /\ Roomy \in SUBSET Candidates
           /\ UsableLogins \in SUBSET (InPool \ disabled)
           /\ UsableLogins \in SUBSET Nat
           /\ IsFiniteSet(Candidates)
<1>1. UsableLogins \in SUBSET InPool /\ Candidates \in SUBSET UsableLogins /\ Roomy \in SUBSET Candidates
  BY DEF UsableLogins, Candidates, Roomy
<1>2. UsableLogins \in SUBSET (InPool \ disabled)
  BY DEF UsableLogins, Usable
<1>3. Candidates \in SUBSET Logins
  BY <1>1, PoolOfLogins
<1> QED
  BY <1>1, <1>2, <1>3, PoolOfLogins, FS_Subset, AccountsAssumption

\* autoAccount answers with a candidate: both orders have a first login.
LEMMA AutoIsCandidate ==
    ASSUME AccountsTypeOK, Candidates # {}
    PROVE  AutoAccount \in Candidates
<1>0. /\ \A a \in Candidates : a \in Nat /\ Reading(a).reset \in Nat /\ Reading(a).left \in Nat
      /\ Roomy \in SUBSET Candidates
  <2>1. ASSUME NEW a \in Candidates PROVE a \in Nat /\ Reading(a).reset \in Nat /\ Reading(a).left \in Nat
    <3>1. a \in Logins /\ Reading(a) # None
      BY LoginSets, PoolOfLogins DEF Candidates
    <3>2. Reading(a) \in Reports
      BY <3>1, ReadingType
    <3> QED
      BY <3>1, <3>2, AccountsAssumption DEF Reports
  <2> QED
    BY <2>1, LoginSets
<1>1. CASE Roomy # {}
  <2> DEFINE Resets == {Reading(a).reset : a \in Roomy}
  <2>1. PICK n \in Resets : \A m \in Resets : n <= m
    <3>1. Resets \in SUBSET Nat /\ Resets # {}
      BY <1>0, <1>1
    <3> HIDE DEF Resets
    <3> QED
      BY <3>1, LeastNumber
  <2> DEFINE First == {a \in Roomy : Reading(a).reset = n}
  <2>2. PICK b \in First : \A c \in First : b <= c
    <3>1. First \in SUBSET Nat /\ First # {}
      BY <1>0
    <3> HIDE DEF First
    <3> QED
      BY <3>1, LeastNumber
  <2>3. ASSUME NEW c \in Roomy \ {b} PROVE Sooner(b, c)
    <3>1. n <= Reading(c).reset /\ Reading(b).reset = n
      BY <2>1, <2>2
    <3>2. c \in Nat /\ b \in Nat /\ Reading(c).reset \in Nat /\ n \in Nat
      BY <1>0, <2>2
    <3>3. Reading(c).reset = n => b <= c
      BY <2>2
    <3> QED
      BY <3>1, <3>2, <3>3 DEF Sooner
  <2>4. b \in Roomy
    BY <2>2
  <2>5. AutoAccount = CHOOSE a \in Roomy : \A c \in Roomy \ {a} : Sooner(a, c)
    BY <1>1 DEF AutoAccount
  <2>6. AutoAccount \in Roomy
    BY <2>3, <2>4, <2>5
  <2> QED
    BY <1>0, <2>6
<1>2. CASE Roomy = {}
  <2> DEFINE left == [a \in Candidates |-> Reading(a).left]
  <2>1. PICK x \in Candidates : \A y \in Candidates : left[y] <= left[x]
    <3>1. left \in [Candidates -> Nat]
      BY <1>0
    <3> HIDE DEF left
    <3> QED
      BY <3>1, LoginSets, GreatestValue
  <2>2. \A y \in Candidates : Reading(y).left <= Reading(x).left
    BY <2>1
  <2> DEFINE Most == {a \in Candidates : Reading(a).left = Reading(x).left}
  <2>3. PICK b \in Most : \A c \in Most : b <= c
    <3>1. Most \in SUBSET Nat /\ Most # {}
      BY <1>0
    <3> HIDE DEF Most
    <3> QED
      BY <3>1, LeastNumber
  <2>4. ASSUME NEW c \in Candidates \ {b} PROVE Fuller(b, c)
    <3>1. Reading(c).left <= Reading(b).left
      BY <2>2, <2>3
    <3>2. c \in Nat /\ b \in Nat /\ Reading(c).left \in Nat /\ Reading(b).left \in Nat
      BY <1>0, <2>3
    <3>3. Reading(c).left = Reading(b).left => b <= c
      BY <2>3
    <3> QED
      BY <3>1, <3>2, <3>3 DEF Fuller
  <2>5. b \in Candidates
    BY <2>3
  <2>6. AutoAccount = CHOOSE a \in Candidates : \A c \in Candidates \ {a} : Fuller(a, c)
    BY <1>2 DEF AutoAccount
  <2> QED
    BY <2>4, <2>5, <2>6
<1> QED
  BY <1>1, <1>2

\* Where the strategy chooses and somebody is usable, the choice is usable.
LEMMA AutoPicksUsable ==
    ASSUME AccountsTypeOK, NEW p \in Projects, Selects(p), UsableLogins # {}
    PROVE  AccountFor(p) \in UsableLogins
<1>1. CASE Candidates # {}
  BY <1>1, AutoIsCandidate, LoginSets DEF AccountFor
<1>2. CASE Candidates = {} /\ Pinned(p) # None /\ Usable(Pinned(p))
  <2>1. Pinned(p) \in InPool
    BY <1>2 DEF Pinned
  <2> QED
    BY <1>2, <2>1 DEF AccountFor, UsableLogins
<1>3. CASE Candidates = {} /\ ~(Pinned(p) # None /\ Usable(Pinned(p)))
  <2>1. AccountFor(p) = Min(UsableLogins)
    BY <1>3 DEF AccountFor
  <2> QED
    BY <2>1, LoginSets, MinIsLeast
<1> QED
  BY <1>1, <1>2, <1>3

\* No way leads to a login that is parked or gone.
LEMMA PickInPool ==
    ASSUME AccountsTypeOK, NEW p \in Projects, AccountFor(p) # None
    PROVE  AccountFor(p) \in InPool \ disabled
<1>1. Pinned(p) # None => Pinned(p) \in InPool \ disabled
  BY DEF Pinned
<1>2. CASE Selects(p) /\ UsableLogins # {}
  BY <1>2, AutoPicksUsable, LoginSets
<1>3. CASE ~(Selects(p) /\ UsableLogins # {})
  <2>1. AccountFor(p) = Pinned(p)
    <3>1. Selects(p) => Candidates = {}
      BY <1>3, LoginSets
    <3>2. Pinned(p) # None /\ Usable(Pinned(p)) => Pinned(p) \in UsableLogins
      BY <1>1 DEF UsableLogins
    <3> QED
      BY <1>3, <3>1 DEF AccountFor
  <2> QED
    BY <1>1, <2>1
<1> QED
  BY <1>2, <1>3

-----------------------------------------------------------------------------
(* The state of the pool. *)

\* After a boot.
LEMMA InitAccounts ==
    ASSUME AccountsInit
    PROVE  AccountsInv
<1>1. InPool = {FirstPool[i] : i \in DOMAIN FirstPool}
  BY DEF AccountsInit, InPool
<1>2. {FirstPool[i] : i \in DOMAIN FirstPool} \in SUBSET Logins
  BY AccountsAssumption
<1>3. 0 \in Gens
  BY AccountsAssumption DEF Gens
<1>4. AccountsTypeOK
  BY <1>1, <1>2, <1>3, AccountsAssumption DEF AccountsInit, AccountsTypeOK
<1>5. PinsResolve
  BY <1>1, AccountsAssumption DEF AccountsInit, PinsResolve
<1> QED
  BY <1>4, <1>5 DEF AccountsInv

\* Nothing has moved.
LEMMA StayAccounts ==
    ASSUME AccountsInv, UNCHANGED accountVars
    PROVE  AccountsInv'
BY DEF AccountsInv, AccountsTypeOK, PinsResolve, InPool, accountVars

\* What a step may do that leaves the pool and the pins alone: the marks and the
\* readings keep their types, and only entries of the pool are disabled.
Marked ==
    /\ UNCHANGED <<pool, pins, gen>>
    /\ disabled' \subseteq InPool
    /\ cancelled' \subseteq Tokens
    /\ dead' \subseteq Logins /\ cool' \subseteq Logins
    /\ orgOf' \in [Logins -> Logins \cup {None}]
    /\ window' \in [Logins -> Reports \cup {None}]
    /\ strategy' \in Strategies
    /\ sweep' \subseteq Nat \X Tokens /\ probes' \subseteq Tokens

\* ... so that the pool stays sound.
LEMMA MarkedStep ==
    ASSUME AccountsInv, Marked
    PROVE  AccountsInv'
<1>1. InPool' = InPool
  BY DEF Marked, InPool
<1>2. AccountsTypeOK'
  BY <1>1 DEF AccountsInv, AccountsTypeOK, Marked
<1>3. PinsResolve'
  BY <1>1 DEF AccountsInv, PinsResolve, Marked
<1> QED
  BY <1>2, <1>3 DEF AccountsInv

\* An entry is a name with a token.
LEMMA EntryIsToken ==
    ASSUME AccountsTypeOK, NEW a \in InPool
    PROVE  a \in Logins /\ Entry(a) \in Tokens
BY PoolOfLogins DEF AccountsTypeOK, Entry, Tokens

\* Parking by a verdict marks an entry that is there.
LEMMA AutoDisableInPool ==
    ASSUME AccountsTypeOK, NEW a, AutoDisable(a)
    PROVE  disabled' \subseteq InPool
BY DEF AccountsTypeOK, AutoDisable

\* What a sweep is given to probe.
LEMMA ListedType ==
    ASSUME AccountsTypeOK, NEW S
    PROVE  Listed(S) \in SUBSET (Nat \X Tokens)
<1>1. ASSUME NEW i \in DOMAIN pool PROVE i \in Nat /\ Entry(pool[i]) \in Tokens
  <2>1. pool \in Seq(Logins)
    BY DEF AccountsTypeOK
  <2>2. i \in Nat /\ pool[i] \in InPool
    BY <2>1 DEF InPool
  <2> QED
    BY <2>2, EntryIsToken
<1> QED
  BY <1>1 DEF Listed

\* What a probe writes, whatever it came to.
LEMMA ProbeMarks ==
    ASSUME AccountsTypeOK, NEW t \in Tokens, ProbeAnswer(t) \/ ProbeNothing(t)
    PROVE  /\ disabled' \subseteq InPool
           /\ dead' \subseteq Logins /\ cool' \subseteq Logins
           /\ orgOf' \in [Logins -> Logins \cup {None}]
           /\ window' \in [Logins -> Reports \cup {None}]
<1>1. t[1] \in Logins
  BY DEF Tokens
<1>2. MayLearnOrg(t[1]) => orgOf' \in [Logins -> Logins \cup {None}]
  BY <1>1 DEF MayLearnOrg, AccountsTypeOK
<1>3. CASE ProbeNothing(t)
  BY <1>2, <1>3 DEF ProbeNothing, AccountsTypeOK
<1>4. CASE LearnDead(t[1])
  BY <1>1, <1>2, <1>4, AutoDisableInPool DEF LearnDead, AccountsTypeOK
<1>5. ASSUME NEW r \in Readings, LearnWindows(t[1], r)
      PROVE  /\ disabled' \subseteq InPool
             /\ dead' \subseteq Logins /\ cool' \subseteq Logins
             /\ orgOf' \in [Logins -> Logins \cup {None}]
             /\ window' \in [Logins -> Reports \cup {None}]
  BY <1>1, <1>5, AccountsAssumption DEF LearnWindows, AccountsTypeOK
<1> QED
  BY <1>3, <1>4, <1>5 DEF ProbeAnswer

\* The operator's endpoints.
LEMMA OperatorStep ==
    ASSUME AccountsInv, Operator
    PROVE  AccountsInv'
<1>0. AccountsTypeOK /\ PinsResolve
  BY DEF AccountsInv
<1>1. ASSUME NEW p \in Projects, NEW a \in Logins, SetPin(p, a) PROVE AccountsInv'
  <2>1. InPool' = InPool
    BY <1>1 DEF SetPin, InPool
  <2>2. AccountsTypeOK'
    BY <1>0, <1>1, <2>1 DEF SetPin, AccountsTypeOK
  <2>3. PinsResolve'
    BY <1>0, <1>1, <2>1 DEF SetPin, AccountsTypeOK, PinsResolve
  <2> QED
    BY <2>2, <2>3 DEF AccountsInv
<1>2. ASSUME NEW p \in Projects, ClearPin(p) PROVE AccountsInv'
  <2>1. InPool' = InPool
    BY <1>2 DEF ClearPin, InPool
  <2>2. AccountsTypeOK'
    BY <1>0, <1>2, <2>1 DEF ClearPin, AccountsTypeOK
  <2>3. PinsResolve'
    BY <1>0, <1>2, <2>1 DEF ClearPin, AccountsTypeOK, PinsResolve
  <2> QED
    BY <2>2, <2>3 DEF AccountsInv
<1>3. ASSUME NEW a \in Logins, NEW flag \in {"set", "clear", "keep"}, ImportToken(a, flag) PROVE AccountsInv'
  <2>1. pool' \in Seq(Logins) /\ IsInjective(pool') /\ InPool' = InPool \cup {a}
    <3>1. CASE a \in InPool
      BY <1>0, <1>3, <3>1 DEF ImportToken, AccountsTypeOK, InPool
    <3>2. CASE a \notin InPool
      <4>1. pool' = Append(pool, a) /\ pool \in Seq(Logins) /\ IsInjective(pool)
        BY <1>0, <1>3, <3>2 DEF ImportToken, AccountsTypeOK
      <4>2. a \notin {pool[j] : j \in DOMAIN pool}
        BY <3>2 DEF InPool
      <4> QED
        BY <4>1, <4>2, Appended DEF InPool
    <3> QED
      BY <3>1, <3>2
  <2>2. disabled' \subseteq InPool'
    BY <1>0, <1>3, <2>1 DEF ImportToken, AccountsTypeOK
  <2>3. gen' \in [Logins -> Gens]
    BY <1>0, <1>3, AccountsAssumption DEF ImportToken, AccountsTypeOK, Gens
  <2>4. AccountsTypeOK'
    BY <1>0, <1>3, <2>1, <2>2, <2>3 DEF ImportToken, AccountsTypeOK
  <2>5. PinsResolve'
    BY <1>0, <1>3, <2>1 DEF ImportToken, PinsResolve
  <2> QED
    BY <2>4, <2>5 DEF AccountsInv
<1>4. ASSUME NEW a \in Logins, NEW flag \in BOOLEAN, SetDisabled(a, flag) PROVE AccountsInv'
  <2>1. Marked
    BY <1>0, <1>4 DEF SetDisabled, AccountsTypeOK, Marked
  <2> QED
    BY <2>1, MarkedStep
<1>5. ASSUME NEW a \in Logins, NEW flag \in BOOLEAN, RemoveAccount(a, flag) PROVE AccountsInv'
  <2>1. PlaceOf(a) \in DOMAIN pool /\ pool[PlaceOf(a)] = a
    BY <1>5 DEF RemoveAccount, InPool, PlaceOf
  <2>2. pool' \in Seq(Logins) /\ IsInjective(pool') /\ InPool' = InPool \ {a}
    <3>1. pool' = RemoveAt(pool, PlaceOf(a)) /\ pool \in Seq(Logins) /\ IsInjective(pool)
      BY <1>0, <1>5 DEF RemoveAccount, AccountsTypeOK
    <3>2. /\ pool' \in Seq(Logins) /\ IsInjective(pool')
          /\ {pool'[j] : j \in DOMAIN pool'} = {pool[j] : j \in DOMAIN pool} \ {pool[PlaceOf(a)]}
      <4> HIDE DEF PlaceOf
      <4> QED
        BY <2>1, <3>1, RemovedAt
    <3> QED
      BY <2>1, <3>2 DEF InPool
  <2>3. AccountsTypeOK'
    BY <1>0, <1>5, <2>2 DEF RemoveAccount, AccountsTypeOK
  <2>4. PinsResolve'
    <3>1. ASSUME NEW p \in Projects, pins'[p] # None PROVE pins'[p] \in InPool'
      <4>1. pins' = [q \in Projects |-> IF q \in PinnedBy(a) THEN None ELSE pins[q]]
        BY <1>5 DEF RemoveAccount
      <4>2. pins'[p] = pins[p] /\ p \notin PinnedBy(a)
        BY <3>1, <4>1
      <4> QED
        BY <1>0, <2>2, <3>1, <4>2 DEF PinsResolve, PinnedBy
    <3> QED
      BY <3>1 DEF PinsResolve
  <2> QED
    BY <2>3, <2>4 DEF AccountsInv
<1>6. ASSUME NEW s \in Strategies, SetStrategy(s) PROVE AccountsInv'
  <2>1. Marked
    BY <1>0, <1>6 DEF SetStrategy, AccountsTypeOK, Marked
  <2> QED
    BY <2>1, MarkedStep
<1> QED
  BY <1>1, <1>2, <1>3, <1>4, <1>5, <1>6 DEF Operator

\* The clock and the vendor.
LEMMA EnvironmentStep ==
    ASSUME AccountsInv, Environment
    PROVE  AccountsInv'
<1>0. AccountsTypeOK
  BY DEF AccountsInv
<1>1. ASSUME NEW a \in Logins, CoolEnds(a) PROVE Marked
  BY <1>0, <1>1 DEF CoolEnds, AccountsTypeOK, Marked
<1>2. ASSUME NEW a \in Logins, Refused429(a) PROVE Marked
  BY <1>0, <1>2 DEF Refused429, Bench, AccountsTypeOK, Marked
<1>3. ASSUME NEW a \in Logins, Roll(a) PROVE Marked
  <2>1. window[a] \in Reports
    BY <1>0, <1>3 DEF Roll, AccountsTypeOK
  <2>2. [window[a] EXCEPT !.spent = FALSE] \in Reports
    BY <2>1 DEF Reports
  <2>3. window' \in [Logins -> Reports \cup {None}]
    BY <1>0, <1>3, <2>2 DEF Roll, AccountsTypeOK
  <2> QED
    BY <1>0, <1>3, <2>3 DEF Roll, AccountsTypeOK, Marked
<1>4. ASSUME NEW a \in Logins, Cancel(a) PROVE Marked
  <2>1. Entry(a) \in Tokens
    BY <1>0, <1>4, EntryIsToken DEF Cancel
  <2> QED
    BY <1>0, <1>4, <2>1 DEF Cancel, AccountsTypeOK, Marked
<1> QED
  BY <1>1, <1>2, <1>3, <1>4, MarkedStep DEF Environment

\* The sweeps and the probes.
LEMMA ProbingStep ==
    ASSUME AccountsInv, Probing
    PROVE  AccountsInv'
<1>0. AccountsTypeOK
  BY DEF AccountsInv
<1>1. ASSUME StartSweep \/ SweepAll PROVE Marked
  BY <1>0, <1>1, ListedType DEF StartSweep, SweepAll, AccountsTypeOK, Marked
<1>2. ASSUME NEW a \in Logins, SweepAnswered(a) \/ SweepUnanswered(a) PROVE Marked
  <2>1. PICK u \in sweep : /\ ProbeAnswer(u[2]) \/ ProbeNothing(u[2])
                           /\ sweep' = sweep \ {u}
    BY <1>2 DEF SweepAnswered, SweepUnanswered
  <2>2. u[2] \in Tokens
    BY <1>0 DEF AccountsTypeOK
  <2>3. UNCHANGED <<pool, gen, cancelled, strategy, pins, probes>>
    BY <1>2 DEF SweepAnswered, SweepUnanswered
  <2> QED
    BY <1>0, <2>1, <2>2, <2>3, ProbeMarks DEF AccountsTypeOK, Marked
<1>3. ASSUME NEW a \in Logins, AskProbe(a) PROVE Marked
  <2>1. Entry(a) \in Tokens
    BY <1>0, <1>3, EntryIsToken DEF AskProbe
  <2> QED
    BY <1>0, <1>3, <2>1 DEF AskProbe, AccountsTypeOK, Marked
<1>4. ASSUME NEW t \in probes, ProbeEnds(t) PROVE Marked
  <2>1. t \in Tokens
    BY <1>0 DEF AccountsTypeOK
  <2>2. ProbeAnswer(t) \/ ProbeNothing(t)
    BY <1>4 DEF ProbeEnds
  <2> QED
    BY <1>0, <1>4, <2>1, <2>2, ProbeMarks DEF ProbeEnds, AccountsTypeOK, Marked
<1> QED
  BY <1>1, <1>2, <1>3, <1>4, MarkedStep DEF Probing

\* Every step.
LEMMA AccountsStep ==
    ASSUME AccountsInv, AccountsNext
    PROVE  AccountsInv'
BY OperatorStep, EnvironmentStep, ProbingStep DEF AccountsNext

-----------------------------------------------------------------------------
(* The theorems. *)

\* The pool stays without repetition and well-typed, and every pin names a login of it,
\* whatever the operator, the sweeps and the vendor do (accounts.js 99-247).
THEOREM PoolSound == AccountsSpec => []AccountsInv
<1>1. AccountsInit => AccountsInv
  BY InitAccounts
<1>2. AccountsInv /\ [AccountsNext]_accountVars => AccountsInv'
  BY AccountsStep, StayAccounts
<1> QED
  BY <1>1, <1>2, PTL DEF AccountsSpec

\* A call is never handed to a login that is parked or gone (routing.js 461-503).
THEOREM PickAlwaysLive == AccountsSpec => []PickIsLive
<1>1. AccountsInv => PickIsLive
  BY PickInPool DEF AccountsInv, PickIsLive
<1> QED
  BY <1>1, PoolSound, PTL

\* A caller the strategy chooses for gets a usable login whenever there is one.
THEOREM SelectorNeverDry == AccountsSpec => []NeverDry
<1>1. AccountsInv => NeverDry
  BY AutoPicksUsable DEF AccountsInv, NeverDry
<1> QED
  BY <1>1, PoolSound, PTL

(* -------------------------------- the calls -------------------------------- *)

\* What is known of one call.
Sound(c) ==
    /\ Cardinality(tried[c]) = sent[c] /\ sent[c] <= MaxTries
    /\ pc[c] = "idle" => tried[c] = {} /\ outcome[c] = "none"
    /\ InFlight(c) => last[c] \in tried[c] /\ account[c] \in Logins /\ outcome[c] = "none"
    /\ outcome[c] = "ok" => account[c] = last[c]

\* The inductive invariant.
FailoverInductive ==
    /\ AccountsInv
    /\ TypeOK
    /\ \A c \in Calls : Sound(c)
    /\ "error" \notin HeadersOn => OrgsTrue

\* The types of the calls, without those of the pool.
Calling == /\ pc \in [Calls -> {"idle", "first", "retry", "done"}]
           /\ project \in [Calls -> Projects]
           /\ account \in [Calls -> Logins \cup {None}]
           /\ tried \in [Calls -> SUBSET Logins]
           /\ sent \in [Calls -> Nat]
           /\ last \in [Calls -> Logins \cup {None}]
           /\ token \in [Calls -> Gens]
           /\ outcome \in [Calls -> Outcomes]
           /\ sniffing \subseteq Logins

\* The other calls have not moved.
Others(c) == \A d \in Calls \ {c} : /\ pc'[d] = pc[d] /\ account'[d] = account[d] /\ tried'[d] = tried[d]
                                    /\ sent'[d] = sent[d] /\ last'[d] = last[d] /\ outcome'[d] = outcome[d]

\* The parts of the invariant.
LEMMA InvParts ==
    ASSUME FailoverInductive
    PROVE  AccountsInv /\ AccountsTypeOK /\ Calling /\ (\A c \in Calls : Sound(c))
BY DEF FailoverInductive, AccountsInv, TypeOK, Calling

\* ... and the whole from its parts, after a step.
LEMMA Rebuilt ==
    ASSUME AccountsInv', Calling', \A c \in Calls : Sound(c)', "error" \notin HeadersOn => OrgsTrue'
    PROVE  FailoverInductive'
BY DEF FailoverInductive, AccountsInv, TypeOK, Calling

\* A step of one call leaves the others as they are.
LEMMA OthersSound ==
    ASSUME FailoverInductive, NEW c \in Calls, Others(c), Sound(c)'
    PROVE  \A d \in Calls : Sound(d)'
<1>1. ASSUME NEW d \in Calls \ {c} PROVE Sound(d)'
  BY InvParts DEF Sound, Others, InFlight
<1> QED
  BY <1>1

\* At the start nobody is calling.
LEMMA InitFailover == ASSUME Init PROVE FailoverInductive
<1>1. AccountsInv
  BY InitAccounts DEF Init
<1>2. Calling
  <2>1. 0 \in Gens
    BY AccountsAssumption DEF Gens
  <2> QED
    BY <2>1 DEF Init, Calling, Outcomes
<1>3. ASSUME NEW c \in Calls PROVE Sound(c)
  <2>1. MaxTries \in Nat \ {0} /\ Cardinality({}) = 0
    BY FailoverAssumption, FS_EmptySet
  <2> QED
    BY <2>1 DEF Init, Sound, InFlight
<1>4. OrgsTrue
  BY DEF Init, AccountsInit, OrgsTrue
<1> QED
  BY <1>1, <1>2, <1>3, <1>4 DEF FailoverInductive, AccountsInv, TypeOK, Calling

\* A login that is asked next is in the pool, not parked, and new to the call.
LEMMA NextIsEligible ==
    ASSUME AccountsTypeOK, NEW c \in Calls, Eligible(c) # {}
    PROVE  Next429(c) \in InPool \ (tried[c] \cup disabled \cup dead)
<1>1. Eligible(c) \in SUBSET Nat
  BY DEF Eligible, AccountsTypeOK
<1>2. Min(Eligible(c)) \in Eligible(c)
  <2> HIDE DEF Eligible
  <2> QED
    BY <1>1, MinIsLeast
<1> QED
  BY <1>2 DEF Eligible, Next429, InPool

\* One more request goes out, to a login the call has not asked.
LEMMA SendSound ==
    ASSUME FailoverInductive, NEW c \in Calls, NEW a \in InPool, a \notin tried[c], Send(c, a),
           sent[c] < MaxTries, pc' = [pc EXCEPT ![c] = "first"] \/ pc' = [pc EXCEPT ![c] = "retry"],
           account' \in [Calls -> Logins \cup {None}], account'[c] \in Logins,
           \A d \in Calls \ {c} : account'[d] = account[d],
           outcome[c] = "none", UNCHANGED <<project, outcome, sniffing>>
    PROVE  Calling' /\ \A d \in Calls : Sound(d)'
<1>0. Calling /\ Sound(c) /\ a \in Logins /\ gen[a] \in Gens
  BY InvParts, PoolOfLogins DEF AccountsTypeOK
<1>1. Calling'
  BY <1>0 DEF Calling, Send
<1>2. IsFiniteSet(tried[c]) /\ tried'[c] = tried[c] \cup {a} /\ sent'[c] = sent[c] + 1
  BY <1>0, FS_Subset, AccountsAssumption DEF Calling, Send
<1>3. Cardinality(tried'[c]) = sent'[c]
  <2>1. Cardinality(tried[c] \cup {a}) = Cardinality(tried[c]) + 1
    BY <1>2, FS_AddElement
  <2> QED
    BY <1>0, <1>2, <2>1 DEF Sound
<1>4. sent'[c] <= MaxTries
  BY <1>0, <1>2, FailoverAssumption DEF Calling
<1>5. pc'[c] \in {"first", "retry"} /\ last'[c] = a /\ outcome'[c] = "none"
  BY <1>0 DEF Calling, Send
<1>6. Sound(c)'
  BY <1>2, <1>3, <1>4, <1>5 DEF Sound, InFlight
<1>7. Others(c)
  BY <1>0 DEF Others, Calling, Send
<1> QED
  BY <1>1, <1>6, <1>7, OthersSound

\* The call ends, booked on a login; a served one on the login that was asked last.
LEMMA FinishSound ==
    ASSUME FailoverInductive, NEW c \in Calls, NEW a \in Logins \cup {None}, NEW o \in Outcomes, Finish(c, a, o),
           o = "ok" => a = last[c], sniffing' \subseteq Logins
    PROVE  Calling' /\ \A d \in Calls : Sound(d)'
<1>0. Calling /\ Sound(c)
  BY InvParts
<1>1. Calling'
  BY <1>0 DEF Calling, Finish
<1>2. pc'[c] = "done" /\ account'[c] = a /\ outcome'[c] = o /\ UNCHANGED <<project, tried, sent, last, token>>
  BY <1>0 DEF Finish, Calling
<1>3. Sound(c)'
  BY <1>0, <1>2 DEF Sound, InFlight
<1>4. Others(c)
  BY <1>0 DEF Others, Calling, Finish
<1> QED
  BY <1>1, <1>3, <1>4, OthersSound

\* Nothing of the calls has moved.
LEMMA CallsStay ==
    ASSUME FailoverInductive, sniffing' \subseteq Logins,
           UNCHANGED <<pc, project, account, tried, sent, last, token, outcome>>
    PROVE  Calling' /\ \A d \in Calls : Sound(d)'
BY InvParts DEF Calling, Sound, InFlight

\* Filing a reading keeps the types.
LEMMA HarvestType ==
    ASSUME AccountsTypeOK, NEW a \in Logins, NEW b \in Logins, NEW k, Harvest(a, b, k)
    PROVE  /\ orgOf' \in [Logins -> Logins \cup {None}]
           /\ window' \in [Logins -> Reports \cup {None}]
<1>1. CASE UNCHANGED <<orgOf, window>>
  BY <1>1 DEF AccountsTypeOK
<1>2. CASE /\ \E r \in Readings : window' = [window EXCEPT ![a] = r]
           /\ orgOf' = [orgOf EXCEPT ![b] = a]
  <2>1. PICK r \in Readings : window' = [window EXCEPT ![a] = r]
    BY <1>2
  <2>2. r \in Reports
    BY AccountsAssumption
  <2> QED
    BY <1>2, <2>1, <2>2 DEF AccountsTypeOK
<1> QED
  BY <1>1, <1>2 DEF Harvest

\* The marks that the end of a call leaves.
LEMMA CallMarks ==
    ASSUME FailoverInductive, UNCHANGED <<pool, gen, cancelled, dead, strategy, pins, sweep, probes>>,
           disabled' \subseteq InPool, cool' \subseteq Logins,
           orgOf' \in [Logins -> Logins \cup {None}], window' \in [Logins -> Reports \cup {None}]
    PROVE  AccountsInv'
<1>1. Marked
  BY InvParts DEF AccountsTypeOK, Marked
<1> QED
  BY <1>1, MarkedStep, InvParts

\* A reading that is filed under the login it came from; one that is not needs headers on errors.
LEMMA HarvestOrgs ==
    ASSUME AccountsTypeOK, OrgsTrue, NEW a \in Logins, NEW b \in Logins, NEW k,
           k \notin HeadersOn \/ a = b, Harvest(a, b, k)
    PROVE  OrgsTrue'
BY DEF Harvest, OrgsTrue, AccountsTypeOK

\* No reading was filed.
LEMMA OrgsStay == ASSUME OrgsTrue, UNCHANGED orgOf PROVE OrgsTrue'
BY DEF OrgsTrue

\* A call gets its first login.
LEMMA ArriveStep ==
    ASSUME FailoverInductive, NEW c \in Calls, Arrive(c)
    PROVE  FailoverInductive'
<1>0. AccountsTypeOK /\ Calling /\ Sound(c)
  BY InvParts
<1> DEFINE a == AccountFor(project[c])
<1>1. a \in InPool /\ a \in Logins
  BY <1>0, PickInPool, PoolOfLogins DEF Arrive, Calling
<1>2. a \notin tried[c] /\ sent[c] < MaxTries /\ outcome[c] = "none"
  <2>1. tried[c] = {} /\ outcome[c] = "none" /\ Cardinality(tried[c]) = sent[c]
    BY <1>0 DEF Arrive, Sound
  <2>2. sent[c] = 0
    BY <2>1, FS_EmptySet
  <2> QED
    BY <2>1, <2>2, FailoverAssumption
<1>3. Calling' /\ \A d \in Calls : Sound(d)'
  <2>1. account' \in [Calls -> Logins \cup {None}] /\ account'[c] = a /\ \A d \in Calls \ {c} : account'[d] = account[d]
    BY <1>0, <1>1 DEF Arrive, Calling
  <2>2. Send(c, a) /\ pc' = [pc EXCEPT ![c] = "first"] /\ UNCHANGED <<project, outcome, sniffing>>
    BY DEF Arrive
  <2> HIDE DEF a
  <2> QED
    BY <1>1, <1>2, <2>1, <2>2, SendSound
<1>4. AccountsInv'
  BY InvParts, StayAccounts DEF Arrive
<1>5. UNCHANGED orgOf
  BY DEF Arrive, accountVars
<1> QED
  BY <1>3, <1>4, <1>5, OrgsStay, Rebuilt DEF FailoverInductive

\* A call in flight waits for a login it has asked.
LEMMA InFlightParts ==
    ASSUME FailoverInductive, NEW c \in Calls, InFlight(c)
    PROVE  last[c] \in Logins /\ account[c] \in Logins /\ last[c] \in tried[c] /\ outcome[c] = "none"
BY InvParts DEF Sound, Calling

\* A retry.
LEMMA RetryStep ==
    ASSUME FailoverInductive, NEW c \in Calls, Retry(c)
    PROVE  FailoverInductive'
<1>0. AccountsTypeOK /\ Calling /\ Sound(c)
  BY InvParts
<1>1. last[c] \in Logins /\ account[c] \in Logins /\ outcome[c] = "none"
  BY InFlightParts DEF Retry
<1>2. Next429(c) \in InPool /\ Next429(c) \notin tried[c]
  BY <1>0, NextIsEligible DEF Retry
<1>3. sent[c] < MaxTries
  BY <1>0 DEF Sound, Retry
<1>4. Calling' /\ \A d \in Calls : Sound(d)'
  <2>1. Send(c, Next429(c)) /\ pc' = [pc EXCEPT ![c] = "retry"] /\ UNCHANGED <<project, account, outcome, sniffing>>
    BY DEF Retry
  <2>2. account' \in [Calls -> Logins \cup {None}] /\ account'[c] \in Logins /\ \A d \in Calls \ {c} : account'[d] = account[d]
    BY <1>0, <1>1, <2>1 DEF Calling
  <2> QED
    BY <1>1, <1>2, <1>3, <2>1, <2>2, SendSound
<1>5. AccountsInv'
  BY <1>0, <1>1, CallMarks DEF Retry, Bench, AccountsTypeOK
<1>6. UNCHANGED orgOf
  BY DEF Retry
<1> QED
  BY <1>4, <1>5, <1>6, OrgsStay, Rebuilt DEF FailoverInductive

\* A step that ends a call.
LEMMA EndStep ==
    ASSUME FailoverInductive, NEW c \in Calls,
           NEW a \in Logins \cup {None}, NEW o \in Outcomes, Finish(c, a, o),
           o = "ok" => a = last[c], sniffing' \subseteq Logins,
           AccountsInv', OrgsTrue /\ "error" \notin HeadersOn => OrgsTrue'
    PROVE  FailoverInductive'
<1>1. Calling' /\ \A d \in Calls : Sound(d)'
  BY FinishSound
<1> QED
  BY <1>1, Rebuilt DEF FailoverInductive

\* A call that gets no login.
LEMMA RefuseStep ==
    ASSUME FailoverInductive, NEW c \in Calls, Refuse(c)
    PROVE  FailoverInductive'
<1>1. AccountsInv' /\ UNCHANGED orgOf
  BY InvParts, StayAccounts DEF Refuse, accountVars
<1>2. Finish(c, None, "no_account") /\ sniffing' \subseteq Logins /\ "no_account" \in Outcomes
  BY InvParts DEF Refuse, Calling, Outcomes
<1> QED
  BY <1>1, <1>2, OrgsStay, EndStep

\* The answer of an attempt, whatever it is.
LEMMA AnswerStep ==
    ASSUME FailoverInductive, NEW c \in Calls, Answer(c)
    PROVE  FailoverInductive'
<1>0. AccountsTypeOK /\ Calling
  BY InvParts
<1>1. InFlight(c)
  BY DEF Answer, AnswerOk, Retry, GiveUpDry, GiveUpTries, AnswerForbidden, AnswerError, Stall, Unreachable
<1>2. last[c] \in Logins /\ account[c] \in Logins
  BY <1>1, InFlightParts
<1>3. CASE AnswerOk(c)
  <2>1. Harvest(last[c], last[c], "ok")
    BY <1>3 DEF AnswerOk
  <2>2. AccountsInv'
    BY <1>0, <1>2, <1>3, <2>1, HarvestType, CallMarks DEF AnswerOk, AccountsTypeOK
  <2>3. OrgsTrue => OrgsTrue'
    BY <1>0, <1>2, <2>1, HarvestOrgs
  <2> QED
    BY <1>0, <1>2, <1>3, <2>2, <2>3, EndStep DEF AnswerOk, Outcomes, Calling
<1>4. CASE Retry(c)
  BY <1>4, RetryStep
<1>5. CASE GiveUpDry(c) \/ GiveUpTries(c)
  <2>1. AccountsInv'
    BY <1>0, <1>2, <1>5, CallMarks DEF GiveUpDry, GiveUpTries, Bench, AccountsTypeOK
  <2>2. Finish(c, account[c], "429") /\ UNCHANGED <<orgOf, sniffing>>
    BY <1>5 DEF GiveUpDry, GiveUpTries
  <2> QED
    BY <1>0, <1>2, <2>1, <2>2, OrgsStay, EndStep DEF Outcomes, Calling
<1>6. CASE AnswerForbidden(c)
  <2>1. AccountsInv' /\ UNCHANGED orgOf
    BY <1>6, InvParts, StayAccounts DEF AnswerForbidden, accountVars
  <2>2. Finish(c, account[c], "403") /\ sniffing' \subseteq Logins
    BY <1>0, <1>2, <1>6 DEF AnswerForbidden, Calling
  <2> QED
    BY <1>2, <2>1, <2>2, OrgsStay, EndStep DEF Outcomes
<1>7. CASE AnswerError(c)
  <2>1. Harvest(last[c], account[c], "error")
    BY <1>7 DEF AnswerError
  <2>2. AccountsInv'
    BY <1>0, <1>2, <1>7, <2>1, HarvestType, CallMarks DEF AnswerError, AccountsTypeOK
  <2>3. OrgsTrue /\ "error" \notin HeadersOn => OrgsTrue'
    BY <1>0, <1>2, <2>1, HarvestOrgs
  <2> QED
    BY <1>0, <1>2, <1>7, <2>2, <2>3, EndStep DEF AnswerError, Outcomes, Calling
<1>8. CASE Stall(c) \/ Unreachable(c)
  <2>1. AccountsInv' /\ UNCHANGED <<orgOf, sniffing>>
    BY <1>8, InvParts, StayAccounts DEF Stall, Unreachable, accountVars
  <2>2. \E o \in {"504", "502"} : Finish(c, account[c], o)
    BY <1>8 DEF Stall, Unreachable
  <2> QED
    BY <1>0, <1>2, <2>1, <2>2, OrgsStay, EndStep DEF Outcomes, Calling
<1> QED
  BY <1>3, <1>4, <1>5, <1>6, <1>7, <1>8 DEF Answer

\* The name of the call is used again.
LEMMA RecycleStep ==
    ASSUME FailoverInductive, NEW c \in Calls, Recycle(c)
    PROVE  FailoverInductive'
<1>0. Calling /\ 0 \in Gens
  BY InvParts, AccountsAssumption DEF Gens
<1>1. PICK p \in Projects : project' = [project EXCEPT ![c] = p]
  BY DEF Recycle
<1>2. Calling'
  BY <1>0, <1>1 DEF Recycle, Calling, Outcomes
<1>3. Sound(c)'
  <2>1. /\ pc'[c] = "idle" /\ tried'[c] = {} /\ sent'[c] = 0 /\ outcome'[c] = "none"
    BY <1>0 DEF Recycle, Calling
  <2> QED
    BY <2>1, FS_EmptySet, FailoverAssumption DEF Sound, InFlight
<1>4. Others(c)
  BY <1>0 DEF Recycle, Others, Calling
<1>5. AccountsInv' /\ UNCHANGED orgOf
  BY InvParts, StayAccounts DEF Recycle, accountVars
<1> QED
  BY <1>2, <1>3, <1>4, <1>5, OthersSound, OrgsStay, Rebuilt DEF FailoverInductive

\* A 403 body has been read, or not.
LEMMA SniffStep ==
    ASSUME FailoverInductive, NEW a \in Logins, Sniffed(a) \/ SniffFails(a)
    PROVE  FailoverInductive'
<1>0. AccountsTypeOK /\ Calling
  BY InvParts
<1>1. UNCHANGED <<pc, project, account, tried, sent, last, token, outcome>> /\ sniffing' \subseteq Logins
  BY <1>0 DEF Sniffed, SniffFails, Calling
<1>2. Calling' /\ \A d \in Calls : Sound(d)'
  BY <1>1, CallsStay
<1>3. AccountsInv'
  <2>1. CASE Sniffed(a)
    BY <1>0, <2>1, AutoDisableInPool, CallMarks DEF Sniffed, AccountsTypeOK
  <2>2. CASE SniffFails(a)
    BY <2>2, InvParts, StayAccounts DEF SniffFails
  <2> QED
    BY <2>1, <2>2
<1>4. UNCHANGED orgOf
  BY DEF Sniffed, SniffFails, accountVars
<1> QED
  BY <1>2, <1>3, <1>4, OrgsStay, Rebuilt DEF FailoverInductive

\* The pool moves under the calls; what is learned is filed under the login it came from.
LEMMA PoolStep ==
    ASSUME FailoverInductive, AccountsNext, UNCHANGED callVars
    PROVE  FailoverInductive'
<1>1. AccountsInv'
  BY InvParts, AccountsStep
<1>2. Calling' /\ \A d \in Calls : Sound(d)'
  BY InvParts, CallsStay DEF callVars, Calling
<1>3. OrgsTrue => OrgsTrue'
  <2>0. AccountsTypeOK
    BY InvParts
  <2>1. ASSUME NEW t \in Tokens, ProbeAnswer(t) \/ ProbeNothing(t), OrgsTrue PROVE OrgsTrue'
    <3>1. t[1] \in Logins
      BY DEF Tokens
    <3>2. orgOf' \in {orgOf, [orgOf EXCEPT ![t[1]] = t[1]]}
      BY <2>1 DEF ProbeAnswer, ProbeNothing, LearnDead, LearnWindows, MayLearnOrg
    <3> QED
      BY <2>0, <2>1, <3>1, <3>2 DEF OrgsTrue, AccountsTypeOK
  <2>2. ASSUME NEW a \in Logins, SweepAnswered(a) \/ SweepUnanswered(a), OrgsTrue PROVE OrgsTrue'
    <3>1. PICK u \in sweep : ProbeAnswer(u[2]) \/ ProbeNothing(u[2])
      BY <2>2 DEF SweepAnswered, SweepUnanswered
    <3> QED
      BY <2>0, <2>1, <2>2, <3>1 DEF AccountsTypeOK
  <2>3. ASSUME NEW t \in probes, ProbeEnds(t), OrgsTrue PROVE OrgsTrue'
    BY <2>0, <2>1, <2>3 DEF ProbeEnds, AccountsTypeOK
  <2>4. ASSUME Operator \/ Environment \/ StartSweep \/ SweepAll \/ \E a \in Logins : AskProbe(a) PROVE UNCHANGED orgOf
    BY <2>4 DEF Operator, SetPin, ClearPin, ImportToken, SetDisabled, RemoveAccount, SetStrategy,
                Environment, CoolEnds, Refused429, Roll, Cancel, StartSweep, SweepAll, AskProbe
  <2> QED
    BY <2>2, <2>3, <2>4, OrgsStay DEF AccountsNext, Probing
<1> QED
  BY <1>1, <1>2, <1>3, Rebuilt DEF FailoverInductive

\* Every step.
LEMMA FailoverStep ==
    ASSUME FailoverInductive, [Next]_vars
    PROVE  FailoverInductive'
<1>1. CASE UNCHANGED vars
  <2>1. AccountsInv' /\ UNCHANGED orgOf
    BY <1>1, InvParts, StayAccounts DEF vars, accountVars
  <2>2. Calling' /\ \A d \in Calls : Sound(d)'
    BY <1>1, InvParts, CallsStay DEF vars, callVars, Calling
  <2> QED
    BY <2>1, <2>2, OrgsStay, Rebuilt DEF FailoverInductive
<1>2. CASE Next
  BY <1>2, ArriveStep, RefuseStep, AnswerStep, RecycleStep, SniffStep, PoolStep DEF Next
<1> QED
  BY <1>1, <1>2

\* The inductive invariant holds, with headers on errors too.
THEOREM FailoverHolds == Spec => []FailoverInductive
<1>1. Init => FailoverInductive
  BY InitFailover
<1>2. FailoverInductive /\ [Next]_vars => FailoverInductive'
  BY FailoverStep
<1> QED
  BY <1>1, <1>2, PTL DEF Spec

\* Tries are bounded, no login is asked twice, the row names the login that served, and the
\* readings are filed under theirs, where error answers carry no windows (http.js 392 files
\* those under opts.account).
THEOREM FailoverSound == ASSUME "error" \notin HeadersOn PROVE Spec => []FailoverInv
<1>1. FailoverInductive => FailoverInv
  BY DEF FailoverInductive, FailoverInv, Sound, TriesBounded, NoLoginTwice, BilledToServer
<1> QED
  BY <1>1, FailoverHolds, PTL

-----------------------------------------------------------------------------
(* The action properties. *)

\* Where an attempt goes.
LEMMA AttemptStep ==
    ASSUME FailoverInductive, [Next]_vars, NEW c \in Calls, tried'[c] # tried[c], tried'[c] # {}
    PROVE  last'[c] \in InPool \ disabled /\ token'[c] = gen[last'[c]]
<1>0. AccountsTypeOK /\ Calling
  BY InvParts
<1>1. ASSUME NEW d \in Calls, NEW a \in InPool \ disabled, Send(d, a) PROVE last'[c] \in InPool \ disabled /\ token'[c] = gen[last'[c]]
  <2>1. d = c
    BY <1>0, <1>1 DEF Send, Calling
  <2> QED
    BY <1>0, <1>1, <2>1 DEF Send, Calling
<1>2. ASSUME NEW d \in Calls, Arrive(d) PROVE last'[c] \in InPool \ disabled /\ token'[c] = gen[last'[c]]
  <2>1. AccountFor(project[d]) \in InPool \ disabled
    BY <1>0, <1>2, PickInPool DEF Arrive, Calling
  <2>2. Send(d, AccountFor(project[d]))
    BY <1>2 DEF Arrive
  <2> QED
    BY <1>1, <2>1, <2>2
<1>3. ASSUME NEW d \in Calls, Retry(d) PROVE last'[c] \in InPool \ disabled /\ token'[c] = gen[last'[c]]
  <2>1. Next429(d) \in InPool \ disabled
    BY <1>0, <1>3, NextIsEligible DEF Retry
  <2>2. Send(d, Next429(d))
    BY <1>3 DEF Retry
  <2> QED
    BY <1>1, <2>1, <2>2
<1>4. ASSUME NEW d \in Calls, Recycle(d) PROVE FALSE
  BY <1>0, <1>4 DEF Recycle, Calling
<1>5. ASSUME NEW d \in Calls, Refuse(d) \/ (Answer(d) /\ ~Retry(d)) PROVE FALSE
  BY <1>5 DEF Refuse, Answer, AnswerOk, GiveUpDry, GiveUpTries, AnswerForbidden, AnswerError, Stall, Unreachable, Finish
<1>6. ~(\E a \in Logins : Sniffed(a) \/ SniffFails(a)) /\ ~(UNCHANGED callVars)
  BY DEF Sniffed, SniffFails, callVars
<1> QED
  BY <1>2, <1>3, <1>4, <1>5, <1>6 DEF Next, vars

\* Every attempt goes to a login that is in the pool and not parked, with the token it has
\* then (accountfailover.js 48-60).
THEOREM AttemptsAreLive == Spec => AttemptIsLive
<1>1. FailoverInductive /\ [Next]_vars
        => [\A c \in Calls : (tried'[c] # tried[c] /\ tried'[c] # {})
              => /\ last'[c] \in InPool \ disabled
                 /\ token'[c] = gen[last'[c]]]_vars
  BY AttemptStep
<1> QED
  BY <1>1, FailoverHolds, PTL DEF Spec, AttemptIsLive

\* A 429 reaches the caller of c in this step.
Told429(c) == outcome[c] = "none" /\ outcome'[c] = "429"

\* Only the two ways to give up tell a caller 429.
LEMMA Only429 ==
    ASSUME FailoverInductive, [Next]_vars, NEW c \in Calls, Told429(c)
    PROVE  GiveUpDry(c) \/ GiveUpTries(c)
<1>0. Calling
  BY InvParts
<1>1. ASSUME NEW d \in Calls, NEW a, NEW o, Finish(d, a, o) PROVE d = c /\ o = "429"
  BY <1>0, <1>1 DEF Finish, Told429, Calling
<1>2. ASSUME NEW d \in Calls, Answer(d) PROVE d = c /\ (GiveUpDry(d) \/ GiveUpTries(d))
  <2>1. ~Retry(d)
    BY DEF Retry, Told429
  <2>2. ~AnswerOk(d)
    BY <1>1 DEF AnswerOk
  <2>3. ~AnswerForbidden(d)
    BY <1>1 DEF AnswerForbidden
  <2>4. ~AnswerError(d)
    BY <1>1 DEF AnswerError
  <2>5. ~Stall(d) /\ ~Unreachable(d)
    <3>1. ~Finish(d, account[d], "504") /\ ~Finish(d, account[d], "502")
      BY <1>1
    <3> QED
      BY <3>1 DEF Stall, Unreachable
  <2>6. GiveUpDry(d) \/ GiveUpTries(d)
    BY <1>2, <2>1, <2>2, <2>3, <2>4, <2>5 DEF Answer
  <2>7. d = c
    BY <1>1, <2>6 DEF GiveUpDry, GiveUpTries
  <2> QED
    BY <2>6, <2>7
<1>3. ASSUME NEW d \in Calls, Refuse(d) PROVE FALSE
  <2>1. Finish(d, None, "no_account")
    BY <1>3 DEF Refuse
  <2> QED
    BY <1>1, <2>1
<1>4. ASSUME NEW d \in Calls, Arrive(d) \/ Recycle(d) PROVE FALSE
  BY <1>0, <1>4 DEF Arrive, Recycle, Told429, Calling
<1>5. ~(\E a \in Logins : Sniffed(a) \/ SniffFails(a)) /\ ~(UNCHANGED callVars)
  BY DEF Sniffed, SniffFails, callVars, Told429
<1> QED
  BY <1>2, <1>3, <1>4, <1>5 DEF Next, vars

\* The caller gets a 429 only when every login has refused or the tries are used up
\* (accountfailover.js 9).
THEOREM DryIsDry == Spec => DryMeansDry
<1>1. ASSUME FailoverInductive, [Next]_vars, NEW c \in Calls, Told429(c)
      PROVE  Cardinality(tried[c]) >= MaxTries \/ InPool \subseteq tried[c] \cup disabled \cup dead
  <2>1. CASE GiveUpTries(c)
    BY <2>1 DEF GiveUpTries
  <2>2. CASE GiveUpDry(c)
    BY <2>2 DEF GiveUpDry, Eligible, InPool
  <2> QED
    BY <1>1, <2>1, <2>2, Only429
<1>2. FailoverInductive /\ [Next]_vars
        => [\A c \in Calls : (outcome[c] = "none" /\ outcome'[c] = "429")
              => \/ Cardinality(tried[c]) >= MaxTries
                 \/ InPool \subseteq tried[c] \cup disabled \cup dead]_vars
  BY <1>1 DEF Told429
<1> QED
  BY <1>2, FailoverHolds, PTL DEF Spec, DryMeansDry

\* The login that was given is benched, and the selector finds another one.
LEMMA HopStep ==
    ASSUME FailoverInductive, NeverDry', [Next]_vars, NEW c \in Calls, NEW p \in Projects,
           Selects(p), Told429(c), UsableLogins' # {}
    PROVE  AccountFor(p)' # account[c]
<1>1. GiveUpDry(c) \/ GiveUpTries(c)
  BY Only429
<1>2. account[c] \in cool' /\ strategy' = strategy
  BY <1>1 DEF GiveUpDry, GiveUpTries, Bench
<1>3. Selects(p)'
  BY <1>2 DEF Selects
<1>4. AccountFor(p)' \in UsableLogins'
  BY <1>3 DEF NeverDry
<1>5. \A a \in UsableLogins' : a \notin cool'
  BY DEF UsableLogins, Usable
<1> QED
  BY <1>2, <1>4, <1>5

\* After a 429 the same caller is handed another login as long as one is usable
\* (http.js 313-323).
THEOREM NextCallMovesOn == Spec => NextCallHops
<1>1. FailoverInductive => NeverDry
  BY InvParts, AutoPicksUsable DEF NeverDry
<1>2. FailoverInductive /\ NeverDry' /\ [Next]_vars
        => [\A c \in Calls, p \in Projects :
              (/\ project[c] = p /\ Selects(p)
               /\ outcome[c] = "none" /\ outcome'[c] = "429"
               /\ UsableLogins' # {})
              => AccountFor(p)' # account[c]]_vars
  BY HopStep DEF Told429
<1> QED
  BY <1>1, <1>2, FailoverHolds, PTL DEF Spec, NextCallHops
=============================================================================
