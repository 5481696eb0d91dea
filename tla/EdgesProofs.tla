---------------------------- MODULE EdgesProofs ----------------------------
(***************************************************************************)
(* Theorems about what a caller and an operator see of the router, for any *)
(* log, filters, page sizes, rules and browsers, any pages of the panel,   *)
(* sizes of a body, addresses, windows and calls.                          *)
(*                                                                         *)
(* Panel: a page shows one answer, an export is whole and in order, a rule *)
(* survives its saves.  What is inductive is stronger: what is asked and   *)
(* under way still fits the view it will land in.                          *)
(*                                                                         *)
(* Doors: each documented path finds its own door; the three senders       *)
(* address a call alike and none loses the request for JSON; a body over   *)
(* the cap is never handed on; the login is throttled.  What is inductive  *)
(* of the throttle splits the tries of an address: the first of them are   *)
(* a window older than the end of its window, the others are counted in    *)
(* it.                                                                     *)
(***************************************************************************)
EXTENDS Edges, FiniteSetTheorems, SequenceTheorems, WellFoundedInduction, TLAPS

(* Numbers. *)

\* Less-than as a relation.
Below == {ss \in Nat \X Nat : ss[1] < ss[2]}

\* A set of natural numbers has a least one.
LEMMA LeastNumber ==
    ASSUME NEW S \in SUBSET Nat, S # {}
    PROVE  \E n \in S : \A m \in S : n <= m
<1>1. IsWellFoundedOn(Below, Nat)
  BY NatLessThanWellFounded DEF OpToRel, Below
<1>2. PICK n \in S : \A m \in S : ~(<<m, n>> \in Below)
  BY <1>1, WFMin
<1>3. ASSUME NEW m \in S PROVE n <= m
  <2>1. m \in Nat /\ n \in Nat /\ ~(<<m, n>> \in Below)
    BY <1>2
  <2> QED
    BY <2>1 DEF Below
<1> QED
  BY <1>3

\* A finite set of natural numbers that is not empty has a greatest one: one of least size that had none would have
\* none but for any of its members either.
LEMMA GreatestNumber ==
    ASSUME NEW S \in SUBSET Nat, IsFiniteSet(S), S # {}
    PROVE  \E n \in S : \A m \in S : m <= n
<1> DEFINE Topped(T) == \E t \in T : \A m \in T : m <= t
<1> DEFINE Sizes == {n \in Nat : \E T \in SUBSET Nat : IsFiniteSet(T) /\ Cardinality(T) = n /\ T # {} /\ ~Topped(T)}
<1> SUFFICES Sizes = {}
  BY FS_CardinalityType
<1> SUFFICES ASSUME Sizes # {} PROVE FALSE
  OBVIOUS
<1>1. PICK n \in Sizes : \A m \in Sizes : n <= m
  <2> Sizes \in SUBSET Nat
    OBVIOUS
  <2> HIDE DEF Sizes
  <2> QED
    BY LeastNumber
<1>2. PICK T \in SUBSET Nat : IsFiniteSet(T) /\ Cardinality(T) = n /\ T # {} /\ ~Topped(T)
  BY <1>1
<1>3. PICK x \in T : TRUE
  BY <1>2
<1> DEFINE U == T \ {x}
<1>4. IsFiniteSet(U) /\ Cardinality(U) = n - 1 /\ U \in SUBSET Nat
  BY <1>2, <1>3, FS_RemoveElement
<1>5. Cardinality(U) \in Nat /\ n \in Nat
  BY <1>1, <1>4, FS_CardinalityType
<1>6. U # {}
  <2> SUFFICES ASSUME U = {} PROVE Topped(T)
    BY <1>2
  <2> \A m \in T : m = x /\ x \in Nat
    BY <1>2
  <2> QED
    BY <1>3
<1>7. Topped(U)
  <2> SUFFICES ASSUME ~Topped(U) PROVE FALSE
    OBVIOUS
  <2>1. n - 1 \in Sizes
    BY <1>4, <1>5, <1>6
  <2> QED
    BY <2>1, <1>1, <1>5
<1>8. PICK u \in U : \A m \in U : m <= u
  BY <1>7
<1>9. x \in Nat /\ u \in Nat /\ u \in T /\ \A m \in T : m \in Nat /\ (m = x \/ m <= u)
  BY <1>2, <1>3, <1>8
<1>10. CASE x <= u
  BY <1>2, <1>9, <1>10
<1>11. CASE ~(x <= u)
  <2>1. \A m \in T : m <= x
    BY <1>9, <1>11
  <2> QED
    BY <1>2, <1>3, <2>1
<1> QED
  BY <1>10, <1>11

(* Sequences. *)

\* s lists the members of S in ascending order.
Lists(s, S) ==
    /\ s \in [1..Cardinality(S) -> S] /\ ToSet(s) = S
    /\ \A i, j \in DOMAIN s : i < j => s[i] < s[j]

\* Every finite set of numbers can be listed in order: otherwise one of least size cannot, and its greatest member
\* can be put after the list of the others.
LEMMA ListExists ==
    ASSUME NEW S \in SUBSET Nat, IsFiniteSet(S)
    PROVE  \E s : Lists(s, S)
<1> DEFINE Sizes == {n \in Nat : \E T \in SUBSET Nat : IsFiniteSet(T) /\ Cardinality(T) = n /\ ~\E s : Lists(s, T)}
<1> SUFFICES Sizes = {}
  BY FS_CardinalityType
<1> SUFFICES ASSUME Sizes # {} PROVE FALSE
  OBVIOUS
<1>1. PICK n \in Sizes : \A m \in Sizes : n <= m
  <2> Sizes \in SUBSET Nat
    OBVIOUS
  <2> HIDE DEF Sizes
  <2> QED
    BY LeastNumber
<1>2. PICK T \in SUBSET Nat : IsFiniteSet(T) /\ Cardinality(T) = n /\ ~\E s : Lists(s, T)
  BY <1>1
<1>3. T # {}
  <2> SUFFICES ASSUME T = {} PROVE Lists(<<>>, T)
    BY <1>2
  <2>1. Cardinality(T) = 0
    BY FS_EmptySet
  <2>2. 1..0 = {}
    OBVIOUS
  <2>3. <<>> \in [1..0 -> T] /\ DOMAIN <<>> = {}
    BY <2>2
  <2> QED
    BY <2>1, <2>3 DEF Lists, ToSet
<1>4. PICK x \in T : \A m \in T : m <= x
  BY <1>2, <1>3, GreatestNumber
<1> DEFINE U == T \ {x}
<1>5. IsFiniteSet(U) /\ Cardinality(U) = n - 1 /\ U \in SUBSET Nat /\ n \in Nat /\ n >= 1 /\ n - 1 \in Nat
  <2>1. IsFiniteSet(U) /\ Cardinality(U) = n - 1
    BY <1>2, <1>4, FS_RemoveElement
  <2>2. Cardinality(U) \in Nat /\ n \in Nat
    BY <2>1, <1>1, FS_CardinalityType
  <2> QED
    BY <2>1, <2>2
<1>6. PICK u : Lists(u, U)
  <2> SUFFICES ASSUME ~\E s : Lists(s, U) PROVE FALSE
    OBVIOUS
  <2>1. n - 1 \in Sizes
    BY <1>5
  <2> QED
    BY <2>1, <1>1, <1>5
<1> HIDE DEF Sizes, U
<1>7. u \in [1..(n - 1) -> U] /\ DOMAIN u = 1..(n - 1) /\ ToSet(u) = U
      /\ \A i, j \in 1..(n - 1) : i < j => u[i] < u[j]
  BY <1>5, <1>6 DEF Lists
<1> DEFINE s == [i \in 1..n |-> IF i = n THEN x ELSE u[i]]
<1>8. \A i \in 1..n : i = n \/ i \in 1..(n - 1)
  BY <1>5
<1>9. s \in [1..n -> T] /\ DOMAIN s = 1..n
  BY <1>4, <1>7, <1>8 DEF U
<1>10. \A i, j \in 1..n : i < j => s[i] < s[j]
  <2> SUFFICES ASSUME NEW i \in 1..n, NEW j \in 1..n, i < j PROVE s[i] < s[j]
    OBVIOUS
  <2>1. i \in 1..(n - 1) /\ s[i] = u[i]
    BY <1>5
  <2>2. CASE j = n
    <3>1. u[i] \in U
      BY <1>7, <2>1
    <3>2. u[i] \in Nat /\ x \in Nat /\ u[i] # x /\ u[i] <= x
      BY <3>1, <1>4, <1>2 DEF U
    <3> QED
      BY <2>1, <2>2, <3>2
  <2>3. CASE j # n
    <3>1. j \in 1..(n - 1) /\ s[j] = u[j]
      BY <1>5, <2>3
    <3> QED
      BY <2>1, <3>1, <1>7
  <2> QED
    BY <2>2, <2>3
<1>11. ToSet(s) = T
  <2>1. ASSUME NEW m \in T PROVE \E i \in 1..n : s[i] = m
    <3>1. CASE m = x
      <4>1. n \in 1..n /\ s[n] = x
        BY <1>5
      <4> QED
        BY <4>1, <3>1
    <3>2. CASE m # x
      <4>1. m \in ToSet(u)
        BY <3>2, <1>7 DEF U
      <4>2. PICK i \in 1..(n - 1) : u[i] = m
        BY <4>1, <1>7 DEF ToSet
      <4>3. i \in 1..n /\ s[i] = m
        BY <4>2, <1>5
      <4> QED
        BY <4>3
    <3> QED
      BY <3>1, <3>2
  <2> QED
    BY <2>1, <1>9 DEF ToSet
<1>12. Lists(s, T)
  <2> HIDE DEF s
  <2> QED
    BY <1>2, <1>9, <1>10, <1>11 DEF Lists
<1> QED
  BY <1>2, <1>12

\* So Ordered lists a set.
LEMMA OrderedLists ==
    ASSUME NEW S \in SUBSET Nat, IsFiniteSet(S)
    PROVE  Lists(Ordered(S), S)
<1>1. PICK s : Lists(s, S)
  BY ListExists
<1>2. s \in [1..Cardinality(S) -> S] /\ ToSet(s) = S /\ \A i, j \in DOMAIN s : i < j => s[i] < s[j]
  BY <1>1 DEF Lists
<1> QED
  BY <1>2 DEF Lists, Ordered

\* ... and is a sequence as long as the set is large.
LEMMA OrderedIs ==
    ASSUME NEW S \in SUBSET Nat, IsFiniteSet(S)
    PROVE  /\ Ordered(S) \in Seq(S) /\ Len(Ordered(S)) = Cardinality(S) /\ DOMAIN Ordered(S) = 1..Cardinality(S)
           /\ ToSet(Ordered(S)) = S /\ Cardinality(S) \in Nat
           /\ \A i, j \in 1..Cardinality(S) : i < j => Ordered(S)[i] < Ordered(S)[j]
<1> DEFINE s == Ordered(S)
<1> DEFINE n == Cardinality(S)
<1>1. n \in Nat
  BY FS_CardinalityType
<1>2. s \in [1..n -> S] /\ ToSet(s) = S /\ \A i, j \in DOMAIN s : i < j => s[i] < s[j]
  BY OrderedLists DEF Lists
<1> HIDE DEF s, n
<1>3. s \in Seq(S) /\ Len(s) = n /\ DOMAIN s = 1..n
  BY <1>1, <1>2
<1> QED
  BY <1>1, <1>2, <1>3 DEF s, n

\* Newest lists members of the set, in the other order.
LEMMA NewestIs ==
    ASSUME NEW S \in SUBSET Nat, IsFiniteSet(S)
    PROVE  Newest(S) \in Seq(S) /\ Len(Newest(S)) = Cardinality(S) /\ Cardinality(S) \in Nat
<1> DEFINE s == Ordered(S)
<1> DEFINE n == Cardinality(S)
<1>1. s \in Seq(S) /\ Len(s) = n /\ n \in Nat
  BY OrderedIs
<1>2. Newest(S) = [i \in 1..Len(s) |-> s[(Len(s) - i) + 1]]
  BY DEF Newest, Reverse
<1> HIDE DEF s, n
<1>3. \A i \in 1..n : (n - i) + 1 \in 1..n
  BY <1>1
<1>4. \A i \in 1..n : s[(n - i) + 1] \in S
  BY <1>1, <1>3
<1> QED
  BY <1>1, <1>2, <1>4 DEF s, n

\* Cut keeps the first n of a sequence.
LEMMA CutIs ==
    ASSUME NEW T, NEW s \in Seq(T), NEW n \in Nat
    PROVE  /\ Cut(s, n) \in Seq(T) /\ Len(Cut(s, n)) = (IF Len(s) < n THEN Len(s) ELSE n)
           /\ Len(Cut(s, n)) <= n /\ Len(Cut(s, n)) <= Len(s)
           /\ \A i \in 1..Len(Cut(s, n)) : Cut(s, n)[i] = s[i]
<1> DEFINE m == IF Len(s) < n THEN Len(s) ELSE n
<1>1. m \in Nat /\ m <= Len(s) /\ Len(s) \in Nat
  OBVIOUS
<1>2. Cut(s, n) = SubSeq(s, 1, m)
  BY DEF Cut
<1> HIDE DEF m
<1>3. SubSeq(s, 1, m) = [i \in 1..m |-> s[i]]
  BY <1>1
<1>4. \A i \in 1..m : s[i] \in T
  BY <1>1
<1>5. SubSeq(s, 1, m) \in Seq(T) /\ Len(SubSeq(s, 1, m)) = m
  BY <1>1, <1>3, <1>4
<1> QED
  BY <1>2, <1>3, <1>5 DEF m
(* The page of the call log. *)

Answers == [rows : Seq(Nat), total : Nat]
AskRecords == [kind : {"load", "tick"}, filter : DOMAIN Matching, off : Nat, dead : BOOLEAN, got : {Nobody} \cup Answers]
Views == [filter : DOMAIN Matching, offset : Nat, live : BOOLEAN, rows : Seq(Nat), total : Nat, tailed : BOOLEAN,
          of : {Nobody} \cup DOMAIN Matching]

\* What has been answered is of the filter it was asked for; a poll whose effect was not cleaned up is about the
\* page v as it is.
AskSound(a, v) ==
    /\ a \in AskRecords
    /\ a.got # Nobody => /\ ToSet(a.got.rows) \subseteq Matching[a.filter] \cap (1..LogMax)
                         /\ a.kind = "load" => Len(a.got.rows) <= PageSize
    /\ a.kind = "tick" /\ ~a.dead => a.filter = v.filter /\ v.offset = 0

AsksSound(f, v) == /\ DOMAIN f = Slots /\ f = [s \in Slots |-> f[s]]
                   /\ \A s \in Slots : f[s] # Nobody => AskSound(f[s], v)

TableSound == table \in [first : 1..(LogMax + 1), last : 0..LogMax]

ViewSound(v) ==
    /\ v \in Views /\ ToSet(v.rows) \subseteq 1..LogMax /\ Len(v.rows) <= PageSize
    /\ v.filter = v.of => ToSet(v.rows) \subseteq Matching[v.filter]
    /\ v.offset > 0 => ~v.tailed

PageSound == TableSound /\ ViewSound(view) /\ AsksSound(asks, view)

\* Calls are in the table from one to another.
LEMMA TableIs ==
    ASSUME TableSound, NEW S \in SUBSET Table
    PROVE  S \in SUBSET Nat /\ IsFiniteSet(S) /\ S \subseteq 1..LogMax /\ Cardinality(S) \in Nat
<1>1. table.first \in Nat /\ table.last \in Nat /\ table.first >= 1 /\ table.last <= LogMax
  BY PanelAssumption DEF TableSound
<1>2. IsFiniteSet(table.first..table.last)
  BY <1>1, FS_Interval
<1>3. IsFiniteSet(S)
  BY <1>2, FS_Subset DEF Table
<1>4. S \subseteq 1..LogMax /\ S \in SUBSET Nat
  BY <1>1, PanelAssumption DEF Table
<1> QED
  BY <1>3, <1>4, FS_CardinalityType

\* The members of a sequence over a set are in the set.
LEMMA MembersIn ==
    ASSUME NEW T, NEW s \in Seq(T)
    PROVE  ToSet(s) \subseteq T
BY DEF ToSet

\* A sequence over a set is one over a larger set.
LEMMA SeqOfMore ==
    ASSUME NEW T, NEW U, T \subseteq U, NEW s \in Seq(T)
    PROVE  s \in Seq(U)
<1>1. Len(s) \in Nat /\ s \in [1..Len(s) -> T]
  OBVIOUS
<1>2. s \in [1..Len(s) -> U]
  BY <1>1
<1> QED
  BY <1>1, <1>2

\* ... and those of what is left of it are its own.
LEMMA MembersOfCut ==
    ASSUME NEW T, NEW s \in Seq(T), NEW n \in Nat
    PROVE  ToSet(Cut(s, n)) \subseteq ToSet(s)
<1>1. Cut(s, n) \in Seq(T) /\ Len(Cut(s, n)) <= Len(s) /\ \A i \in 1..Len(Cut(s, n)) : Cut(s, n)[i] = s[i]
  BY CutIs
<1> DEFINE c == Cut(s, n)
<1>2. c \in Seq(T) /\ Len(c) <= Len(s) /\ \A i \in 1..Len(c) : c[i] = s[i]
  BY <1>1
<1> HIDE DEF c
<1>3. DOMAIN c = 1..Len(c) /\ DOMAIN s = 1..Len(s) /\ 1..Len(c) \subseteq 1..Len(s)
  BY <1>2
<1>4. ToSet(c) \subseteq ToSet(s)
  BY <1>2, <1>3 DEF ToSet
<1> QED
  BY <1>4 DEF c

\* The members of two sequences in a row.
LEMMA MembersOfBoth ==
    ASSUME NEW T, NEW s \in Seq(T), NEW u \in Seq(T)
    PROVE  ToSet(s \o u) \subseteq ToSet(s) \cup ToSet(u)
<1>1. /\ Len(s) \in Nat /\ Len(u) \in Nat /\ DOMAIN s = 1..Len(s) /\ DOMAIN u = 1..Len(u)
      /\ DOMAIN (s \o u) = 1..(Len(s) + Len(u))
  OBVIOUS
<1>2. ASSUME NEW i \in 1..(Len(s) + Len(u)) PROVE (s \o u)[i] \in ToSet(s) \cup ToSet(u)
  <2>1. CASE i <= Len(s)
    <3>1. (s \o u)[i] = s[i] /\ i \in DOMAIN s
      BY <1>1, <2>1
    <3> QED
      BY <3>1 DEF ToSet
  <2>2. CASE ~(i <= Len(s))
    <3>1. (s \o u)[i] = u[i - Len(s)] /\ i - Len(s) \in DOMAIN u
      BY <1>1, <2>2
    <3> QED
      BY <3>1 DEF ToSet
  <2> QED
    BY <2>1, <2>2
<1> QED
  BY <1>1, <1>2 DEF ToSet

\* listCalls answers rows that match, and no more than a page of them.
LEMMA ListedIs ==
    ASSUME TableSound, NEW a \in AskRecords
    PROVE  /\ Listed(a) \in Answers
           /\ ToSet(Listed(a).rows) \subseteq Matching[a.filter] \cap (1..LogMax)
           /\ a.kind = "load" => Len(Listed(a).rows) <= PageSize
<1> DEFINE S == {i \in Table \cap Matching[a.filter] : a.kind = "tick" => i > a.off}
<1> DEFINE n == Cardinality(S)
<1> DEFINE s == Newest(S)
<1>1. S \in SUBSET Table /\ S \subseteq Matching[a.filter]
  OBVIOUS
<1>2. Listed(a) = IF a.kind = "tick" THEN [rows |-> Cut(s, TailMax), total |-> n]
                  ELSE [rows |-> Cut(SubSeq(s, a.off + 1, n), PageSize), total |-> n]
  BY DEF Listed
<1> HIDE DEF S
<1>3. S \in SUBSET Nat /\ IsFiniteSet(S) /\ S \subseteq 1..LogMax /\ n \in Nat
  BY <1>1, TableIs
<1>4. s \in Seq(S) /\ Len(s) = n
  BY <1>3, NewestIs
<1>5. PageSize \in Nat /\ TailMax \in Nat /\ a.off \in Nat
  BY PanelAssumption DEF AskRecords
<1> HIDE DEF n, s
<1>6. Cut(s, TailMax) \in Seq(S)
  BY <1>4, <1>5, CutIs
<1> DEFINE q == SubSeq(s, a.off + 1, n)
<1>7. q \in Seq(S)
  BY <1>3, <1>4, <1>5
<1> HIDE DEF q
<1>8. Cut(q, PageSize) \in Seq(S) /\ Len(Cut(q, PageSize)) <= PageSize
  BY <1>5, <1>7, CutIs
<1>9. ASSUME NEW c \in Seq(S) PROVE c \in Seq(Nat) /\ ToSet(c) \subseteq S
  <2>1. ToSet(c) \subseteq S
    BY MembersIn
  <2>2. c \in Seq(Nat)
    BY <1>3, SeqOfMore
  <2> QED
    BY <2>1, <2>2
<1>10. CASE a.kind = "tick"
  <2>1. Listed(a) = [rows |-> Cut(s, TailMax), total |-> n]
    BY <1>2, <1>10
  <2>2. Cut(s, TailMax) \in Seq(Nat) /\ ToSet(Cut(s, TailMax)) \subseteq S
    BY <1>6, <1>9
  <2>3. Listed(a).rows = Cut(s, TailMax) /\ Listed(a) \in Answers
    BY <2>1, <2>2, <1>3 DEF Answers
  <2> QED
    BY <2>2, <2>3, <1>1, <1>3, <1>10
<1>11. CASE a.kind # "tick"
  <2>1. Listed(a) = [rows |-> Cut(q, PageSize), total |-> n]
    BY <1>2, <1>11 DEF q
  <2>2. Cut(q, PageSize) \in Seq(Nat) /\ ToSet(Cut(q, PageSize)) \subseteq S
    BY <1>8, <1>9
  <2>3. Listed(a).rows = Cut(q, PageSize) /\ Listed(a) \in Answers
    BY <2>1, <2>2, <1>3 DEF Answers
  <2> QED
    BY <2>2, <2>3, <1>1, <1>3, <1>8
<1> QED
  BY <1>10, <1>11
\* A request that is put in a slot.
LEMMA PutAsk ==
    ASSUME NEW f, NEW v, AsksSound(f, v), NEW s \in Slots, NEW q, q # Nobody => AskSound(q, v)
    PROVE  AsksSound([f EXCEPT ![s] = q], v)
<1> DEFINE g == [f EXCEPT ![s] = q]
<1>1. DOMAIN f = Slots
  BY DEF AsksSound
<1>2. DOMAIN g = Slots /\ g = [t \in Slots |-> g[t]] /\ g[s] = q /\ \A t \in Slots : t # s => g[t] = f[t]
  BY <1>1
<1> HIDE DEF g
<1>3. ASSUME NEW t \in Slots, g[t] # Nobody PROVE AskSound(g[t], v)
  <2>1. CASE t = s
    BY <1>2, <1>3, <2>1
  <2>2. CASE t # s
    BY <1>2, <1>3, <2>2 DEF AsksSound
  <2> QED
    BY <2>1, <2>2
<1>4. AsksSound(g, v)
  BY <1>2, <1>3 DEF AsksSound
<1> QED
  BY <1>4 DEF g

\* What is known of the requests does not depend on what the page shows.
LEMMA AsksKept ==
    ASSUME NEW f, NEW v, AsksSound(f, v), NEW w, w.filter = v.filter, w.offset = v.offset
    PROVE  AsksSound(f, w)
<1>1. ASSUME NEW t \in Slots, f[t] # Nobody PROVE AskSound(f[t], w)
  <2>1. AskSound(f[t], v)
    BY <1>1 DEF AsksSound
  <2> QED
    BY <2>1 DEF AskSound
<1> QED
  BY <1>1 DEF AsksSound

\* After a cleanup nothing is known of the page, and the requests may meet any other.
LEMMA DeadAsks ==
    ASSUME NEW f, NEW v, AsksSound(f, v), NEW w
    PROVE  AsksSound(Dead(f), w)
<1> DEFINE g == Dead(f)
<1>1. g = [s \in Slots |-> IF f[s] # Nobody /\ f[s].kind = "tick" THEN [f[s] EXCEPT !.dead = TRUE] ELSE f[s]]
  BY DEF Dead
<1> HIDE DEF g
<1>2. DOMAIN g = Slots /\ g = [s \in Slots |-> g[s]]
  BY <1>1
<1>3. ASSUME NEW t \in Slots, g[t] # Nobody PROVE AskSound(g[t], w)
  <2>1. CASE f[t] = Nobody
    BY <1>1, <1>3, <2>1
  <2>2. CASE f[t] # Nobody /\ f[t].kind = "tick"
    <3> DEFINE a == f[t]
    <3>1. AskSound(a, v)
      BY <2>2 DEF AsksSound
    <3>2. g[t] = [a EXCEPT !.dead = TRUE]
      BY <1>1, <2>2
    <3> HIDE DEF a
    <3>3. a \in AskRecords
      BY <3>1 DEF AskSound
    <3>4. g[t] = [kind |-> a.kind, filter |-> a.filter, off |-> a.off, dead |-> TRUE, got |-> a.got]
      BY <3>2, <3>3 DEF AskRecords
    <3>5. g[t] \in AskRecords
      BY <3>3, <3>4 DEF AskRecords
    <3> QED
      BY <3>1, <3>4, <3>5 DEF AskSound
  <2>3. CASE f[t] # Nobody /\ f[t].kind # "tick"
    <3>1. AskSound(f[t], v) /\ g[t] = f[t]
      BY <1>1, <2>3 DEF AsksSound
    <3> QED
      BY <3>1, <2>3 DEF AskSound
  <2> QED
    BY <2>1, <2>2, <2>3
<1>4. AsksSound(g, w)
  BY <1>2, <1>3 DEF AsksSound
<1> QED
  BY <1>4 DEF g

\* A request that has just been sent.
LEMMA QuestionSound ==
    ASSUME NEW kind \in {"load", "tick"}, NEW filter \in DOMAIN Matching, NEW off \in Nat, NEW v,
           kind = "tick" => filter = v.filter /\ v.offset = 0
    PROVE  AskSound(Question(kind, filter, off), v)
<1> DEFINE q == Question(kind, filter, off)
<1>1. q = [kind |-> kind, filter |-> filter, off |-> off, dead |-> FALSE, got |-> Nobody]
  BY DEF Question
<1> HIDE DEF q
<1>2. q \in AskRecords
  BY <1>1 DEF AskRecords
<1>3. q.got = Nobody /\ q.kind = kind /\ q.filter = filter
  BY <1>1
<1>4. AskSound(q, v)
  BY <1>2, <1>3 DEF AskSound
<1> QED
  BY <1>4 DEF q

\* A call is logged, and the log is cleared.
LEMMA TableMoves ==
    ASSUME TableSound, \/ table.last < LogMax /\ table' = [table EXCEPT !.last = @ + 1]
                       \/ table' = [table EXCEPT !.first = table.last + 1]
    PROVE  TableSound'
BY PanelAssumption DEF TableSound

\* The steps of the page that change no row.
LEMMA AskSteps ==
    ASSUME PageSound, NEW s \in Slots, \/ \E off \in 0..LogMax : Load(s, off)
                                       \/ Poll(s) \/ Served(s) \/ AskFails(s) \/ ClearCalls(s)
    PROVE  PageSound'
<1>1. TableSound /\ ViewSound(view) /\ AsksSound(asks, view)
  BY DEF PageSound
<1>2. view \in Views
  BY <1>1 DEF ViewSound
<1>3. view.filter \in DOMAIN Matching
  BY <1>2 DEF Views
<1>4. ASSUME NEW off \in 0..LogMax, Load(s, off) PROVE PageSound'
  <2>1. asks' = [asks EXCEPT ![s] = Question("load", view.filter, off)] /\ UNCHANGED <<table, view>>
    BY <1>4 DEF Load
  <2>2. off \in Nat
    BY PanelAssumption
  <2>3. AskSound(Question("load", view.filter, off), view)
    BY <1>3, <2>2, QuestionSound
  <2>4. AsksSound(asks', view)
    BY <1>1, <2>1, <2>3, PutAsk
  <2> QED
    BY <1>1, <2>1, <2>4 DEF PageSound, TableSound
<1>5. CASE Poll(s)
  <2> DEFINE q == IF view.rows = <<>> THEN Question("load", view.filter, 0)
                  ELSE Question("tick", view.filter, Head(view.rows))
  <2>1. asks' = [asks EXCEPT ![s] = q] /\ UNCHANGED <<table, view>> /\ view.offset = 0
    BY <1>5 DEF Poll
  <2>2. AskSound(q, view)
    <3>1. CASE view.rows = <<>>
      BY <1>3, <3>1, QuestionSound
    <3>2. CASE view.rows # <<>>
      <4>1. view.rows \in Seq(Nat)
        BY <1>2 DEF Views
      <4>2. Head(view.rows) \in Nat
        BY <4>1, <3>2
      <4>3. AskSound(Question("tick", view.filter, Head(view.rows)), view)
        BY <1>3, <2>1, <4>2, QuestionSound
      <4> QED
        BY <3>2, <4>3
    <3> QED
      BY <3>1, <3>2
  <2> HIDE DEF q
  <2>3. AsksSound(asks', view)
    BY <1>1, <2>1, <2>2, PutAsk
  <2> QED
    BY <1>1, <2>1, <2>3 DEF PageSound, TableSound
<1>6. CASE Served(s)
  <2> DEFINE a == asks[s]
  <2> DEFINE q == [a EXCEPT !.got = Listed(a)]
  <2>1. asks[s] # Nobody /\ asks' = [asks EXCEPT ![s].got = Listed(asks[s])] /\ UNCHANGED <<table, view>>
    BY <1>6 DEF Served
  <2>2. asks' = [asks EXCEPT ![s] = q]
    BY <2>1
  <2>3. AskSound(a, view)
    BY <1>1, <2>1 DEF AsksSound
  <2>4. a \in AskRecords
    BY <2>3 DEF AskSound
  <2> HIDE DEF a
  <2>5. /\ Listed(a) \in Answers
        /\ ToSet(Listed(a).rows) \subseteq Matching[a.filter] \cap (1..LogMax)
        /\ a.kind = "load" => Len(Listed(a).rows) <= PageSize
    BY <1>1, <2>4, ListedIs
  <2>6. q = [kind |-> a.kind, filter |-> a.filter, off |-> a.off, dead |-> a.dead, got |-> Listed(a)]
    BY <2>4 DEF AskRecords
  <2>7. q \in AskRecords
    BY <2>4, <2>5, <2>6 DEF AskRecords
  <2>8. q.kind = a.kind /\ q.filter = a.filter /\ q.dead = a.dead /\ q.got = Listed(a)
    BY <2>6
  <2> HIDE DEF q
  <2>9. AskSound(q, view)
    BY <2>3, <2>5, <2>7, <2>8 DEF AskSound
  <2>10. AsksSound(asks', view)
    BY <1>1, <2>2, <2>9, PutAsk
  <2> QED
    BY <1>1, <2>1, <2>10 DEF PageSound, TableSound
<1>7. CASE AskFails(s)
  <2>1. asks' = [asks EXCEPT ![s] = Nobody] /\ UNCHANGED <<table, view>>
    BY <1>7 DEF AskFails
  <2>2. AsksSound(asks', view)
    BY <1>1, <2>1, PutAsk
  <2> QED
    BY <1>1, <2>1, <2>2 DEF PageSound, TableSound
<1>8. CASE ClearCalls(s)
  <2>1. /\ asks' = [asks EXCEPT ![s] = Question("load", view.filter, 0)] /\ view' = view
        /\ table' = [table EXCEPT !.first = table.last + 1]
    BY <1>8 DEF ClearCalls
  <2>2. AskSound(Question("load", view.filter, 0), view)
    BY <1>3, QuestionSound
  <2>3. AsksSound(asks', view)
    BY <1>1, <2>1, <2>2, PutAsk
  <2>4. TableSound'
    BY <1>1, <2>1, TableMoves
  <2> QED
    BY <1>1, <2>1, <2>3, <2>4 DEF PageSound
<1> QED
  BY <1>4, <1>5, <1>6, <1>7, <1>8

\* The steps that change the page, but for the answers to polls.
LEMMA PageSteps ==
    ASSUME PageSound, NEW s \in Slots, (\E g \in DOMAIN Matching : SetFilter(s, g)) \/ LoadLands(s)
    PROVE  PageSound'
<1>1. TableSound /\ ViewSound(view) /\ AsksSound(asks, view)
  BY DEF PageSound
<1>2. view \in Views
  BY <1>1 DEF ViewSound
<1>3. ASSUME NEW g \in DOMAIN Matching, SetFilter(s, g) PROVE PageSound'
  <2>1. /\ view' = [view EXCEPT !.filter = g, !.of = Nobody] /\ table' = table
        /\ asks' = [Dead(asks) EXCEPT ![s] = Question("load", g, 0)]
    BY <1>3 DEF SetFilter
  <2>2. view' = [filter |-> g, offset |-> view.offset, live |-> view.live, rows |-> view.rows,
                 total |-> view.total, tailed |-> view.tailed, of |-> Nobody]
    BY <1>2, <2>1 DEF Views
  <2>3. view' \in Views
    BY <1>2, <2>2 DEF Views
  <2>4. g # Nobody
    BY PanelAssumption
  <2>5. ViewSound(view')
    BY <1>1, <2>2, <2>3, <2>4 DEF ViewSound
  <2>6. AskSound(Question("load", g, 0), view')
    BY QuestionSound
  <2>7. AsksSound(asks', view')
    BY <1>1, <2>1, <2>6, DeadAsks, PutAsk
  <2> QED
    BY <1>1, <2>1, <2>5, <2>7 DEF PageSound, TableSound
<1>4. CASE LoadLands(s)
  <2> DEFINE a == asks[s]
  <2>1. a # Nobody /\ a.got # Nobody /\ a.kind = "load" /\ table' = table
    BY <1>4 DEF LoadLands, Arrived
  <2>2. /\ view' = [view EXCEPT !.rows = a.got.rows, !.total = a.got.total, !.offset = a.off,
                                !.tailed = FALSE, !.of = a.filter]
        /\ asks' = [(IF a.off = view.offset THEN asks ELSE Dead(asks)) EXCEPT ![s] = Nobody]
    BY <1>4 DEF LoadLands
  <2>3. AskSound(a, view)
    BY <1>1, <2>1 DEF AsksSound
  <2> HIDE DEF a
  <2>4. /\ a \in AskRecords /\ ToSet(a.got.rows) \subseteq Matching[a.filter] \cap (1..LogMax)
        /\ Len(a.got.rows) <= PageSize
    BY <2>1, <2>3 DEF AskSound
  <2>5. /\ a.got \in Answers /\ a.filter \in DOMAIN Matching /\ a.off \in Nat
        /\ a.got.rows \in Seq(Nat) /\ a.got.total \in Nat
    BY <2>1, <2>4 DEF AskRecords, Answers
  <2>6. view' = [filter |-> view.filter, offset |-> a.off, live |-> view.live, rows |-> a.got.rows,
                 total |-> a.got.total, tailed |-> FALSE, of |-> a.filter]
    BY <1>2, <2>2 DEF Views
  <2>7. view' \in Views
    BY <1>2, <2>5, <2>6 DEF Views
  <2>8. ViewSound(view')
    BY <2>4, <2>5, <2>6, <2>7 DEF ViewSound
  <2>9. AsksSound(asks', view')
    <3>1. CASE a.off = view.offset
      <4>1. view'.filter = view.filter /\ view'.offset = view.offset
        BY <2>6, <3>1
      <4>2. AsksSound(asks, view')
        BY <1>1, <4>1, AsksKept
      <4>3. asks' = [asks EXCEPT ![s] = Nobody]
        BY <2>2, <3>1
      <4> QED
        BY <4>2, <4>3, PutAsk
    <3>2. CASE a.off # view.offset
      <4>1. AsksSound(Dead(asks), view')
        BY <1>1, DeadAsks
      <4>2. asks' = [Dead(asks) EXCEPT ![s] = Nobody]
        BY <2>2, <3>2
      <4> QED
        BY <4>1, <4>2, PutAsk
    <3> QED
      BY <3>1, <3>2
  <2> QED
    BY <1>1, <2>1, <2>8, <2>9 DEF PageSound, TableSound
<1> QED
  BY <1>3, <1>4

\* The switch of the live view.
LEMMA LiveStep ==
    ASSUME PageSound, ToggleLive
    PROVE  PageSound'
<1>1. TableSound /\ ViewSound(view) /\ AsksSound(asks, view)
  BY DEF PageSound
<1>2. view \in Views
  BY <1>1 DEF ViewSound
<1>3. view' = [view EXCEPT !.live = ~@] /\ asks' = Dead(asks) /\ table' = table
  BY DEF ToggleLive
<1>4. view' = [filter |-> view.filter, offset |-> view.offset, live |-> ~view.live, rows |-> view.rows,
               total |-> view.total, tailed |-> view.tailed, of |-> view.of]
  BY <1>2, <1>3 DEF Views
<1>5. view' \in Views
  BY <1>2, <1>4 DEF Views
<1>6. ViewSound(view')
  BY <1>1, <1>4, <1>5 DEF ViewSound
<1>7. AsksSound(asks', view')
  BY <1>1, <1>3, DeadAsks
<1> QED
  BY <1>1, <1>3, <1>6, <1>7 DEF PageSound, TableSound

\* The answers to polls go on top of the page they were asked for.
LEMMA TickSteps ==
    ASSUME PageSound, NEW s \in Slots, TickLands(s)
    PROVE  PageSound'
<1>1. TableSound /\ ViewSound(view) /\ AsksSound(asks, view)
  BY DEF PageSound
<1>2. view \in Views
  BY <1>1 DEF ViewSound
<1> DEFINE a == asks[s]
<1> DEFINE new == a.got.rows
<1>3. a # Nobody /\ a.got # Nobody /\ a.kind = "tick" /\ table' = table
  BY DEF TickLands, Arrived
<1>4. \/ asks' = [asks EXCEPT ![s] = Nobody] /\ view' = view
      \/ asks' = [asks EXCEPT ![s] = Question("load", a.filter, 0)] /\ view' = view
      \/ /\ ~a.dead /\ asks' = [asks EXCEPT ![s] = Nobody]
         /\ view' = [view EXCEPT !.rows = Cut(new \o @, PageSize), !.total = @ + Len(new), !.tailed = TRUE]
  BY DEF TickLands
<1>5. AskSound(a, view)
  BY <1>1, <1>3 DEF AsksSound
<1> HIDE DEF a
<1>6. a \in AskRecords /\ ToSet(new) \subseteq Matching[a.filter] \cap (1..LogMax)
  BY <1>3, <1>5 DEF AskSound
<1>7. a.got \in Answers /\ a.filter \in DOMAIN Matching
  BY <1>3, <1>6 DEF AskRecords
<1>8. new \in Seq(Nat)
  BY <1>7 DEF Answers
<1>9. CASE asks' = [asks EXCEPT ![s] = Nobody] /\ view' = view
  BY <1>1, <1>3, <1>9, PutAsk DEF PageSound, TableSound
<1>10. CASE asks' = [asks EXCEPT ![s] = Question("load", a.filter, 0)] /\ view' = view
  <2>1. AskSound(Question("load", a.filter, 0), view)
    BY <1>7, QuestionSound
  <2>2. AsksSound(asks', view')
    BY <1>1, <1>10, <2>1, PutAsk
  <2> QED
    BY <1>1, <1>3, <1>10, <2>2 DEF PageSound, TableSound
<1>11. CASE /\ ~a.dead /\ asks' = [asks EXCEPT ![s] = Nobody]
            /\ view' = [view EXCEPT !.rows = Cut(new \o @, PageSize), !.total = @ + Len(new), !.tailed = TRUE]
  <2> DEFINE q == Cut(new \o view.rows, PageSize)
  <2>1. a.filter = view.filter /\ view.offset = 0
    BY <1>3, <1>5, <1>11 DEF AskSound
  <2>2. /\ view.rows \in Seq(Nat) /\ view.total \in Nat /\ view.filter \in DOMAIN Matching
        /\ view.live \in BOOLEAN /\ view.of \in {Nobody} \cup DOMAIN Matching
    BY <1>2 DEF Views
  <2>3. new \o view.rows \in Seq(Nat) /\ Len(new) \in Nat
    BY <1>8, <2>2
  <2>4. PageSize \in Nat
    BY PanelAssumption
  <2>5. q \in Seq(Nat) /\ Len(q) <= PageSize
    <3> DEFINE both == new \o view.rows
    <3>1. both \in Seq(Nat)
      BY <2>3
    <3> HIDE DEF both
    <3>2. Cut(both, PageSize) \in Seq(Nat) /\ Len(Cut(both, PageSize)) <= PageSize
      BY <2>4, <3>1, CutIs
    <3> QED
      BY <3>2 DEF both
  <2>6. ToSet(q) \subseteq ToSet(new) \cup ToSet(view.rows)
    <3>1. ToSet(q) \subseteq ToSet(new \o view.rows)
      BY <2>3, <2>4, MembersOfCut
    <3>2. ToSet(new \o view.rows) \subseteq ToSet(new) \cup ToSet(view.rows)
      BY <1>8, <2>2, MembersOfBoth
    <3> QED
      BY <3>1, <3>2
  <2>7. view' = [filter |-> view.filter, offset |-> view.offset, live |-> view.live, rows |-> q,
                 total |-> view.total + Len(new), tailed |-> TRUE, of |-> view.of]
    BY <1>2, <1>11 DEF Views
  <2> HIDE DEF q, new
  <2>8. view' \in Views
    BY <2>1, <2>2, <2>3, <2>5, <2>7 DEF Views
  <2>9. ToSet(q) \subseteq 1..LogMax
    BY <1>1, <1>6, <2>6 DEF ViewSound
  <2>10. view.filter = view.of => ToSet(q) \subseteq Matching[view.filter]
    BY <1>1, <1>6, <2>1, <2>6 DEF ViewSound
  <2>11. ViewSound(view')
    BY <2>1, <2>5, <2>7, <2>8, <2>9, <2>10 DEF ViewSound
  <2>12. view'.filter = view.filter /\ view'.offset = view.offset
    BY <2>7
  <2>13. AsksSound(asks', view')
    BY <1>1, <1>11, <2>12, AsksKept, PutAsk
  <2> QED
    BY <1>1, <1>3, <2>11, <2>13 DEF PageSound, TableSound
<1> QED
  BY <1>4, <1>9, <1>10, <1>11
(* The export. *)

\* A page of the export: what the table holds above n, in order; all of it, or all up to its last row.
LEMMA PageHolds ==
    ASSUME TableSound, NEW n \in Nat, NEW p, p = Page(n)
    PROVE  /\ p \in Seq(Nat) /\ \A i, j \in DOMAIN p : i < j => p[i] < p[j]
           /\ \A i \in DOMAIN p : p[i] > n
           /\ Len(p) < ExportPage => \A x \in Table : x > n => x \in ToSet(p)
           /\ ~(Len(p) < ExportPage) => /\ Last(p) \in Nat /\ Last(p) >= n
                                        /\ \A i \in DOMAIN p : p[i] <= Last(p)
                                        /\ \A x \in Table : x > n /\ x <= Last(p) => x \in ToSet(p)
<1> DEFINE S == {i \in Table : i > n}
<1> DEFINE s == Ordered(S)
<1> DEFINE m == Cardinality(S)
<1>1. S \in SUBSET Table
  OBVIOUS
<1>2. p = Cut(s, ExportPage)
  BY DEF Page
<1>3. \A x : x \in S <=> x \in Table /\ x > n
  OBVIOUS
<1> HIDE DEF S
<1>4. S \in SUBSET Nat /\ IsFiniteSet(S)
  BY <1>1, TableIs
<1>5. /\ s \in Seq(S) /\ Len(s) = m /\ m \in Nat /\ ToSet(s) = S /\ DOMAIN s = 1..m
      /\ \A i, j \in 1..m : i < j => s[i] < s[j]
  BY <1>4, OrderedIs
<1> HIDE DEF s, m
<1>6. ExportPage \in Nat /\ ExportPage >= 1
  BY PanelAssumption
<1>7. /\ p \in Seq(S) /\ Len(p) = (IF Len(s) < ExportPage THEN Len(s) ELSE ExportPage) /\ Len(p) <= m
      /\ \A i \in 1..Len(p) : p[i] = s[i]
  BY <1>2, <1>5, <1>6, CutIs
<1>8. Len(p) \in Nat /\ DOMAIN p = 1..Len(p) /\ 1..Len(p) \subseteq 1..m
  BY <1>5, <1>7
<1>9. p \in Seq(Nat)
  BY <1>4, <1>7, SeqOfMore
<1>10. \A i, j \in DOMAIN p : i < j => p[i] < p[j]
  BY <1>5, <1>7, <1>8
<1>11. ASSUME NEW i \in DOMAIN p PROVE p[i] > n /\ p[i] \in Nat
  <2>1. p[i] \in S
    BY <1>7
  <2> QED
    BY <1>3, <1>4, <2>1
<1>12. ASSUME NEW x \in S PROVE \E k \in 1..m : s[k] = x
  BY <1>5 DEF ToSet
<1>13. ASSUME Len(p) < ExportPage, NEW x \in Table, x > n PROVE x \in ToSet(p)
  <2>1. Len(p) = m
    BY <1>5, <1>6, <1>7, <1>13
  <2>2. PICK k \in 1..m : s[k] = x
    BY <1>3, <1>12, <1>13
  <2>3. k \in DOMAIN p /\ p[k] = x
    BY <1>7, <1>8, <2>1, <2>2
  <2> QED
    BY <2>3 DEF ToSet
<1>14. ASSUME ~(Len(p) < ExportPage)
       PROVE  /\ Last(p) \in Nat /\ Last(p) >= n
              /\ \A i \in DOMAIN p : p[i] <= Last(p)
              /\ \A x \in Table : x > n /\ x <= Last(p) => x \in ToSet(p)
  <2>1. Len(p) = ExportPage /\ Len(p) \in 1..m /\ Len(p) \in DOMAIN p
    BY <1>5, <1>6, <1>7, <1>8, <1>14
  <2>2. Last(p) = p[Len(p)] /\ p[Len(p)] = s[Len(p)]
    BY <1>7, <2>1, <1>8 DEF Last
  <2>3. Last(p) \in Nat /\ Last(p) > n
    BY <1>11, <2>1, <2>2
  <2>4. ASSUME NEW i \in DOMAIN p PROVE p[i] <= Last(p)
    <3>1. i \in Nat /\ i <= Len(p) /\ p[i] \in Nat
      BY <1>8, <1>11
    <3>2. CASE i < Len(p)
      BY <1>10, <2>1, <2>2, <2>3, <3>1, <3>2
    <3>3. CASE i = Len(p)
      BY <2>2, <2>3, <3>1, <3>3
    <3> QED
      BY <1>8, <3>1, <3>2, <3>3
  <2>5. ASSUME NEW x \in Table, x > n, x <= Last(p) PROVE x \in ToSet(p)
    <3>1. x \in S /\ x \in Nat
      BY <1>3, <1>4, <2>5
    <3>2. PICK k \in 1..m : s[k] = x
      BY <1>12, <3>1
    <3>3. k <= Len(p)
      <4> SUFFICES ASSUME Len(p) < k PROVE FALSE
        BY <1>8, <1>5
      <4>1. s[Len(p)] < s[k]
        BY <1>5, <2>1
      <4> QED
        BY <4>1, <2>2, <2>3, <2>5, <3>1, <3>2
    <3>4. k \in DOMAIN p /\ p[k] = x
      BY <1>7, <1>8, <3>2, <3>3
    <3> QED
      BY <3>4 DEF ToSet
  <2> QED
    BY <1>4, <2>3, <2>4, <2>5
<1> QED
  BY <1>9, <1>10, <1>11, <1>13, <1>14

Tapes == [after : Nat, all : Seq(Nat), had : SUBSET Nat, unread : BOOLEAN, over : BOOLEAN]

\* While an export goes on nothing was left out up to the row it asks from; what the log held when it began was
\* no later than the table is now.
TapeSound(t) ==
    /\ t \in Tapes
    /\ \A i, j \in DOMAIN t.all : i < j => t.all[i] < t.all[j]
    /\ ~t.over => ~t.unread /\ \A i \in DOMAIN t.all : t.all[i] <= t.after
    /\ \A x \in t.had : x <= table.last
    /\ ~t.unread => \A x \in t.had \cap Table : t.over \/ x <= t.after => x \in ToSet(t.all)

ExportSound == TableSound /\ (tape # Nobody => TapeSound(tape))

\* Two ascending sequences in a row, the second above the first.
LEMMA StillAscending ==
    ASSUME NEW s \in Seq(Nat), NEW u \in Seq(Nat), NEW n \in Nat,
           \A i, j \in DOMAIN s : i < j => s[i] < s[j], \A i \in DOMAIN s : s[i] <= n,
           \A i, j \in DOMAIN u : i < j => u[i] < u[j], \A i \in DOMAIN u : u[i] > n
    PROVE  \A i, j \in DOMAIN (s \o u) : i < j => (s \o u)[i] < (s \o u)[j]
<1> DEFINE b == s \o u
<1>1. /\ Len(s) \in Nat /\ Len(u) \in Nat /\ DOMAIN s = 1..Len(s) /\ DOMAIN u = 1..Len(u)
      /\ DOMAIN b = 1..(Len(s) + Len(u))
  OBVIOUS
<1>2. \A i \in DOMAIN b : i <= Len(s) => i \in DOMAIN s /\ b[i] = s[i]
  BY <1>1
<1>3. \A i \in DOMAIN b : i > Len(s) => i - Len(s) \in DOMAIN u /\ b[i] = u[i - Len(s)]
  BY <1>1
<1>4. (\A i \in DOMAIN s : s[i] \in Nat) /\ (\A i \in DOMAIN u : u[i] \in Nat) /\ DOMAIN b \subseteq Nat
  BY <1>1
<1> HIDE DEF b
<1> SUFFICES ASSUME NEW i \in DOMAIN b, NEW j \in DOMAIN b, i < j PROVE b[i] < b[j]
  BY DEF b
<1>5. i \in Nat /\ j \in Nat
  BY <1>4
<1>6. CASE j <= Len(s)
  <2>1. i <= Len(s)
    BY <1>1, <1>5, <1>6
  <2> QED
    BY <1>2, <1>6, <2>1
<1>7. CASE i > Len(s)
  <2>1. j > Len(s) /\ i - Len(s) < j - Len(s)
    BY <1>1, <1>5, <1>7
  <2> QED
    BY <1>3, <1>7, <2>1
<1>8. CASE i <= Len(s) /\ j > Len(s)
  <2>1. b[i] \in Nat /\ b[i] <= n
    BY <1>2, <1>4, <1>8
  <2>2. b[j] \in Nat /\ b[j] > n
    BY <1>3, <1>4, <1>8
  <2> QED
    BY <2>1, <2>2
<1> QED
  BY <1>1, <1>5, <1>6, <1>7, <1>8

\* ... hold the members of both.
LEMMA MembersKept ==
    ASSUME NEW s \in Seq(Nat), NEW u \in Seq(Nat)
    PROVE  ToSet(s) \subseteq ToSet(s \o u) /\ ToSet(u) \subseteq ToSet(s \o u)
<1>1. /\ Len(s) \in Nat /\ Len(u) \in Nat /\ DOMAIN s = 1..Len(s) /\ DOMAIN u = 1..Len(u)
      /\ DOMAIN (s \o u) = 1..(Len(s) + Len(u))
  OBVIOUS
<1>2. ASSUME NEW i \in DOMAIN s PROVE i \in DOMAIN (s \o u) /\ (s \o u)[i] = s[i]
  BY <1>1
<1>3. ASSUME NEW i \in DOMAIN u PROVE i + Len(s) \in DOMAIN (s \o u) /\ (s \o u)[i + Len(s)] = u[i]
  BY <1>1
<1> QED
  BY <1>2, <1>3 DEF ToSet

\* What is below something in one of two sequences in a row.
LEMMA AllBelow ==
    ASSUME NEW s \in Seq(Nat), NEW u \in Seq(Nat), NEW n \in Nat,
           \A i \in DOMAIN s : s[i] <= n, \A i \in DOMAIN u : u[i] <= n
    PROVE  \A i \in DOMAIN (s \o u) : (s \o u)[i] <= n
<1>1. /\ Len(s) \in Nat /\ Len(u) \in Nat /\ DOMAIN s = 1..Len(s) /\ DOMAIN u = 1..Len(u)
      /\ DOMAIN (s \o u) = 1..(Len(s) + Len(u))
  OBVIOUS
<1>2. ASSUME NEW i \in DOMAIN (s \o u), i <= Len(s) PROVE i \in DOMAIN s /\ (s \o u)[i] = s[i]
  BY <1>1, <1>2
<1>3. ASSUME NEW i \in DOMAIN (s \o u), ~(i <= Len(s))
      PROVE  i - Len(s) \in DOMAIN u /\ (s \o u)[i] = u[i - Len(s)]
  BY <1>1, <1>3
<1> QED
  BY <1>2, <1>3

\* A page that was read or not.
LEMMA NextPageStep ==
    ASSUME ExportSound, \/ ExportReads \/ ExportUnread
    PROVE  ExportSound'
<1> DEFINE rows == IF ExportReads THEN Page(tape.after) ELSE <<>>
<1> DEFINE failed == ~ExportReads
<1>1. tape # Nobody /\ ~tape.over /\ table' = table
  BY DEF ExportReads, ExportUnread, NextPage
<1>2. tape' = [tape EXCEPT !.all = @ \o rows, !.over = Len(rows) < ExportPage, !.unread = @ \/ failed,
                           !.after = IF Len(rows) < ExportPage THEN @ ELSE Last(rows)]
  BY DEF ExportReads, ExportUnread, NextPage
<1> DEFINE ra == tape.all
<1> DEFINE n == tape.after
<1>3. TableSound /\ TapeSound(tape)
  BY <1>1 DEF ExportSound
<1>4. /\ tape \in Tapes /\ ~tape.unread /\ \A i \in DOMAIN ra : ra[i] <= n
      /\ \A i, j \in DOMAIN ra : i < j => ra[i] < ra[j]
      /\ \A x \in tape.had : x <= table.last
      /\ \A x \in tape.had \cap Table : x <= n => x \in ToSet(ra)
  BY <1>1, <1>3 DEF TapeSound
<1>5. ra \in Seq(Nat) /\ n \in Nat /\ tape.had \in SUBSET Nat
  BY <1>4 DEF Tapes
<1>6. ExportPage \in Nat /\ ExportPage >= 1
  BY PanelAssumption
<1>7. /\ rows \in Seq(Nat) /\ (\A i, j \in DOMAIN rows : i < j => rows[i] < rows[j])
      /\ (\A i \in DOMAIN rows : rows[i] > n)
      /\ (Len(rows) < ExportPage /\ ~failed => \A x \in Table : x > n => x \in ToSet(rows))
      /\ (~(Len(rows) < ExportPage) => /\ Last(rows) \in Nat /\ Last(rows) >= n
                                       /\ \A i \in DOMAIN rows : rows[i] <= Last(rows)
                                       /\ \A x \in Table : x > n /\ x <= Last(rows) => x \in ToSet(rows))
      /\ (failed => Len(rows) < ExportPage)
  <2>1. CASE ExportReads
    <3>1. rows = Page(n) /\ ~failed
      BY <2>1
    <3> HIDE DEF rows, failed, n
    <3> QED
      BY <1>3, <1>5, <3>1, PageHolds
  <2>2. CASE ~ExportReads
    <3>1. rows = <<>> /\ failed
      BY <2>2
    <3> HIDE DEF rows, failed
    <3>2. rows \in Seq(Nat) /\ Len(rows) = 0 /\ DOMAIN rows = {}
      BY <3>1
    <3> QED
      BY <1>6, <3>1, <3>2
  <2> QED
    BY <2>1, <2>2
<1>8. failed \in BOOLEAN
  OBVIOUS
<1> HIDE DEF rows, failed
<1> DEFINE short == Len(rows) < ExportPage
<1> DEFINE to == IF short THEN n ELSE Last(rows)
<1>9. tape' = [after |-> to, all |-> ra \o rows, had |-> tape.had, unread |-> failed, over |-> short]
  <2>1. tape.unread = FALSE
    BY <1>4 DEF Tapes
  <2> QED
    BY <1>2, <1>4, <1>8, <2>1 DEF Tapes
<1>10. to \in Nat /\ to >= n /\ short \in BOOLEAN
  BY <1>5, <1>7
<1> HIDE DEF ra
<1>11. ra \o rows \in Seq(Nat)
  BY <1>5, <1>7
<1>12. \A i, j \in DOMAIN (ra \o rows) : i < j => (ra \o rows)[i] < (ra \o rows)[j]
  <2> HIDE DEF n
  <2> QED
    BY <1>4, <1>5, <1>7, StillAscending
<1> HIDE DEF n
<1>13. ASSUME ~short PROVE ~failed /\ \A i \in DOMAIN (ra \o rows) : (ra \o rows)[i] <= to
  <2>1. to = Last(rows) /\ ~failed /\ \A i \in DOMAIN rows : rows[i] <= to
    BY <1>7, <1>13
  <2>2. \A i \in DOMAIN ra : ra[i] <= to
    <3>1. \A i \in DOMAIN ra : ra[i] \in Nat
      BY <1>5
    <3> HIDE DEF to
    <3> QED
      BY <1>4, <1>5, <1>10, <3>1
  <2> HIDE DEF to
  <2> QED
    BY <1>5, <1>7, <1>10, <2>1, <2>2, AllBelow
<1>14. ASSUME ~failed, NEW x \in tape.had \cap Table, short \/ x <= to PROVE x \in ToSet(ra \o rows)
  <2>1. ToSet(ra) \subseteq ToSet(ra \o rows) /\ ToSet(rows) \subseteq ToSet(ra \o rows)
    BY <1>5, <1>7, MembersKept
  <2>2. x \in Nat
    BY <1>5
  <2>3. CASE x <= n
    BY <1>4, <2>1, <2>3
  <2>4. CASE ~(x <= n)
    <3>1. x > n
      BY <1>5, <2>2, <2>4
    <3>2. x \in ToSet(rows)
      <4>1. CASE short
        BY <1>7, <1>14, <3>1, <4>1
      <4>2. CASE ~short
        BY <1>7, <1>14, <3>1, <4>2
      <4> QED
        BY <4>1, <4>2
    <3> QED
      BY <2>1, <3>2
  <2> QED
    BY <2>3, <2>4
<1> HIDE DEF short, to
<1>15. tape' \in Tapes
  BY <1>5, <1>8, <1>9, <1>10, <1>11 DEF Tapes
<1>16. /\ tape'.after = to /\ tape'.all = ra \o rows /\ tape'.had = tape.had /\ tape'.unread = failed
       /\ tape'.over = short
  BY <1>9
<1>17. Table' = Table
  BY <1>1 DEF Table
<1>18. TapeSound(tape)'
  BY <1>1, <1>4, <1>12, <1>13, <1>14, <1>15, <1>16, <1>17 DEF TapeSound
<1> QED
  BY <1>1, <1>3, <1>18 DEF ExportSound, TableSound

\* Rows that come and go beside an export.
LEMMA TableBesideTape ==
    ASSUME ExportSound, tape' = tape, \/ CallLogged \/ LogCleared \/ \E s \in Slots : ClearCalls(s)
    PROVE  ExportSound'
<1>1. TableSound
  BY DEF ExportSound
<1>2. \/ table.last < LogMax /\ table' = [table EXCEPT !.last = @ + 1]
      \/ table' = [table EXCEPT !.first = table.last + 1]
  BY DEF CallLogged, LogCleared, ClearCalls
<1>3. TableSound'
  BY <1>1, <1>2, TableMoves
<1>4. table.first \in Nat /\ table.last \in Nat
  BY <1>1, PanelAssumption DEF TableSound
<1>5. ASSUME NEW x \in Nat, x <= table.last PROVE x <= table'.last /\ (x \in Table' => x \in Table)
  <2>1. CASE table' = [table EXCEPT !.last = @ + 1]
    <3>1. table'.last = table.last + 1 /\ table'.first = table.first
      BY <1>1, <2>1 DEF TableSound
    <3> QED
      BY <1>4, <1>5, <3>1 DEF Table
  <2>2. CASE table' = [table EXCEPT !.first = table.last + 1]
    <3>1. table'.last = table.last /\ table'.first = table.last + 1
      BY <1>1, <2>2 DEF TableSound
    <3> QED
      BY <1>4, <1>5, <3>1 DEF Table
  <2> QED
    BY <1>2, <2>1, <2>2
<1>6. ASSUME tape # Nobody PROVE TapeSound(tape)'
  <2>1. TapeSound(tape)
    BY <1>6 DEF ExportSound
  <2>2. tape.had \in SUBSET Nat
    BY <2>1 DEF TapeSound, Tapes
  <2>3. \A x \in tape.had : x <= table'.last
    BY <1>5, <2>1, <2>2 DEF TapeSound
  <2>4. \A x \in tape.had : x \in Table' => x \in Table
    BY <1>5, <2>1, <2>2 DEF TapeSound
  <2> QED
    BY <2>1, <2>3, <2>4 DEF TapeSound
<1> QED
  BY <1>3, <1>6 DEF ExportSound

\* An export begins with the table of the moment.
LEMMA BeginExportStep ==
    ASSUME ExportSound, BeginExport
    PROVE  ExportSound'
<1>1. /\ tape' = [after |-> 0, all |-> <<>>, had |-> Table, unread |-> FALSE, over |-> FALSE]
      /\ table' = table
  BY DEF BeginExport
<1>2. TableSound
  BY DEF ExportSound
<1>3. table.first \in Nat /\ table.last \in Nat /\ table.first >= 1
  BY <1>2, PanelAssumption DEF TableSound
<1>4. Table \in SUBSET Nat /\ \A x \in Table : x >= 1 /\ x <= table.last
  BY <1>3 DEF Table
<1>5. tape' \in Tapes
  BY <1>1, <1>4 DEF Tapes
<1>6. Table' = Table
  BY <1>1 DEF Table
<1>7. /\ tape'.after = 0 /\ tape'.all = <<>> /\ tape'.had = Table /\ tape'.unread = FALSE /\ tape'.over = FALSE
      /\ DOMAIN tape'.all = {}
  BY <1>1
<1>8. TapeSound(tape)'
  <2>1. \A x \in tape'.had : x <= table'.last /\ ~(x <= tape'.after)
    BY <1>1, <1>3, <1>4, <1>7
  <2> QED
    BY <1>5, <1>7, <2>1 DEF TapeSound
<1> QED
  BY <1>1, <1>2, <1>8 DEF ExportSound, TableSound
(* The rules. *)

\* A block allows nothing beside it.
WholeRules == {r \in [pin : Pins, block : BOOLEAN, providers : SUBSET RuleProviders, models : SUBSET RuleModels] :
                  r.block => r = Rule(Nobody, TRUE, {}, {})}
RuleMaps == UNION {[D -> {r \in WholeRules : Says(r)}] : D \in SUBSET Ruled}

Routings == [routes : RuleMaps, limits : {0, 1}, retain : Nat, content : BOOLEAN, typed : BOOLEAN]
DraftRecords == [routes : RuleMaps, limits : {0, 1}, answer : {Nobody} \cup Routings, retain : Nat,
                 content : BOOLEAN, typed : BOOLEAN]

\* What the page, the router and the answers under way hold of rules is what a save leaves of it.
RulesSound == routing \in Routings /\ drafts \in [Operators -> DraftRecords]

\* A map of rules without those that say nothing.
LEMMA RoutesAre ==
    ASSUME NEW f, DOMAIN f \subseteq Ruled, \A k \in DOMAIN f : f[k] \in WholeRules
    PROVE  Routes(f) \in RuleMaps
<1> DEFINE D == {k \in DOMAIN f : Says(f[k])}
<1> DEFINE g == Routes(f)
<1>1. g = [k \in D |-> f[k]] /\ D \in SUBSET Ruled
  BY DEF Routes
<1>2. \A k \in D : f[k] \in {r \in WholeRules : Says(r)}
  OBVIOUS
<1> HIDE DEF D, g
<1>3. g \in [D -> {r \in WholeRules : Says(r)}]
  BY <1>1, <1>2
<1>4. g \in RuleMaps
  BY <1>1, <1>3 DEF RuleMaps
<1> QED
  BY <1>4 DEF g

\* What is in a map of rules.
LEMMA MapHas ==
    ASSUME NEW f \in RuleMaps
    PROVE  /\ DOMAIN f \subseteq Ruled /\ f = [k \in DOMAIN f |-> f[k]]
           /\ \A k \in DOMAIN f : f[k] \in WholeRules /\ Says(f[k])
<1>1. PICK D \in SUBSET Ruled : f \in [D -> {r \in WholeRules : Says(r)}]
  BY DEF RuleMaps
<1> QED
  BY <1>1

\* The rules there are: none, a pin alone, a block.
LEMMA PlainRules ==
    /\ NoRule = [pin |-> Nobody, block |-> FALSE, providers |-> {}, models |-> {}]
    /\ NoRule \in WholeRules
    /\ [NoRule EXCEPT !.block = TRUE] = Rule(Nobody, TRUE, {}, {})
    /\ [NoRule EXCEPT !.block = TRUE] \in WholeRules
    /\ \A p \in Pins : [NoRule EXCEPT !.pin = p] \in WholeRules
<1>1. NoRule = [pin |-> Nobody, block |-> FALSE, providers |-> {}, models |-> {}] /\ Nobody \in Pins
  BY DEF NoRule, Rule, Pins
<1>2. NoRule \in WholeRules
  BY <1>1 DEF WholeRules, Rule
<1>3. [NoRule EXCEPT !.block = TRUE] = Rule(Nobody, TRUE, {}, {})
  <2>1. ASSUME NEW r, r = [NoRule EXCEPT !.block = TRUE]
        PROVE  r = [pin |-> Nobody, block |-> TRUE, providers |-> {}, models |-> {}]
    BY <1>1, <2>1
  <2> QED
    BY <2>1 DEF Rule
<1>4. Rule(Nobody, TRUE, {}, {}) \in WholeRules
  BY <1>1 DEF WholeRules, Rule
<1>5. ASSUME NEW p \in Pins PROVE [NoRule EXCEPT !.pin = p] \in WholeRules
  <2>1. ASSUME NEW r, r = [NoRule EXCEPT !.pin = p]
        PROVE  r = [pin |-> p, block |-> FALSE, providers |-> {}, models |-> {}]
    BY <1>1, <2>1
  <2>2. [pin |-> p, block |-> FALSE, providers |-> {}, models |-> {}] \in WholeRules
    BY DEF WholeRules, Rule
  <2> QED
    BY <2>1, <2>2
<1> QED
  BY <1>1, <1>2, <1>3, <1>4, <1>5

\* A rule that is whole is left alone by sanitizeRule.
LEMMA SanitizeKeeps ==
    ASSUME NEW r \in WholeRules
    PROVE  SanitizeRule(r) = r
<1>1. /\ r \in [pin : Pins, block : BOOLEAN, providers : SUBSET RuleProviders, models : SUBSET RuleModels]
      /\ r.pin \in Pins /\ r.providers \cap RuleProviders = r.providers
  BY DEF WholeRules
<1> DEFINE p == IF r.pin = Nobody \/ r.pin[1] \notin RuleProviders THEN Nobody ELSE r.pin
<1>2. p = r.pin
  BY <1>1 DEF Pins
<1>3. SanitizeRule(r) = [r EXCEPT !.providers = @ \cap RuleProviders, !.pin = p]
  BY DEF SanitizeRule
<1>4. SanitizeRule(r) = [pin |-> p, block |-> r.block, providers |-> r.providers \cap RuleProviders,
                         models |-> r.models]
  BY <1>1, <1>3
<1> HIDE DEF p
<1> QED
  BY <1>1, <1>2, <1>4

\* ... so that a save leaves of a map what it was, and a block is alone.
LEMMA MergedSame ==
    ASSUME NEW f \in RuleMaps
    PROVE  Merged(f) = f /\ \A k \in DOMAIN f : f[k].block => f[k] = [NoRule EXCEPT !.block = TRUE]
<1> DEFINE g == [k \in DOMAIN f |-> IF f[k].block THEN [NoRule EXCEPT !.block = TRUE] ELSE SanitizeRule(f[k])]
<1>1. ASSUME NEW k \in DOMAIN f PROVE g[k] = f[k] /\ (f[k].block => f[k] = [NoRule EXCEPT !.block = TRUE])
  <2>1. f[k] \in WholeRules
    BY MapHas
  <2>2. SanitizeRule(f[k]) = f[k]
    BY <2>1, SanitizeKeeps
  <2>3. f[k].block => f[k] = [NoRule EXCEPT !.block = TRUE]
    BY <2>1, PlainRules DEF WholeRules
  <2> QED
    BY <2>2, <2>3
<1>2. g = f
  <2>1. f = [k \in DOMAIN f |-> f[k]]
    BY MapHas
  <2> QED
    BY <1>1, <2>1
<1>3. Merged(f) = Routes(g)
  BY DEF Merged
<1> HIDE DEF g
<1>4. Routes(f) = f
  <2> DEFINE D == {k \in DOMAIN f : Says(f[k])}
  <2>1. D = DOMAIN f
    BY MapHas
  <2>2. Routes(f) = [k \in D |-> f[k]]
    BY DEF Routes
  <2> HIDE DEF D
  <2> QED
    BY <2>1, <2>2, MapHas
<1> QED
  BY <1>1, <1>2, <1>3, <1>4

\* The rule of k set to r, and the others as they were.
LEMMA MapWith ==
    ASSUME NEW f \in RuleMaps, NEW k \in Ruled, NEW r \in WholeRules
    PROVE  Routes([j \in DOMAIN f \cup {k} |-> IF j = k THEN r ELSE f[j]]) \in RuleMaps
<1> DEFINE g == [j \in DOMAIN f \cup {k} |-> IF j = k THEN r ELSE f[j]]
<1>1. DOMAIN g \subseteq Ruled
  BY MapHas
<1>2. \A j \in DOMAIN g : g[j] \in WholeRules
  BY MapHas
<1> HIDE DEF g
<1>3. Routes(g) \in RuleMaps
  BY <1>1, <1>2, RoutesAre
<1> QED
  BY <1>3 DEF g

\* One field of one browser's draft is set.
LEMMA DraftWith ==
    ASSUME RulesSound, NEW o \in Operators, NEW m \in RuleMaps, NEW l \in {0, 1}, NEW a \in {Nobody} \cup Routings
    PROVE  /\ [drafts EXCEPT ![o].routes = m] \in [Operators -> DraftRecords]
           /\ [drafts EXCEPT ![o].limits = l] \in [Operators -> DraftRecords]
           /\ [drafts EXCEPT ![o].answer = a] \in [Operators -> DraftRecords]
           /\ [drafts EXCEPT ![o].routes = m, ![o].limits = l, ![o].answer = a] \in [Operators -> DraftRecords]
<1> DEFINE d == drafts[o]
<1>1. d \in DraftRecords /\ drafts \in [Operators -> DraftRecords]
  BY DEF RulesSound
<1>2. [d EXCEPT !.routes = m] \in DraftRecords
  BY <1>1 DEF DraftRecords
<1>3. [d EXCEPT !.limits = l] \in DraftRecords
  BY <1>1 DEF DraftRecords
<1>4. [d EXCEPT !.answer = a] \in DraftRecords
  BY <1>1 DEF DraftRecords
<1>5. ASSUME NEW e, e = [d EXCEPT !.routes = m, !.limits = l, !.answer = a] PROVE e \in DraftRecords
  <2> HIDE DEF d
  <2>1. e = [routes |-> m, limits |-> l, answer |-> a, retain |-> d.retain, content |-> d.content,
             typed |-> d.typed]
    BY <1>1, <1>5 DEF DraftRecords
  <2> QED
    BY <1>1, <2>1 DEF DraftRecords
<1>6. /\ [drafts EXCEPT ![o].routes = m] = [drafts EXCEPT ![o] = [d EXCEPT !.routes = m]]
      /\ [drafts EXCEPT ![o].limits = l] = [drafts EXCEPT ![o] = [d EXCEPT !.limits = l]]
      /\ [drafts EXCEPT ![o].answer = a] = [drafts EXCEPT ![o] = [d EXCEPT !.answer = a]]
  BY <1>1
<1>7. [drafts EXCEPT ![o].routes = m, ![o].limits = l, ![o].answer = a]
      = [drafts EXCEPT ![o] = [d EXCEPT !.routes = m, !.limits = l, !.answer = a]]
  BY <1>1
<1> HIDE DEF d
<1> QED
  BY <1>1, <1>2, <1>3, <1>4, <1>5, <1>6, <1>7

\* A draft in which the rule of k is set to r.
LEMMA DraftedStep ==
    ASSUME RulesSound, NEW o \in Operators, NEW k \in Ruled, NEW r \in WholeRules, Drafted(o, k, r),
           routing' = routing
    PROVE  RulesSound'
<1> DEFINE f == drafts[o].routes
<1>1. drafts[o] \in DraftRecords /\ f \in RuleMaps
  BY DEF RulesSound, DraftRecords
<1> DEFINE m == Routes([j \in DOMAIN f \cup {k} |-> IF j = k THEN r ELSE f[j]])
<1>2. m \in RuleMaps
  <2> HIDE DEF f
  <2> QED
    BY <1>1, MapWith
<1>3. drafts' = [drafts EXCEPT ![o].routes = m]
  BY DEF Drafted
<1> HIDE DEF m
<1>4. drafts' \in [Operators -> DraftRecords]
  BY <1>2, <1>3, DraftWith
<1> QED
  BY <1>4 DEF RulesSound

\* What the controls of the page make of a rule.
LEMMA RuleSteps ==
    ASSUME RulesSound, NEW o \in Operators, NEW k \in Ruled,
           \/ \E p \in Pins : PickPin(o, k, p) \/ RouteSet(k, p)
           \/ PickBlock(o, k)
           \/ \E p \in RuleProviders : ToggleProvider(o, k, p)
           \/ \E m \in RuleModels : ToggleModel(o, k, m)
    PROVE  RulesSound'
<1> DEFINE d == DraftOf(o, k)
<1>1. d \in WholeRules
  <2>1. drafts[o].routes \in RuleMaps
    BY DEF RulesSound, DraftRecords
  <2> QED
    BY <2>1, MapHas, PlainRules DEF DraftOf
<1>2. ASSUME NEW p \in Pins, PickPin(o, k, p) PROVE RulesSound'
  <2> DEFINE r == [d EXCEPT !.pin = p, !.block = FALSE]
  <2>1. Drafted(o, k, r) /\ routing' = routing
    BY <1>2 DEF PickPin
  <2> HIDE DEF d
  <2>2. ASSUME NEW q, q = [d EXCEPT !.pin = p, !.block = FALSE] PROVE q \in WholeRules
    <3>1. q = [pin |-> p, block |-> FALSE, providers |-> d.providers, models |-> d.models]
      BY <1>1, <2>2 DEF WholeRules
    <3> QED
      BY <1>1, <3>1 DEF WholeRules
  <2>3. r \in WholeRules
    BY <2>2
  <2> HIDE DEF r
  <2> QED
    BY <2>1, <2>3, DraftedStep
<1>3. CASE PickBlock(o, k)
  <2>1. Drafted(o, k, [NoRule EXCEPT !.block = TRUE]) /\ routing' = routing
    BY <1>3 DEF PickBlock
  <2> QED
    BY <2>1, PlainRules, DraftedStep
<1>4. ASSUME NEW p \in RuleProviders, ToggleProvider(o, k, p) PROVE RulesSound'
  <2> DEFINE r == [d EXCEPT !.providers = Flipped(@, p)]
  <2>1. ~d.block /\ Drafted(o, k, r) /\ routing' = routing
    BY <1>4 DEF ToggleProvider
  <2> HIDE DEF d
  <2>2. r = [pin |-> d.pin, block |-> d.block, providers |-> Flipped(d.providers, p), models |-> d.models]
    BY <1>1 DEF WholeRules
  <2>3. Flipped(d.providers, p) \in SUBSET RuleProviders
    BY <1>1 DEF WholeRules, Flipped
  <2>4. r \in WholeRules
    BY <1>1, <2>1, <2>2, <2>3 DEF WholeRules
  <2> HIDE DEF r
  <2> QED
    BY <2>1, <2>4, DraftedStep
<1>5. ASSUME NEW m \in RuleModels, ToggleModel(o, k, m) PROVE RulesSound'
  <2> DEFINE r == [d EXCEPT !.models = Flipped(@, m)]
  <2>1. ~d.block /\ Drafted(o, k, r) /\ routing' = routing
    BY <1>5 DEF ToggleModel
  <2> HIDE DEF d
  <2>2. r = [pin |-> d.pin, block |-> d.block, providers |-> d.providers, models |-> Flipped(d.models, m)]
    BY <1>1 DEF WholeRules
  <2>3. Flipped(d.models, m) \in SUBSET RuleModels
    BY <1>1 DEF WholeRules, Flipped
  <2>4. r \in WholeRules
    BY <1>1, <2>1, <2>2, <2>3 DEF WholeRules
  <2> HIDE DEF r
  <2> QED
    BY <2>1, <2>4, DraftedStep
<1>6. ASSUME NEW p \in Pins, RouteSet(k, p) PROVE RulesSound'
  <2> DEFINE f == routing.routes
  <2> DEFINE r == [NoRule EXCEPT !.pin = p]
  <2> DEFINE m == Routes([j \in DOMAIN f \cup {k} |-> IF j = k THEN r ELSE f[j]])
  <2>1. routing' = [routing EXCEPT !.routes = m] /\ drafts' = drafts
    BY <1>6 DEF RouteSet
  <2>2. f \in RuleMaps /\ r \in WholeRules
    BY PlainRules DEF RulesSound, Routings
  <2>3. m \in RuleMaps
    <3> HIDE DEF f, r
    <3> QED
      BY <2>2, MapWith
  <2> HIDE DEF m
  <2> QED
    BY <2>1, <2>3 DEF RulesSound, Routings
<1> QED
  BY <1>2, <1>3, <1>4, <1>5, <1>6

\* What is saved and what comes back.
LEMMA SaveSteps ==
    ASSUME RulesSound, NEW o \in Operators,
           SaveRouting(o) \/ EditLimit(o) \/ SaveLimits(o) \/ Reseed(o)
    PROVE  RulesSound'
<1>1. drafts[o] \in DraftRecords /\ routing \in Routings
  BY DEF RulesSound
<1>2. drafts[o].routes \in RuleMaps /\ drafts[o].limits \in {0, 1} /\ drafts[o].answer \in {Nobody} \cup Routings
  BY <1>1 DEF DraftRecords
<1>3. ASSUME NEW r \in Routings, PostBack(o, r) PROVE RulesSound'
  <2>1. drafts' \in [Operators -> DraftRecords]
    BY <1>2, <1>3, DraftWith DEF PostBack
  <2> QED
    BY <1>3, <2>1 DEF PostBack, RulesSound
<1>4. CASE SaveRouting(o)
  <2> DEFINE r == [routing EXCEPT !.routes = Merged(drafts[o].routes)]
  <2>1. Merged(drafts[o].routes) \in RuleMaps
    BY <1>2, MergedSame
  <2>2. r \in Routings /\ PostBack(o, r)
    BY <1>1, <1>4, <2>1 DEF Routings, SaveRouting
  <2> HIDE DEF r
  <2> QED
    BY <1>3, <2>2
<1>5. CASE SaveLimits(o)
  <2> DEFINE r == [routing EXCEPT !.limits = drafts[o].limits]
  <2>1. r \in Routings /\ PostBack(o, r)
    BY <1>1, <1>2, <1>5 DEF Routings, SaveLimits
  <2> HIDE DEF r
  <2> QED
    BY <1>3, <2>1
<1>6. CASE EditLimit(o)
  <2>1. drafts' = [drafts EXCEPT ![o].limits = 1 - drafts[o].limits] /\ routing' = routing
    BY <1>6 DEF EditLimit
  <2>2. 1 - drafts[o].limits \in {0, 1}
    BY <1>2
  <2>3. drafts' \in [Operators -> DraftRecords]
    BY <1>2, <2>1, <2>2, DraftWith
  <2> QED
    BY <1>1, <2>1, <2>3 DEF RulesSound
<1>7. CASE Reseed(o)
  <2> DEFINE r == drafts[o].answer
  <2>1. /\ r # Nobody /\ routing' = routing
        /\ drafts' = [drafts EXCEPT ![o].routes = r.routes, ![o].limits = r.limits, ![o].answer = Nobody]
    BY <1>7 DEF Reseed
  <2>2. r \in Routings
    BY <1>2, <2>1
  <2>3. r.routes \in RuleMaps /\ r.limits \in {0, 1}
    BY <2>2 DEF Routings
  <2> HIDE DEF r
  <2>4. drafts' \in [Operators -> DraftRecords]
    BY <2>1, <2>3, DraftWith
  <2> QED
    BY <1>1, <2>1, <2>4 DEF RulesSound
<1> QED
  BY <1>4, <1>5, <1>6, <1>7

\* The logging card is about the other fields.
LEMMA CardSteps ==
    ASSUME RulesSound, NEW o \in Operators,
           ToggleContent(o) \/ SaveLogging(o) \/ \E n \in {0, 100} : TypeRetain(o, n)
    PROVE  RulesSound'
<1> DEFINE d == drafts[o]
<1>1. d \in DraftRecords /\ drafts \in [Operators -> DraftRecords] /\ routing \in Routings
  BY DEF RulesSound
<1>2. d.retain \in Nat /\ d.content \in BOOLEAN /\ d.typed \in BOOLEAN /\ Posted(d) \in Nat
  BY <1>1 DEF DraftRecords, Posted
<1>3. CASE ToggleContent(o)
  <2>1. drafts' = [drafts EXCEPT ![o] = [d EXCEPT !.content = ~@]] /\ routing' = routing
    BY <1>1, <1>3 DEF ToggleContent
  <2>2. [d EXCEPT !.content = ~@] \in DraftRecords
    BY <1>1 DEF DraftRecords
  <2> QED
    BY <1>1, <2>1, <2>2 DEF RulesSound
<1>4. ASSUME NEW n \in Nat, NEW b \in BOOLEAN
      PROVE  [drafts EXCEPT ![o].retain = n, ![o].typed = b] \in [Operators -> DraftRecords]
  <2>1. ASSUME NEW f \in [Operators -> DraftRecords]
        PROVE  /\ [f EXCEPT ![o].retain = n] \in [Operators -> DraftRecords]
               /\ [f EXCEPT ![o].typed = b] \in [Operators -> DraftRecords]
    <3>1. f[o] \in DraftRecords
      OBVIOUS
    <3>2. [f[o] EXCEPT !.retain = n] \in DraftRecords /\ [f[o] EXCEPT !.typed = b] \in DraftRecords
      BY <3>1 DEF DraftRecords
    <3> QED
      BY <3>2
  <2>2. [drafts EXCEPT ![o].retain = n, ![o].typed = b]
        = [[drafts EXCEPT ![o].retain = n] EXCEPT ![o].typed = b]
    OBVIOUS
  <2>3. [drafts EXCEPT ![o].retain = n] \in [Operators -> DraftRecords]
    BY <1>1, <2>1
  <2>4. [[drafts EXCEPT ![o].retain = n] EXCEPT ![o].typed = b] \in [Operators -> DraftRecords]
    <3> DEFINE f == [drafts EXCEPT ![o].retain = n]
    <3>1. f \in [Operators -> DraftRecords]
      BY <2>3
    <3> HIDE DEF f
    <3>2. [f EXCEPT ![o].typed = b] \in [Operators -> DraftRecords]
      BY <2>1, <3>1
    <3> QED
      BY <3>2 DEF f
  <2> QED
    BY <2>2, <2>4
<1>5. ASSUME NEW n \in {0, 100}, TypeRetain(o, n) PROVE RulesSound'
  BY <1>1, <1>4, <1>5 DEF TypeRetain, RulesSound
<1>6. CASE SaveLogging(o)
  <2>1. /\ routing' = [routing EXCEPT !.content = d.content, !.retain = Posted(d), !.typed = @ \/ d.typed]
        /\ drafts' = [drafts EXCEPT ![o].retain = Posted(d), ![o].typed = FALSE]
    BY <1>6 DEF SaveLogging
  <2> HIDE DEF d
  <2>2. routing' = [routes |-> routing.routes, limits |-> routing.limits, retain |-> Posted(d),
                    content |-> d.content, typed |-> routing.typed \/ d.typed]
    BY <1>1, <2>1 DEF Routings
  <2>3. routing' \in Routings
    BY <1>1, <1>2, <2>2 DEF Routings
  <2>4. drafts' \in [Operators -> DraftRecords]
    BY <1>2, <1>4, <2>1
  <2> QED
    BY <2>3, <2>4 DEF RulesSound
<1> QED
  BY <1>3, <1>5, <1>6
(* The panel. *)

\* The inductive invariant.
PanelInductive == screen \in Screens /\ PageSound /\ ExportSound /\ RulesSound

\* A page that has just been opened.
LEMMA PanelStart ==
    ASSUME NEW s \in Screens, PanelInit(s)
    PROVE  PanelInductive
<1>1. LogMax \in Nat /\ LogMax >= 2 /\ PageSize \in Nat /\ "any" \in DOMAIN Matching
  BY PanelAssumption
<1>2. TableSound
  BY <1>1 DEF PanelInit, TableSound
<1>3. ViewSound(view)
  <2>1. view = [filter |-> "any", offset |-> 0, live |-> s = "filters", rows |-> <<>>, total |-> 0,
                tailed |-> FALSE, of |-> "any"]
    BY DEF PanelInit
  <2>2. view \in Views
    BY <1>1, <2>1 DEF Views
  <2>3. view.rows = <<>> /\ DOMAIN view.rows = {} /\ Len(view.rows) = 0 /\ view.offset = 0
    BY <2>1
  <2>4. ToSet(view.rows) = {}
    BY <2>3 DEF ToSet
  <2> QED
    BY <1>1, <2>2, <2>3, <2>4 DEF ViewSound
<1>4. AsksSound(asks, view)
  BY DEF PanelInit, AsksSound
<1>5. tape = Nobody
  BY DEF PanelInit
<1>6. NoRoutes \in RuleMaps
  <2>1. NoRoutes \in [{} -> {r \in WholeRules : Says(r)}] /\ {} \in SUBSET Ruled
    BY DEF NoRoutes
  <2> QED
    BY <2>1 DEF RuleMaps
<1>7. RulesSound
  BY <1>6 DEF PanelInit, RulesSound, Routings, DraftRecords
<1> QED
  BY <1>2, <1>3, <1>4, <1>5, <1>7 DEF PanelInit, PanelInductive, PageSound, ExportSound

\* The steps that are not about the call log leave the pages of it alone, and the others the rules.
LEMMA PanelStep ==
    ASSUME PanelInductive, [PanelNext]_panelVars
    PROVE  PanelInductive'
<1>1. screen \in Screens /\ PageSound /\ ExportSound /\ RulesSound
  BY DEF PanelInductive
<1>2. TableSound
  BY <1>1 DEF PageSound
<1>3. ASSUME UNCHANGED <<view, asks>>, TableSound' PROVE PageSound'
  BY <1>1, <1>3 DEF PageSound
<1>4. ASSUME UNCHANGED <<table, tape>> PROVE ExportSound'
  <2>1. Table' = Table
    BY <1>4 DEF Table
  <2> QED
    BY <1>1, <1>4, <2>1 DEF ExportSound, TapeSound, TableSound
<1>5. ASSUME UNCHANGED <<routing, drafts>> PROVE RulesSound'
  BY <1>1, <1>5 DEF RulesSound
<1>6. CASE UNCHANGED panelVars
  BY <1>1, <1>2, <1>3, <1>4, <1>5, <1>6 DEF PanelInductive, panelVars, TableSound
<1>7. CASE CallLogged \/ LogCleared
  <2>1. UNCHANGED <<screen, routing, drafts, view, asks, tape>>
    BY <1>7 DEF CallLogged, LogCleared, InTable, Exporting
  <2>2. ExportSound'
    BY <1>1, <1>7, <2>1, TableBesideTape
  <2>3. TableSound'
    BY <2>2 DEF ExportSound
  <2> QED
    BY <1>1, <1>3, <1>5, <2>1, <2>2, <2>3 DEF PanelInductive
<1>8. ASSUME NEW s \in Slots, \/ (\E off \in 0..LogMax : Load(s, off))
                              \/ Poll(s) \/ Served(s) \/ AskFails(s) \/ ClearCalls(s)
      PROVE  PanelInductive'
  <2>1. UNCHANGED <<screen, routing, drafts, tape>>
    BY <1>8 DEF Load, Poll, Served, AskFails, ClearCalls, InTable, OnPage
  <2>2. PageSound'
    BY <1>1, <1>8, AskSteps
  <2>3. ExportSound'
    <3>1. CASE ClearCalls(s)
      BY <1>1, <2>1, <3>1, TableBesideTape
    <3>2. CASE ~ClearCalls(s)
      BY <1>4, <1>8, <2>1, <3>2 DEF Load, Poll, Served, AskFails
    <3> QED
      BY <3>1, <3>2
  <2> QED
    BY <1>1, <1>5, <2>1, <2>2, <2>3 DEF PanelInductive
<1>9. ASSUME NEW s \in Slots, \/ (\E g \in DOMAIN Matching : SetFilter(s, g))
                              \/ LoadLands(s) \/ TickLands(s)
      PROVE  PanelInductive'
  <2>1. UNCHANGED <<screen, routing, drafts, tape, table>>
    BY <1>9 DEF SetFilter, LoadLands, TickLands, Arrived, InTable, OnPage
  <2>2. PageSound'
    BY <1>1, <1>9, PageSteps, TickSteps
  <2> QED
    BY <1>1, <1>4, <1>5, <2>1, <2>2 DEF PanelInductive
<1>10. CASE BeginExport \/ ExportReads \/ ExportUnread
  <2>1. UNCHANGED <<screen, routing, drafts, view, asks, table>>
    BY <1>10 DEF BeginExport, ExportReads, ExportUnread, NextPage, Exporting, InTable
  <2>2. ExportSound'
    BY <1>1, <1>10, BeginExportStep, NextPageStep
  <2> QED
    BY <1>1, <1>2, <1>3, <1>5, <2>1, <2>2 DEF PanelInductive, TableSound
<1>11. CASE RulesNext
  <2>1. UNCHANGED <<screen, table, view, asks, tape>>
    BY <1>11 DEF RulesNext, PickPin, PickBlock, ToggleProvider, ToggleModel, SaveRouting, EditLimit, SaveLimits,
                 Reseed, RouteSet, OnRules
  <2>2. RulesSound'
    BY <1>1, <1>11, RuleSteps, SaveSteps DEF RulesNext
  <2> QED
    BY <1>1, <1>2, <1>3, <1>4, <2>1, <2>2 DEF PanelInductive, TableSound
<1>12. CASE CardNext
  <2>1. UNCHANGED <<screen, table, view, asks, tape>>
    BY <1>12 DEF CardNext, ToggleContent, SaveLogging, TypeRetain, OnCard
  <2>2. RulesSound'
    BY <1>1, <1>12, CardSteps DEF CardNext
  <2> QED
    BY <1>1, <1>2, <1>3, <1>4, <2>1, <2>2 DEF PanelInductive, TableSound
<1>13. CASE ToggleLive
  <2>1. UNCHANGED <<screen, routing, drafts, tape, table>>
    BY <1>13 DEF ToggleLive, InTable, OnPage
  <2>2. PageSound'
    BY <1>1, <1>13, LiveStep
  <2> QED
    BY <1>1, <1>4, <1>5, <2>1, <2>2 DEF PanelInductive
<1> QED
  BY <1>6, <1>7, <1>8, <1>9, <1>10, <1>11, <1>12, <1>13 DEF PanelNext, PageNext, ExportNext

\* What it says of the pages.
LEMMA PanelSays == PanelInductive => PanelInv
<1> SUFFICES ASSUME PanelInductive PROVE PanelInv
  OBVIOUS
<1>1. screen \in Screens /\ TableSound /\ ViewSound(view) /\ AsksSound(asks, view) /\ ExportSound /\ RulesSound
  BY DEF PanelInductive, PageSound
<1>2. PanelTypeOK
  <2>1. table.last \in 0..LogMax /\ table.first \in 1..(LogMax + 1)
    BY <1>1 DEF TableSound
  <2>2. view.filter \in DOMAIN Matching
    BY <1>1 DEF ViewSound, Views
  <2>3. ASSUME NEW s \in Slots, asks[s] # Nobody PROVE asks[s].kind \in {"load", "tick"}
    BY <1>1, <2>3 DEF AsksSound, AskSound, AskRecords
  <2> QED
    BY <1>1, <2>1, <2>2, <2>3 DEF PanelTypeOK, ViewSound
<1>3. PageIsOneAnswer
  BY <1>1 DEF ViewSound, PageIsOneAnswer
<1>4. ExportWhole
  BY <1>1 DEF ExportSound, TapeSound, ExportWhole
<1>5. RulesSurvive
  <2> SUFFICES ASSUME NEW f \in {routing.routes} \cup {drafts[o].routes : o \in Operators}
               PROVE  Merged(f) = f /\ \A k \in DOMAIN f : f[k].block => f[k] = [NoRule EXCEPT !.block = TRUE]
    BY DEF RulesSurvive
  <2>1. f \in RuleMaps
    BY <1>1 DEF RulesSound, Routings, DraftRecords
  <2> QED
    BY <2>1, MergedSame
<1> QED
  BY <1>2, <1>3, <1>4, <1>5 DEF PanelInv

\* The inductive invariant of the panel's pages, for any log, filters, page sizes, rules and browsers.
THEOREM PanelHolds == PanelSpec => []PanelInductive
<1>1. (\E s \in Screens : PanelInit(s)) => PanelInductive
  BY PanelStart
<1>2. PanelInductive /\ [PanelNext]_panelVars => PanelInductive'
  BY PanelStep
<1> QED
  BY <1>1, <1>2, PTL DEF PanelSpec

\* PanelInv: a page shows one answer, an export is whole and in order, and a rule survives its saves.
THEOREM PanelSound == PanelSpec => []PanelInv
BY PanelHolds, PanelSays, PTL

(* ------------------------------ reading a body ----------------------------- *)
\* What readBody() holds: it answers 413 for a body over the cap and for no other.
UploadSound ==
    /\ upload \in [size : 0..(MaxBody + 1), got : {"reading", "bytes", "413"}, whole : BOOLEAN]
    /\ upload.got # "413" => upload.size <= MaxBody

(* -------------------------------- the login -------------------------------- *)
\* Of the tries s of an address with the record h the first q are a window older than its end, and the others
\* were counted in it.
Budgeted(s, h, q) ==
    /\ q <= MaxTries /\ Len(s) - q <= MaxTries /\ Len(s) - q <= h.n
    /\ \A i \in 1..q : s[i] <= h.reset - Window
Budget(s, h) == \E q \in 0..Len(s) : Budgeted(s, h, q)

TriesSound ==
    /\ minute \in 0..EndOfTime
    /\ tries \in [Visitors -> Seq(Nat)]
    /\ \A v \in Visitors : \A i \in 1..Len(tries[v]) : tries[v][i] <= minute
HitsSound ==
    /\ DOMAIN hits \subseteq Visitors /\ IsFiniteSet(DOMAIN hits) /\ Cardinality(DOMAIN hits) <= MapMax
    /\ \A v \in DOMAIN hits : /\ hits[v] \in [n : Nat, reset : Nat]
                              /\ hits[v].n >= 1 /\ hits[v].reset <= minute + Window
BudgetSound ==
    \A v \in Visitors : IF v \in DOMAIN hits THEN Budget(tries[v], hits[v]) ELSE Len(tries[v]) <= 1

\* Leaving out the first d entries of a sequence.
LEMMA TailFrom ==
    ASSUME NEW s \in Seq(Nat), NEW d \in 0..Len(s)
    PROVE  /\ SubSeq(s, 1 + d, Len(s)) \in Seq(Nat) /\ Len(SubSeq(s, 1 + d, Len(s))) = Len(s) - d
           /\ \A i \in 1..(Len(s) - d) : SubSeq(s, 1 + d, Len(s))[i] = s[i + d]
<1>1. Len(s) \in Nat /\ \A i \in 1..(Len(s) - d) : s[i + d] \in Nat  OBVIOUS
<1> QED  BY <1>1

\* throttled() forgets tries from the oldest on, and keeps none that is a window old as long as an older one is
\* kept.
LEMMA RecentIs ==
    ASSUME NEW s \in Seq(Nat), minute \in Nat
    PROVE  \E d \in 0..Len(s) :
             /\ Recent(s) \in Seq(Nat) /\ Len(Recent(s)) = Len(s) - d
             /\ \A i \in 1..(Len(s) - d) : Recent(s)[i] = s[i + d]
             /\ \A q \in 0..Len(s) : (\A i \in 1..q : minute - s[i] >= Window) => q <= d
<1> DEFINE old == {i \in DOMAIN s : minute - s[i] >= Window}
           d == Cardinality(old)
<1>1. DOMAIN s = 1..Len(s) /\ Len(s) \in Nat  OBVIOUS
<1>2. IsFiniteSet(1..Len(s)) /\ Cardinality(1..Len(s)) = Len(s)
  <2>1. \A n \in Nat : IsFiniteSet(1..n) /\ Cardinality(1..n) = n  BY FS_Interval
  <2> QED  BY <1>1, <2>1
<1>3. IsFiniteSet(old) /\ d <= Len(s) /\ d \in Nat
  <2>1. old \subseteq 1..Len(s)  BY <1>1
  <2> HIDE DEF old
  <2>2. IsFiniteSet(old) /\ Cardinality(old) <= Cardinality(1..Len(s))  BY <2>1, <1>2, FS_Subset
  <2>3. Cardinality(old) \in Nat  BY <2>2, FS_CardinalityType
  <2> QED  BY <1>2, <2>2, <2>3
<1>4. ASSUME NEW q \in 0..Len(s), \A i \in 1..q : minute - s[i] >= Window PROVE q <= d
  <2>1. 1..q \subseteq old  BY <1>4, <1>1
  <2>2. Cardinality(1..q) = q  BY FS_Interval
  <2> QED  BY <2>1, <2>2, <1>3, FS_Subset
<1>5. Recent(s) = SubSeq(s, 1 + d, Len(s))  BY DEF Recent
<1>6. /\ Recent(s) \in Seq(Nat) /\ Len(Recent(s)) = Len(s) - d
      /\ \A i \in 1..(Len(s) - d) : Recent(s)[i] = s[i + d]
  <2> HIDE DEF d
  <2>1. d \in 0..Len(s)  BY <1>1, <1>3
  <2> QED  BY <2>1, <1>5, TailFrom
<1>7. \A q \in 0..Len(s) : (\A i \in 1..q : minute - s[i] >= Window) => q <= d  BY <1>4
<1> HIDE DEF d
<1>8. d \in 0..Len(s)  BY <1>1, <1>3
<1> QED  BY <1>6, <1>7, <1>8

\* Time takes nothing from what throttled() still allows.
LEMMA BudgetAges ==
    ASSUME NEW s \in Seq(Nat), NEW h \in [n : Nat, reset : Nat], minute \in Nat, Budget(s, h)
    PROVE  Budget(Recent(s), h)
<1>1. PICK q \in 0..Len(s) : Budgeted(s, h, q)  BY DEF Budget
<1>2. PICK d \in 0..Len(s) :
             /\ Recent(s) \in Seq(Nat) /\ Len(Recent(s)) = Len(s) - d
             /\ \A i \in 1..(Len(s) - d) : Recent(s)[i] = s[i + d]
    BY RecentIs
<1> DEFINE p == IF d <= q THEN q - d ELSE 0
<1>3. p \in 0..Len(Recent(s))  BY <1>2
<1>4. Budgeted(Recent(s), h, p)
  <2>1. p <= MaxTries /\ Len(Recent(s)) - p <= MaxTries /\ Len(Recent(s)) - p <= h.n
      BY <1>1, <1>2, DoorsAssumption DEF Budgeted
  <2>2. ASSUME NEW i \in 1..p PROVE Recent(s)[i] <= h.reset - Window
    <3>1. i + d \in 1..q /\ i \in 1..(Len(s) - d)  BY <1>2
    <3> QED  BY <3>1, <1>1, <1>2 DEF Budgeted
  <2> QED  BY <2>1, <2>2 DEF Budgeted
<1> QED  BY <1>3, <1>4 DEF Budget

\* A try that is counted in the window of throttled() is paid for by its count.
LEMMA BudgetGrows ==
    ASSUME NEW s \in Seq(Nat), NEW h \in [n : Nat, reset : Nat], NEW k \in [n : Nat, reset : Nat], NEW m \in Nat,
           Budget(s, h), k.n = h.n + 1, k.reset = h.reset, k.n <= MaxTries
    PROVE  Budget(s \o <<m>>, k)
<1>1. PICK q \in 0..Len(s) : Budgeted(s, h, q)  BY DEF Budget
<1>2. Len(s \o <<m>>) = Len(s) + 1 /\ \A i \in 1..Len(s) : (s \o <<m>>)[i] = s[i]  OBVIOUS
<1>3. Budgeted(s \o <<m>>, k, q)  BY <1>1, <1>2, DoorsAssumption DEF Budgeted
<1> QED  BY <1>2, <1>3 DEF Budget

\* A new window of throttled() opens with at most a window's worth of tries behind it.
LEMMA BudgetOpens ==
    ASSUME NEW s \in Seq(Nat), minute \in Nat, NEW k \in [n : Nat, reset : Nat], Len(s) <= MaxTries,
           \A i \in 1..Len(s) : s[i] <= minute, k.n = 1, k.reset = minute + Window
    PROVE  Budget(s \o <<minute>>, k)
<1>1. Len(s \o <<minute>>) = Len(s) + 1 /\ \A i \in 1..Len(s) : (s \o <<minute>>)[i] = s[i]  OBVIOUS
<1>2. Budgeted(s \o <<minute>>, k, Len(s))  BY <1>1, DoorsAssumption DEF Budgeted
<1> QED  BY <1>1, <1>2 DEF Budget

\* Once the window of throttled() is over, what was tried before it is forgotten.
LEMMA WindowOver ==
    ASSUME NEW s \in Seq(Nat), NEW h \in [n : Nat, reset : Nat], minute \in Nat, Budget(s, h), minute > h.reset
    PROVE  Len(Recent(s)) <= MaxTries
<1>1. PICK q \in 0..Len(s) : Budgeted(s, h, q)  BY DEF Budget
<1>2. \A i \in 1..q : minute - s[i] >= Window
    BY <1>1, DoorsAssumption DEF Budgeted
<1>3. PICK d \in 0..Len(s) :
             /\ Len(Recent(s)) = Len(s) - d
             /\ (\A i \in 1..q : minute - s[i] >= Window) => q <= d
    BY RecentIs
<1> QED  BY <1>1, <1>2, <1>3, DoorsAssumption DEF Budgeted

\* What throttled() writes of an address: a count that goes on, or a window that opens.
LEMMA RecordIs ==
    ASSUME HitsSound, TriesSound, NEW v \in Visitors
    PROVE  /\ Record(v) \in [n : Nat, reset : Nat] /\ Record(v).n >= 1 /\ Record(v).reset <= minute + Window
           /\ v \in DOMAIN hits /\ ~(minute > hits[v].reset) =>
                /\ Record(v).reset = hits[v].reset
                /\ Record(v).n = hits[v].n + 1 \/ (Record(v).n = hits[v].n /\ Record(v).n > MaxTries)
           /\ (v \in DOMAIN hits /\ minute > hits[v].reset) \/ v \notin DOMAIN hits =>
                Record(v).n = 1 /\ Record(v).reset = minute + Window
<1> DEFINE new == [n |-> 0, reset |-> minute + Window]
           up(r) == [r EXCEPT !.n = IF @ > MaxTries THEN @ ELSE @ + 1]
<1>0. minute \in Nat /\ Window \in Nat \ {0} /\ MaxTries \in Nat \ {0} /\ new \in [n : Nat, reset : Nat]
    BY DoorsAssumption DEF TriesSound
<1>1. ASSUME NEW r \in [n : Nat, reset : Nat]
      PROVE  /\ up(r) \in [n : Nat, reset : Nat] /\ up(r).reset = r.reset
             /\ up(r).n = IF r.n > MaxTries THEN r.n ELSE r.n + 1
    BY <1>0
<1> HIDE DEF up
<1>2. CASE v \in DOMAIN hits /\ ~(minute > hits[v].reset)
  <2>1. Record(v) = up(hits[v])  BY <1>2 DEF Record, up
  <2>2. hits[v] \in [n : Nat, reset : Nat]  BY <1>2 DEF HitsSound
  <2> QED  BY <2>1, <2>2, <1>0, <1>1, <1>2 DEF HitsSound
<1>3. CASE (v \in DOMAIN hits /\ minute > hits[v].reset) \/ v \notin DOMAIN hits
  <2>1. Record(v) = up(new)  BY <1>3, <1>0 DEF Record, up
  <2> QED  BY <2>1, <1>0, <1>1, <1>3
<1> QED  BY <1>2, <1>3

\* What the map of throttled() holds after a try: everything with the record of the address, or nothing, and
\* then the address is a new one.
LEMMA NotedIs ==
    ASSUME HitsSound, TriesSound, NEW v \in Visitors
    PROVE  \/ /\ Noted(v) # NoHits /\ DOMAIN Noted(v) = DOMAIN hits \cup {v}
              /\ IsFiniteSet(DOMAIN hits \cup {v}) /\ Cardinality(DOMAIN hits \cup {v}) <= MapMax
              /\ \A w \in DOMAIN hits \cup {v} : Noted(v)[w] = IF w = v THEN Record(v) ELSE hits[w]
           \/ /\ Noted(v) = NoHits /\ v \notin DOMAIN hits
<1> DEFINE dom == DOMAIN hits \cup {v}
           all == [w \in dom |-> IF w = v THEN Record(v) ELSE hits[w]]
<1>1. Noted(v) = IF Cardinality(DOMAIN all) > MapMax THEN NoHits ELSE all  BY DEF Noted
<1>2. DOMAIN all = dom  OBVIOUS
<1>3. IsFiniteSet(dom) /\ Cardinality(dom) \in Nat
    BY FS_AddElement, FS_CardinalityType DEF HitsSound
<1>4. DOMAIN NoHits = {}  BY DEF NoHits
<1>5. v \in DOMAIN hits => dom = DOMAIN hits  OBVIOUS
<1>6. CASE Cardinality(dom) > MapMax
  <2>1. Noted(v) = NoHits  BY <1>1, <1>2, <1>6
  <2>2. v \notin DOMAIN hits  BY <1>5, <1>6, <1>3, DoorsAssumption DEF HitsSound
  <2> QED  BY <2>1, <2>2
<1>7. CASE ~(Cardinality(dom) > MapMax)
  <2>1. Noted(v) = all  BY <1>1, <1>2, <1>7
  <2>2. Cardinality(dom) <= MapMax  BY <1>7, <1>3, DoorsAssumption
  <2>3. Noted(v) # NoHits  BY <2>1, <1>2, <1>4
  <2> QED  BY <2>1, <2>2, <2>3, <1>2, <1>3
<1> QED  BY <1>6, <1>7

\* The tries of an address after a password was compared for it, or for another one.
After(v, w) == (IF Noted(v) = NoHits THEN <<>> ELSE Recent(tries[w])) \o (IF w = v THEN <<minute>> ELSE <<>>)

\* What throttled() lets through is at the moment, and what it keeps was there before.
LEMMA AfterIs ==
    ASSUME TriesSound, NEW v \in Visitors, NEW w \in Visitors
    PROVE  /\ After(v, w) \in Seq(Nat) /\ \A i \in 1..Len(After(v, w)) : After(v, w)[i] <= minute
           /\ Noted(v) = NoHits => Len(After(v, w)) <= 1
           /\ Recent(tries[w]) \in Seq(Nat) /\ Len(Recent(tries[w])) <= Len(tries[w])
           /\ \A i \in 1..Len(Recent(tries[w])) : Recent(tries[w])[i] <= minute
           /\ Noted(v) # NoHits /\ w = v => After(v, w) = Recent(tries[w]) \o <<minute>>
           /\ Noted(v) # NoHits /\ w # v => After(v, w) = Recent(tries[w])
<1> DEFINE s == tries[w]
           r == Recent(s)
<1>1. minute \in Nat /\ s \in Seq(Nat) /\ Len(s) \in Nat /\ \A i \in 1..Len(s) : s[i] <= minute
    BY DoorsAssumption DEF TriesSound
<1>2. PICK d \in 0..Len(s) :
             /\ r \in Seq(Nat) /\ Len(r) = Len(s) - d
             /\ \A i \in 1..(Len(s) - d) : r[i] = s[i + d]
    BY <1>1, RecentIs
<1>3. r \in Seq(Nat) /\ Len(r) <= Len(s) /\ \A i \in 1..Len(r) : r[i] <= minute
  <2>1. ASSUME NEW i \in 1..Len(r) PROVE r[i] <= minute
    <3>1. i \in 1..(Len(s) - d) /\ i + d \in 1..Len(s)  BY <1>1, <1>2
    <3> QED  BY <3>1, <1>1, <1>2
  <2> QED  BY <2>1, <1>1, <1>2
<1> HIDE DEF r, s
<1>4. r \o <<minute>> \in Seq(Nat) /\ \A i \in 1..Len(r \o <<minute>>) : (r \o <<minute>>)[i] <= minute
    BY <1>1, <1>3
<1>5. <<>> \o <<minute>> = <<minute>> /\ <<>> \o <<>> = <<>> /\ r \o <<>> = r
    BY <1>3
<1>6. CASE Noted(v) = NoHits
  <2>1. After(v, w) = <<minute>> \/ After(v, w) = <<>>  BY <1>5, <1>6 DEF After
  <2>2. <<minute>> \in Seq(Nat) /\ Len(<<minute>>) = 1 /\ \A i \in 1..1 : <<minute>>[i] <= minute  BY <1>1
  <2>3. <<>> \in Seq(Nat) /\ Len(<<>>) = 0 /\ 1..0 = {}  OBVIOUS
  <2>4. /\ After(v, w) \in Seq(Nat) /\ Len(After(v, w)) <= 1
        /\ \A i \in 1..Len(After(v, w)) : After(v, w)[i] <= minute
    <3>1. CASE After(v, w) = <<minute>>  BY <3>1, <2>2
    <3>2. CASE After(v, w) = <<>>  BY <3>2, <2>3
    <3> QED  BY <3>1, <3>2, <2>1
  <2> QED  BY <2>4, <1>3, <1>6 DEF r, s
<1>7. CASE Noted(v) # NoHits
  <2>1. After(v, w) = IF w = v THEN r \o <<minute>> ELSE r  BY <1>5, <1>7 DEF After, r, s
  <2> QED  BY <2>1, <1>3, <1>4, <1>7 DEF r, s
<1> QED  BY <1>6, <1>7

\* A try at the password keeps the books of the login in order.
LEMMA LoginKeeps ==
    ASSUME HitsSound, TriesSound, BudgetSound, NEW v \in Visitors, Login(v)
    PROVE  HitsSound' /\ TriesSound' /\ BudgetSound'
<1>0. minute' = minute /\ minute \in Nat /\ MaxTries \in Nat \ {0} /\ Window \in Nat \ {0} /\ MapMax \in Nat
    BY DoorsAssumption DEF Login, TriesSound
<1>1. CASE hits' = hits /\ tries' = tries
    BY <1>0, <1>1 DEF HitsSound, TriesSound, BudgetSound, Budget, Budgeted
<1>2. CASE /\ hits' = Noted(v)
           /\ tries' = IF Record(v).n > MaxTries THEN tries ELSE [w \in Visitors |-> After(v, w)]
  <2> DEFINE rec == Record(v)
  <2>1. /\ rec \in [n : Nat, reset : Nat] /\ rec.n >= 1 /\ rec.reset <= minute + Window
        /\ v \in DOMAIN hits /\ ~(minute > hits[v].reset) =>
             /\ rec.reset = hits[v].reset
             /\ rec.n = hits[v].n + 1 \/ (rec.n = hits[v].n /\ rec.n > MaxTries)
        /\ (v \in DOMAIN hits /\ minute > hits[v].reset) \/ v \notin DOMAIN hits =>
             rec.n = 1 /\ rec.reset = minute + Window
      BY RecordIs
  <2> HIDE DEF rec
  <2>2. \/ /\ Noted(v) # NoHits /\ DOMAIN hits' = DOMAIN hits \cup {v}
           /\ IsFiniteSet(DOMAIN hits') /\ Cardinality(DOMAIN hits') <= MapMax
           /\ \A w \in DOMAIN hits' : hits'[w] = IF w = v THEN rec ELSE hits[w]
        \/ /\ Noted(v) = NoHits /\ v \notin DOMAIN hits /\ hits' = NoHits
      BY <1>2, NotedIs DEF rec
  <2>3. \A w \in Visitors : tries'[w] = IF rec.n > MaxTries THEN tries[w] ELSE After(v, w)
      BY <1>2 DEF rec
  <2>4. HitsSound'
    <3>1. CASE Noted(v) = NoHits
      <4>1. DOMAIN hits' = {}  BY <2>2, <3>1 DEF NoHits
      <4> QED  BY <4>1, FS_EmptySet, <1>0 DEF HitsSound
    <3>2. CASE Noted(v) # NoHits
        BY <2>1, <2>2, <3>2, <1>0 DEF HitsSound
    <3> QED  BY <3>1, <3>2
  <2>5. TriesSound'
    <3>1. tries' \in [Visitors -> Seq(Nat)]
        BY <1>2, AfterIs DEF TriesSound
    <3>2. \A w \in Visitors : \A i \in 1..Len(tries'[w]) : tries'[w][i] <= minute
        BY <2>3, AfterIs DEF TriesSound
    <3> QED  BY <3>1, <3>2, <1>0 DEF TriesSound
  <2>6. ASSUME NEW w \in Visitors
        PROVE  IF w \in DOMAIN hits' THEN Budget(tries'[w], hits'[w]) ELSE Len(tries'[w]) <= 1
    <3>0. /\ tries[w] \in Seq(Nat) /\ Len(tries[w]) \in Nat
          /\ w \in DOMAIN hits => hits[w] \in [n : Nat, reset : Nat]
        BY DEF TriesSound, HitsSound
    <3>1. CASE Noted(v) = NoHits
      <4>1. ~(rec.n > MaxTries) /\ w \notin DOMAIN hits'
          BY <2>1, <2>2, <3>1, <1>0 DEF NoHits
      <4> QED  BY <4>1, <2>3, <3>1, AfterIs
    <3>2. CASE Noted(v) # NoHits /\ rec.n > MaxTries
      <4>1. v \in DOMAIN hits /\ ~(minute > hits[v].reset)
          BY <2>1, <3>2, <1>0
      <4>2. tries'[w] = tries[w] /\ DOMAIN hits' = DOMAIN hits  BY <2>2, <2>3, <3>2, <4>1
      <4>3. w # v => IF w \in DOMAIN hits' THEN hits'[w] = hits[w] ELSE TRUE  BY <2>2, <3>2, <4>2
      <4>4. w = v => hits'[w] = rec /\ rec.reset = hits[v].reset /\ rec.n >= hits[v].n
          BY <2>1, <2>2, <3>2, <4>1, <4>2 DEF HitsSound
      <4>5. CASE w # v  BY <4>2, <4>3, <4>5 DEF BudgetSound
      <4>6. CASE w = v
        <5>1. PICK q \in 0..Len(tries[w]) : Budgeted(tries[w], hits[w], q)
            BY <4>1, <4>6 DEF BudgetSound, Budget
        <5>2. rec.n \in Nat /\ hits[w].n \in Nat /\ rec.n >= hits[w].n  BY <2>1, <3>0, <4>1, <4>4, <4>6
        <5>3. Budgeted(tries[w], rec, q)  BY <5>1, <5>2, <4>4, <4>6, <3>0 DEF Budgeted
        <5> QED  BY <5>3, <4>1, <4>2, <4>4, <4>6 DEF Budget
      <4> QED  BY <4>5, <4>6
    <3>3. CASE Noted(v) # NoHits /\ ~(rec.n > MaxTries) /\ w # v
      <4>1. tries'[w] = Recent(tries[w])  BY <2>3, <3>3, AfterIs
      <4>2. CASE w \in DOMAIN hits
          BY <4>1, <4>2, <2>2, <3>0, <3>3, <1>0, BudgetAges DEF BudgetSound
      <4>3. CASE w \notin DOMAIN hits
        <5>1. Len(Recent(tries[w])) <= Len(tries[w]) /\ Len(Recent(tries[w])) \in Nat  BY AfterIs
        <5> QED  BY <5>1, <4>1, <4>3, <2>2, <3>0, <3>3 DEF BudgetSound
      <4> QED  BY <4>2, <4>3
    <3>4. CASE Noted(v) # NoHits /\ ~(rec.n > MaxTries) /\ w = v
      <4>1. tries'[w] = Recent(tries[w]) \o <<minute>>  BY <2>3, <3>4, AfterIs
      <4>2. w \in DOMAIN hits' /\ hits'[w] = rec  BY <2>2, <3>4
      <4>3. /\ Recent(tries[w]) \in Seq(Nat) /\ Len(Recent(tries[w])) <= Len(tries[w])
            /\ \A i \in 1..Len(Recent(tries[w])) : Recent(tries[w])[i] <= minute
          BY AfterIs
      <4>4. CASE w \in DOMAIN hits /\ ~(minute > hits[w].reset)
        <5>1. Budget(Recent(tries[w]), hits[w])  BY <4>4, <3>0, <1>0, BudgetAges DEF BudgetSound
        <5>2. rec.reset = hits[w].reset /\ rec.n = hits[w].n + 1 /\ rec.n <= MaxTries
            BY <2>1, <3>4, <4>4, <1>0
        <5>3. Budget(Recent(tries[w]) \o <<minute>>, rec)
            BY <5>1, <5>2, <4>3, <4>4, <3>0, <2>1, <1>0, BudgetGrows
        <5> QED  BY <5>3, <4>1, <4>2
      <4>5. CASE (w \in DOMAIN hits /\ minute > hits[w].reset) \/ w \notin DOMAIN hits
        <5>1. Len(Recent(tries[w])) <= MaxTries
          <6>1. CASE w \in DOMAIN hits  BY <6>1, <4>5, <3>0, <1>0, WindowOver DEF BudgetSound
          <6>2. CASE w \notin DOMAIN hits
              BY <6>2, <4>3, <3>0, <1>0 DEF BudgetSound
          <6> QED  BY <6>1, <6>2
        <5>2. rec.n = 1 /\ rec.reset = minute + Window  BY <2>1, <3>4, <4>5
        <5>3. Budget(Recent(tries[w]) \o <<minute>>, rec)
            BY <5>1, <5>2, <4>3, <2>1, <1>0, BudgetOpens
        <5> QED  BY <5>3, <4>1, <4>2
      <4> QED  BY <4>4, <4>5
    <3> QED  BY <3>1, <3>2, <3>3, <3>4
  <2>7. BudgetSound'  BY <2>6 DEF BudgetSound
  <2> QED  BY <2>4, <2>5, <2>7
<1>3. v \in Trusted => hits' = hits /\ tries' = tries  BY DEF Login
<1>4. v \notin Trusted =>
        /\ hits' = Noted(v)
        /\ tries' = IF Record(v).n > MaxTries THEN tries ELSE [w \in Visitors |-> After(v, w)]
    BY DEF Login, After
<1> QED  BY <1>1, <1>2, <1>3, <1>4

(* -------------------------------- going out -------------------------------- *)
\* Whatever jsonEnforce() says in a body, the rest of the call stays.
LEMMA WireBody ==
    ASSUME NEW r, NEW said, NEW b, NEW c, NEW think
    PROVE  [Wire(r, said, c, think) EXCEPT !.body = b] = Wire(r, b, c, think)
<1> DEFINE path == IF Subscription(r) THEN "/v1/messages" ELSE "/v1/chat/completions"
           rest(x) == [path |-> path, base |-> r.base, credential |-> c, model |-> r.model, body |-> x,
                       thinking |-> think]
<1> HIDE DEF path
<1>1. [rest(said) EXCEPT !.body = b] = rest(b)  OBVIOUS
<1>2. Wire(r, said, c, think) = rest(said) /\ Wire(r, b, c, think) = rest(b)  BY DEF Wire, path
<1> QED  BY <1>1, <1>2

\* proxy(), jsonEnforce() and adminTest() address a call alike.
LEMMA SameWireHolds ==
    ASSUME errand \in Errands
    PROVE  SameWire
<1> SUFFICES ASSUME errand.kind = "call" PROVE SameWire  BY DEF SameWire
<1> DEFINE r == errand.route
           b == errand.body
<1>1. /\ r.provider \in Relays \cup {"local", "claudecode"}
      /\ r.provider \notin {"local", "crazyrouter"} => r.token # "none"
    BY DoorsAssumption
<1>2. [Enforced(r, b) EXCEPT !.body = b] = ProxyWire(r, b)
    BY WireBody DEF Enforced, ProxyWire
<1>3. r.provider # "local" => Tested(r, b) = ProxyWire(r, b)
  <2> SUFFICES ASSUME r.provider # "local" PROVE Tested(r, b) = ProxyWire(r, b)  OBVIOUS
  <2>1. TestCredential(r) = Credential(r)
    <3>1. CASE r.provider = "crazyrouter"  BY <3>1 DEF TestCredential, Credential
    <3>2. CASE r.provider # "crazyrouter"
      <4>1. r.token # "none"  BY <1>1, <3>2
      <4> HIDE DEF r
      <4> QED  BY <4>1, <3>2 DEF TestCredential, Credential
    <3> QED  BY <3>1, <3>2
  <2>2. Thought(r, b) = b.think  BY DEF Thought
  <2> QED  BY <2>1, <2>2 DEF Tested, ProxyWire
<1>4. /\ Tested(r, b).base = ProxyWire(r, b).base /\ Tested(r, b).path = ProxyWire(r, b).path
      /\ Tested(r, b).model = ProxyWire(r, b).model
    BY DEF Tested, ProxyWire, Wire
<1> QED  BY <1>2, <1>3, <1>4 DEF SameWire

\* A body on its way, changed or not.
Carried == [format : {"text", "json_object", "json_schema"}, words : SUBSET {"json"}, tools : BOOLEAN,
            cached : BOOLEAN, image : BOOLEAN, think : {"unset", "on", "off"}, changed : BOOLEAN]

\* headroomCompress() touches nothing but the words, and not those of a body with a cached prefix or tools.
LEMMA CompressedIs ==
    ASSUME NEW r, NEW b \in Bodies, NEW on, NEW words
    PROVE  /\ Compressed(r, b, on, words) \in Carried /\ Compressed(r, b, on, words).format = b.format
           /\ b.cached \/ b.tools => Compressed(r, b, on, words) = b
<1>1. b \in Carried  BY DEF Bodies, Carried
<1> DEFINE cut == [b EXCEPT !.changed = TRUE, !.words = @ \cap words]
<1>2. cut \in Carried /\ cut.format = b.format  BY <1>1 DEF Carried
<1>3. Compressed(r, b, on, words) = b \/ Compressed(r, b, on, words) = cut  BY DEF Compressed
<1>4. b.cached \/ b.tools => Compressed(r, b, on, words) = b  BY DEF Compressed
<1> HIDE DEF cut
<1> QED  BY <1>1, <1>2, <1>3, <1>4

\* What jsonEnforce() makes of a body of any lane.
LEMMA SaidIs ==
    ASSUME NEW r, NEW c \in Carried
    PROVE  LET w == Enforced(r, c).body
           IN /\ Subscription(r) => w.format = "text" /\ "json" \in w.words /\ w.changed
              /\ ~Subscription(r) => w.format = c.format
              /\ ~Subscription(r) /\ NeedsKeyword(r, c) => "json" \in w.words
              /\ ~Subscription(r) /\ w # c => NeedsKeyword(r, c) /\ ~("json" \in c.words) /\ w.changed
<1>1. CASE Subscription(r)
    BY <1>1 DEF Enforced, Wire, Instructed, Carried
<1>2. CASE ~Subscription(r)
    BY <1>2 DEF Enforced, Wire, Instructed, SaysJson, Carried
<1> QED  BY <1>1, <1>2

\* Nothing the compressor does to a body comes between a caller that asks for JSON and the lane.
LEMMA JsonIsAskedHolds ==
    ASSUME errand \in Errands
    PROVE  JsonIsAsked
<1> SUFFICES ASSUME errand.kind = "call", NEW on \in SUBSET (Relays \cup {"local", "claudecode"}),
                    NEW words \in SUBSET {"json"}
             PROVE  LET r == errand.route
                        b == errand.body
                        w == Sent(r, b, on, words).body
                    IN /\ w.format = "json_object" /\ r.provider \in Relays => SaysJson(w)
                       /\ AsksJson(b) /\ w.format = "text" => SaysJson(w)
                       /\ w.format # b.format => r.provider = "claudecode"
                       /\ (b.cached \/ b.tools) /\ w # b => AsksJson(b) /\ r.provider # "local" /\ w.changed
                                                            /\ (SaysJson(b) => r.provider = "claudecode")
    BY DEF JsonIsAsked
<1> DEFINE r == errand.route
           b == errand.body
           c == Compressed(r, b, on, words)
           w == Sent(r, b, on, words).body
<1>1. b \in Bodies  BY DoorsAssumption
<1>2. c \in Carried /\ c.format = b.format /\ (b.cached \/ b.tools => c = b)
    BY <1>1, CompressedIs
<1>4. w = IF AsksJson(b) THEN Enforced(r, c).body ELSE ProxyWire(r, c).body  BY DEF Sent
<1>5. ProxyWire(r, c).body = c  BY DEF ProxyWire, Wire
<1> HIDE DEF c, w, b
<1>6. CASE ~AsksJson(b)
  <2>1. w = c /\ b.format = "text"  BY <1>4, <1>5, <1>6 DEF AsksJson
  <2> QED  BY <2>1, <1>2, <1>6 DEF w, b, r
<1>7. CASE AsksJson(b)
  <2>1. w = Enforced(r, c).body  BY <1>4, <1>7
  <2>2. /\ Subscription(r) => w.format = "text" /\ "json" \in w.words /\ w.changed
        /\ ~Subscription(r) => w.format = c.format
        /\ ~Subscription(r) /\ NeedsKeyword(r, c) => "json" \in w.words
        /\ ~Subscription(r) /\ w # c => NeedsKeyword(r, c) /\ ~("json" \in c.words) /\ w.changed
      BY <1>2, <2>1, SaidIs
  <2>3. r.provider \in Relays => r.provider \notin {"local", "claudecode"}  BY DEF Relays
  <2>4. NeedsKeyword(r, c) <=> r.provider \notin {"local", "claudecode"} /\ c.format = "json_object"
      BY DEF NeedsKeyword
  <2>5. Subscription(r) <=> r.provider = "claudecode"  BY DEF Subscription
  <2>6. w.format = "json_object" /\ r.provider \in Relays => SaysJson(w)
      BY <2>2, <2>3, <2>4, <2>5 DEF SaysJson
  <2>7. w.format = "text" => SaysJson(w)
      BY <2>2, <1>2, <1>7 DEF SaysJson, AsksJson
  <2>8. w.format # b.format => r.provider = "claudecode"
      BY <2>2, <2>5, <1>2
  <2>9. (b.cached \/ b.tools) /\ w # b => /\ r.provider # "local" /\ w.changed
                                          /\ SaysJson(b) => r.provider = "claudecode"
      BY <2>2, <2>4, <2>5, <1>2 DEF SaysJson
  <2> QED  BY <2>6, <2>7, <2>8, <2>9, <1>7 DEF w, b, r
<1> QED  BY <1>6, <1>7

(* -------------------------------- coming in -------------------------------- *)
\* The n-th test of the server on a request.
Opens(k, n) == Tests(k)[n][1]

\* The door of the first test of the server that holds is the one a request comes in by.
LEMMA FirstDoor ==
    ASSUME NEW k, NEW n \in 1..16, Opens(k, n), \A m \in 1..(n - 1) : ~Opens(k, m)
    PROVE  Door(k) = Tests(k)[n][2]
<1> DEFINE t == Tests(k)
           I == {i \in 1..Len(t) : t[i][1]}
<1>1. Len(t) = 16  BY DEF Tests
<1>2. n \in I /\ \A m \in I : n <= m
  <2> HIDE DEF t
  <2>1. t[n][1] /\ \A m \in 1..(n - 1) : ~t[m][1]  BY DEF Opens, t
  <2> QED  BY <1>1, <2>1
<1>3. n \in Nat /\ \A m \in I : m \in Nat
  <2> HIDE DEF t
  <2> QED  BY <1>1
<1>4. Door(k) = t[IF I # {} THEN Min(I) ELSE 0][2]  BY DEF Door, SelectInSeq
<1> HIDE DEF I, t
<1>5. \A x \in I : (\A y \in I : x <= y) => x = n  BY <1>2, <1>3
<1>6. Min(I) = n  BY <1>2, <1>5 DEF Min
<1> QED  BY <1>2, <1>4, <1>6 DEF t

\* The doors of server.js in the order of their tests.
LEMMA DoorNames ==
    ASSUME NEW k
    PROVE  /\ Tests(k)[1][2] = "admin api" /\ Tests(k)[2][2] = "tombstone" /\ Tests(k)[3][2] = "asset"
           /\ Tests(k)[4][2] = "panel" /\ Tests(k)[5][2] = "to docs" /\ Tests(k)[6][2] = "docs"
           /\ Tests(k)[7][2] = "prices" /\ Tests(k)[8][2] = "cors" /\ Tests(k)[9][2] = "local"
           /\ Tests(k)[10][2] = "models" /\ Tests(k)[11][2] = "otel" /\ Tests(k)[12][2] = "images"
           /\ Tests(k)[13][2] = "image catalog" /\ Tests(k)[14][2] = "templates"
           /\ Tests(k)[15][2] = "reference" /\ Tests(k)[16][2] = "router" /\ Opens(k, 16)
<1>1. Tests(k)[16][1]  BY DEF Tests
<1> QED  BY <1>1 DEF Tests, Opens

\* One name of a path, two names of it, and a path that starts with one or two given names.
LEMMA SubSeqOne ==
    ASSUME NEW S, NEW s \in Seq(S), NEW i \in 1..Len(s)
    PROVE  SubSeq(s, i, i) = <<s[i]>>
<1>1. Len(s) \in Nat /\ i \in Int /\ (\A j \in i..i : s[j] \in S) /\ s[i] \in S  OBVIOUS
<1>2. /\ SubSeq(s, i, i) \in Seq(S) /\ Len(SubSeq(s, i, i)) = IF i <= i THEN i - i + 1 ELSE 0
      /\ \A j \in 1..(i - i + 1) : SubSeq(s, i, i)[j] = s[i + j - 1]
    BY <1>1, SubSeqProperties
<1>3. <<s[i]>> \in Seq(S) /\ Len(<<s[i]>>) = 1 /\ <<s[i]>>[1] = s[i]  BY <1>1
<1>4. Len(SubSeq(s, i, i)) = 1 /\ SubSeq(s, i, i)[1] = s[i]  BY <1>1, <1>2
<1>5. \A j \in 1..1 : SubSeq(s, i, i)[j] = <<s[i]>>[j]  BY <1>3, <1>4
<1> QED  BY <1>2, <1>3, <1>4, <1>5, SeqEqual

\* Two neighbours of a path, as the last-two test of the image door (server.js) takes them.
LEMMA SubSeqTwo ==
    ASSUME NEW S, NEW s \in Seq(S), NEW i \in 1..(Len(s) - 1), NEW k, k = i + 1
    PROVE  SubSeq(s, i, k) = <<s[i], s[k]>>
<1>1. Len(s) \in Nat /\ i \in Int /\ k \in Int /\ (\A j \in i..k : s[j] \in S) /\ s[i] \in S /\ s[k] \in S
    OBVIOUS
<1>2. /\ SubSeq(s, i, k) \in Seq(S) /\ Len(SubSeq(s, i, k)) = IF i <= k THEN k - i + 1 ELSE 0
      /\ \A j \in 1..(k - i + 1) : SubSeq(s, i, k)[j] = s[i + j - 1]
    BY <1>1, SubSeqProperties
<1>3. /\ <<s[i], s[k]>> \in Seq(S) /\ Len(<<s[i], s[k]>>) = 2
      /\ <<s[i], s[k]>>[1] = s[i] /\ <<s[i], s[k]>>[2] = s[k]
    BY <1>1
<1>4. Len(SubSeq(s, i, k)) = 2 /\ SubSeq(s, i, k)[1] = s[i] /\ SubSeq(s, i, k)[2] = s[k]  BY <1>1, <1>2
<1>5. \A j \in 1..2 : SubSeq(s, i, k)[j] = <<s[i], s[k]>>[j]  BY <1>3, <1>4
<1> QED  BY <1>2, <1>3, <1>4, <1>5, SeqEqual

\* A path under one name or under two: path.startsWith("/a/") of the server, name by name.
LEMMA UnderIs ==
    ASSUME NEW p, NEW S, p.seg \in Seq(S), NEW a, NEW b
    PROVE  /\ Under(p, <<a>>) <=> Len(p.seg) >= 1 /\ p.seg[1] = a /\ (Len(p.seg) > 1 \/ p.slash)
           /\ Under(p, <<a, b>>) <=> Len(p.seg) >= 2 /\ p.seg[1] = a /\ p.seg[2] = b /\ (Len(p.seg) > 2 \/ p.slash)
<1> DEFINE s == p.seg
<1>1. Len(s) \in Nat /\ s \in Seq(S)  OBVIOUS
<1> HIDE DEF s
<1>2. /\ <<a>> \in Seq({a, b}) /\ Len(<<a>>) = 1 /\ <<a>>[1] = a
      /\ <<a, b>> \in Seq({a, b}) /\ Len(<<a, b>>) = 2 /\ <<a, b>>[1] = a /\ <<a, b>>[2] = b
    OBVIOUS
<1>3. SubSeq(<<a>>, 1, 1) = <<a>>
  <2>1. 1 \in 1..Len(<<a>>)  BY <1>2
  <2>2. SubSeq(<<a>>, 1, 1) = <<<<a>>[1]>>  BY <1>2, <2>1, SubSeqOne
  <2> QED  BY <2>2, <1>2
<1>4. SubSeq(<<a, b>>, 1, 2) = <<a, b>>
  <2>1. 1 \in 1..(Len(<<a, b>>) - 1) /\ 2 = 1 + 1  BY <1>2
  <2>2. SubSeq(<<a, b>>, 1, 2) = <<<<a, b>>[1], <<a, b>>[2]>>  BY <1>2, <2>1, SubSeqTwo
  <2> QED  BY <2>2, <1>2
<1>5. Len(s) >= 1 => SubSeq(s, 1, 1) = <<s[1]>>  BY <1>1, SubSeqOne
<1>6. Len(s) >= 2 => SubSeq(s, 1, 2) = <<s[1], s[2]>>
  <2>1. Len(s) >= 2 => 1 \in 1..(Len(s) - 1) /\ 2 = 1 + 1  BY <1>1
  <2> QED  BY <2>1, <1>1, SubSeqTwo
<1>7. IsPrefix(<<a>>, s) <=> Len(s) >= 1 /\ s[1] = a
  <2>1. IsPrefix(<<a>>, s) <=> 1 <= Len(s) /\ SubSeq(<<a>>, 1, 1) = SubSeq(s, 1, 1)  BY <1>2 DEF IsPrefix
  <2>2. <<a>> = <<s[1]>> <=> a = s[1]  OBVIOUS
  <2> QED  BY <1>1, <1>3, <1>5, <2>1, <2>2
<1>8. IsPrefix(<<a, b>>, s) <=> Len(s) >= 2 /\ s[1] = a /\ s[2] = b
  <2>1. IsPrefix(<<a, b>>, s) <=> 2 <= Len(s) /\ SubSeq(<<a, b>>, 1, 2) = SubSeq(s, 1, 2)  BY <1>2 DEF IsPrefix
  <2>2. <<a, b>> = <<s[1], s[2]>> <=> a = s[1] /\ b = s[2]  OBVIOUS
  <2> QED  BY <1>1, <1>4, <1>6, <2>1, <2>2
<1> QED  BY <1>1, <1>2, <1>7, <1>8 DEF Under, s

\* The two prefixes of V1 before one name and before three.
LEMMA PrefixedOne ==
    ASSUME NEW x
    PROVE  <<"v1">> \o <<x>> = <<"v1", x>> /\ <<"api", "v1">> \o <<x>> = <<"api", "v1", x>>
<1> DEFINE S == {"v1", "api", x}
<1>1. <<"v1">> \o <<x>> = <<"v1", x>>
  <2> DEFINE s == <<"v1">>
             t == <<x>>
             u == <<"v1", x>>
  <2>1. s \in Seq(S) /\ t \in Seq(S) /\ u \in Seq(S)  OBVIOUS
  <2>2. Len(s) = 1 /\ Len(t) = 1 /\ Len(u) = 2 /\ s[1] = "v1" /\ t[1] = x /\ u[1] = "v1" /\ u[2] = x  OBVIOUS
  <2> HIDE DEF s, t, u
  <2>3. /\ s \o t \in Seq(S) /\ Len(s \o t) = Len(s) + Len(t)
        /\ \A i \in 1..(Len(s) + Len(t)) : (s \o t)[i] = IF i <= Len(s) THEN s[i] ELSE t[i - Len(s)]
      BY <2>1, ConcatProperties
  <2>4. Len(s \o t) = 2 /\ (s \o t)[1] = "v1" /\ (s \o t)[2] = x  BY <2>2, <2>3
  <2>5. \A i \in 1..2 : (s \o t)[i] = u[i]  BY <2>2, <2>4
  <2>6. s \o t = u  BY <2>1, <2>2, <2>3, <2>4, <2>5, SeqEqual
  <2> QED  BY <2>6 DEF s, t, u
<1>2. <<"api", "v1">> \o <<x>> = <<"api", "v1", x>>
  <2> DEFINE s == <<"api", "v1">>
             t == <<x>>
             u == <<"api", "v1", x>>
  <2>1. s \in Seq(S) /\ t \in Seq(S) /\ u \in Seq(S)  OBVIOUS
  <2>2. /\ Len(s) = 2 /\ Len(t) = 1 /\ Len(u) = 3 /\ s[1] = "api" /\ s[2] = "v1" /\ t[1] = x
        /\ u[1] = "api" /\ u[2] = "v1" /\ u[3] = x
      OBVIOUS
  <2> HIDE DEF s, t, u
  <2>3. /\ s \o t \in Seq(S) /\ Len(s \o t) = Len(s) + Len(t)
        /\ \A i \in 1..(Len(s) + Len(t)) : (s \o t)[i] = IF i <= Len(s) THEN s[i] ELSE t[i - Len(s)]
      BY <2>1, ConcatProperties
  <2>4. Len(s \o t) = 3 /\ (s \o t)[1] = "api" /\ (s \o t)[2] = "v1" /\ (s \o t)[3] = x  BY <2>2, <2>3
  <2>5. \A i \in 1..3 : (s \o t)[i] = u[i]  BY <2>2, <2>4
  <2>6. s \o t = u  BY <2>1, <2>2, <2>3, <2>4, <2>5, SeqEqual
  <2> QED  BY <2>6 DEF s, t, u
<1> QED  BY <1>1, <1>2

\* /v1 or /api/v1 before three names.
LEMMA PrefixedThree ==
    ASSUME NEW x, NEW y, NEW z
    PROVE  <<"v1">> \o <<x, y, z>> = <<"v1", x, y, z>> /\ <<"api", "v1">> \o <<x, y, z>> = <<"api", "v1", x, y, z>>
<1> DEFINE S == {"v1", "api", x, y, z}
<1>1. <<"v1">> \o <<x, y, z>> = <<"v1", x, y, z>>
  <2> DEFINE s == <<"v1">>
             t == <<x, y, z>>
             u == <<"v1", x, y, z>>
  <2>1. s \in Seq(S) /\ t \in Seq(S) /\ u \in Seq(S)  OBVIOUS
  <2>2. /\ Len(s) = 1 /\ Len(t) = 3 /\ Len(u) = 4 /\ s[1] = "v1" /\ t[1] = x /\ t[2] = y /\ t[3] = z
        /\ u[1] = "v1" /\ u[2] = x /\ u[3] = y /\ u[4] = z
      OBVIOUS
  <2> HIDE DEF S, s, t, u
  <2>3. /\ s \o t \in Seq(S) /\ Len(s \o t) = Len(s) + Len(t)
        /\ \A i \in 1..(Len(s) + Len(t)) : (s \o t)[i] = IF i <= Len(s) THEN s[i] ELSE t[i - Len(s)]
      BY <2>1, ConcatProperties
  <2>4. Len(s \o t) = 4 /\ (s \o t)[1] = "v1" /\ (s \o t)[2] = x /\ (s \o t)[3] = y /\ (s \o t)[4] = z
      BY <2>2, <2>3
  <2>5. \A i \in 1..4 : (s \o t)[i] = u[i]  BY <2>2, <2>4
  <2>6. Len(s \o t) = Len(u)  BY <2>2, <2>4
  <2>7. \A i \in 1..Len(s \o t) : (s \o t)[i] = u[i]  BY <2>4, <2>5
  <2>8. s \o t = u  BY <2>1, <2>3, <2>6, <2>7, SeqEqual
  <2> QED  BY <2>8 DEF s, t, u
<1>2. <<"api", "v1">> \o <<x, y, z>> = <<"api", "v1", x, y, z>>
  <2> DEFINE s == <<"api", "v1">>
             t == <<x, y, z>>
             u == <<"api", "v1", x, y, z>>
  <2>1. s \in Seq(S) /\ t \in Seq(S) /\ u \in Seq(S)  OBVIOUS
  <2>2. /\ Len(s) = 2 /\ Len(t) = 3 /\ Len(u) = 5 /\ s[1] = "api" /\ s[2] = "v1" /\ t[1] = x /\ t[2] = y
        /\ t[3] = z /\ u[1] = "api" /\ u[2] = "v1" /\ u[3] = x /\ u[4] = y /\ u[5] = z
      OBVIOUS
  <2> HIDE DEF S, s, t, u
  <2>3. /\ s \o t \in Seq(S) /\ Len(s \o t) = Len(s) + Len(t)
        /\ \A i \in 1..(Len(s) + Len(t)) : (s \o t)[i] = IF i <= Len(s) THEN s[i] ELSE t[i - Len(s)]
      BY <2>1, ConcatProperties
  <2>4. /\ Len(s \o t) = 5 /\ (s \o t)[1] = "api" /\ (s \o t)[2] = "v1"
        /\ (s \o t)[3] = x /\ (s \o t)[4] = y /\ (s \o t)[5] = z
      BY <2>2, <2>3
  <2>5. \A i \in 1..5 : (s \o t)[i] = u[i]  BY <2>2, <2>4
  <2>6. Len(s \o t) = Len(u)  BY <2>2, <2>4
  <2>7. \A i \in 1..Len(s \o t) : (s \o t)[i] = u[i]  BY <2>4, <2>5
  <2>8. s \o t = u  BY <2>1, <2>3, <2>6, <2>7, SeqEqual
  <2> QED  BY <2>8 DEF s, t, u
<1> QED  BY <1>1, <1>2

\* A path with no slash at its end, one with so many names or a slash after them, and its first names.
Is(k, x) == k.path.seg = x /\ ~k.path.slash
Beneath(k, a) == Len(k.path.seg) >= 1 /\ k.path.seg[1] = a /\ (Len(k.path.seg) > 1 \/ k.path.slash)
Beneath2(k, a, b) ==
    Len(k.path.seg) >= 2 /\ k.path.seg[1] = a /\ k.path.seg[2] = b /\ (Len(k.path.seg) > 2 \/ k.path.slash)

\* The tests of server.js, by the names of a path.
LEMMA TestsAre ==
    ASSUME NEW k, NEW S, k.path.seg \in Seq(S)
    PROVE  /\ Opens(k, 1) <=> k.host = "main" /\ Beneath(k, "api") /\ ~Beneath2(k, "api", "v1")
           /\ Opens(k, 2) <=> k.host = "main" /\ (Is(k, <<"admin">>) \/ Beneath(k, "admin"))
           /\ Opens(k, 3) <=> /\ k.host = "main" /\ k.method \in {"GET", "HEAD"} /\ k.path.ext
                              /\ ~Beneath(k, "docs") /\ ~Is(k, <<"prices.json">>)
           /\ Opens(k, 4) <=> /\ k.host = "main" /\ k.method \in {"GET", "HEAD"}
                              /\ k.path.seg = <<>> \/ k.path.seg \in UiRoutes
           /\ Opens(k, 5) <=> Is(k, <<"docs">>)
           /\ Opens(k, 6) <=> k.host = "docs" \/ Beneath(k, "docs")
           /\ Opens(k, 7) <=> Is(k, <<"prices.json">>) \/ Is(k, <<"prices">>)
           /\ Opens(k, 8) <=> k.method = "OPTIONS"
           /\ Opens(k, 9) <=> Beneath(k, "local")
           /\ Opens(k, 10) <=> k.method = "GET" /\ (Is(k, <<"v1", "models">>) \/ Is(k, <<"api", "v1", "models">>))
           /\ Opens(k, 11) <=> k.method = "POST" /\ Beneath2(k, "otel", "v1")
           /\ Opens(k, 12) <=> LET n == Len(k.path.seg)
                               IN /\ k.method = "POST" /\ ~k.path.slash /\ n > 1 /\ k.path.seg[n - 1] = "images"
                                  /\ k.path.seg[n] \in {"generations", "edits", "variations"}
           /\ Opens(k, 13) <=> k.method = "GET" /\ (Is(k, <<"v1", "templates">>) \/ Is(k, <<"v1", "loras">>))
           /\ Opens(k, 14) <=> k.method = "GET" /\ (\/ Is(k, <<"v1", "image-templates">>)
                                                    \/ Is(k, <<"api", "v1", "image-templates">>))
           /\ Opens(k, 15) <=> k.method = "GET" /\ (\/ Is(k, <<"v1", "image-templates", "slug", "reference">>)
                                                    \/ Is(k, <<"api", "v1", "image-templates", "slug", "reference">>))
<1> DEFINE p == k.path
           s == k.path.seg
           n == Len(s)
<1>0. n \in Nat  OBVIOUS
<1>1. \A a : Under(p, <<a>>) <=> Beneath(k, a)  BY UnderIs DEF Beneath
<1>2. \A a, b : Under(p, <<a, b>>) <=> Beneath2(k, a, b)  BY UnderIs DEF Beneath2
<1>3. \A x : Exactly(p, x) <=> Is(k, x)  BY DEF Exactly, Is
<1>4. /\ V1(p, <<"models">>) <=> Is(k, <<"v1", "models">>) \/ Is(k, <<"api", "v1", "models">>)
      /\ V1(p, <<"image-templates">>) <=> Is(k, <<"v1", "image-templates">>) \/ Is(k, <<"api", "v1", "image-templates">>)
    BY <1>3, PrefixedOne DEF V1
<1>5. V1(p, <<"image-templates", "slug", "reference">>) <=>
         \/ Is(k, <<"v1", "image-templates", "slug", "reference">>)
         \/ Is(k, <<"api", "v1", "image-templates", "slug", "reference">>)
    BY <1>3, PrefixedThree DEF V1
<1>6. n > 1 => LastTwo(p) = <<s[n - 1], s[n]>>
  <2>1. n > 1 => n - 1 \in 1..(n - 1) /\ n = (n - 1) + 1  BY <1>0
  <2>2. n > 1 => SubSeq(s, n - 1, n) = <<s[n - 1], s[n]>>  BY <2>1, SubSeqTwo
  <2> QED  BY <2>2 DEF LastTwo
<1>7. n > 1 => (LastTwo(p) \in {<<"images", i>> : i \in {"generations", "edits", "variations"}} <=>
                s[n - 1] = "images" /\ s[n] \in {"generations", "edits", "variations"})
    BY <1>6
<1>8. Opens(k, 1) <=> k.host = "main" /\ Under(p, <<"api">>) /\ ~Under(p, <<"api", "v1">>)  BY DEF Opens, Tests
<1>9. Opens(k, 2) <=> k.host = "main" /\ (Exactly(p, <<"admin">>) \/ Under(p, <<"admin">>))  BY DEF Opens, Tests
<1>10. Opens(k, 3) <=> /\ k.host = "main" /\ k.method \in {"GET", "HEAD"} /\ p.ext
                       /\ ~Under(p, <<"docs">>) /\ ~Exactly(p, <<"prices.json">>)
    BY DEF Opens, Tests, Reads
<1>11. Opens(k, 4) <=> k.host = "main" /\ k.method \in {"GET", "HEAD"} /\ (s = <<>> \/ s \in UiRoutes)
    BY DEF Opens, Tests, Reads
<1>12. /\ Opens(k, 5) <=> Exactly(p, <<"docs">>)
       /\ Opens(k, 6) <=> k.host = "docs" \/ Under(p, <<"docs">>)
       /\ Opens(k, 7) <=> Exactly(p, <<"prices.json">>) \/ Exactly(p, <<"prices">>)
       /\ Opens(k, 8) <=> k.method = "OPTIONS"
       /\ Opens(k, 9) <=> Under(p, <<"local">>)
       /\ Opens(k, 10) <=> k.method = "GET" /\ V1(p, <<"models">>)
       /\ Opens(k, 11) <=> k.method = "POST" /\ Under(p, <<"otel", "v1">>)
    BY DEF Opens, Tests
<1>13. Opens(k, 12) <=> /\ k.method = "POST" /\ ~p.slash /\ n > 1
                        /\ LastTwo(p) \in {<<"images", i>> : i \in {"generations", "edits", "variations"}}
    BY DEF Opens, Tests
<1>14. Opens(k, 13) <=> k.method = "GET" /\ (\E c \in {"templates", "loras"} : Exactly(p, <<"v1", c>>))
    BY DEF Opens, Tests
<1>15. /\ Opens(k, 14) <=> k.method = "GET" /\ V1(p, <<"image-templates">>)
       /\ Opens(k, 15) <=> k.method = "GET" /\ V1(p, <<"image-templates", "slug", "reference">>)
    BY DEF Opens, Tests
<1>16. Opens(k, 12) <=> /\ k.method = "POST" /\ ~k.path.slash /\ n > 1 /\ s[n - 1] = "images"
                        /\ s[n] \in {"generations", "edits", "variations"}
    BY <1>7, <1>13
<1> HIDE DEF p
<1>17. Opens(k, 1) <=> k.host = "main" /\ Beneath(k, "api") /\ ~Beneath2(k, "api", "v1")  BY <1>1, <1>2, <1>8
<1>18. Opens(k, 2) <=> k.host = "main" /\ (Is(k, <<"admin">>) \/ Beneath(k, "admin"))  BY <1>1, <1>3, <1>9
<1>19. Opens(k, 3) <=> /\ k.host = "main" /\ k.method \in {"GET", "HEAD"} /\ p.ext
                       /\ ~Beneath(k, "docs") /\ ~Is(k, <<"prices.json">>)
    BY <1>1, <1>3, <1>10
<1>20. /\ Opens(k, 5) <=> Is(k, <<"docs">>)
       /\ Opens(k, 6) <=> k.host = "docs" \/ Beneath(k, "docs")
       /\ Opens(k, 7) <=> Is(k, <<"prices.json">>) \/ Is(k, <<"prices">>)
       /\ Opens(k, 8) <=> k.method = "OPTIONS"
       /\ Opens(k, 9) <=> Beneath(k, "local")
       /\ Opens(k, 11) <=> k.method = "POST" /\ Beneath2(k, "otel", "v1")
    BY <1>1, <1>2, <1>3, <1>12
<1>21. Opens(k, 13) <=> k.method = "GET" /\ (Is(k, <<"v1", "templates">>) \/ Is(k, <<"v1", "loras">>))
    BY <1>3, <1>14
<1> QED  BY <1>4, <1>5, <1>11, <1>12, <1>15, <1>16, <1>17, <1>18, <1>19, <1>20, <1>21 DEF p
\* The doors of server.js, each behind those before it.
Shut(k, n) == \A i \in 1..n : ~Opens(k, i)

\* A further test of the server that does not hold.
LEMMA ShutIs ==
    ASSUME NEW k, NEW n \in Nat, NEW m, m = n + 1, Shut(k, n), ~Opens(k, m)
    PROVE  Shut(k, m)
BY DEF Shut

\* The first test that holds opens its door: the order of the if-chain of server.js, a door at a time.
LEMMA DoorIs ==
    ASSUME NEW k
    PROVE  /\ Opens(k, 1) => Door(k) = "admin api"
           /\ Shut(k, 1) /\ Opens(k, 2) => Door(k) = "tombstone"
           /\ Shut(k, 2) /\ Opens(k, 3) => Door(k) = "asset"
           /\ Shut(k, 3) /\ Opens(k, 4) => Door(k) = "panel"
           /\ Shut(k, 4) /\ Opens(k, 5) => Door(k) = "to docs"
           /\ Shut(k, 5) /\ Opens(k, 6) => Door(k) = "docs"
           /\ Shut(k, 6) /\ Opens(k, 7) => Door(k) = "prices"
           /\ Shut(k, 7) /\ Opens(k, 8) => Door(k) = "cors"
           /\ Shut(k, 8) /\ Opens(k, 9) => Door(k) = "local"
           /\ Shut(k, 9) /\ Opens(k, 10) => Door(k) = "models"
           /\ Shut(k, 10) /\ Opens(k, 11) => Door(k) = "otel"
           /\ Shut(k, 11) /\ Opens(k, 12) => Door(k) = "images"
           /\ Shut(k, 12) /\ Opens(k, 13) => Door(k) = "image catalog"
           /\ Shut(k, 13) /\ Opens(k, 14) => Door(k) = "templates"
           /\ Shut(k, 14) /\ Opens(k, 15) => Door(k) = "reference"
           /\ Shut(k, 15) => Door(k) = "router"
<1>1. \A n \in 1..16 : Opens(k, n) /\ Shut(k, n - 1) => Door(k) = Tests(k)[n][2]  BY FirstDoor DEF Shut
<1>2. Shut(k, 0)  BY DEF Shut
<1>3. Opens(k, 1) => Door(k) = "admin api"
  <2>1. 1 \in 1..16 /\ 1 - 1 = 0  OBVIOUS
  <2> QED  BY <1>1, <1>2, <2>1, DoorNames
<1>4. \A n, m : m = n - 1 /\ n \in 1..16 /\ Shut(k, m) /\ Opens(k, n) => Door(k) = Tests(k)[n][2]
  BY <1>1
<1>5. Shut(k, 1) /\ Opens(k, 2) => Door(k) = "tombstone"  BY <1>4, 1 = 2 - 1, 2 \in 1..16, DoorNames
<1>6. Shut(k, 2) /\ Opens(k, 3) => Door(k) = "asset"  BY <1>4, 2 = 3 - 1, 3 \in 1..16, DoorNames
<1>7. Shut(k, 3) /\ Opens(k, 4) => Door(k) = "panel"  BY <1>4, 3 = 4 - 1, 4 \in 1..16, DoorNames
<1>8. Shut(k, 4) /\ Opens(k, 5) => Door(k) = "to docs"  BY <1>4, 4 = 5 - 1, 5 \in 1..16, DoorNames
<1>9. Shut(k, 5) /\ Opens(k, 6) => Door(k) = "docs"  BY <1>4, 5 = 6 - 1, 6 \in 1..16, DoorNames
<1>10. Shut(k, 6) /\ Opens(k, 7) => Door(k) = "prices"  BY <1>4, 6 = 7 - 1, 7 \in 1..16, DoorNames
<1>11. Shut(k, 7) /\ Opens(k, 8) => Door(k) = "cors"  BY <1>4, 7 = 8 - 1, 8 \in 1..16, DoorNames
<1>12. Shut(k, 8) /\ Opens(k, 9) => Door(k) = "local"  BY <1>4, 8 = 9 - 1, 9 \in 1..16, DoorNames
<1>13. Shut(k, 9) /\ Opens(k, 10) => Door(k) = "models"  BY <1>4, 9 = 10 - 1, 10 \in 1..16, DoorNames
<1>14. Shut(k, 10) /\ Opens(k, 11) => Door(k) = "otel"  BY <1>4, 10 = 11 - 1, 11 \in 1..16, DoorNames
<1>15. Shut(k, 11) /\ Opens(k, 12) => Door(k) = "images"  BY <1>4, 11 = 12 - 1, 12 \in 1..16, DoorNames
<1>16. Shut(k, 12) /\ Opens(k, 13) => Door(k) = "image catalog"  BY <1>4, 12 = 13 - 1, 13 \in 1..16, DoorNames
<1>17. Shut(k, 13) /\ Opens(k, 14) => Door(k) = "templates"  BY <1>4, 13 = 14 - 1, 14 \in 1..16, DoorNames
<1>18. Shut(k, 14) /\ Opens(k, 15) => Door(k) = "reference"  BY <1>4, 14 = 15 - 1, 15 \in 1..16, DoorNames
<1>19. Shut(k, 15) => Door(k) = "router"  BY <1>4, 15 = 16 - 1, 16 \in 1..16, DoorNames
<1> QED  BY <1>3, <1>5, <1>6, <1>7, <1>8, <1>9, <1>10, <1>11, <1>12, <1>13, <1>14, <1>15, <1>16, <1>17, <1>18, <1>19

\* A path of inference passes the doors of the panel and of the documentation.
LEMMA PastThePanel ==
    ASSUME NEW k, NEW S, k.path.seg \in Seq(S), k.host = "main", k.path.slash = FALSE, k.path.ext = FALSE,
           Len(k.path.seg) >= 2,
           k.path.seg[1] = "v1" \/ (k.path.seg[1] = "api" /\ k.path.seg[2] = "v1" /\ Len(k.path.seg) > 2)
    PROVE  Shut(k, 7) /\ ~Opens(k, 9) /\ ~Opens(k, 11)
<1> DEFINE s == k.path.seg
<1>1. Len(s) \in Nat /\ Len(<<>>) = 0 /\ \A x : Len(<<x>>) = 1  OBVIOUS
<1>2. s \notin UiRoutes  BY DoorsAssumption
<1>3. ~Beneath(k, "api") \/ Beneath2(k, "api", "v1")  BY DEF Beneath, Beneath2
<1>4. /\ ~Beneath(k, "admin") /\ ~Beneath(k, "docs") /\ ~Beneath(k, "local") /\ ~Beneath2(k, "otel", "v1")
    BY DEF Beneath, Beneath2
<1>5. ~Is(k, <<"admin">>) /\ ~Is(k, <<"docs">>) /\ ~Is(k, <<"prices.json">>) /\ ~Is(k, <<"prices">>)
    BY <1>1 DEF Is
<1>6. ~Opens(k, 1) /\ ~Opens(k, 2)  BY <1>3, <1>4, <1>5, TestsAre
<1>7. ~Opens(k, 3) /\ ~Opens(k, 4)
  <2>1. s # <<>>  BY <1>1
  <2>2. ~Opens(k, 3)  BY TestsAre
  <2>3. Opens(k, 4) => s = <<>> \/ s \in UiRoutes  BY TestsAre
  <2> QED  BY <2>1, <2>2, <2>3, <1>2
<1>8. ~Opens(k, 5) /\ ~Opens(k, 6) /\ ~Opens(k, 7)  BY <1>4, <1>5, TestsAre
<1>9. ~Opens(k, 9) /\ ~Opens(k, 11)  BY <1>4, TestsAre
<1> QED  BY <1>6, <1>7, <1>8, <1>9 DEF Shut

\* The doors of the panel and of the documentation.
LEMMA ToThePanel ==
    ASSUME NEW k, k.host = "main", k.path.ext = FALSE, k.method \in {"GET", "HEAD"},
           k.path.seg = <<>> \/ k.path.seg \in UiRoutes
    PROVE  Door(k) = "panel"
<1> DEFINE s == k.path.seg
<1>1. s \in Seq(STRING) /\ (s # <<>> => s[1] \notin {"api", "admin"} /\ Len(s) > 0)
  <2>1. <<>> \in Seq(STRING)  OBVIOUS
  <2> QED  BY <2>1, DoorsAssumption
<1>2. ~Beneath(k, "api") /\ ~Beneath(k, "admin")
  <2>1. CASE s = <<>>
    <3>1. Len(s) = 0  BY <2>1
    <3> QED  BY <3>1 DEF Beneath
  <2>2. CASE s # <<>>  BY <1>1, <2>2 DEF Beneath
  <2> QED  BY <2>1, <2>2
<1>3. ~Is(k, <<"admin">>)
  <2>1. <<"admin">> # <<>> /\ <<"admin">>[1] = "admin"  OBVIOUS
  <2> QED  BY <1>1, <2>1 DEF Is
<1>4. ~Opens(k, 1) /\ ~Opens(k, 2) /\ ~Opens(k, 3) /\ Opens(k, 4)  BY <1>1, <1>2, <1>3, TestsAre
<1>5. Shut(k, 3)  BY <1>4 DEF Shut
<1> QED  BY <1>4, <1>5, DoorIs

\* The paths of the admin API reach it.
LEMMA ToTheAdmin ==
    ASSUME NEW k, k.host = "main", k.path.slash = FALSE,
           k.path.seg \in {<<"api", "state">>, <<"api", "login">>}
    PROVE  Door(k) = "admin api"
<1>1. k.path.seg \in Seq({"api", "state", "login"})
  <2>1. <<"api", "state">> \in Seq({"api", "state", "login"})  OBVIOUS
  <2>2. <<"api", "login">> \in Seq({"api", "state", "login"})  OBVIOUS
  <2> QED  BY <2>1, <2>2
<1>2. Beneath(k, "api") /\ ~Beneath2(k, "api", "v1")  BY DEF Beneath, Beneath2
<1>3. Opens(k, 1)  BY <1>1, <1>2, TestsAre
<1> QED  BY <1>3, DoorIs

\* A client of the old /admin/api is told that it moved.
LEMMA ToTheTombstone ==
    ASSUME NEW k, k.host = "main", k.path.slash = FALSE, k.path.seg = <<"admin", "api", "login">>
    PROVE  Door(k) = "tombstone"
<1>1. k.path.seg \in Seq({"admin", "api", "login"})  OBVIOUS
<1>2. Beneath(k, "admin") /\ ~Beneath(k, "api")  BY DEF Beneath
<1>3. ~Opens(k, 1) /\ Opens(k, 2)  BY <1>1, <1>2, TestsAre
<1>4. Shut(k, 1)  BY <1>3 DEF Shut
<1> QED  BY <1>3, <1>4, DoorIs

\* A file of the panel is served as one.
LEMMA ToAnAsset ==
    ASSUME NEW k, k.host = "main", k.method = "GET", k.path.slash = FALSE, k.path.ext = TRUE,
           k.path.seg = <<"_next", "x">>
    PROVE  Door(k) = "asset"
<1>1. k.path.seg \in Seq({"_next", "x"})  OBVIOUS
<1>2. ~Beneath(k, "admin") /\ ~Beneath(k, "api") /\ ~Beneath(k, "docs")  BY DEF Beneath
<1>3. ~Is(k, <<"admin">>) /\ ~Is(k, <<"prices.json">>)  BY DEF Is
<1>4. ~Opens(k, 1) /\ ~Opens(k, 2) /\ Opens(k, 3)  BY <1>1, <1>2, <1>3, TestsAre
<1>5. Shut(k, 2)  BY <1>4 DEF Shut
<1> QED  BY <1>4, <1>5, DoorIs

\* The documentation of the main host, and the redirect to it of the path without its slash.
LEMMA ToTheDocs ==
    ASSUME NEW k, k.host = "main", k.method = "GET",
           \/ k.path.seg = <<"docs">> /\ k.path.ext = FALSE
           \/ k.path.seg = <<"docs", "identity.md">> /\ k.path.slash = FALSE
    PROVE  /\ Is(k, <<"docs">>) => Door(k) = "to docs"
           /\ Beneath(k, "docs") => Door(k) = "docs"
<1>1. k.path.seg \in Seq({"docs", "identity.md"}) /\ k.path.seg # <<>> /\ k.path.seg[1] = "docs"
  <2>1. <<"docs">> \in Seq({"docs", "identity.md"}) /\ <<"docs">> # <<>> /\ <<"docs">>[1] = "docs"  OBVIOUS
  <2>2. /\ <<"docs", "identity.md">> \in Seq({"docs", "identity.md"})
        /\ <<"docs", "identity.md">> # <<>> /\ <<"docs", "identity.md">>[1] = "docs"
      OBVIOUS
  <2> QED  BY <2>1, <2>2
<1>2. k.path.seg \notin UiRoutes  BY <1>1, DoorsAssumption
<1>3. ~Beneath(k, "admin") /\ ~Beneath(k, "api")  BY <1>1 DEF Beneath
<1>4. ~Is(k, <<"admin">>)  BY DEF Is
<1>5. ~Opens(k, 1) /\ ~Opens(k, 2)  BY <1>1, <1>3, <1>4, TestsAre
<1>6. ~Opens(k, 4)
  <2>1. Opens(k, 4) => k.path.seg = <<>> \/ k.path.seg \in UiRoutes  BY <1>1, TestsAre
  <2> QED  BY <1>1, <1>2, <2>1
<1>7. Is(k, <<"docs">>) => ~Opens(k, 3) /\ Opens(k, 5)
  <2>1. Is(k, <<"docs">>) => ~k.path.ext
    <3>1. <<"docs">> # <<"docs", "identity.md">>  OBVIOUS
    <3> QED  BY <3>1 DEF Is
  <2> QED  BY <1>1, <2>1, TestsAre
<1>8. Beneath(k, "docs") => ~Opens(k, 3) /\ Opens(k, 6)  BY <1>1, TestsAre
<1>9. Beneath(k, "docs") => ~Is(k, <<"docs">>)
  <2> SUFFICES ASSUME Is(k, <<"docs">>) PROVE ~Beneath(k, "docs")  OBVIOUS
  <2>1. Len(<<"docs">>) = 1  OBVIOUS
  <2>2. Len(k.path.seg) = 1 /\ ~k.path.slash  BY <2>1 DEF Is
  <2>3. ~(Len(k.path.seg) > 1)  BY <2>2
  <2> QED  BY <2>2, <2>3 DEF Beneath
<1>10. ~Is(k, <<"docs">>) => ~Opens(k, 5)  BY <1>1, TestsAre
<1>11. Is(k, <<"docs">>) => Shut(k, 4)  BY <1>5, <1>6, <1>7 DEF Shut
<1>12. Beneath(k, "docs") => Shut(k, 5)  BY <1>5, <1>6, <1>8, <1>9, <1>10 DEF Shut
<1> QED  BY <1>7, <1>8, <1>11, <1>12, DoorIs

\* Everything on the host of the documentation is documentation.
LEMMA ToTheDocsHost ==
    ASSUME NEW k, k.host = "docs", k.path.seg \in {<<>>, <<"identity.md">>}, k.path.seg = <<>> => k.path.slash = TRUE
    PROVE  Door(k) = "docs"
<1>1. k.path.seg \in Seq({"identity.md"})
  <2>1. <<>> \in Seq({"identity.md"}) /\ <<"identity.md">> \in Seq({"identity.md"})  OBVIOUS
  <2> QED  BY <2>1
<1>2. ~Is(k, <<"docs">>)  BY DEF Is
<1>3. ~Opens(k, 1) /\ ~Opens(k, 2) /\ ~Opens(k, 3) /\ ~Opens(k, 4)  BY <1>1, TestsAre
<1>4. ~Opens(k, 5) /\ Opens(k, 6)  BY <1>1, <1>2, TestsAre
<1>5. Shut(k, 5)  BY <1>3, <1>4 DEF Shut
<1> QED  BY <1>4, <1>5, DoorIs

\* The price list is neither a file nor a page of the panel.
LEMMA ToThePrices ==
    ASSUME NEW k, k.host = "main", k.path.slash = FALSE, k.path.seg = <<"prices.json">>
    PROVE  Door(k) = "prices"
<1>1. k.path.seg \in Seq({"prices.json"}) /\ k.path.seg # <<>> /\ k.path.seg[1] = "prices.json"  OBVIOUS
<1>2. k.path.seg \notin UiRoutes  BY <1>1, DoorsAssumption
<1>3. ~Beneath(k, "admin") /\ ~Beneath(k, "api") /\ ~Beneath(k, "docs")  BY <1>1 DEF Beneath
<1>4. ~Is(k, <<"admin">>) /\ ~Is(k, <<"docs">>) /\ Is(k, <<"prices.json">>)  BY DEF Is
<1>5. ~Opens(k, 1) /\ ~Opens(k, 2) /\ ~Opens(k, 3)  BY <1>1, <1>3, <1>4, TestsAre
<1>6. ~Opens(k, 4)
  <2>1. Opens(k, 4) => k.path.seg = <<>> \/ k.path.seg \in UiRoutes  BY <1>1, TestsAre
  <2> QED  BY <1>1, <1>2, <2>1
<1>7. ~Opens(k, 5) /\ ~Opens(k, 6) /\ Opens(k, 7)  BY <1>1, <1>3, <1>4, TestsAre
<1>8. Shut(k, 6)  BY <1>5, <1>6, <1>7 DEF Shut
<1> QED  BY <1>7, <1>8, DoorIs

\* The doors of inference.
LEMMA ToTheLocalModel ==
    ASSUME NEW k, k.host = "main", k.method = "POST", k.path.slash = FALSE, k.path.ext = FALSE,
           k.path.seg = <<"local", "v1", "chat", "completions">>
    PROVE  Door(k) = "local"
<1>1. k.path.seg \in Seq({"local", "v1", "chat", "completions"})  OBVIOUS
<1>2. ~Beneath(k, "admin") /\ ~Beneath(k, "api") /\ ~Beneath(k, "docs") /\ Beneath(k, "local")  BY DEF Beneath
<1>3. ~Is(k, <<"admin">>) /\ ~Is(k, <<"docs">>) /\ ~Is(k, <<"prices.json">>) /\ ~Is(k, <<"prices">>)  BY DEF Is
<1>4. ~Opens(k, 1) /\ ~Opens(k, 2) /\ ~Opens(k, 3) /\ ~Opens(k, 4)  BY <1>1, <1>2, <1>3, TestsAre
<1>5. ~Opens(k, 5) /\ ~Opens(k, 6) /\ ~Opens(k, 7) /\ ~Opens(k, 8) /\ Opens(k, 9)  BY <1>1, <1>2, <1>3, TestsAre
<1>6. Shut(k, 8)  BY <1>4, <1>5 DEF Shut
<1> QED  BY <1>5, <1>6, DoorIs

\* What an agent reports over OTLP reaches the telemetry.
LEMMA ToTelemetry ==
    ASSUME NEW k, k.host = "main", k.method = "POST", k.path.slash = FALSE, k.path.ext = FALSE,
           k.path.seg = <<"otel", "v1", "logs">>
    PROVE  Door(k) = "otel"
<1>1. k.path.seg \in Seq({"otel", "v1", "logs"})  OBVIOUS
<1>2. ~Beneath(k, "admin") /\ ~Beneath(k, "api") /\ ~Beneath(k, "docs") /\ ~Beneath(k, "local")  BY DEF Beneath
<1>3. ~Is(k, <<"admin">>) /\ ~Is(k, <<"docs">>) /\ ~Is(k, <<"prices.json">>) /\ ~Is(k, <<"prices">>)  BY DEF Is
<1>4. Beneath2(k, "otel", "v1")  BY DEF Beneath2
<1>5. ~Opens(k, 1) /\ ~Opens(k, 2) /\ ~Opens(k, 3) /\ ~Opens(k, 4)  BY <1>1, <1>2, <1>3, TestsAre
<1>6. ~Opens(k, 5) /\ ~Opens(k, 6) /\ ~Opens(k, 7) /\ ~Opens(k, 8) /\ ~Opens(k, 9)  BY <1>1, <1>2, <1>3, TestsAre
<1>7. ~Opens(k, 10) /\ Opens(k, 11)  BY <1>1, <1>4, TestsAre
<1>8. Shut(k, 10)  BY <1>5, <1>6, <1>7 DEF Shut
<1> QED  BY <1>7, <1>8, DoorIs

\* A preflight of a browser is answered before any lane is looked for.
LEMMA ToPreflight ==
    ASSUME NEW k, k.host = "main", k.method = "OPTIONS", k.path.slash = FALSE, k.path.ext = FALSE,
           k.path.seg \in {<<"v1", "messages">>}
    PROVE  Door(k) = "cors"
<1> DEFINE S == {"v1", "messages"}
<1>1. /\ k.path.seg \in Seq(S) /\ Len(k.path.seg) >= 2
      /\ k.path.seg[1] = "v1" \/ (k.path.seg[1] = "api" /\ k.path.seg[2] = "v1" /\ Len(k.path.seg) > 2)
  <2>1. CASE k.path.seg = <<"v1", "messages">>
    <3>1. <<"v1", "messages">> \in Seq(S) /\ Len(<<"v1", "messages">>) = 2 /\ <<"v1", "messages">>[1] = "v1"  OBVIOUS
    <3> QED  BY <2>1, <3>1
  <2> QED  BY <2>1
<1>2. Shut(k, 7) /\ ~Opens(k, 9) /\ ~Opens(k, 11)
  <2> HIDE DEF S
  <2> QED  BY <1>1, PastThePanel
<1>3. Opens(k, 8)  BY <1>1, TestsAre
<1> QED  BY <1>2, <1>3, DoorIs

\* The list of the models, under either prefix.
LEMMA ToTheModels ==
    ASSUME NEW k, k.host = "main", k.method = "GET", k.path.slash = FALSE, k.path.ext = FALSE,
           k.path.seg \in {<<"v1", "models">>, <<"api", "v1", "models">>}
    PROVE  Door(k) = "models"
<1> DEFINE S == {"v1", "models", "api"}
<1>1. /\ k.path.seg \in Seq(S) /\ Len(k.path.seg) >= 2
      /\ k.path.seg[1] = "v1" \/ (k.path.seg[1] = "api" /\ k.path.seg[2] = "v1" /\ Len(k.path.seg) > 2)
  <2>1. CASE k.path.seg = <<"v1", "models">>
    <3>1. <<"v1", "models">> \in Seq(S) /\ Len(<<"v1", "models">>) = 2 /\ <<"v1", "models">>[1] = "v1"  OBVIOUS
    <3> QED  BY <2>1, <3>1
  <2>2. CASE k.path.seg = <<"api", "v1", "models">>
    <3>1. /\ <<"api", "v1", "models">> \in Seq(S) /\ Len(<<"api", "v1", "models">>) = 3
          /\ <<"api", "v1", "models">>[1] = "api" /\ <<"api", "v1", "models">>[2] = "v1"
          OBVIOUS
    <3> QED  BY <2>2, <3>1
  <2> QED  BY <2>1, <2>2
<1>2. Shut(k, 7) /\ ~Opens(k, 9) /\ ~Opens(k, 11)
  <2> HIDE DEF S
  <2> QED  BY <1>1, PastThePanel
<1>3. Is(k, <<"v1", "models">>) \/ Is(k, <<"api", "v1", "models">>)  BY DEF Is
<1> HIDE DEF S
<1>4. ~Opens(k, 8) /\ Opens(k, 10)  BY <1>1, <1>3, TestsAre
<1>5. Shut(k, 9)  BY <1>2, <1>4 DEF Shut
<1> QED  BY <1>4, <1>5, DoorIs

\* An image operation is told by its last two names, under either prefix.
LEMMA ToTheImages ==
    ASSUME NEW k, k.host = "main", k.method = "POST", k.path.slash = FALSE, k.path.ext = FALSE,
           k.path.seg \in {<<"v1", "images", "generations">>, <<"api", "v1", "images", "variations">>}
    PROVE  Door(k) = "images"
<1> DEFINE S == {"v1", "images", "generations", "api", "variations"}
<1>1. /\ k.path.seg \in Seq(S) /\ Len(k.path.seg) >= 2
      /\ k.path.seg[1] = "v1" \/ (k.path.seg[1] = "api" /\ k.path.seg[2] = "v1" /\ Len(k.path.seg) > 2)
  <2>1. CASE k.path.seg = <<"v1", "images", "generations">>
    <3>1. /\ <<"v1", "images", "generations">> \in Seq(S) /\ Len(<<"v1", "images", "generations">>) = 3
          /\ <<"v1", "images", "generations">>[1] = "v1"
          OBVIOUS
    <3> QED  BY <2>1, <3>1
  <2>2. CASE k.path.seg = <<"api", "v1", "images", "variations">>
    <3>1. /\ <<"api", "v1", "images", "variations">> \in Seq(S)
          /\ Len(<<"api", "v1", "images", "variations">>) = 4
          /\ <<"api", "v1", "images", "variations">>[1] = "api"
          /\ <<"api", "v1", "images", "variations">>[2] = "v1"
          OBVIOUS
    <3> QED  BY <2>2, <3>1
  <2> QED  BY <2>1, <2>2
<1>2. Shut(k, 7) /\ ~Opens(k, 9) /\ ~Opens(k, 11)
  <2> HIDE DEF S
  <2> QED  BY <1>1, PastThePanel
<1>3. LET n == Len(k.path.seg)
      IN n > 1 /\ k.path.seg[n - 1] = "images" /\ k.path.seg[n] \in {"generations", "edits", "variations"}
  <2>1. CASE k.path.seg = <<"v1", "images", "generations">>
    <3>1. Len(k.path.seg) = 3 /\ k.path.seg[2] = "images" /\ k.path.seg[3] = "generations"  BY <2>1
    <3> QED  BY <3>1
  <2>2. CASE k.path.seg = <<"api", "v1", "images", "variations">>
    <3>1. Len(k.path.seg) = 4 /\ k.path.seg[3] = "images" /\ k.path.seg[4] = "variations"  BY <2>2
    <3> QED  BY <3>1
  <2> QED  BY <2>1, <2>2
<1> HIDE DEF S
<1>4. ~Opens(k, 8) /\ ~Opens(k, 10)  BY <1>1, TestsAre
<1>5. Opens(k, 12)  BY <1>1, <1>3, TestsAre
<1>6. Shut(k, 11)  BY <1>2, <1>4 DEF Shut
<1> QED  BY <1>5, <1>6, DoorIs

\* The catalog of the image server.
LEMMA ToTheImageCatalog ==
    ASSUME NEW k, k.host = "main", k.method = "GET", k.path.slash = FALSE, k.path.ext = FALSE,
           k.path.seg \in {<<"v1", "templates">>}
    PROVE  Door(k) = "image catalog"
<1> DEFINE S == {"v1", "templates"}
<1>1. /\ k.path.seg \in Seq(S) /\ Len(k.path.seg) >= 2
      /\ k.path.seg[1] = "v1" \/ (k.path.seg[1] = "api" /\ k.path.seg[2] = "v1" /\ Len(k.path.seg) > 2)
  <2>1. CASE k.path.seg = <<"v1", "templates">>
    <3>1. <<"v1", "templates">> \in Seq(S) /\ Len(<<"v1", "templates">>) = 2 /\ <<"v1", "templates">>[1] = "v1"  OBVIOUS
    <3> QED  BY <2>1, <3>1
  <2> QED  BY <2>1
<1>2. Shut(k, 7) /\ ~Opens(k, 9) /\ ~Opens(k, 11)
  <2> HIDE DEF S
  <2> QED  BY <1>1, PastThePanel
<1>3. Is(k, <<"v1", "templates">>) /\ ~Is(k, <<"v1", "models">>) /\ ~Is(k, <<"api", "v1", "models">>)  BY DEF Is
<1> HIDE DEF S
<1>4. ~Opens(k, 8) /\ ~Opens(k, 10) /\ ~Opens(k, 12) /\ Opens(k, 13)  BY <1>1, <1>3, TestsAre
<1>5. Shut(k, 12)  BY <1>2, <1>4 DEF Shut
<1> QED  BY <1>4, <1>5, DoorIs

\* The image templates of the router, under either prefix.
LEMMA ToTheTemplates ==
    ASSUME NEW k, k.host = "main", k.method = "GET", k.path.slash = FALSE, k.path.ext = FALSE,
           k.path.seg \in {<<"v1", "image-templates">>, <<"api", "v1", "image-templates">>}
    PROVE  Door(k) = "templates"
<1> DEFINE S == {"v1", "image-templates", "api"}
<1>1. /\ k.path.seg \in Seq(S) /\ Len(k.path.seg) >= 2
      /\ k.path.seg[1] = "v1" \/ (k.path.seg[1] = "api" /\ k.path.seg[2] = "v1" /\ Len(k.path.seg) > 2)
  <2>1. CASE k.path.seg = <<"v1", "image-templates">>
    <3>1. /\ <<"v1", "image-templates">> \in Seq(S) /\ Len(<<"v1", "image-templates">>) = 2
          /\ <<"v1", "image-templates">>[1] = "v1"
          OBVIOUS
    <3> QED  BY <2>1, <3>1
  <2>2. CASE k.path.seg = <<"api", "v1", "image-templates">>
    <3>1. /\ <<"api", "v1", "image-templates">> \in Seq(S) /\ Len(<<"api", "v1", "image-templates">>) = 3
          /\ <<"api", "v1", "image-templates">>[1] = "api" /\ <<"api", "v1", "image-templates">>[2] = "v1"
          OBVIOUS
    <3> QED  BY <2>2, <3>1
  <2> QED  BY <2>1, <2>2
<1>2. Shut(k, 7) /\ ~Opens(k, 9) /\ ~Opens(k, 11)
  <2> HIDE DEF S
  <2> QED  BY <1>1, PastThePanel
<1>3. Is(k, <<"v1", "image-templates">>) \/ Is(k, <<"api", "v1", "image-templates">>)  BY DEF Is
<1>4. /\ ~Is(k, <<"v1", "models">>) /\ ~Is(k, <<"api", "v1", "models">>)
      /\ ~Is(k, <<"v1", "templates">>) /\ ~Is(k, <<"v1", "loras">>)
    BY DEF Is
<1> HIDE DEF S
<1>5. ~Opens(k, 8) /\ ~Opens(k, 10) /\ ~Opens(k, 12) /\ ~Opens(k, 13)  BY <1>1, <1>4, TestsAre
<1>6. Opens(k, 14)  BY <1>1, <1>3, TestsAre
<1>7. Shut(k, 13)  BY <1>2, <1>5 DEF Shut
<1> QED  BY <1>6, <1>7, DoorIs

\* The reference picture of an image template.
LEMMA ToTheReference ==
    ASSUME NEW k, k.host = "main", k.method = "GET", k.path.slash = FALSE, k.path.ext = FALSE,
           k.path.seg \in {<<"v1", "image-templates", "slug", "reference">>}
    PROVE  Door(k) = "reference"
<1> DEFINE S == {"v1", "image-templates", "slug", "reference"}
<1>1. /\ k.path.seg \in Seq(S) /\ Len(k.path.seg) >= 2
      /\ k.path.seg[1] = "v1" \/ (k.path.seg[1] = "api" /\ k.path.seg[2] = "v1" /\ Len(k.path.seg) > 2)
  <2>1. CASE k.path.seg = <<"v1", "image-templates", "slug", "reference">>
    <3>1. /\ <<"v1", "image-templates", "slug", "reference">> \in Seq(S)
          /\ Len(<<"v1", "image-templates", "slug", "reference">>) = 4
          /\ <<"v1", "image-templates", "slug", "reference">>[1] = "v1"
          OBVIOUS
    <3> QED  BY <2>1, <3>1
  <2> QED  BY <2>1
<1>2. Shut(k, 7) /\ ~Opens(k, 9) /\ ~Opens(k, 11)
  <2> HIDE DEF S
  <2> QED  BY <1>1, PastThePanel
<1>3. Is(k, <<"v1", "image-templates", "slug", "reference">>)  BY DEF Is
<1>4. /\ ~Is(k, <<"v1", "models">>) /\ ~Is(k, <<"api", "v1", "models">>)
      /\ ~Is(k, <<"v1", "templates">>) /\ ~Is(k, <<"v1", "loras">>)
      /\ ~Is(k, <<"v1", "image-templates">>) /\ ~Is(k, <<"api", "v1", "image-templates">>)
    BY DEF Is
<1> HIDE DEF S
<1>5. ~Opens(k, 8) /\ ~Opens(k, 10) /\ ~Opens(k, 12) /\ ~Opens(k, 13) /\ ~Opens(k, 14)  BY <1>1, <1>4, TestsAre
<1>6. Opens(k, 15)  BY <1>1, <1>3, TestsAre
<1>7. Shut(k, 14)  BY <1>2, <1>5 DEF Shut
<1> QED  BY <1>6, <1>7, DoorIs

\* What no test claims is inference, in each dialect.
LEMMA ToTheRouter ==
    ASSUME NEW k, k.host = "main", k.method = "POST", k.path.slash = FALSE, k.path.ext = FALSE,
           k.path.seg \in {<<"v1", "chat", "completions">>, <<"api", "v1", "chat", "completions">>,
                           <<"v1", "messages">>, <<"v1", "embeddings">>}
    PROVE  Door(k) = "router"
<1> DEFINE S == {"v1", "chat", "completions", "api", "messages", "embeddings"}
<1>1. /\ k.path.seg \in Seq(S) /\ Len(k.path.seg) >= 2
      /\ k.path.seg[1] = "v1" \/ (k.path.seg[1] = "api" /\ k.path.seg[2] = "v1" /\ Len(k.path.seg) > 2)
  <2>1. CASE k.path.seg = <<"v1", "chat", "completions">>
    <3>1. /\ <<"v1", "chat", "completions">> \in Seq(S) /\ Len(<<"v1", "chat", "completions">>) = 3
          /\ <<"v1", "chat", "completions">>[1] = "v1"
          OBVIOUS
    <3> QED  BY <2>1, <3>1
  <2>2. CASE k.path.seg = <<"api", "v1", "chat", "completions">>
    <3>1. /\ <<"api", "v1", "chat", "completions">> \in Seq(S)
          /\ Len(<<"api", "v1", "chat", "completions">>) = 4
          /\ <<"api", "v1", "chat", "completions">>[1] = "api"
          /\ <<"api", "v1", "chat", "completions">>[2] = "v1"
          OBVIOUS
    <3> QED  BY <2>2, <3>1
  <2>3. CASE k.path.seg = <<"v1", "messages">>
    <3>1. <<"v1", "messages">> \in Seq(S) /\ Len(<<"v1", "messages">>) = 2 /\ <<"v1", "messages">>[1] = "v1"  OBVIOUS
    <3> QED  BY <2>3, <3>1
  <2>4. CASE k.path.seg = <<"v1", "embeddings">>
    <3>1. /\ <<"v1", "embeddings">> \in Seq(S) /\ Len(<<"v1", "embeddings">>) = 2
          /\ <<"v1", "embeddings">>[1] = "v1"
          OBVIOUS
    <3> QED  BY <2>4, <3>1
  <2> QED  BY <2>1, <2>2, <2>3, <2>4
<1>2. Shut(k, 7) /\ ~Opens(k, 9) /\ ~Opens(k, 11)
  <2> HIDE DEF S
  <2> QED  BY <1>1, PastThePanel
<1>3. ~(LET n == Len(k.path.seg)
        IN /\ k.method = "POST" /\ ~k.path.slash /\ n > 1 /\ k.path.seg[n - 1] = "images"
           /\ k.path.seg[n] \in {"generations", "edits", "variations"})
    OBVIOUS
<1> HIDE DEF S
<1>4. ~Opens(k, 8) /\ ~Opens(k, 10) /\ ~Opens(k, 13) /\ ~Opens(k, 14) /\ ~Opens(k, 15)  BY <1>1, TestsAre
<1>5. ~Opens(k, 12)  BY <1>1, <1>3, TestsAre
<1>6. Shut(k, 15)  BY <1>2, <1>4, <1>5 DEF Shut
<1> QED  BY <1>6, DoorIs

\* Each path the documentation names finds its own door.
LEMMA GetDoors ==
    ASSUME NEW x \in GetPaths, NEW k, k = [host |-> "main", method |-> "GET", path |-> x[1]]
    PROVE  Door(k) = x[2]
<1>1. k.host = "main" /\ k.method = "GET" /\ k.path = x[1]  OBVIOUS
<1>2. Door(k) = x[2]
  <2>0. k.host = "main" /\ k.method = "GET" /\ k.path = x[1]  BY <1>1
  <2>1. CASE x = <<Path(<<>>, TRUE, FALSE), "panel">>
    <3>1. k.path.seg = <<>> /\ k.path.slash = TRUE /\ k.path.ext = FALSE /\ x[2] = "panel"
        BY <2>0, <2>1 DEF Path
    <3> QED  BY <2>0, <3>1, ToThePanel
  <2>2. CASE x = <<Path(<<"_next", "x">>, FALSE, TRUE), "asset">>
    <3>1. k.path.seg = <<"_next", "x">> /\ k.path.slash = FALSE /\ k.path.ext = TRUE /\ x[2] = "asset"
        BY <2>0, <2>2 DEF Path
    <3> QED  BY <2>0, <3>1, ToAnAsset
  <2>3. CASE x = <<Bare(<<"docs">>), "to docs">>
    <3>1. k.path.seg = <<"docs">> /\ k.path.slash = FALSE /\ k.path.ext = FALSE /\ x[2] = "to docs"
        BY <2>0, <2>3 DEF Bare, Path
    <3>2. Is(k, <<"docs">>)  BY <3>1 DEF Is
    <3> QED  BY <2>0, <3>1, <3>2, ToTheDocs
  <2>4. CASE x = <<Path(<<"docs">>, TRUE, FALSE), "docs">>
    <3>1. k.path.seg = <<"docs">> /\ k.path.slash = TRUE /\ k.path.ext = FALSE /\ x[2] = "docs"
        BY <2>0, <2>4 DEF Path
    <3>2. Beneath(k, "docs")
      <4>1. Len(<<"docs">>) = 1 /\ <<"docs">>[1] = "docs"  OBVIOUS
      <4>2. Len(k.path.seg) = 1 /\ k.path.seg[1] = "docs"  BY <3>1, <4>1
      <4>3. Len(k.path.seg) >= 1  BY <4>2
      <4>4. k.path.slash  BY <3>1
      <4> QED  BY <4>2, <4>3, <4>4 DEF Beneath
    <3> QED  BY <2>0, <3>1, <3>2, ToTheDocs
  <2>5. CASE x = <<Path(<<"docs", "identity.md">>, FALSE, TRUE), "docs">>
    <3>1. k.path.seg = <<"docs", "identity.md">> /\ k.path.slash = FALSE /\ k.path.ext = TRUE /\ x[2] = "docs"
        BY <2>0, <2>5 DEF Path
    <3>2. Beneath(k, "docs")
      <4>1. Len(<<"docs", "identity.md">>) = 2 /\ <<"docs", "identity.md">>[1] = "docs"  OBVIOUS
      <4>2. Len(k.path.seg) = 2 /\ k.path.seg[1] = "docs"  BY <3>1, <4>1
      <4>3. Len(k.path.seg) >= 1  BY <4>2
      <4>4. Len(k.path.seg) > 1
        <5>1. 2 > 1  OBVIOUS
        <5> QED  BY <4>2, <5>1
      <4> QED  BY <4>2, <4>3, <4>4 DEF Beneath
    <3> QED  BY <2>0, <3>1, <3>2, ToTheDocs
  <2>6. CASE x = <<Path(<<"prices.json">>, FALSE, TRUE), "prices">>
    <3>1. k.path.seg = <<"prices.json">> /\ k.path.slash = FALSE /\ k.path.ext = TRUE /\ x[2] = "prices"
        BY <2>0, <2>6 DEF Path
    <3> QED  BY <2>0, <3>1, ToThePrices
  <2>7. CASE x = <<Bare(<<"v1", "models">>), "models">>
    <3>1. k.path.seg = <<"v1", "models">> /\ k.path.slash = FALSE /\ k.path.ext = FALSE /\ x[2] = "models"
        BY <2>0, <2>7 DEF Bare, Path
    <3> QED  BY <2>0, <3>1, ToTheModels
  <2>8. CASE x = <<Bare(<<"api", "v1", "models">>), "models">>
    <3>1. k.path.seg = <<"api", "v1", "models">> /\ k.path.slash = FALSE /\ k.path.ext = FALSE /\ x[2] = "models"
        BY <2>0, <2>8 DEF Bare, Path
    <3> QED  BY <2>0, <3>1, ToTheModels
  <2>9. CASE x = <<Bare(<<"v1", "templates">>), "image catalog">>
    <3>1. k.path.seg = <<"v1", "templates">> /\ k.path.slash = FALSE /\ k.path.ext = FALSE /\ x[2] = "image catalog"
        BY <2>0, <2>9 DEF Bare, Path
    <3> QED  BY <2>0, <3>1, ToTheImageCatalog
  <2>10. CASE x = <<Bare(<<"v1", "image-templates">>), "templates">>
    <3>1. k.path.seg = <<"v1", "image-templates">> /\ k.path.slash = FALSE /\ k.path.ext = FALSE /\ x[2] = "templates"
        BY <2>0, <2>10 DEF Bare, Path
    <3> QED  BY <2>0, <3>1, ToTheTemplates
  <2>11. CASE x = <<Bare(<<"api", "v1", "image-templates">>), "templates">>
    <3>1. /\ k.path.seg = <<"api", "v1", "image-templates">> /\ k.path.slash = FALSE /\ k.path.ext = FALSE
          /\ x[2] = "templates"
        BY <2>0, <2>11 DEF Bare, Path
    <3> QED  BY <2>0, <3>1, ToTheTemplates
  <2>12. CASE x = <<Bare(<<"v1", "image-templates", "slug", "reference">>), "reference">>
    <3>1. /\ k.path.seg = <<"v1", "image-templates", "slug", "reference">> /\ k.path.slash = FALSE
          /\ k.path.ext = FALSE /\ x[2] = "reference"
        BY <2>0, <2>12 DEF Bare, Path
    <3> QED  BY <2>0, <3>1, ToTheReference
  <2>13. CASE x = <<Bare(<<"api", "state">>), "admin api">>
    <3>1. k.path.seg = <<"api", "state">> /\ k.path.slash = FALSE /\ k.path.ext = FALSE /\ x[2] = "admin api"
        BY <2>0, <2>13 DEF Bare, Path
    <3> QED  BY <2>0, <3>1, ToTheAdmin
  <2>14. CASE x \in {<<Bare(u), "panel">> : u \in UiRoutes}
    <3>1. PICK u \in UiRoutes : x = <<Bare(u), "panel">>  BY <2>14
    <3>2. k.path = Bare(u) /\ x[2] = "panel"  BY <2>0, <3>1
    <3>3. k.path.seg \in UiRoutes /\ k.path.ext = FALSE  BY <3>2 DEF Bare, Path
    <3> QED  BY <2>0, <3>2, <3>3, ToThePanel
  <2>15. CASE x \in {<<Path(u, TRUE, FALSE), "panel">> : u \in UiRoutes}
    <3>1. PICK u \in UiRoutes : x = <<Path(u, TRUE, FALSE), "panel">>  BY <2>15
    <3>2. k.path = Path(u, TRUE, FALSE) /\ x[2] = "panel"  BY <2>0, <3>1
    <3>3. k.path.seg \in UiRoutes /\ k.path.ext = FALSE  BY <3>2 DEF Path
    <3> QED  BY <2>0, <3>2, <3>3, ToThePanel
  <2> QED  BY <2>1, <2>2, <2>3, <2>4, <2>5, <2>6, <2>7, <2>8, <2>9, <2>10, <2>11, <2>12, <2>13, <2>14, <2>15 DEF GetPaths
<1> QED  BY <1>2

\* Each documented POST opens its own door.
LEMMA PostDoors ==
    ASSUME NEW x \in PostPaths, NEW k, k = [host |-> "main", method |-> "POST", path |-> x[1]]
    PROVE  Door(k) = x[2]
<1>1. k.host = "main" /\ k.method = "POST" /\ k.path = x[1]  OBVIOUS
<1>2. Door(k) = x[2]
  <2>0. k.host = "main" /\ k.method = "POST" /\ k.path = x[1]  BY <1>1
  <2>1. CASE x = <<Bare(<<"v1", "chat", "completions">>), "router">>
    <3>1. k.path.seg = <<"v1", "chat", "completions">> /\ k.path.slash = FALSE /\ k.path.ext = FALSE /\ x[2] = "router"
        BY <2>0, <2>1 DEF Bare, Path
    <3> QED  BY <2>0, <3>1, ToTheRouter
  <2>2. CASE x = <<Bare(<<"api", "v1", "chat", "completions">>), "router">>
    <3>1. /\ k.path.seg = <<"api", "v1", "chat", "completions">> /\ k.path.slash = FALSE /\ k.path.ext = FALSE
          /\ x[2] = "router"
        BY <2>0, <2>2 DEF Bare, Path
    <3> QED  BY <2>0, <3>1, ToTheRouter
  <2>3. CASE x = <<Bare(<<"v1", "messages">>), "router">>
    <3>1. k.path.seg = <<"v1", "messages">> /\ k.path.slash = FALSE /\ k.path.ext = FALSE /\ x[2] = "router"
        BY <2>0, <2>3 DEF Bare, Path
    <3> QED  BY <2>0, <3>1, ToTheRouter
  <2>4. CASE x = <<Bare(<<"v1", "embeddings">>), "router">>
    <3>1. k.path.seg = <<"v1", "embeddings">> /\ k.path.slash = FALSE /\ k.path.ext = FALSE /\ x[2] = "router"
        BY <2>0, <2>4 DEF Bare, Path
    <3> QED  BY <2>0, <3>1, ToTheRouter
  <2>5. CASE x = <<Bare(<<"local", "v1", "chat", "completions">>), "local">>
    <3>1. /\ k.path.seg = <<"local", "v1", "chat", "completions">> /\ k.path.slash = FALSE /\ k.path.ext = FALSE
          /\ x[2] = "local"
        BY <2>0, <2>5 DEF Bare, Path
    <3> QED  BY <2>0, <3>1, ToTheLocalModel
  <2>6. CASE x = <<Bare(<<"otel", "v1", "logs">>), "otel">>
    <3>1. k.path.seg = <<"otel", "v1", "logs">> /\ k.path.slash = FALSE /\ k.path.ext = FALSE /\ x[2] = "otel"
        BY <2>0, <2>6 DEF Bare, Path
    <3> QED  BY <2>0, <3>1, ToTelemetry
  <2>7. CASE x = <<Bare(<<"v1", "images", "generations">>), "images">>
    <3>1. k.path.seg = <<"v1", "images", "generations">> /\ k.path.slash = FALSE /\ k.path.ext = FALSE /\ x[2] = "images"
        BY <2>0, <2>7 DEF Bare, Path
    <3> QED  BY <2>0, <3>1, ToTheImages
  <2>8. CASE x = <<Bare(<<"api", "v1", "images", "variations">>), "images">>
    <3>1. /\ k.path.seg = <<"api", "v1", "images", "variations">> /\ k.path.slash = FALSE /\ k.path.ext = FALSE
          /\ x[2] = "images"
        BY <2>0, <2>8 DEF Bare, Path
    <3> QED  BY <2>0, <3>1, ToTheImages
  <2>9. CASE x = <<Bare(<<"api", "login">>), "admin api">>
    <3>1. k.path.seg = <<"api", "login">> /\ k.path.slash = FALSE /\ k.path.ext = FALSE /\ x[2] = "admin api"
        BY <2>0, <2>9 DEF Bare, Path
    <3> QED  BY <2>0, <3>1, ToTheAdmin
  <2>10. CASE x = <<Bare(<<"admin", "api", "login">>), "tombstone">>
    <3>1. k.path.seg = <<"admin", "api", "login">> /\ k.path.slash = FALSE /\ k.path.ext = FALSE /\ x[2] = "tombstone"
        BY <2>0, <2>10 DEF Bare, Path
    <3> QED  BY <2>0, <3>1, ToTheTombstone
  <2> QED  BY <2>1, <2>2, <2>3, <2>4, <2>5, <2>6, <2>7, <2>8, <2>9, <2>10 DEF PostPaths
<1> QED  BY <1>2

\* Each path the documentation names opens its own door (server.js).
LEMMA OwnDoorHolds ==
    ASSUME errand \in Errands
    PROVE  OwnDoor
<1> SUFFICES ASSUME errand.kind = "knock" PROVE Door(errand.knock) = errand.door  BY DEF OwnDoor
<1> DEFINE K(host, method, path) == [host |-> host, method |-> method, path |-> path]
<1>1. errand \in Documented  BY DoorsAssumption
<1>2. \A host, method, path, door : /\ Knock(host, method, path, door).knock = K(host, method, path)
                                   /\ Knock(host, method, path, door).door = door
    BY DEF Knock
<1>3. CASE \E x \in GetPaths : errand = Knock("main", "GET", x[1], x[2])
  <2>1. PICK x \in GetPaths : errand = Knock("main", "GET", x[1], x[2])  BY <1>3
  <2>2. errand.knock = K("main", "GET", x[1]) /\ errand.door = x[2]  BY <2>1, <1>2
  <2>3. Door(K("main", "GET", x[1])) = x[2]  BY GetDoors
  <2> QED  BY <2>2, <2>3
<1>4. CASE \E x \in PostPaths : errand = Knock("main", "POST", x[1], x[2])
  <2>1. PICK x \in PostPaths : errand = Knock("main", "POST", x[1], x[2])  BY <1>4
  <2>2. errand.knock = K("main", "POST", x[1]) /\ errand.door = x[2]  BY <2>1, <1>2
  <2>3. Door(K("main", "POST", x[1])) = x[2]  BY PostDoors
  <2> QED  BY <2>2, <2>3
<1>5. CASE \E u \in UiRoutes : errand = Knock("main", "HEAD", Path(u, FALSE, FALSE), "panel")
  <2>1. PICK u \in UiRoutes : errand = Knock("main", "HEAD", Path(u, FALSE, FALSE), "panel")  BY <1>5
  <2> DEFINE k == K("main", "HEAD", Path(u, FALSE, FALSE))
  <2>2. errand.knock = k /\ errand.door = "panel"  BY <2>1 DEF Knock
  <2>3. /\ k.host = "main" /\ k.method = "HEAD" /\ k.path.seg = u /\ k.path.slash = FALSE
        /\ k.path.ext = FALSE
      BY DEF Path
  <2> HIDE DEF k
  <2>4. Door(k) = "panel"  BY <2>3, ToThePanel
  <2> QED  BY <2>2, <2>4
<1>6. CASE errand = Knock("main", "OPTIONS", Bare(<<"v1", "messages">>), "cors")
  <2> DEFINE k == K("main", "OPTIONS", Bare(<<"v1", "messages">>))
  <2>1. errand.knock = k /\ errand.door = "cors"  BY <1>6 DEF Knock
  <2>2. /\ k.host = "main" /\ k.method = "OPTIONS" /\ k.path.seg = <<"v1", "messages">> /\ k.path.slash = FALSE
        /\ k.path.ext = FALSE
      BY DEF Bare, Path
  <2> HIDE DEF k
  <2>3. Door(k) = "cors"  BY <2>2, ToPreflight
  <2> QED  BY <2>1, <2>3
<1>7. CASE errand = Knock("docs", "GET", Path(<<>>, TRUE, FALSE), "docs")
  <2> DEFINE k == K("docs", "GET", Path(<<>>, TRUE, FALSE))
  <2>1. errand.knock = k /\ errand.door = "docs"  BY <1>7 DEF Knock
  <2>2. k.host = "docs" /\ k.path.seg = <<>> /\ k.path.slash = TRUE  BY DEF Path
  <2> HIDE DEF k
  <2>3. Door(k) = "docs"  BY <2>2, ToTheDocsHost
  <2> QED  BY <2>1, <2>3
<1>8. CASE errand = Knock("docs", "GET", Path(<<"identity.md">>, FALSE, TRUE), "docs")
  <2> DEFINE k == K("docs", "GET", Path(<<"identity.md">>, FALSE, TRUE))
  <2>1. errand.knock = k /\ errand.door = "docs"  BY <1>8 DEF Knock
  <2>2. k.host = "docs" /\ k.path.seg = <<"identity.md">>  BY DEF Path
  <2> HIDE DEF k
  <2>3. <<"identity.md">> # <<>>  OBVIOUS
  <2>4. Door(k) = "docs"  BY <2>2, <2>3, ToTheDocsHost
  <2> QED  BY <2>1, <2>4
<1> QED  BY <1>1, <1>3, <1>4, <1>5, <1>6, <1>7, <1>8 DEF Documented

\* What holds of the edges throughout: the errand is one of those enumerated, and the books of readBody() and of
\* throttled() are in order.
DoorsInductive == errand \in Errands /\ UploadSound /\ TriesSound /\ HitsSound /\ BudgetSound

\* The edges of a router that has just started.
LEMMA DoorsStart ==
    ASSUME NEW e \in Errands, DoorsInit(e)
    PROVE  DoorsInductive
<1>1. UploadSound  BY DoorsAssumption DEF DoorsInit, UploadSound
<1>2. TriesSound
  <2>1. <<>> \in Seq(Nat) /\ Len(<<>>) = 0  OBVIOUS
  <2>2. \A v \in Visitors : tries[v] = <<>>  BY DEF DoorsInit
  <2>3. tries \in [Visitors -> Seq(Nat)]  BY <2>1 DEF DoorsInit
  <2>4. ASSUME NEW v \in Visitors, NEW i \in 1..Len(tries[v]) PROVE tries[v][i] <= minute  BY <2>1, <2>2
  <2> QED  BY <2>3, <2>4, DoorsAssumption DEF TriesSound, DoorsInit
<1>3. DOMAIN hits = {}  BY DEF DoorsInit, NoHits
<1>4. HitsSound  BY <1>3, FS_EmptySet, DoorsAssumption DEF HitsSound
<1>5. BudgetSound  BY <1>3 DEF BudgetSound, DoorsInit
<1> QED  BY <1>1, <1>2, <1>4, <1>5 DEF DoorsInductive, DoorsInit

\* A chunk, the end of a body, a caller that goes away, the clock and a try at the password keep it.
LEMMA DoorsStep ==
    ASSUME DoorsInductive, [DoorsNext]_doorVars
    PROVE  DoorsInductive'
<1>1. ASSUME NEW v \in Visitors, Login(v) PROVE DoorsInductive'
  <2>1. HitsSound' /\ TriesSound' /\ BudgetSound'  BY <1>1, LoginKeeps DEF DoorsInductive
  <2>2. UploadSound' /\ errand' \in Errands  BY <1>1 DEF DoorsInductive, Login, UploadSound
  <2> QED  BY <2>1, <2>2 DEF DoorsInductive
<1>2. ASSUME UNCHANGED <<hits, minute, tries>> PROVE TriesSound' /\ HitsSound' /\ BudgetSound'
    BY <1>2 DEF DoorsInductive, TriesSound, HitsSound, BudgetSound, Budget, Budgeted
<1>3. CASE Chunk
  <2>1. UploadSound'
    <3>1. upload.got = "reading" /\ upload.size \in 0..(MaxBody + 1) /\ upload.size <= MaxBody
        BY <1>3 DEF DoorsInductive, UploadSound, Chunk, Reading
    <3> QED  BY <1>3, <3>1, DoorsAssumption DEF DoorsInductive, UploadSound, Chunk
  <2> QED  BY <2>1, <1>2, <1>3 DEF DoorsInductive, Chunk, Reading
<1>4. CASE BodyEnds \/ BodyAborted
  <2>1. UploadSound'  BY <1>4 DEF DoorsInductive, UploadSound, BodyEnds, BodyAborted, Reading
  <2> QED  BY <2>1, <1>2, <1>4 DEF DoorsInductive, BodyEnds, BodyAborted, Reading
<1>5. CASE ClockTicks
  <2>1. minute' = minute + 1 /\ minute < EndOfTime /\ UNCHANGED <<errand, upload, hits, tries>>
      BY <1>5 DEF ClockTicks
  <2>2. TriesSound'
    <3>1. tries' \in [Visitors -> Seq(Nat)] /\ minute' \in 0..EndOfTime
        BY <2>1, DoorsAssumption DEF DoorsInductive, TriesSound
    <3>2. ASSUME NEW v \in Visitors, NEW i \in 1..Len(tries'[v]) PROVE tries'[v][i] <= minute'
      <4>1. tries[v] \in Seq(Nat) /\ i \in 1..Len(tries[v]) /\ tries[v][i] <= minute
          BY <2>1 DEF DoorsInductive, TriesSound
      <4>2. tries[v][i] \in Nat /\ minute \in Nat  BY <4>1, DoorsAssumption DEF DoorsInductive, TriesSound
      <4> QED  BY <4>1, <4>2, <2>1
    <3> QED  BY <3>1, <3>2 DEF TriesSound
  <2>3. HitsSound'
    <3>1. ASSUME NEW v \in DOMAIN hits PROVE hits[v].reset <= minute' + Window
        BY <2>1, DoorsAssumption DEF DoorsInductive, HitsSound, TriesSound
    <3> QED  BY <2>1, <3>1 DEF DoorsInductive, HitsSound
  <2>4. BudgetSound'  BY <2>1 DEF DoorsInductive, BudgetSound, Budget, Budgeted
  <2>5. UploadSound'  BY <2>1 DEF DoorsInductive, UploadSound
  <2> QED  BY <2>1, <2>2, <2>3, <2>4, <2>5 DEF DoorsInductive
<1>6. CASE UNCHANGED doorVars
  <2>1. UploadSound' /\ errand' \in Errands  BY <1>6 DEF doorVars, DoorsInductive, UploadSound
  <2> QED  BY <2>1, <1>2, <1>6 DEF doorVars, DoorsInductive
<1> QED  BY <1>1, <1>3, <1>4, <1>5, <1>6 DEF DoorsNext

\* What the books say of the router: what the runs check.
LEMMA DoorsMeans ==
    ASSUME DoorsInductive
    PROVE  DoorsInv
<1>1. DoorsTypeOK  BY DEF DoorsInductive, DoorsTypeOK, UploadSound, HitsSound, TriesSound
<1>2. OwnDoor /\ SameWire /\ JsonIsAsked  BY OwnDoorHolds, SameWireHolds, JsonIsAskedHolds DEF DoorsInductive
<1>3. BodyCapped  BY DEF BodyCapped, DoorsInductive, UploadSound
<1>4. GuessesBounded
  <2> SUFFICES ASSUME NEW v \in Visitors \ Trusted PROVE Len(Recent(tries[v])) <= 2 * MaxTries
      BY DEF GuessesBounded
  <2>1. minute \in Nat /\ tries[v] \in Seq(Nat) /\ Len(tries[v]) \in Nat
      BY DoorsAssumption DEF DoorsInductive, TriesSound
  <2>2. PICK d \in 0..Len(tries[v]) : Len(Recent(tries[v])) = Len(tries[v]) - d  BY <2>1, RecentIs
  <2>3. Len(tries[v]) <= 2 * MaxTries
    <3>1. CASE v \in DOMAIN hits
      <4>1. PICK q \in 0..Len(tries[v]) : Budgeted(tries[v], hits[v], q)
          BY <3>1 DEF DoorsInductive, BudgetSound, Budget
      <4> QED  BY <4>1, <2>1, DoorsAssumption DEF Budgeted
    <3>2. CASE v \notin DOMAIN hits
        BY <3>2, <2>1, DoorsAssumption DEF DoorsInductive, BudgetSound
    <3> QED  BY <3>1, <3>2
  <2> QED  BY <2>1, <2>2, <2>3, DoorsAssumption
<1>5. RefusedForAWindow  BY DEF RefusedForAWindow, DoorsInductive, HitsSound
<1> QED  BY <1>1, <1>2, <1>3, <1>4, <1>5 DEF DoorsInv

\* The books of the edges are in order, for any pages, sizes, windows, visitors and calls.
THEOREM DoorsHolds == DoorsSpec => []DoorsInductive
<1>1. (\E e \in Errands : DoorsInit(e)) => DoorsInductive  BY DoorsStart
<1>2. DoorsInductive /\ [DoorsNext]_doorVars => DoorsInductive'  BY DoorsStep
<1> QED  BY <1>1, <1>2, PTL DEF DoorsSpec

\* Each documented path finds its own door; the three senders address a call alike and none loses the request for
\* JSON; no body over the cap is handed on; an address has no more than two windows' worth of passwords compared in
\* the length of one, and a refusal ends with its window.
THEOREM DoorsSound == DoorsSpec => []DoorsInv
<1>1. DoorsInductive => DoorsInv  BY DoorsMeans
<1> QED  BY <1>1, DoorsHolds, PTL

(* -------------------------------- together --------------------------------- *)
\* What a caller and an operator see of the router is in order: its edges and its panel, whatever the order of
\* their steps.
THEOREM EdgesSound == EdgesSpec => []EdgesInv
<1> DEFINE Both == DoorsInductive /\ PanelInductive
<1>1. EdgesInit => Both  BY DoorsStart, PanelStart DEF EdgesInit
<1>2. Both /\ [EdgesNext]_EdgesVars => Both'
  <2> SUFFICES ASSUME Both, [EdgesNext]_EdgesVars PROVE Both'  OBVIOUS
  <2>1. [DoorsNext]_doorVars /\ [PanelNext]_panelVars  BY DEF EdgesNext, EdgesVars
  <2> QED  BY <2>1, DoorsStep, PanelStep
<1>3. Both => EdgesInv  BY DoorsMeans, PanelSays DEF EdgesInv
<1> QED  BY <1>1, <1>2, <1>3, PTL DEF EdgesSpec
=============================================================================
