--------------------------- MODULE TranslateProofs ---------------------------
(***************************************************************************)
(* Theorems about the translation, for any requests and answers: a stream  *)
(* says what the answer in one piece would have said, however its bytes    *)
(* were cut; results of tools stay together; the next request of a         *)
(* conversation finds the breakpoint of this one.                          *)
(*                                                                         *)
(* Of the stream, what is inductive says what the caller has put together: *)
(* the texts and the calls of the blocks heard so far, while the upstream  *)
(* is inside one of them.  A fragment of arguments finds its call because  *)
(* the tool the upstream is in is the last one announced.                  *)
(*                                                                         *)
(* The folds over messages, parts and blocks are finite functions, each    *)
(* value of which follows from the one before.  What is said of all their  *)
(* values is proved by contradiction, from the least one it fails for.     *)
(***************************************************************************)
EXTENDS Translate, FiniteSetTheorems, SequenceTheorems, WellFoundedInduction, TLAPS

(* Numbers. *)

\* Less-than as a relation.
Below == {ss \in Nat \X Nat : ss[1] < ss[2]}

\* A set of natural numbers has a least one.
LEMMA LeastNumber ==
    ASSUME NEW S \in SUBSET Nat, S # {}
    PROVE  \E n \in S : \A m \in S : n <= m
<1>1. IsWellFoundedOn(Below, Nat)
  BY NatLessThanWellFounded DEF OpToRel, Below
<1>2. PICK n \in S : \A m \in S : ~(<<m, n>> \in Below)
  BY <1>1, WFMin
<1>3. ASSUME NEW m \in S PROVE n <= m
  <2>1. m \in Nat /\ n \in Nat /\ ~(<<m, n>> \in Below)
    BY <1>2
  <2> QED
    BY <2>1 DEF Below
<1> QED
  BY <1>3

(* Sequences of sequences. *)
\* f joins the first n sequences of s, up to each of them.
Joins(f, s, n) == \A i \in 1..n : f[i] = IF i = 1 THEN s[i] ELSE f[i - 1] \o s[i]

\* Every sequence of sequences can be joined.
LEMMA JoinsExist ==
    ASSUME NEW T, NEW s \in Seq(Seq(T))
    PROVE  \E f \in [1..Len(s) -> Seq(T)] : Joins(f, s, Len(s))
<1> DEFINE Upto(f, n) == \A i \in 1..n : f[i] = IF i = 1 THEN s[i] ELSE f[i - 1] \o s[i]
           Wrong == {n \in 0..Len(s) : ~\E f \in [1..n -> Seq(T)] : Upto(f, n)}
<1>1. Len(s) \in Nat /\ \A i \in 1..Len(s) : s[i] \in Seq(T)  OBVIOUS
<1>2. Wrong = {}
  <2> SUFFICES ASSUME Wrong # {} PROVE FALSE  OBVIOUS
  <2>1. PICK n \in Wrong : \A m \in Wrong : n <= m
    <3>1. Wrong \in SUBSET Nat  BY <1>1
    <3> HIDE DEF Wrong
    <3> QED  BY <3>1, LeastNumber
  <2>2. n \in 0..Len(s) /\ ~\E f \in [1..n -> Seq(T)] : Upto(f, n)  BY <2>1
  <2>3. n # 0
    <3> SUFFICES ASSUME n = 0 PROVE FALSE  OBVIOUS
    <3> DEFINE f == [i \in 1..0 |-> <<>>]
    <3>1. f \in [1..0 -> Seq(T)] /\ Upto(f, 0)  OBVIOUS
    <3> QED  BY <2>2, <3>1
  <2>4. n \in 1..Len(s) /\ n - 1 \in 0..Len(s) /\ ~(n <= n - 1)  BY <1>1, <2>2, <2>3
  <2>5. n - 1 \notin Wrong  BY <2>1, <2>4
  <2>6. PICK f \in [1..(n - 1) -> Seq(T)] : Upto(f, n - 1)  BY <2>4, <2>5
  <2> DEFINE g == [i \in 1..n |-> IF i < n THEN f[i] ELSE IF n = 1 THEN s[n] ELSE f[n - 1] \o s[n]]
  <2>7. g \in [1..n -> Seq(T)]
    <3>1. s[n] \in Seq(T)  BY <1>1, <2>4
    <3>2. n # 1 => f[n - 1] \o s[n] \in Seq(T)
      <4>1. n # 1 => n - 1 \in 1..(n - 1)  BY <2>4
      <4>2. n # 1 => f[n - 1] \in Seq(T)  BY <4>1
      <4> QED  BY <3>1, <4>2, ConcatProperties
    <3> QED  BY <3>1, <3>2, <2>4
  <2>8. Upto(g, n)
    <3> SUFFICES ASSUME NEW i \in 1..n PROVE g[i] = IF i = 1 THEN s[i] ELSE g[i - 1] \o s[i]  OBVIOUS
    <3>1. CASE i = n  BY <3>1, <2>4
    <3>2. CASE i # n
      <4>1. i \in 1..(n - 1) /\ i < n /\ (i # 1 => i - 1 \in 1..n /\ i - 1 < n)  BY <3>2, <2>4
      <4>2. f[i] = IF i = 1 THEN s[i] ELSE f[i - 1] \o s[i]  BY <2>6, <4>1
      <4> QED  BY <4>1, <4>2
    <3> QED  BY <3>1, <3>2
  <2> HIDE DEF g, Upto
  <2> QED  BY <2>2, <2>7, <2>8
<1>3. Len(s) \in 0..Len(s)  BY <1>1
<1>4. \E f \in [1..Len(s) -> Seq(T)] : Upto(f, Len(s))
  <2> HIDE DEF Upto
  <2> QED  BY <1>2, <1>3
<1> QED  BY <1>4 DEF Joins

\* Two that agree on the sequences agree on what they join them to.
LEMMA JoinsOnce ==
    ASSUME NEW f, NEW g, NEW s, NEW t, NEW n \in Nat,
           \A i \in 1..n : s[i] = t[i], Joins(f, s, n), Joins(g, t, n)
    PROVE  \A i \in 1..n : f[i] = g[i]
<1> DEFINE Wrong == {i \in 1..n : f[i] # g[i]}
<1> SUFFICES ASSUME Wrong # {} PROVE FALSE  OBVIOUS
<1>1. PICK k \in Wrong : \A m \in Wrong : k <= m
  <2>1. Wrong \in SUBSET Nat  OBVIOUS
  <2> HIDE DEF Wrong
  <2> QED  BY <2>1, LeastNumber
<1>2. k \in 1..n /\ f[k] # g[k]  BY <1>1
<1>3. /\ f[k] = IF k = 1 THEN s[k] ELSE f[k - 1] \o s[k]
      /\ g[k] = IF k = 1 THEN t[k] ELSE g[k - 1] \o t[k]
  BY <1>2 DEF Joins
<1>4. k # 1  BY <1>2, <1>3
<1>5. k - 1 \in 1..n /\ ~(k <= k - 1)  BY <1>2, <1>4
<1>6. f[k - 1] = g[k - 1]  BY <1>1, <1>5
<1> QED  BY <1>2, <1>3, <1>4, <1>6

\* FlattenSeq is the last of the joins.
LEMMA FlattenIs ==
    ASSUME NEW T, NEW s \in Seq(Seq(T)), Len(s) > 0, NEW f, Joins(f, s, Len(s))
    PROVE  FlattenSeq(s) = f[Len(s)]
<1> DEFINE Eq(h) == h = [i \in 1..Len(s) |-> IF i = 1 THEN s[i] ELSE h[i - 1] \o s[i]]
           c == CHOOSE h : Eq(h)
<1>1. Len(s) \in Nat  OBVIOUS
<1>2. FlattenSeq(s) = c[Len(s)]  BY <1>1 DEF FlattenSeq
<1>3. \E h : Eq(h)
  <2>1. PICK h \in [1..Len(s) -> Seq(T)] : Joins(h, s, Len(s))  BY JoinsExist
  <2>2. Eq(h)  BY <2>1 DEF Joins
  <2> QED  BY <2>2
<1>4. Eq(c)  BY <1>3
<1>5. Joins(c, s, Len(s))
  <2> HIDE DEF c
  <2> QED  BY <1>4 DEF Joins
<1> HIDE DEF c
<1>6. \A i \in 1..Len(s) : c[i] = f[i]  BY <1>1, <1>5, JoinsOnce
<1> QED  BY <1>1, <1>2, <1>6

\* What one more sequence adds.
LEMMA FlattenMore ==
    ASSUME NEW T, NEW s \in Seq(Seq(T)), NEW x \in Seq(T)
    PROVE  /\ FlattenSeq(s) \in Seq(T)
           /\ FlattenSeq(Append(s, x)) = FlattenSeq(s) \o x
<1> DEFINE u == Append(s, x)
<1>1. /\ u \in Seq(Seq(T)) /\ Len(s) \in Nat /\ Len(u) = Len(s) + 1 /\ u[Len(s) + 1] = x
      /\ \A i \in 1..Len(s) : u[i] = s[i]
  BY AppendProperties
<1> HIDE DEF u
<1>2. PICK f \in [1..Len(s) -> Seq(T)] : Joins(f, s, Len(s))  BY JoinsExist
<1>3. PICK g \in [1..Len(u) -> Seq(T)] : Joins(g, u, Len(u))  BY <1>1, JoinsExist
<1>4. FlattenSeq(u) = g[Len(u)]  BY <1>1, <1>3, FlattenIs
<1>5. g[Len(u)] = IF Len(u) = 1 THEN x ELSE g[Len(s)] \o x
  <2>1. Len(u) \in 1..Len(u) /\ Len(u) - 1 = Len(s)  BY <1>1
  <2> QED  BY <1>1, <1>3, <2>1 DEF Joins
<1>6. CASE Len(s) = 0
  <2>1. s = <<>>  BY <1>6, EmptySeq
  <2>2. FlattenSeq(s) = <<>>  BY <1>6, <2>1 DEF FlattenSeq
  <2>3. <<>> \o x = x  BY ConcatEmptySeq
  <2> QED  BY <1>1, <1>4, <1>5, <1>6, <2>2, <2>3 DEF u
<1>7. CASE Len(s) # 0
  <2>1. Len(s) > 0 /\ Len(s) \in 1..Len(s) /\ Len(u) # 1  BY <1>1, <1>7
  <2>2. FlattenSeq(s) = f[Len(s)]  BY <1>2, <2>1, FlattenIs
  <2>3. f[Len(s)] = g[Len(s)]
    <3>1. \A i \in 1..Len(s) : s[i] = u[i] /\ i \in 1..Len(u)  BY <1>1
    <3>2. Joins(f, s, Len(s)) /\ Joins(g, u, Len(s))  BY <1>2, <1>3, <3>1 DEF Joins
    <3>3. \A i \in 1..Len(s) : f[i] = g[i]
      <4>1. Len(s) \in Nat  BY <1>1
      <4>2. \A i \in 1..Len(s) : s[i] = u[i]  BY <3>1
      <4>3. Joins(f, s, Len(s))  BY <3>2
      <4>4. Joins(g, u, Len(s))  BY <3>2
      <4> QED  BY <4>1, <4>2, <4>3, <4>4, JoinsOnce
    <3> QED  BY <2>1, <3>3
  <2> QED  BY <1>2, <1>4, <1>5, <2>1, <2>2, <2>3 DEF u
<1> QED  BY <1>6, <1>7

\* What nothing adds up to.
LEMMA FlattenNone == FlattenSeq(<<>>) = <<>>
BY DEF FlattenSeq

(* An answer so far. *)
\* A sequence that says what another says and one thing more.
LEMMA OneMore ==
    ASSUME NEW T, NEW u \in Seq(T), NEW x \in T, NEW v \in Seq(T), Len(v) = Len(u) + 1, v[Len(v)] = x,
           \A i \in 1..Len(u) : v[i] = u[i]
    PROVE  v = Append(u, x)
<1>1. /\ Append(u, x) \in Seq(T) /\ Len(Append(u, x)) = Len(u) + 1 /\ Append(u, x)[Len(u) + 1] = x
      /\ \A i \in 1..Len(u) : Append(u, x)[i] = u[i]
  BY AppendProperties
<1>2. Len(u) \in Nat  OBVIOUS
<1>3. Len(v) = Len(Append(u, x))  BY <1>1
<1>4. \A i \in 1..Len(v) : v[i] = Append(u, x)[i]
  <2> SUFFICES ASSUME NEW i \in 1..Len(v) PROVE v[i] = Append(u, x)[i]  OBVIOUS
  <2>1. CASE i = Len(u) + 1  BY <1>1, <2>1
  <2>2. CASE i # Len(u) + 1
    <3>1. i \in 1..Len(u)  BY <1>2, <2>2
    <3> QED  BY <1>1, <3>1
  <2> QED  BY <2>1, <2>2
<1> QED  BY <1>1, <1>3, <1>4, SeqEqual

\* The texts of an answer, with a block more.
LEMMA TextMore ==
    ASSUME NEW B \in Seq(ReplyBlocks), NEW k \in ReplyBlocks
    PROVE  /\ TextOf(B) \in Seq(Fragments)
           /\ TextOf(Append(B, k)) = TextOf(B) \o (IF k.kind = "text" THEN k.text ELSE <<>>)
<1> DEFINE e(b) == IF b.kind = "text" THEN b.text ELSE <<>>
           m(C) == [i \in DOMAIN C |-> e(C[i])]
           A == Append(B, k)
<1>1. /\ A \in Seq(ReplyBlocks) /\ Len(B) \in Nat /\ Len(A) = Len(B) + 1 /\ A[Len(B) + 1] = k
      /\ \A i \in 1..Len(B) : A[i] = B[i]
  BY AppendProperties
<1>2. \A b \in ReplyBlocks : e(b) \in Seq(Fragments)
  <2> SUFFICES ASSUME NEW b \in ReplyBlocks PROVE e(b) \in Seq(Fragments)  OBVIOUS
  <2>1. b.text \in Seq(Fragments)  BY DEF ReplyBlocks
  <2>2. <<>> \in Seq(Fragments)  OBVIOUS
  <2> QED  BY <2>1, <2>2
<1> HIDE DEF A, e
<1>3. ASSUME NEW C \in Seq(ReplyBlocks)
      PROVE  m(C) \in Seq(Seq(Fragments)) /\ Len(m(C)) = Len(C) /\ \A i \in 1..Len(C) : m(C)[i] = e(C[i])
  <2>1. DOMAIN C = 1..Len(C) /\ Len(C) \in Nat /\ \A i \in 1..Len(C) : C[i] \in ReplyBlocks  OBVIOUS
  <2> QED  BY <1>2, <2>1
<1>4. m(A) = Append(m(B), e(k))
  <2>1. m(A) \in Seq(Seq(Fragments)) /\ m(B) \in Seq(Seq(Fragments)) /\ e(k) \in Seq(Fragments)  BY <1>1, <1>2, <1>3
  <2>2. Len(m(A)) = Len(m(B)) + 1  BY <1>1, <1>3
  <2>3. m(A)[Len(m(A))] = e(k)
    <3>1. Len(m(A)) \in 1..Len(A) /\ Len(m(A)) = Len(B) + 1  BY <1>1, <1>3
    <3> QED  BY <1>1, <1>3, <3>1
  <2>4. \A i \in 1..Len(m(B)) : m(A)[i] = m(B)[i]
    <3> SUFFICES ASSUME NEW i \in 1..Len(m(B)) PROVE m(A)[i] = m(B)[i]  OBVIOUS
    <3>1. i \in 1..Len(B) /\ i \in 1..Len(A)  BY <1>1, <1>3
    <3>2. m(A)[i] = e(A[i]) /\ m(B)[i] = e(B[i])  BY <1>1, <1>3, <3>1
    <3> QED  BY <1>1, <3>1, <3>2
  <2> HIDE DEF m
  <2> QED  BY <2>1, <2>2, <2>3, <2>4, OneMore
<1>5. FlattenSeq(m(B)) \in Seq(Fragments) /\ FlattenSeq(Append(m(B), e(k))) = FlattenSeq(m(B)) \o e(k)
  <2>1. m(B) \in Seq(Seq(Fragments)) /\ e(k) \in Seq(Fragments)  BY <1>2, <1>3
  <2> HIDE DEF m
  <2> QED  BY <2>1, FlattenMore
<1>6. TextOf(B) = FlattenSeq(m(B)) /\ TextOf(A) = FlattenSeq(m(A))  BY DEF TextOf, e
<1>7. TextOf(A) = TextOf(B) \o e(k)
  <2> HIDE DEF m
  <2> QED  BY <1>4, <1>5, <1>6
<1> QED
  <2> HIDE DEF m
  <2> QED  BY <1>5, <1>6, <1>7 DEF A, e

\* A tool call as the caller gets it.
ReplyCalls == [id : Nat, args : Seq(Fragments)]

\* The calls of an answer, with a block more.
LEMMA CallsMore ==
    ASSUME NEW B \in Seq(ReplyBlocks), NEW k \in ReplyBlocks
    PROVE  /\ CallsOf(B) \in Seq(ReplyCalls)
           /\ CallsOf(Append(B, k)) = IF k.kind = "tool_use" THEN Append(CallsOf(B), [id |-> k.id, args |-> k.text])
                                      ELSE CallsOf(B)
<1> DEFINE e(b) == IF b.kind # "tool_use" THEN <<>> ELSE <<[id |-> b.id, args |-> b.text]>>
           m(C) == [i \in DOMAIN C |-> e(C[i])]
           A == Append(B, k)
<1>1. /\ A \in Seq(ReplyBlocks) /\ Len(B) \in Nat /\ Len(A) = Len(B) + 1 /\ A[Len(B) + 1] = k
      /\ \A i \in 1..Len(B) : A[i] = B[i]
  BY AppendProperties
<1>2. \A b \in ReplyBlocks : e(b) \in Seq(ReplyCalls)
  <2> SUFFICES ASSUME NEW b \in ReplyBlocks PROVE e(b) \in Seq(ReplyCalls)  OBVIOUS
  <2>1. [id |-> b.id, args |-> b.text] \in ReplyCalls  BY DEF ReplyBlocks, ReplyCalls
  <2>2. <<>> \in Seq(ReplyCalls) /\ <<[id |-> b.id, args |-> b.text]>> \in Seq(ReplyCalls)  BY <2>1
  <2> QED  BY <2>2
<1> HIDE DEF A, e
<1>3. ASSUME NEW C \in Seq(ReplyBlocks)
      PROVE  m(C) \in Seq(Seq(ReplyCalls)) /\ Len(m(C)) = Len(C) /\ \A i \in 1..Len(C) : m(C)[i] = e(C[i])
  <2>1. DOMAIN C = 1..Len(C) /\ Len(C) \in Nat /\ \A i \in 1..Len(C) : C[i] \in ReplyBlocks  OBVIOUS
  <2> QED  BY <1>2, <2>1
<1>4. m(A) = Append(m(B), e(k))
  <2>1. m(A) \in Seq(Seq(ReplyCalls)) /\ m(B) \in Seq(Seq(ReplyCalls)) /\ e(k) \in Seq(ReplyCalls)
      BY <1>1, <1>2, <1>3
  <2>2. Len(m(A)) = Len(m(B)) + 1  BY <1>1, <1>3
  <2>3. m(A)[Len(m(A))] = e(k)
    <3>1. Len(m(A)) \in 1..Len(A) /\ Len(m(A)) = Len(B) + 1  BY <1>1, <1>3
    <3> QED  BY <1>1, <1>3, <3>1
  <2>4. \A i \in 1..Len(m(B)) : m(A)[i] = m(B)[i]
    <3> SUFFICES ASSUME NEW i \in 1..Len(m(B)) PROVE m(A)[i] = m(B)[i]  OBVIOUS
    <3>1. i \in 1..Len(B) /\ i \in 1..Len(A)  BY <1>1, <1>3
    <3>2. m(A)[i] = e(A[i]) /\ m(B)[i] = e(B[i])  BY <1>1, <1>3, <3>1
    <3> QED  BY <1>1, <3>1, <3>2
  <2> HIDE DEF m
  <2> QED  BY <2>1, <2>2, <2>3, <2>4, OneMore
<1>5. FlattenSeq(m(B)) \in Seq(ReplyCalls) /\ FlattenSeq(Append(m(B), e(k))) = FlattenSeq(m(B)) \o e(k)
  <2>1. m(B) \in Seq(Seq(ReplyCalls)) /\ e(k) \in Seq(ReplyCalls)  BY <1>2, <1>3
  <2> HIDE DEF m
  <2> QED  BY <2>1, FlattenMore
<1>6. CallsOf(B) = FlattenSeq(m(B)) /\ CallsOf(A) = FlattenSeq(m(A))  BY DEF CallsOf, e
<1>7. CallsOf(A) = CallsOf(B) \o e(k) /\ CallsOf(B) \in Seq(ReplyCalls)
  <2> HIDE DEF m
  <2> QED  BY <1>4, <1>5, <1>6
<1>8. CASE k.kind = "tool_use"
  <2>1. [id |-> k.id, args |-> k.text] \in ReplyCalls  BY DEF ReplyBlocks, ReplyCalls
  <2>2. e(k) = <<[id |-> k.id, args |-> k.text]>>  BY <1>8 DEF e
  <2>3. CallsOf(B) \o e(k) = Append(CallsOf(B), [id |-> k.id, args |-> k.text])  BY <1>7, <2>1, <2>2, AppendIsConcat
  <2> HIDE DEF m
  <2> QED  BY <1>7, <1>8, <2>3 DEF A
<1>9. CASE k.kind # "tool_use"
  <2>1. e(k) = <<>>  BY <1>9 DEF e
  <2>2. CallsOf(B) \o <<>> = CallsOf(B)  BY <1>7, ConcatEmptySeq
  <2> HIDE DEF m
  <2> QED  BY <1>7, <1>9, <2>1, <2>2 DEF A
<1> QED  BY <1>8, <1>9

\* Nothing said.
LEMMA NothingSaid == TextOf(<<>>) = <<>> /\ CallsOf(<<>>) = <<>>
<1> DEFINE t == [i \in DOMAIN <<>> |-> IF <<>>[i].kind = "text" THEN <<>>[i].text ELSE <<>>]
           c == [i \in DOMAIN <<>> |-> IF <<>>[i].kind # "tool_use" THEN <<>>
                                       ELSE <<[id |-> <<>>[i].id, args |-> <<>>[i].text]>>]
<1>1. t = <<>> /\ c = <<>>  OBVIOUS
<1> HIDE DEF t, c
<1> QED  BY <1>1, FlattenNone DEF TextOf, CallsOf, t, c

(* An answer as it comes. *)
\* Where the upstream can be in an answer.
Places(B) == {a \in [block : 0..(Len(B) + 3), part : Nat] :
                IF a.block \in 1..Len(B) THEN a.part <= Len(B[a.block].text) ELSE a.part = 0}

\* The first fragments of a block.
Begun(k, p) == [kind |-> k.kind, id |-> k.id, text |-> SubSeq(k.text, 1, p)]

\* The blocks that came before a block.
Before(B, i) == SubSeq(B, 1, i - 1)

\* What the upstream has said by then: the blocks before, and what has come of the one it is in.
Heard(B, a) == IF a.block = 0 THEN <<>>
               ELSE IF a.block > Len(B) THEN B
               ELSE IF a.part = 0 THEN Before(B, a.block)
               ELSE Append(Before(B, a.block), Begun(B[a.block], a.part - 1))

\* Where the upstream is after one more event.
After(B, a) == IF a.block \in 1..Len(B) /\ a.part < Len(B[a.block].text)
               THEN [block |-> a.block, part |-> a.part + 1]
               ELSE [block |-> a.block + 1, part |-> 0]

\* The first fragments of a block are a block.
LEMMA BegunIsBlock ==
    ASSUME NEW k \in ReplyBlocks, NEW p \in 0..Len(k.text)
    PROVE  /\ Begun(k, p) \in ReplyBlocks
           /\ p = Len(k.text) => Begun(k, p) = k
           /\ p = 0 => Begun(k, p).text = <<>>
           /\ p # 0 => Begun(k, p).text = Begun(k, p - 1).text \o <<k.text[p]>>
<1>1. k.text \in Seq(Fragments) /\ Len(k.text) \in Nat /\ k.kind \in {"text", "thinking", "tool_use"} /\ k.id \in Nat
  BY DEF ReplyBlocks
<1>2. SubSeq(k.text, 1, p) \in Seq(Fragments)  BY <1>1
<1>3. Begun(k, p) \in ReplyBlocks  BY <1>1, <1>2 DEF Begun, ReplyBlocks
<1>4. ASSUME p = Len(k.text) PROVE Begun(k, p) = k
  <2>1. SubSeq(k.text, 1, p) = k.text
    <3>1. SubSeq(k.text, 1, Len(k.text)) = k.text  BY <1>1, SubSeqFull
    <3> QED  BY <1>4, <3>1
  <2>2. k = [kind |-> k.kind, id |-> k.id, text |-> k.text]  BY DEF ReplyBlocks
  <2> QED  BY <2>1, <2>2 DEF Begun
<1>5. ASSUME p = 0 PROVE Begun(k, p).text = <<>>
  <2>1. SubSeq(k.text, 1, 0) = <<>>
    <3>1. Len(SubSeq(k.text, 1, 0)) = 0 /\ SubSeq(k.text, 1, 0) \in Seq(Fragments)  BY <1>1
    <3> QED  BY <3>1, EmptySeq
  <2> QED  BY <1>5, <2>1 DEF Begun
<1>6. ASSUME p # 0 PROVE Begun(k, p).text = Begun(k, p - 1).text \o <<k.text[p]>>
  <2>1. p \in 1..Len(k.text) /\ p - 1 \in 0..Len(k.text)  BY <1>1, <1>6
  <2> DEFINE u == SubSeq(k.text, 1, p - 1)
             v == SubSeq(k.text, 1, p)
  <2>2. u \in Seq(Fragments) /\ v \in Seq(Fragments) /\ k.text[p] \in Fragments  BY <1>1, <2>1
  <2>3. Len(u) = p - 1 /\ Len(v) = p  BY <1>1, <2>1
  <2>4. \A i \in 1..(p - 1) : u[i] = k.text[i]  BY <1>1, <2>1
  <2>5. \A i \in 1..p : v[i] = k.text[i]  BY <1>1, <2>1
  <2> HIDE DEF u, v
  <2>6. v = Append(u, k.text[p])
    <3>1. Len(v) = Len(u) + 1  BY <2>1, <2>3
    <3>2. v[Len(v)] = k.text[p]  BY <2>1, <2>3, <2>5
    <3>3. \A i \in 1..Len(u) : v[i] = u[i]  BY <2>1, <2>3, <2>4, <2>5
    <3> QED  BY <2>2, <3>1, <3>2, <3>3, OneMore
  <2>7. Append(u, k.text[p]) = u \o <<k.text[p]>>  BY <2>2, AppendIsConcat
  <2> QED  BY <2>6, <2>7 DEF Begun, u, v
<1> QED  BY <1>3, <1>4, <1>5, <1>6

\* The blocks up to one are the ones before it and the block.
LEMMA BeforeMore ==
    ASSUME NEW B \in Seq(ReplyBlocks), NEW i \in 1..Len(B)
    PROVE  /\ Before(B, i) \in Seq(ReplyBlocks) /\ B[i] \in ReplyBlocks
           /\ SubSeq(B, 1, i) = Append(Before(B, i), B[i])
<1>1. Len(B) \in Nat /\ B[i] \in ReplyBlocks /\ i \in Nat /\ i >= 1  OBVIOUS
<1> DEFINE u == SubSeq(B, 1, i - 1)
           v == SubSeq(B, 1, i)
<1>2. u \in Seq(ReplyBlocks) /\ v \in Seq(ReplyBlocks)  BY <1>1
<1>3. Len(u) = i - 1 /\ Len(v) = i  BY <1>1
<1>4. \A j \in 1..(i - 1) : u[j] = B[j]  BY <1>1
<1>5. \A j \in 1..i : v[j] = B[j]  BY <1>1
<1> HIDE DEF u, v
<1>6. v = Append(u, B[i])
  <2>1. Len(v) = Len(u) + 1  BY <1>1, <1>3
  <2>2. v[Len(v)] = B[i]  BY <1>1, <1>3, <1>5
  <2>3. \A j \in 1..Len(u) : v[j] = u[j]  BY <1>1, <1>3, <1>4, <1>5
  <2> QED  BY <1>1, <1>2, <2>1, <2>2, <2>3, OneMore
<1> QED  BY <1>1, <1>2, <1>6 DEF Before, u, v

\* What an event adds to what was heard: nothing outside the blocks, a block that begins, a fragment more.
LEMMA HeardMore ==
    ASSUME NEW B \in Seq(ReplyBlocks), NEW a \in Places(B), a.block <= Len(B) + 2
    PROVE  /\ After(B, a) \in Places(B)
           /\ a.block \notin 1..Len(B) => Heard(B, After(B, a)) = Heard(B, a)
           /\ a.block \in 1..Len(B) /\ a.part = 0 =>
                /\ Heard(B, a) = Before(B, a.block)
                /\ Heard(B, After(B, a)) = Append(Before(B, a.block), Begun(B[a.block], 0))
           /\ a.block \in 1..Len(B) /\ a.part # 0 =>
                /\ a.part \in 1..Len(B[a.block].text)
                /\ Heard(B, a) = Append(Before(B, a.block), Begun(B[a.block], a.part - 1))
                /\ Heard(B, After(B, a)) = Append(Before(B, a.block), Begun(B[a.block], a.part))
<1> DEFINE i == a.block
           p == a.part
           n == After(B, a)
<1>1. /\ Len(B) \in Nat /\ i \in 0..(Len(B) + 2) /\ p \in Nat
      /\ i \in 1..Len(B) => p <= Len(B[i].text)
      /\ i \notin 1..Len(B) => p = 0
  BY DEF Places
<1>2. ASSUME i \in 1..Len(B) PROVE Len(B[i].text) \in Nat
  <2>1. B[i] \in ReplyBlocks  BY <1>2
  <2>2. B[i].text \in Seq(Fragments)  BY <2>1 DEF ReplyBlocks
  <2> QED  BY <2>2
<1>3. CASE i \notin 1..Len(B)
  <2>1. n = [block |-> i + 1, part |-> 0]  BY <1>3 DEF After
  <2>2. n \in Places(B)
    <3>1. i + 1 \in 1..(Len(B) + 3)  BY <1>1
    <3>2. i + 1 \in 1..Len(B) => 0 <= Len(B[i + 1].text)
      <4> SUFFICES ASSUME i + 1 \in 1..Len(B) PROVE 0 <= Len(B[i + 1].text)  OBVIOUS
      <4>1. B[i + 1] \in ReplyBlocks  OBVIOUS
      <4>2. B[i + 1].text \in Seq(Fragments)  BY <4>1 DEF ReplyBlocks
      <4> QED  BY <4>2
    <3> QED  BY <1>1, <2>1, <3>1, <3>2 DEF Places
  <2>3. CASE i = 0
    <3>1. Heard(B, a) = <<>>  BY <2>3 DEF Heard
    <3>2. CASE Len(B) = 0
      <4>1. Heard(B, n) = B  BY <1>1, <2>1, <2>3, <3>2 DEF Heard
      <4>2. B = <<>>  BY <3>2, EmptySeq
      <4> QED  BY <2>2, <3>1, <4>1, <4>2, <1>3
    <3>3. CASE Len(B) # 0
      <4>1. Heard(B, n) = Before(B, 1)  BY <1>1, <2>1, <2>3, <3>3 DEF Heard
      <4>2. Before(B, 1) = <<>>
        <5>1. Len(SubSeq(B, 1, 0)) = 0 /\ SubSeq(B, 1, 0) \in Seq(ReplyBlocks)  BY <1>1
        <5>2. SubSeq(B, 1, 0) = <<>>  BY <5>1, EmptySeq
        <5> QED  BY <5>2 DEF Before
      <4> QED  BY <2>2, <3>1, <4>1, <4>2, <1>3
    <3> QED  BY <3>2, <3>3
  <2>4. CASE i # 0
    <3>1. i > Len(B) /\ i + 1 > Len(B) /\ i + 1 # 0  BY <1>1, <1>3, <2>4
    <3>2. Heard(B, a) = B  BY <2>4, <3>1 DEF Heard
    <3>3. Heard(B, n) = B  BY <2>1, <3>1 DEF Heard
    <3> QED  BY <2>2, <3>2, <3>3, <1>3
  <2> QED  BY <2>3, <2>4
<1>4. CASE i \in 1..Len(B)
  <2> DEFINE L == Len(B[i].text)
  <2>1. L \in Nat /\ p \in 0..L  BY <1>1, <1>2, <1>4
  <2>2. B[i] \in ReplyBlocks /\ SubSeq(B, 1, i) = Append(Before(B, i), B[i])  BY <1>4, BeforeMore
  <2>3. Begun(B[i], L) = B[i]
    <3>1. L \in 0..Len(B[i].text)  BY <2>1
    <3>2. B[i] \in ReplyBlocks  BY <2>2
    <3> HIDE DEF L
    <3>3. L = Len(B[i].text)  BY DEF L
    <3> QED  BY <3>1, <3>2, <3>3, BegunIsBlock
  <2>4. i # 0 /\ ~(i > Len(B))  BY <1>1, <1>4
  <2>5. Heard(B, a) = IF p = 0 THEN Before(B, i) ELSE Append(Before(B, i), Begun(B[i], p - 1))
    BY <2>4 DEF Heard
  <2>6. n \in Places(B) /\ Heard(B, n) = Append(Before(B, i), Begun(B[i], p))
    <3>1. CASE p < L
      <4>1. n = [block |-> i, part |-> p + 1]  BY <1>4, <3>1 DEF After
      <4>2. p + 1 <= L /\ p + 1 # 0 /\ p + 1 \in Nat /\ (p + 1) - 1 = p  BY <2>1, <3>1
      <4>3. n \in Places(B)  BY <1>1, <1>4, <4>1, <4>2 DEF Places
      <4>4. Heard(B, n) = Append(Before(B, i), Begun(B[i], p))  BY <2>4, <4>1, <4>2 DEF Heard
      <4> QED  BY <4>3, <4>4
    <3>2. CASE ~(p < L)
      <4>1. n = [block |-> i + 1, part |-> 0]  BY <3>2 DEF After
      <4>2. p = L  BY <2>1, <3>2
      <4>3. n \in Places(B)
        <5>1. i + 1 \in 1..(Len(B) + 3)  BY <1>1
        <5>2. i + 1 \in 1..Len(B) => 0 <= Len(B[i + 1].text)
          <6> SUFFICES ASSUME i + 1 \in 1..Len(B) PROVE 0 <= Len(B[i + 1].text)  OBVIOUS
          <6>1. B[i + 1] \in ReplyBlocks  OBVIOUS
          <6>2. B[i + 1].text \in Seq(Fragments)  BY <6>1 DEF ReplyBlocks
          <6> QED  BY <6>2
        <5> QED  BY <1>1, <4>1, <5>1, <5>2 DEF Places
      <4>4. Heard(B, n) = SubSeq(B, 1, i)
        <5>1. CASE i = Len(B)
          <6>1. SubSeq(B, 1, Len(B)) = B  BY SubSeqFull
          <6>2. Heard(B, n) = B  BY <1>1, <4>1, <5>1 DEF Heard
          <6> QED  BY <5>1, <6>1, <6>2
        <5>2. CASE i # Len(B)
          <6>1. i + 1 # 0 /\ ~(i + 1 > Len(B)) /\ (i + 1) - 1 = i  BY <1>1, <1>4, <5>2
          <6>2. n.block = i + 1 /\ n.part = 0  BY <4>1
          <6> HIDE DEF n
          <6>3. Heard(B, n) = Before(B, i + 1)  BY <6>1, <6>2 DEF Heard
          <6> QED  BY <6>1, <6>3 DEF Before
        <5> QED  BY <5>1, <5>2
      <4> QED  BY <4>2, <4>3, <4>4, <2>2, <2>3
    <3> QED  BY <3>1, <3>2
  <2>7. p # 0 => p \in 1..L  BY <2>1
  <2>8. p = 0 => Heard(B, n) = Append(Before(B, i), Begun(B[i], 0))  BY <2>6
  <2> HIDE DEF n, L
  <2> QED  BY <1>4, <2>5, <2>6, <2>7, <2>8 DEF n, L
<1> QED  BY <1>3, <1>4
(* The stream. *)
\* A call as the caller puts it together; a fragment that lost a character counts too.
HeardCalls == [id : Nat, args : Seq(Fragments \cup {"?"})]

\* The upstream is inside a tool's block, past its start.
InTool == /\ at.block \in 1..LastBlock /\ at.part # 0
          /\ answer.blocks[at.block].kind = "tool_use"

\* The tools are those announced so far, in their order, and the one the upstream is in is the last.
ToolsSoFar ==
    /\ tables.toolOf \in Seq(Nat) /\ frames.calls \in Seq(HeardCalls) /\ Len(frames.calls) = Len(tables.toolOf)
    /\ \A k \in 1..Len(tables.toolOf) : tables.toolOf[k] <= at.block
    /\ \A k \in 1..Len(tables.toolOf) : tables.toolOf[k] = at.block <=> k = Len(tables.toolOf) /\ InTool
    /\ InTool => Len(tables.toolOf) # 0

\* The frame the translator has the first part of is the one that is coming.
HalfIsComing ==
    \/ half = <<>>
    \/ at.block <= LastBlock + 2 /\ half = <<Coming>>
    \/ /\ at.block <= LastBlock + 2 /\ garbled /\ Coming.text # <<>>
       /\ half = <<[Coming EXCEPT !.text = <<"?">>]>>

\* What the caller has is what was said, as long as nothing was lost.
CallerHeard ==
    ~garbled /\ (frames.done \/ at.block <= LastBlock + 2) =>
        frames.text = TextOf(Heard(answer.blocks, at)) /\ frames.calls = CallsOf(Heard(answer.blocks, at))

\* The reason: kept when it comes, given with the last frame.
ReasonSoFar ==
    /\ at.block <= LastBlock + 1 => tables.finish = NoFinish
    /\ at.block = LastBlock + 2 =>
         tables.finish = IF answer.stop = "absent" THEN NoFinish
                         ELSE Finish(answer.stop, Len(tables.toolOf) # 0)
    /\ at.block <= LastBlock + 2 => frames.done = FALSE
    /\ frames.done \in BOOLEAN
    /\ frames.finish = IF frames.done THEN Finish(answer.stop, Len(tables.toolOf) # 0) ELSE NoFinish

\* The records the translator and the caller keep, and what a stream begins with.
StreamKept ==
    /\ [body |-> body, answer |-> answer] \in Exchanges
    /\ at \in Places(answer.blocks)
    /\ tables = [toolOf |-> tables.toolOf, finish |-> tables.finish]
    /\ frames = [roles |-> frames.roles, text |-> frames.text, calls |-> frames.calls, finish |-> frames.finish,
                 done |-> frames.done]
    /\ frames.roles \in 0..1 /\ (at.block = 0 => frames.roles = 0)
    /\ ended \in {"none", "written", "never"} /\ garbled \in BOOLEAN

\* The invariant of the stream.
StreamIInv == StreamKept /\ ToolsSoFar /\ HalfIsComing /\ CallerHeard /\ ReasonSoFar

\* An exchange is a request and an answer.
LEMMA ExchangeTyped ==
    ASSUME [body |-> body, answer |-> answer] \in Exchanges
    PROVE  /\ body \in ChatRequests /\ answer \in ChatReplies
           /\ answer.blocks \in Seq(ReplyBlocks) /\ answer.stop \in STRING
<1> DEFINE x == [body |-> body, answer |-> answer]
<1>1. x \in [body : ChatRequests, answer : ChatReplies]  BY TranslateAssumption
<1>2. answer \in ChatReplies /\ body \in ChatRequests  BY <1>1
<1> QED  BY <1>2 DEF ChatReplies

\* A finish reason is never the absence of one.
LEMMA FinishIsReason ==
    ASSUME NEW s, NEW c \in BOOLEAN
    PROVE  Finish(s, c) # NoFinish
<1>1. DOMAIN StopMap = {"end_turn", "stop_sequence", "max_tokens", "tool_use"}  BY DEF StopMap
<1>2. s \in DOMAIN StopMap => StopMap[s] \in {"stop", "length", "tool_calls"}  BY <1>1 DEF StopMap
<1>3. Finish(s, c) \in {"stop", "length", "tool_calls"}  BY <1>2 DEF Finish
<1> QED  BY <1>3, TranslateAssumption

\* The position after an event is the one the upstream moves to.
LEMMA MovedIsAfter ==
    ASSUME at \in Places(answer.blocks)
    PROVE  Moved = After(answer.blocks, at)
<1>1. at = [block |-> at.block, part |-> at.part]  BY DEF Places
<1>2. [at EXCEPT !.part = @ + 1] = [block |-> at.block, part |-> at.part + 1]  BY <1>1
<1> QED  BY <1>2 DEF Moved, After, LastBlock

\* A stream begins with nothing said.
LEMMA StreamBegins ==
    ASSUME NEW x \in Exchanges, TranslateStart(x)
    PROVE  StreamIInv
<1>1. body = x.body /\ answer = x.answer /\ [body |-> body, answer |-> answer] \in Exchanges
  <2>1. x \in [body : ChatRequests, answer : ChatReplies]  BY TranslateAssumption
  <2>2. x = [body |-> x.body, answer |-> x.answer]  BY <2>1
  <2>3. body = x.body /\ answer = x.answer  BY DEF TranslateStart
  <2> QED  BY <2>2, <2>3
<1>2. answer.blocks \in Seq(ReplyBlocks)  BY <1>1, ExchangeTyped
<1>3. Len(answer.blocks) \in Nat  BY <1>2
<1>4. /\ at = [block |-> 0, part |-> 0] /\ half = <<>> /\ tables = [toolOf |-> <<>>, finish |-> NoFinish]
      /\ frames = [roles |-> 0, text |-> <<>>, calls |-> <<>>, finish |-> NoFinish, done |-> FALSE]
      /\ ended = "none" /\ garbled = FALSE
  BY DEF TranslateStart, NoFrame, Silence
<1>5. StreamKept
  <2>1. at \in Places(answer.blocks)  BY <1>3, <1>4 DEF Places
  <2>2. /\ tables = [toolOf |-> tables.toolOf, finish |-> tables.finish]
        /\ frames = [roles |-> frames.roles, text |-> frames.text, calls |-> frames.calls, finish |-> frames.finish,
                     done |-> frames.done]
    BY <1>4
  <2>3. frames.roles = 0  BY <1>4
  <2>4. ended = "none" /\ garbled \in BOOLEAN  BY <1>4
  <2>5. [body |-> body, answer |-> answer] \in Exchanges  BY <1>1
  <2> QED  BY <2>1, <2>2, <2>3, <2>4, <2>5 DEF StreamKept
<1>6. ToolsSoFar  BY <1>3, <1>4 DEF ToolsSoFar, InTool, LastBlock
<1>7. CallerHeard
  <2>1. Heard(answer.blocks, at) = <<>>  BY <1>4 DEF Heard
  <2> QED  BY <1>4, <2>1, NothingSaid DEF CallerHeard
<1>8. ReasonSoFar  BY <1>3, <1>4 DEF ReasonSoFar, LastBlock
<1> QED  BY <1>4, <1>5, <1>6, <1>7, <1>8 DEF StreamIInv, HalfIsComing

\* What comes, by where the upstream is.
LEMMA ComingIs ==
    ASSUME at \in Places(answer.blocks), answer.blocks \in Seq(ReplyBlocks)
    PROVE  /\ at.block = 0 => Coming.type = "message_start"
           /\ at.block \in 1..LastBlock =>
                /\ Coming.index = at.block /\ Coming.kind = answer.blocks[at.block].kind
                /\ Coming.id = answer.blocks[at.block].id
                /\ at.part = 0 => Coming.type = "start" /\ Coming.text = <<>>
                /\ at.part # 0 => Coming.type = "delta" /\ Coming.text = <<answer.blocks[at.block].text[at.part]>>
           /\ at.block = LastBlock + 1 => Coming.type = "message_delta" /\ Coming.kind = answer.stop
           /\ at.block > LastBlock + 1 => Coming.type = "message_stop"
           /\ at.block \notin 1..LastBlock => Coming.text = <<>>
<1>1. LastBlock \in Nat /\ at.block \in Nat  BY DEF LastBlock, Places
<1>2. CASE at.block \in 1..LastBlock
  <2>1. /\ at.block # 0 /\ at.block # LastBlock + 1 /\ ~(at.block > LastBlock + 1)  BY <1>1, <1>2
  <2> QED  BY <1>2, <2>1 DEF Coming
<1>3. CASE at.block \notin 1..LastBlock
  <2>1. /\ LastBlock + 1 # 0 /\ (at.block > LastBlock + 1 => at.block # 0 /\ at.block # LastBlock + 1)  BY <1>1
  <2> QED  BY <1>3, <2>1 DEF Coming
<1> QED  BY <1>2, <1>3

\* An event moves the upstream one fragment on in its block, or to the next.
LEMMA PlaceMoves ==
    ASSUME at \in Places(answer.blocks), answer.blocks \in Seq(ReplyBlocks), at.block <= LastBlock + 2,
           at' = Moved, answer' = answer
    PROVE  /\ at' = After(answer.blocks, at) /\ at' \in Places(answer.blocks)
           /\ LastBlock' = LastBlock /\ LastBlock \in Nat /\ at.block \in Nat /\ at.part \in Nat
           /\ \/ at.block \in 1..LastBlock /\ at'.block = at.block /\ at'.part = at.part + 1
              \/ at'.block = at.block + 1 /\ at'.part = 0
           /\ at.block \notin 1..LastBlock => at'.block = at.block + 1 /\ at'.part = 0
<1>1. at' = After(answer.blocks, at)  BY MovedIsAfter
<1>2. LastBlock = Len(answer.blocks) /\ LastBlock' = LastBlock  BY DEF LastBlock
<1>3. at' \in Places(answer.blocks)  BY <1>1, <1>2, HeardMore
<1>4. LastBlock \in Nat /\ at.block \in Nat /\ at.part \in Nat  BY <1>2 DEF Places
<1>5. /\ \/ at.block \in 1..LastBlock /\ at'.block = at.block /\ at'.part = at.part + 1
         \/ at'.block = at.block + 1 /\ at'.part = 0
      /\ at.block \notin 1..LastBlock => at'.block = at.block + 1 /\ at'.part = 0
  BY <1>1, <1>2 DEF After
<1> QED  BY <1>1, <1>2, <1>3, <1>4, <1>5

\* A tool is announced where its block starts, and by nothing else.
LEMMA ToolsStay ==
    ASSUME ToolsSoFar, at \in Places(answer.blocks), answer.blocks \in Seq(ReplyBlocks), at.block <= LastBlock + 2,
           at' = Moved, answer' = answer,
           at.block \in 1..LastBlock /\ at.part = 0 => answer.blocks[at.block].kind # "tool_use",
           tables'.toolOf = tables.toolOf, frames'.calls \in Seq(HeardCalls), Len(frames'.calls) = Len(frames.calls)
    PROVE  ToolsSoFar'
<1>1. /\ LastBlock' = LastBlock /\ LastBlock \in Nat /\ at.block \in Nat /\ at.part \in Nat
      /\ \/ at.block \in 1..LastBlock /\ at'.block = at.block /\ at'.part = at.part + 1
         \/ at'.block = at.block + 1 /\ at'.part = 0
  BY PlaceMoves
<1>2. /\ tables.toolOf \in Seq(Nat) /\ Len(frames.calls) = Len(tables.toolOf)
      /\ \A k \in 1..Len(tables.toolOf) : tables.toolOf[k] <= at.block
      /\ \A k \in 1..Len(tables.toolOf) : tables.toolOf[k] = at.block <=> k = Len(tables.toolOf) /\ InTool
      /\ InTool => Len(tables.toolOf) # 0
  BY DEF ToolsSoFar
<1>3. \A k \in 1..Len(tables.toolOf) : tables.toolOf[k] \in Nat  BY <1>2
<1>4. /\ \A k \in 1..Len(tables.toolOf) : tables.toolOf[k] <= at'.block
      /\ \A k \in 1..Len(tables.toolOf) : tables.toolOf[k] = at'.block <=> k = Len(tables.toolOf) /\ InTool'
      /\ InTool' => Len(tables.toolOf) # 0
  <2>1. CASE at.block \in 1..LastBlock /\ at'.block = at.block /\ at'.part = at.part + 1
    <3>1. InTool' <=> answer.blocks[at.block].kind = "tool_use"
      <4>1. at'.part # 0 /\ at'.block \in 1..LastBlock'  BY <1>1, <2>1
      <4>2. answer'.blocks[at'.block] = answer.blocks[at.block]  BY <2>1
      <4> QED  BY <4>1, <4>2 DEF InTool
    <3>2. InTool' <=> InTool  BY <2>1, <3>1 DEF InTool
    <3> QED  BY <1>2, <2>1, <3>2
  <2>2. CASE at'.block = at.block + 1 /\ at'.part = 0
    <3>1. ~InTool'  BY <2>2 DEF InTool
    <3>2. \A k \in 1..Len(tables.toolOf) : tables.toolOf[k] <= at'.block /\ tables.toolOf[k] # at'.block
      BY <1>1, <1>2, <1>3, <2>2
    <3> QED  BY <3>1, <3>2
  <2> QED  BY <1>1, <2>1, <2>2
<1> QED  BY <1>2, <1>4 DEF ToolsSoFar

\* Inside a tool's block, the index of the block is the last.
LEMMA ToolIndexIsLast ==
    ASSUME ToolsSoFar, InTool
    PROVE  ToolIndex(at.block) = Len(tables.toolOf) /\ Len(tables.toolOf) \in 1..Len(tables.toolOf)
<1> DEFINE s == tables.toolOf
           I == {k \in 1..Len(s) : s[k] = at.block}
<1>1. s \in Seq(Nat) /\ Len(s) \in Nat /\ Len(s) # 0 /\ \A k \in 1..Len(s) : s[k] = at.block <=> k = Len(s)
  BY DEF ToolsSoFar
<1>2. I = {Len(s)} /\ Len(s) \in 1..Len(s)  BY <1>1
<1>3. ToolIndex(at.block) = IF I = {} THEN 0 ELSE Min(I)  BY DEF ToolIndex, SelectInSeq
<1>4. Min({Len(s)}) = Len(s)  BY <1>1 DEF Min
<1> HIDE DEF I, s
<1> QED  BY <1>2, <1>3, <1>4 DEF s
\* The upstream's next event reaches the translator, whole or put together of two chunks.
EventComes(e) ==
    /\ StreamIInv /\ at.block <= LastBlock + 2
    /\ e.type = Coming.type /\ e.index = Coming.index /\ e.kind = Coming.kind /\ e.id = Coming.id
    /\ ~garbled => e.text = Coming.text
    /\ e.text \in Seq(Fragments \cup {"?"})
    /\ at' = Moved /\ half' = <<>>
    /\ body' = body /\ answer' = answer /\ ended' = ended /\ garbled' = garbled

\* What an event finds.
LEMMA EventFinds ==
    ASSUME NEW e, EventComes(e)
    PROVE  /\ StreamKept /\ ToolsSoFar /\ CallerHeard /\ ReasonSoFar
           /\ answer.blocks \in Seq(ReplyBlocks) /\ at \in Places(answer.blocks) /\ at.block <= LastBlock + 2
           /\ at' = Moved /\ answer' = answer /\ garbled' = garbled /\ half' = <<>>
           /\ LastBlock \in Nat /\ LastBlock' = LastBlock /\ at.block \in Nat /\ at.part \in Nat
           /\ frames.done = FALSE /\ frames.finish = NoFinish
<1>1. /\ StreamKept /\ ToolsSoFar /\ CallerHeard /\ ReasonSoFar /\ at.block <= LastBlock + 2
      /\ at' = Moved /\ answer' = answer /\ garbled' = garbled /\ half' = <<>>
  BY DEF EventComes, StreamIInv
<1>2. [body |-> body, answer |-> answer] \in Exchanges /\ at \in Places(answer.blocks)  BY <1>1 DEF StreamKept
<1>3. answer.blocks \in Seq(ReplyBlocks)  BY <1>2, ExchangeTyped
<1>4. LastBlock \in Nat /\ LastBlock' = LastBlock /\ at.block \in Nat /\ at.part \in Nat
  BY <1>1, <1>2, <1>3, PlaceMoves
<1>5. frames.done = FALSE /\ frames.finish = NoFinish  BY <1>1 DEF ReasonSoFar
<1> QED  BY <1>1, <1>2, <1>3, <1>4, <1>5

\* The records are kept by an event that leaves them records.
LEMMA KeptOn ==
    ASSUME NEW e, EventComes(e),
           tables' = [toolOf |-> tables'.toolOf, finish |-> tables'.finish],
           frames' = [roles |-> frames'.roles, text |-> frames'.text, calls |-> frames'.calls,
                      finish |-> frames'.finish, done |-> frames'.done],
           frames'.roles \in 0..1
    PROVE  StreamKept'
<1>1. /\ StreamKept /\ answer.blocks \in Seq(ReplyBlocks) /\ at \in Places(answer.blocks)
      /\ at.block <= LastBlock + 2 /\ at' = Moved /\ answer' = answer
  BY EventFinds
<1>2. at' \in Places(answer.blocks) /\ at'.block # 0
  <2>1. /\ at' \in Places(answer.blocks) /\ at.block \in Nat
        /\ \/ at.block \in 1..LastBlock /\ at'.block = at.block /\ at'.part = at.part + 1
           \/ at'.block = at.block + 1 /\ at'.part = 0
    BY <1>1, PlaceMoves
  <2> QED  BY <2>1
<1>3. body' = body /\ answer' = answer /\ ended' = ended /\ garbled' = garbled  BY DEF EventComes
<1>4. [body |-> body', answer |-> answer'] \in Exchanges  BY <1>1, <1>3 DEF StreamKept
<1>5. at' \in Places(answer'.blocks)  BY <1>2, <1>3
<1>6. ended' \in {"none", "written", "never"} /\ garbled' \in BOOLEAN  BY <1>1, <1>3 DEF StreamKept
<1> QED  BY <1>2, <1>4, <1>5, <1>6 DEF StreamKept

\* The tables and the frames as records, before an event.
LEMMA StreamRecords ==
    ASSUME StreamKept
    PROVE  /\ tables = [toolOf |-> tables.toolOf, finish |-> tables.finish]
           /\ frames = [roles |-> frames.roles, text |-> frames.text, calls |-> frames.calls,
                        finish |-> frames.finish, done |-> frames.done]
           /\ frames.roles \in 0..1 /\ (at.block = 0 => frames.roles = 0)
BY DEF StreamKept

\* The role is announced once, before the first block.
LEMMA AnnounceKeeps ==
    ASSUME NEW e, EventComes(e), Announce(e)
    PROVE  StreamIInv'
<1>1. /\ StreamKept /\ ToolsSoFar /\ CallerHeard /\ ReasonSoFar
      /\ answer.blocks \in Seq(ReplyBlocks) /\ at \in Places(answer.blocks) /\ at.block <= LastBlock + 2
      /\ at' = Moved /\ answer' = answer /\ garbled' = garbled /\ half' = <<>>
      /\ LastBlock \in Nat /\ LastBlock' = LastBlock /\ at.block \in Nat /\ at.part \in Nat
      /\ frames.done = FALSE /\ frames.finish = NoFinish
  BY EventFinds
<1>2. at.block = 0
  <2>1. Coming.type = "message_start"  BY DEF EventComes, Announce
  <2>2. /\ at.block \in 1..LastBlock => Coming.type \in {"start", "delta"}
        /\ at.block = LastBlock + 1 => Coming.type = "message_delta"
        /\ at.block > LastBlock + 1 => Coming.type = "message_stop"
    BY <1>1, ComingIs
  <2> QED  BY <1>1, <2>1, <2>2
<1>3. /\ tables' = tables
      /\ frames' = [roles |-> 1, text |-> frames.text, calls |-> frames.calls, finish |-> frames.finish,
                    done |-> frames.done]
  <2>1. frames = [roles |-> 0, text |-> frames.text, calls |-> frames.calls, finish |-> frames.finish,
                  done |-> frames.done]
    BY <1>1, <1>2, StreamRecords
  <2>2. frames' = [frames EXCEPT !.roles = @ + 1] /\ tables' = tables  BY DEF Announce
  <2> QED  BY <2>1, <2>2
<1>4. at'.block = 1 /\ at'.part = 0 /\ at' = After(answer.blocks, at)
  <2>1. at' = After(answer.blocks, at) /\ (at.block \notin 1..LastBlock => at'.block = at.block + 1 /\ at'.part = 0)
    BY <1>1, PlaceMoves
  <2> QED  BY <1>2, <2>1
<1>5. StreamKept'
  <2>1. tables' = [toolOf |-> tables'.toolOf, finish |-> tables'.finish]  BY <1>1, <1>3, StreamRecords
  <2>2. frames' = [roles |-> frames'.roles, text |-> frames'.text, calls |-> frames'.calls,
                   finish |-> frames'.finish, done |-> frames'.done] /\ frames'.roles = 1
    BY <1>3
  <2> QED  BY <2>1, <2>2, KeptOn
<1>6. ToolsSoFar'
  <2>1. tables'.toolOf = tables.toolOf /\ frames'.calls = frames.calls  BY <1>3
  <2>2. frames.calls \in Seq(HeardCalls)  BY <1>1 DEF ToolsSoFar
  <2>3. ~(at.block \in 1..LastBlock /\ at.part = 0)  BY <1>2
  <2> QED  BY <1>1, <2>1, <2>2, <2>3, ToolsStay
<1>7. CallerHeard'
  <2>1. Heard(answer.blocks, at') = Heard(answer.blocks, at)
    <3>1. at \in Places(answer.blocks) /\ at.block <= Len(answer.blocks) + 2  BY <1>1 DEF LastBlock
    <3>2. at.block \notin 1..Len(answer.blocks)  BY <1>2
    <3> QED  BY <1>1, <1>4, <3>1, <3>2, HeardMore
  <2>2. frames'.text = frames.text /\ frames'.calls = frames.calls  BY <1>3
  <2>3. ~garbled => frames.text = TextOf(Heard(answer.blocks, at)) /\ frames.calls = CallsOf(Heard(answer.blocks, at))
    BY <1>1 DEF CallerHeard
  <2> QED  BY <1>1, <2>1, <2>2, <2>3 DEF CallerHeard
<1>8. ReasonSoFar'
  <2>1. tables.finish = NoFinish  BY <1>1, <1>2 DEF ReasonSoFar
  <2>2. tables'.finish = NoFinish /\ frames'.finish = NoFinish /\ frames'.done = FALSE  BY <1>1, <1>3, <2>1
  <2>3. at'.block # LastBlock' + 2  BY <1>1, <1>4
  <2> QED  BY <2>2, <2>3 DEF ReasonSoFar
<1>9. HalfIsComing'  BY <1>1 DEF HalfIsComing
<1> QED  BY <1>5, <1>6, <1>7, <1>8, <1>9 DEF StreamIInv
\* Where the upstream is, by what comes.
LEMMA EventWhere ==
    ASSUME NEW e, EventComes(e)
    PROVE  /\ e.type = "start" => at.block \in 1..LastBlock /\ at.part = 0
           /\ e.type = "delta" => at.block \in 1..LastBlock /\ at.part # 0
           /\ e.type = "message_delta" => at.block = LastBlock + 1
           /\ e.type = "message_stop" => at.block = LastBlock + 2
           /\ at.block \in 1..LastBlock => /\ e.index = at.block /\ e.kind = answer.blocks[at.block].kind
                                           /\ e.id = answer.blocks[at.block].id
           /\ at.block = LastBlock + 1 => e.kind = answer.stop
<1>1. /\ answer.blocks \in Seq(ReplyBlocks) /\ at \in Places(answer.blocks) /\ at.block <= LastBlock + 2
      /\ LastBlock \in Nat /\ at.block \in Nat /\ at.part \in Nat
  BY EventFinds
<1>2. e.type = Coming.type /\ e.index = Coming.index /\ e.kind = Coming.kind /\ e.id = Coming.id  BY DEF EventComes
<1>3. /\ at.block = 0 => Coming.type = "message_start"
      /\ at.block \in 1..LastBlock =>
           /\ Coming.index = at.block /\ Coming.kind = answer.blocks[at.block].kind
           /\ Coming.id = answer.blocks[at.block].id
           /\ at.part = 0 => Coming.type = "start"
           /\ at.part # 0 => Coming.type = "delta"
      /\ at.block = LastBlock + 1 => Coming.type = "message_delta" /\ Coming.kind = answer.stop
      /\ at.block > LastBlock + 1 => Coming.type = "message_stop"
  BY <1>1, ComingIs
<1>4. CASE at.block = 0  BY <1>1, <1>2, <1>3, <1>4
<1>5. CASE at.block \in 1..LastBlock
  <2>1. at.block # LastBlock + 1  BY <1>1, <1>5
  <2>2. CASE at.part = 0  BY <1>2, <1>3, <1>5, <2>1, <2>2
  <2>3. CASE at.part # 0  BY <1>2, <1>3, <1>5, <2>1, <2>3
  <2> QED  BY <2>2, <2>3
<1>6. CASE at.block = LastBlock + 1
  <2>1. at.block \notin 1..LastBlock  BY <1>1, <1>6
  <2> QED  BY <1>2, <1>3, <1>6, <2>1
<1>7. CASE at.block > LastBlock + 1
  <2>1. at.block = LastBlock + 2 /\ at.block \notin 1..LastBlock /\ at.block # LastBlock + 1  BY <1>1, <1>7
  <2> QED  BY <1>2, <1>3, <1>7, <2>1
<1> QED  BY <1>1, <1>4, <1>5, <1>6, <1>7

\* What a block adds where it begins: a call with no arguments yet, or nothing.
LEMMA BlockStartsKeeps ==
    ASSUME NEW e, EventComes(e), BlockStarts(e)
    PROVE  StreamIInv'
<1> DEFINE i == at.block
           k == answer.blocks[at.block]
           P == Before(answer.blocks, at.block)
<1>1. /\ StreamKept /\ ToolsSoFar /\ CallerHeard /\ ReasonSoFar
      /\ answer.blocks \in Seq(ReplyBlocks) /\ at \in Places(answer.blocks) /\ at.block <= LastBlock + 2
      /\ at' = Moved /\ answer' = answer /\ garbled' = garbled /\ half' = <<>>
      /\ LastBlock \in Nat /\ LastBlock' = LastBlock /\ at.block \in Nat /\ at.part \in Nat
      /\ frames.done = FALSE /\ frames.finish = NoFinish
  BY EventFinds
<1>2. i \in 1..LastBlock /\ at.part = 0 /\ e.index = i /\ e.kind = k.kind /\ e.id = k.id
  <2>1. e.type = "start"  BY DEF BlockStarts
  <2> QED  BY <2>1, EventWhere
<1>3. /\ at' = After(answer.blocks, at)
      /\ \/ at'.block = i /\ at'.part = 1
         \/ at'.block = i + 1 /\ at'.part = 0
  <2>1. /\ at' = After(answer.blocks, at)
        /\ \/ at.block \in 1..LastBlock /\ at'.block = at.block /\ at'.part = at.part + 1
           \/ at'.block = at.block + 1 /\ at'.part = 0
    BY <1>1, PlaceMoves
  <2> QED  BY <1>2, <2>1
<1>4. P \in Seq(ReplyBlocks) /\ k \in ReplyBlocks /\ i \in 1..Len(answer.blocks)
  BY <1>1, <1>2, BeforeMore DEF LastBlock
<1>5. /\ Begun(k, 0) \in ReplyBlocks /\ Begun(k, 0).text = <<>>
      /\ Begun(k, 0).kind = k.kind /\ Begun(k, 0).id = k.id
  <2>1. k.text \in Seq(Fragments)  BY <1>4 DEF ReplyBlocks
  <2>2. 0 \in 0..Len(k.text)  BY <2>1
  <2> HIDE DEF k
  <2> QED  BY <1>4, <2>2, BegunIsBlock DEF Begun
<1>6. Heard(answer.blocks, at) = P /\ Heard(answer.blocks, at') = Append(P, Begun(k, 0))
  <2>1. at.block <= Len(answer.blocks) + 2 /\ at.block \in 1..Len(answer.blocks)  BY <1>1, <1>2 DEF LastBlock
  <2> QED  BY <1>1, <1>2, <1>3, <2>1, HeardMore
<1>7. /\ TextOf(P) \in Seq(Fragments) /\ CallsOf(P) \in Seq(ReplyCalls)
      /\ TextOf(Append(P, Begun(k, 0))) = TextOf(P)
      /\ CallsOf(Append(P, Begun(k, 0))) =
           IF k.kind = "tool_use" THEN Append(CallsOf(P), [id |-> k.id, args |-> <<>>]) ELSE CallsOf(P)
  <2> HIDE DEF k, P
  <2>1. /\ TextOf(P) \in Seq(Fragments)
        /\ TextOf(Append(P, Begun(k, 0)))
             = TextOf(P) \o (IF Begun(k, 0).kind = "text" THEN Begun(k, 0).text ELSE <<>>)
    BY <1>4, <1>5, TextMore
  <2>2. TextOf(P) \o <<>> = TextOf(P)  BY <2>1, ConcatEmptySeq
  <2>3. /\ CallsOf(P) \in Seq(ReplyCalls)
        /\ CallsOf(Append(P, Begun(k, 0))) = IF Begun(k, 0).kind = "tool_use"
             THEN Append(CallsOf(P), [id |-> Begun(k, 0).id, args |-> Begun(k, 0).text]) ELSE CallsOf(P)
    BY <1>4, <1>5, CallsMore
  <2> QED  BY <1>5, <2>1, <2>2, <2>3
<1>8. ~garbled => frames.text = TextOf(P) /\ frames.calls = CallsOf(P)  BY <1>1, <1>6 DEF CallerHeard
<1>9. tables.finish = NoFinish /\ at'.block <= LastBlock' + 1
  <2>1. at.block <= LastBlock + 1 /\ at'.block <= LastBlock + 1  BY <1>1, <1>2, <1>3
  <2> QED  BY <1>1, <2>1 DEF ReasonSoFar
<1>10. HalfIsComing'  BY <1>1 DEF HalfIsComing
<1> HIDE DEF k, P, i
<1>11. CASE k.kind # "tool_use"
  <2>1. tables' = tables /\ frames' = frames  BY <1>2, <1>11 DEF BlockStarts
  <2>2. StreamKept'
    <3>1. /\ tables = [toolOf |-> tables.toolOf, finish |-> tables.finish]
          /\ frames = [roles |-> frames.roles, text |-> frames.text, calls |-> frames.calls,
                        finish |-> frames.finish, done |-> frames.done]
          /\ frames.roles \in 0..1
      BY <1>1, StreamRecords
    <3>2. tables' = [toolOf |-> tables'.toolOf, finish |-> tables'.finish]  BY <2>1, <3>1
    <3>3. frames' = [roles |-> frames'.roles, text |-> frames'.text, calls |-> frames'.calls,
                     finish |-> frames'.finish, done |-> frames'.done] /\ frames'.roles \in 0..1
      BY <2>1, <3>1
    <3> QED  BY <3>2, <3>3, KeptOn
  <2>3. ToolsSoFar'
    <3>1. tables'.toolOf = tables.toolOf /\ frames'.calls = frames.calls  BY <2>1
    <3>2. frames.calls \in Seq(HeardCalls)  BY <1>1 DEF ToolsSoFar
    <3>3. answer.blocks[at.block].kind # "tool_use"  BY <1>11 DEF k
    <3> QED  BY <1>1, <3>1, <3>2, <3>3, ToolsStay
  <2>4. CallerHeard'
    <3>1. ~garbled => /\ frames'.text = TextOf(Heard(answer.blocks, at'))
                      /\ frames'.calls = CallsOf(Heard(answer.blocks, at'))
      BY <1>6, <1>7, <1>8, <1>11, <2>1
    <3> QED  BY <1>1, <3>1 DEF CallerHeard
  <2>5. ReasonSoFar'
    <3>1. tables'.finish = NoFinish /\ frames'.finish = NoFinish /\ frames'.done = FALSE  BY <1>1, <1>9, <2>1
    <3>2. at'.block # LastBlock' + 2  BY <1>1, <1>3, <1>9
    <3> QED  BY <3>1, <3>2 DEF ReasonSoFar
  <2> QED  BY <2>2, <2>3, <2>4, <2>5, <1>10 DEF StreamIInv
<1>12. CASE k.kind = "tool_use"
  <2> DEFINE c == [id |-> k.id, args |-> <<>>]
  <2>1. /\ tables' = [tables EXCEPT !.toolOf = Append(@, i)]
        /\ frames' = [frames EXCEPT !.calls = Append(@, c)]
    BY <1>2, <1>12 DEF BlockStarts
  <2>2. /\ tables = [toolOf |-> tables.toolOf, finish |-> tables.finish]
        /\ frames = [roles |-> frames.roles, text |-> frames.text, calls |-> frames.calls,
                      finish |-> frames.finish, done |-> frames.done]
        /\ frames.roles \in 0..1
    BY <1>1, StreamRecords
  <2> HIDE DEF c
  <2>3. tables' = [toolOf |-> Append(tables.toolOf, i), finish |-> tables.finish]  BY <2>1, <2>2
  <2>4. frames' = [roles |-> frames.roles, text |-> frames.text, calls |-> Append(frames.calls, c),
                   finish |-> frames.finish, done |-> frames.done]
    BY <2>1, <2>2
  <2>5. StreamKept'
    <3>1. tables' = [toolOf |-> tables'.toolOf, finish |-> tables'.finish]  BY <2>3
    <3>2. frames' = [roles |-> frames'.roles, text |-> frames'.text, calls |-> frames'.calls,
                     finish |-> frames'.finish, done |-> frames'.done] /\ frames'.roles \in 0..1
      BY <2>2, <2>4
    <3> QED  BY <3>1, <3>2, KeptOn
  <2>6. ToolsSoFar'
    <3> DEFINE s == tables.toolOf
               t == Append(tables.toolOf, i)
    <3>1. /\ s \in Seq(Nat) /\ frames.calls \in Seq(HeardCalls) /\ Len(frames.calls) = Len(s)
          /\ \A j \in 1..Len(s) : s[j] <= i
          /\ \A j \in 1..Len(s) : s[j] = i <=> j = Len(s) /\ InTool
      BY <1>1 DEF ToolsSoFar, i
    <3>2. ~InTool  BY <1>2 DEF InTool
    <3>3. c \in HeardCalls
      <4>1. k.id \in Nat  BY <1>4 DEF ReplyBlocks
      <4> QED  BY <4>1 DEF c, HeardCalls
    <3>4. /\ t \in Seq(Nat) /\ Len(t) = Len(s) + 1 /\ t[Len(s) + 1] = i /\ \A j \in 1..Len(s) : t[j] = s[j]
      BY <1>2, <3>1, AppendProperties DEF i
    <3>5. Append(frames.calls, c) \in Seq(HeardCalls) /\ Len(Append(frames.calls, c)) = Len(t)
      <4>1. Append(frames.calls, c) \in Seq(HeardCalls) /\ Len(Append(frames.calls, c)) = Len(frames.calls) + 1
        BY <3>1, <3>3, AppendProperties
      <4> QED  BY <3>1, <3>4, <4>1
    <3>6. Len(s) \in Nat /\ \A j \in 1..Len(s) : s[j] \in Nat  BY <3>1
    <3>7. i \in Nat /\ LastBlock \in Nat /\ i \in 1..LastBlock  BY <1>1, <1>2 DEF i
    <3> HIDE DEF s, t
    <3>8. \A j \in 1..Len(t) : t[j] <= i /\ (t[j] = i <=> j = Len(t))
      <4> SUFFICES ASSUME NEW j \in 1..Len(t) PROVE t[j] <= i /\ (t[j] = i <=> j = Len(t))  OBVIOUS
      <4>1. CASE j = Len(t)  BY <3>4, <3>6, <3>7, <4>1
      <4>2. CASE j # Len(t)
        <5>1. j \in 1..Len(s) /\ t[j] = s[j]  BY <3>4, <3>6, <4>2
        <5>2. s[j] <= i /\ s[j] # i  BY <3>1, <3>2, <5>1
        <5> QED  BY <4>2, <5>1, <5>2
      <4> QED  BY <4>1, <4>2
    <3>9. tables'.toolOf = t /\ frames'.calls = Append(frames.calls, c)  BY <2>3, <2>4 DEF t
    <3>10. /\ \A j \in 1..Len(t) : t[j] <= at'.block
           /\ \A j \in 1..Len(t) : t[j] = at'.block <=> j = Len(t) /\ InTool'
           /\ InTool' => Len(t) # 0
      <4>1. CASE at'.block = i /\ at'.part = 1
        <5>1. InTool'
          <6>1. at'.block \in 1..LastBlock' /\ at'.part # 0  BY <1>1, <3>7, <4>1
          <6>2. answer'.blocks[at'.block] = k  BY <1>1, <4>1 DEF k, i
          <6> QED  BY <6>1, <6>2, <1>12 DEF InTool
        <5>2. Len(t) # 0  BY <3>4, <3>6
        <5> QED  BY <3>8, <4>1, <5>1, <5>2
      <4>2. CASE at'.block = i + 1 /\ at'.part = 0
        <5>1. ~InTool'  BY <4>2 DEF InTool
        <5>2. \A j \in 1..Len(t) : t[j] \in Nat  BY <3>4
        <5>3. \A j \in 1..Len(t) : t[j] <= at'.block /\ t[j] # at'.block  BY <3>7, <3>8, <4>2, <5>2
        <5> QED  BY <5>1, <5>3
      <4> QED  BY <1>3, <4>1, <4>2
    <3> QED  BY <3>4, <3>5, <3>9, <3>10 DEF ToolsSoFar
  <2>7. CallerHeard'
    <3>1. ~garbled => /\ frames'.text = TextOf(Heard(answer.blocks, at'))
                      /\ frames'.calls = CallsOf(Heard(answer.blocks, at'))
      BY <1>6, <1>7, <1>8, <1>12, <2>4 DEF c
    <3> QED  BY <1>1, <3>1 DEF CallerHeard
  <2>8. ReasonSoFar'
    <3>1. tables'.finish = NoFinish /\ frames'.finish = NoFinish /\ frames'.done = FALSE  BY <1>1, <1>9, <2>3, <2>4
    <3>2. at'.block # LastBlock' + 2  BY <1>1, <1>3, <1>9
    <3> QED  BY <3>1, <3>2 DEF ReasonSoFar
  <2> QED  BY <2>5, <2>6, <2>7, <2>8, <1>10 DEF StreamIInv
<1> QED  BY <1>11, <1>12
\* The calls with other arguments for the n-th.
WithArgs(u, n, y) == [u EXCEPT ![n].args = y]

\* Other arguments for the n-th call.
LEMMA OtherArgs ==
    ASSUME NEW C, NEW n, NEW y
    PROVE  [C EXCEPT ![n].args = y] = [C EXCEPT ![n] = [C[n] EXCEPT !.args = y]]
OBVIOUS

\* A call with other arguments.
LEMMA CallWithArgs ==
    ASSUME NEW d, NEW a, NEW y
    PROVE  [[id |-> d, args |-> a] EXCEPT !.args = y] = [id |-> d, args |-> y]
OBVIOUS

\* One thing is a sequence.
LEMMA OneThing == ASSUME NEW T, NEW x \in T PROVE <<x>> \in Seq(T)
OBVIOUS

\* More text, and one fragment more.
LEMMA MoreText ==
    ASSUME NEW a \in Seq(Fragments), NEW b \in Seq(Fragments), NEW x \in Fragments
    PROVE  (a \o b) \o <<x>> = a \o (b \o <<x>>)
BY OneThing, ConcatAssociative

\* A call as the answer in one piece has it.
ReplyCall(d, a) == [id |-> d, args |-> a]

\* Other arguments for the last call.
LEMMA LastArgs ==
    ASSUME NEW C \in Seq(ReplyCalls), NEW d \in Nat, NEW a \in Seq(Fragments), NEW b \in Seq(Fragments)
    PROVE  /\ WithArgs(Append(C, ReplyCall(d, a)), Len(C) + 1, b) = Append(C, ReplyCall(d, b))
           /\ Append(C, ReplyCall(d, a))[Len(C) + 1].args = a
<1> DEFINE r == ReplyCall(d, a)
           q == ReplyCall(d, b)
           u == Append(C, r)
           v == Append(C, q)
           n == Len(C) + 1
           w == WithArgs(u, n, b)
<1>1. r \in ReplyCalls /\ q \in ReplyCalls  BY DEF ReplyCalls, ReplyCall
<1>2. r.args = a /\ [r EXCEPT !.args = b] = q  BY CallWithArgs DEF ReplyCall
<1> HIDE DEF r, q
<1>3. /\ u \in Seq(ReplyCalls) /\ Len(u) = n /\ u[n] = r /\ \A i \in 1..Len(C) : u[i] = C[i]
      /\ v \in Seq(ReplyCalls) /\ Len(C) \in Nat
  BY <1>1, AppendProperties
<1> HIDE DEF u, v
<1>4. w = [u EXCEPT ![n] = q]
  <2>1. w = [u EXCEPT ![n] = [u[n] EXCEPT !.args = b]]  BY OtherArgs DEF WithArgs
  <2> QED  BY <1>2, <1>3, <2>1
<1> HIDE DEF w
<1>5. w \in Seq(ReplyCalls) /\ Len(w) = Len(u)  BY <1>1, <1>3, <1>4
<1>6. w[n] = q /\ \A i \in 1..Len(C) : w[i] = C[i]
  <2>1. DOMAIN u = 1..Len(u) /\ n \in 1..Len(u)  BY <1>3
  <2>2. w[n] = q  BY <1>4, <2>1
  <2>3. \A i \in 1..Len(C) : i \in 1..Len(u) /\ i # n  BY <1>3
  <2>4. \A i \in 1..Len(C) : w[i] = u[i]  BY <1>4, <2>1, <2>3
  <2> QED  BY <1>3, <2>2, <2>4
<1>7. w = Append(C, q)
  <2>1. Len(w) = Len(C) + 1  BY <1>3, <1>5
  <2>2. w[Len(w)] = q  BY <1>6, <2>1
  <2> QED  BY <1>1, <1>5, <1>6, <2>1, <2>2, OneMore
<1>8. u[n].args = a  BY <1>2, <1>3
<1> QED  BY <1>7, <1>8 DEF w, q, u, r

\* Another fragment of a call keeps the calls calls.
LEMMA LastArgsTyped ==
    ASSUME NEW C \in Seq(HeardCalls), NEW n \in 1..Len(C), NEW t \in Seq(Fragments \cup {"?"})
    PROVE  [C EXCEPT ![n].args = @ \o t] \in Seq(HeardCalls) /\ Len([C EXCEPT ![n].args = @ \o t]) = Len(C)
<1> DEFINE y == C[n].args \o t
           q == [C[n] EXCEPT !.args = y]
<1>1. C[n] \in HeardCalls  OBVIOUS
<1>2. C[n].args \in Seq(Fragments \cup {"?"}) /\ C[n].id \in Nat /\ C[n] = [id |-> C[n].id, args |-> C[n].args]
  BY <1>1 DEF HeardCalls
<1>3. y \in Seq(Fragments \cup {"?"})  BY <1>2, ConcatProperties
<1>4. [C EXCEPT ![n].args = @ \o t] = [C EXCEPT ![n].args = y]  OBVIOUS
<1> HIDE DEF y
<1>5. q = [id |-> C[n].id, args |-> y]
  <2>1. [[id |-> C[n].id, args |-> C[n].args] EXCEPT !.args = y] = [id |-> C[n].id, args |-> y]  BY CallWithArgs
  <2> QED  BY <1>2, <2>1
<1>6. q \in HeardCalls  BY <1>2, <1>3, <1>5 DEF HeardCalls
<1>7. [C EXCEPT ![n].args = y] = [C EXCEPT ![n] = q]  BY OtherArgs
<1> HIDE DEF q
<1>8. [C EXCEPT ![n] = q] \in Seq(HeardCalls) /\ Len([C EXCEPT ![n] = q]) = Len(C)  BY <1>6
<1> QED  BY <1>4, <1>7, <1>8

\* A fragment: text the caller gets, arguments of the call it belongs to, or thinking he does not see.
LEMMA FragmentKeeps ==
    ASSUME NEW e, EventComes(e), Fragment(e, e.text)
    PROVE  StreamIInv'
<1> DEFINE i == at.block
           p == at.part
           k == answer.blocks[at.block]
           P == Before(answer.blocks, at.block)
           now == Begun(k, p - 1)
           then == Begun(k, p)
<1>1. /\ StreamKept /\ ToolsSoFar /\ CallerHeard /\ ReasonSoFar
      /\ answer.blocks \in Seq(ReplyBlocks) /\ at \in Places(answer.blocks) /\ at.block <= LastBlock + 2
      /\ at' = Moved /\ answer' = answer /\ garbled' = garbled /\ half' = <<>>
      /\ LastBlock \in Nat /\ LastBlock' = LastBlock /\ at.block \in Nat /\ at.part \in Nat
      /\ frames.done = FALSE /\ frames.finish = NoFinish
  BY EventFinds
<1>2. i \in 1..LastBlock /\ p # 0 /\ e.index = i /\ e.kind = k.kind
  <2>1. e.type = "delta"  BY DEF Fragment
  <2> QED  BY <2>1, EventWhere
<1>3. /\ at' = After(answer.blocks, at)
      /\ \/ at'.block = i
         \/ at'.block = i + 1
  <2>1. /\ at' = After(answer.blocks, at)
        /\ \/ at.block \in 1..LastBlock /\ at'.block = at.block /\ at'.part = at.part + 1
           \/ at'.block = at.block + 1 /\ at'.part = 0
    BY <1>1, PlaceMoves
  <2> QED  BY <1>2, <2>1
<1>4. P \in Seq(ReplyBlocks) /\ k \in ReplyBlocks /\ i \in 1..Len(answer.blocks)
  BY <1>1, <1>2, BeforeMore DEF LastBlock
<1>5. /\ p \in 1..Len(k.text) /\ Heard(answer.blocks, at) = Append(P, now)
      /\ Heard(answer.blocks, at') = Append(P, then)
  <2>1. at.block <= Len(answer.blocks) + 2 /\ at.block \in 1..Len(answer.blocks)  BY <1>1, <1>2 DEF LastBlock
  <2> QED  BY <1>1, <1>2, <1>3, <2>1, HeardMore
<1> DEFINE x == k.text[p]
<1>6. /\ now \in ReplyBlocks /\ then \in ReplyBlocks /\ x \in Fragments /\ then.text = now.text \o <<x>>
      /\ now.text \in Seq(Fragments) /\ k.id \in Nat
      /\ now.kind = k.kind /\ then.kind = k.kind /\ now.id = k.id /\ then.id = k.id
  <2>1. k.text \in Seq(Fragments) /\ k.id \in Nat  BY <1>4 DEF ReplyBlocks
  <2>2. Len(k.text) \in Nat /\ k.text[p] \in Fragments  BY <2>1, <1>5
  <2> HIDE DEF k, p
  <2>3. p - 1 \in 0..Len(k.text) /\ p \in 0..Len(k.text)  BY <1>5, <2>2
  <2>4. now \in ReplyBlocks  BY <1>4, <2>3, BegunIsBlock
  <2>5. then \in ReplyBlocks /\ then.text = now.text \o <<x>>  BY <1>2, <1>4, <2>3, BegunIsBlock
  <2>6. now.text \in Seq(Fragments)  BY <2>4 DEF ReplyBlocks
  <2> QED  BY <2>1, <2>2, <2>4, <2>5, <2>6 DEF Begun
<1>7. ~garbled => frames.text = TextOf(Append(P, now)) /\ frames.calls = CallsOf(Append(P, now))
  BY <1>1, <1>5 DEF CallerHeard
<1>8. ~garbled => e.text = <<x>>
  <2>1. Coming.text = <<x>>  BY <1>1, <1>2, ComingIs
  <2> QED  BY <2>1 DEF EventComes
<1>9. e.text \in Seq(Fragments \cup {"?"})  BY DEF EventComes
<1>10. tables.finish = NoFinish /\ at'.block # LastBlock' + 2
  <2>1. at.block <= LastBlock + 1 /\ at'.block # LastBlock + 2  BY <1>1, <1>2, <1>3
  <2> QED  BY <1>1, <2>1 DEF ReasonSoFar
<1>11. HalfIsComing'  BY <1>1 DEF HalfIsComing
<1>12. /\ tables = [toolOf |-> tables.toolOf, finish |-> tables.finish]
       /\ frames = [roles |-> frames.roles, text |-> frames.text, calls |-> frames.calls,
                     finish |-> frames.finish, done |-> frames.done]
       /\ frames.roles \in 0..1
  BY <1>1, StreamRecords
<1>13. frames.calls \in Seq(HeardCalls) /\ Len(frames.calls) = Len(tables.toolOf)  BY <1>1 DEF ToolsSoFar
<1>14. tables' = tables  BY DEF Fragment
<1> HIDE DEF x, now, then, P
<1>15. /\ TextOf(P) \in Seq(Fragments) /\ CallsOf(P) \in Seq(ReplyCalls)
       /\ TextOf(Append(P, now)) = TextOf(P) \o (IF k.kind = "text" THEN now.text ELSE <<>>)
       /\ TextOf(Append(P, then)) = TextOf(P) \o (IF k.kind = "text" THEN then.text ELSE <<>>)
       /\ CallsOf(Append(P, now)) =
            IF k.kind = "tool_use" THEN Append(CallsOf(P), [id |-> k.id, args |-> now.text]) ELSE CallsOf(P)
       /\ CallsOf(Append(P, then)) =
            IF k.kind = "tool_use" THEN Append(CallsOf(P), [id |-> k.id, args |-> then.text]) ELSE CallsOf(P)
  <2> HIDE DEF k
  <2>1. /\ TextOf(P) \in Seq(Fragments)
        /\ TextOf(Append(P, now)) = TextOf(P) \o (IF now.kind = "text" THEN now.text ELSE <<>>)
    BY <1>4, <1>6, TextMore
  <2>2. TextOf(Append(P, then)) = TextOf(P) \o (IF then.kind = "text" THEN then.text ELSE <<>>)
    BY <1>4, <1>6, TextMore
  <2>3. /\ CallsOf(P) \in Seq(ReplyCalls)
        /\ CallsOf(Append(P, now)) = IF now.kind = "tool_use"
             THEN Append(CallsOf(P), [id |-> now.id, args |-> now.text]) ELSE CallsOf(P)
    BY <1>4, <1>6, CallsMore
  <2>4. CallsOf(Append(P, then)) = IF then.kind = "tool_use"
             THEN Append(CallsOf(P), [id |-> then.id, args |-> then.text]) ELSE CallsOf(P)
    BY <1>4, <1>6, CallsMore
  <2> QED  BY <1>6, <2>1, <2>2, <2>3, <2>4
<1>16. k.kind \in {"text", "thinking", "tool_use"}  BY <1>4 DEF ReplyBlocks
<1> HIDE DEF k, i, p
\* Whatever the kind: new text, new calls, nothing else.
<1>17. ASSUME NEW text, NEW calls,
              frames' = [roles |-> frames.roles, text |-> text, calls |-> calls,
                         finish |-> frames.finish, done |-> frames.done],
              calls \in Seq(HeardCalls), Len(calls) = Len(frames.calls),
              ~garbled => text = TextOf(Append(P, then)) /\ calls = CallsOf(Append(P, then))
       PROVE  StreamIInv'
  <2>1. StreamKept'
    <3>1. tables' = [toolOf |-> tables'.toolOf, finish |-> tables'.finish]  BY <1>12, <1>14
    <3>2. frames' = [roles |-> frames'.roles, text |-> frames'.text, calls |-> frames'.calls,
                     finish |-> frames'.finish, done |-> frames'.done] /\ frames'.roles \in 0..1
      BY <1>12, <1>17
    <3> QED  BY <3>1, <3>2, KeptOn
  <2>2. ToolsSoFar'
    <3>1. tables'.toolOf = tables.toolOf /\ frames'.calls = calls  BY <1>14, <1>17
    <3>2. ~(at.block \in 1..LastBlock /\ at.part = 0)  BY <1>2 DEF p
    <3> QED  BY <1>1, <1>17, <3>1, <3>2, ToolsStay
  <2>3. CallerHeard'
    <3>1. frames'.text = text /\ frames'.calls = calls  BY <1>17
    <3>2. ~garbled => /\ frames'.text = TextOf(Heard(answer.blocks, at'))
                      /\ frames'.calls = CallsOf(Heard(answer.blocks, at'))
      BY <1>5, <1>17, <3>1
    <3> QED  BY <1>1, <3>2 DEF CallerHeard
  <2>4. ReasonSoFar'
    <3>1. tables'.finish = NoFinish /\ frames'.finish = NoFinish /\ frames'.done = FALSE
      BY <1>1, <1>10, <1>14, <1>17
    <3> QED  BY <1>10, <3>1 DEF ReasonSoFar
  <2> QED  BY <2>1, <2>2, <2>3, <2>4, <1>11 DEF StreamIInv
<1>18. CASE k.kind = "text"
  <2>1. frames' = [frames EXCEPT !.text = @ \o e.text]  BY <1>2, <1>18 DEF Fragment
  <2>2. frames' = [roles |-> frames.roles, text |-> frames.text \o e.text, calls |-> frames.calls,
                   finish |-> frames.finish, done |-> frames.done]
    BY <1>12, <2>1
  <2>3. ASSUME ~garbled
        PROVE  frames.text \o e.text = TextOf(Append(P, then)) /\ frames.calls = CallsOf(Append(P, then))
    <3>1. frames.text = TextOf(P) \o now.text /\ e.text = <<x>>  BY <1>7, <1>8, <1>15, <1>18, <2>3
    <3>2. (TextOf(P) \o now.text) \o <<x>> = TextOf(P) \o (now.text \o <<x>>)
      <4>1. x \in Fragments  BY <1>6
      <4>2. TextOf(P) \in Seq(Fragments) /\ now.text \in Seq(Fragments)  BY <1>6, <1>15
      <4> HIDE DEF now, x
      <4> QED  BY <4>1, <4>2, MoreText
    <3>3. frames.calls = CallsOf(P)  BY <1>7, <1>15, <1>18, <2>3
    <3> QED  BY <1>6, <1>15, <1>18, <3>1, <3>2, <3>3
  <2> QED  BY <1>13, <1>17, <2>2, <2>3
<1>19. CASE k.kind = "thinking"
  <2>1. frames' = frames  BY <1>2, <1>19 DEF Fragment
  <2>2. frames' = [roles |-> frames.roles, text |-> frames.text, calls |-> frames.calls,
                   finish |-> frames.finish, done |-> frames.done]
    BY <1>12, <2>1
  <2>3. ~garbled => frames.text = TextOf(Append(P, then)) /\ frames.calls = CallsOf(Append(P, then))
    BY <1>7, <1>15, <1>19
  <2> QED  BY <1>13, <1>17, <2>2, <2>3
<1>20. CASE k.kind = "tool_use"
  <2>1. InTool  BY <1>2, <1>20 DEF InTool, k, i, p
  <2> DEFINE n == Len(frames.calls)
  <2>2. ToolIndex(e.index) = n /\ n \in 1..n
    <3>1. ToolIndex(at.block) = Len(tables.toolOf) /\ Len(tables.toolOf) \in 1..Len(tables.toolOf)
      BY <1>1, <2>1, ToolIndexIsLast
    <3> QED  BY <1>2, <1>13, <3>1 DEF i
  <2>3. frames' = [frames EXCEPT !.calls[n].args = @ \o e.text]
    <3>1. n # 0 /\ k.kind # "text"  BY <2>2, <1>20
    <3> HIDE DEF n
    <3> QED  BY <1>2, <1>20, <2>2, <3>1 DEF Fragment
  <2> DEFINE calls == [frames.calls EXCEPT ![n].args = @ \o e.text]
  <2>4. frames' = [roles |-> frames.roles, text |-> frames.text, calls |-> calls,
                   finish |-> frames.finish, done |-> frames.done]
    <3> HIDE DEF n
    <3>1. [frames EXCEPT !.calls[n].args = @ \o e.text] = [frames EXCEPT !.calls = calls]  OBVIOUS
    <3> HIDE DEF calls
    <3> QED  BY <1>12, <2>3, <3>1
  <2>5. calls \in Seq(HeardCalls) /\ Len(calls) = Len(frames.calls)  
    <3>1. n \in 1..Len(frames.calls) /\ frames.calls \in Seq(HeardCalls)  BY <1>13, <2>2
    <3> HIDE DEF n
    <3> QED  BY <1>9, <3>1, LastArgsTyped
  <2>6. ASSUME ~garbled
        PROVE  frames.text = TextOf(Append(P, then)) /\ calls = CallsOf(Append(P, then))
    <3>1. /\ frames.text = TextOf(P) \o <<>> /\ e.text = <<x>>
          /\ frames.calls = Append(CallsOf(P), [id |-> k.id, args |-> now.text])
      BY <1>7, <1>8, <1>15, <1>20, <2>6
    <3>2. TextOf(Append(P, then)) = TextOf(P) \o <<>>  BY <1>15, <1>20
    <3>3. n = Len(CallsOf(P)) + 1
      <4>1. [id |-> k.id, args |-> now.text] \in ReplyCalls  BY <1>6 DEF ReplyCalls
      <4>2. Len(Append(CallsOf(P), [id |-> k.id, args |-> now.text])) = Len(CallsOf(P)) + 1
        BY <1>15, <4>1, AppendProperties
      <4> QED  BY <3>1, <4>2
    <3>4. calls = [frames.calls EXCEPT ![n].args = frames.calls[n].args \o e.text]  OBVIOUS
    <3>5. calls = Append(CallsOf(P), [id |-> k.id, args |-> now.text \o <<x>>])
      <4> DEFINE y == frames.calls[n].args \o e.text
                 a == now.text
                 b == now.text \o <<x>>
                 d == k.id
                 C == CallsOf(P)
      <4>1. C \in Seq(ReplyCalls) /\ d \in Nat /\ a \in Seq(Fragments)  BY <1>6, <1>15
      <4>2. b \in Seq(Fragments)  BY <1>6, OneThing, ConcatProperties
      <4>3. frames.calls = Append(C, ReplyCall(d, a))  BY <3>1 DEF ReplyCall
      <4>4. calls = WithArgs(frames.calls, n, y)  BY <3>4 DEF WithArgs
      <4>5. y = frames.calls[n].args \o <<x>>  BY <3>1
      <4>6. n = Len(C) + 1  BY <3>3
      <4> HIDE DEF a, d, C
      <4>7. frames.calls[n].args = a  BY <4>1, <4>3, <4>6, LastArgs
      <4>8. y = b  BY <4>5, <4>7 DEF a
      <4> HIDE DEF calls, n, y, now, x, k, b
      <4>9. WithArgs(Append(C, ReplyCall(d, a)), Len(C) + 1, b) = Append(C, ReplyCall(d, b))
        BY <4>1, <4>2, LastArgs
      <4>10. calls = Append(C, ReplyCall(d, b))  BY <4>3, <4>4, <4>6, <4>8, <4>9
      <4> QED  BY <4>10 DEF a, b, d, C, ReplyCall
    <3> HIDE DEF calls, n
    <3> QED  BY <1>6, <1>15, <1>20, <3>1, <3>2, <3>5
  <2> HIDE DEF calls
  <2> QED  BY <1>17, <2>4, <2>5, <2>6
<1> QED  BY <1>16, <1>18, <1>19, <1>20
\* Outside the blocks an event says nothing, and the upstream moves to the next place.
LEMMA OutsideBlocks ==
    ASSUME NEW e, EventComes(e), at.block \notin 1..LastBlock
    PROVE  /\ at'.block = at.block + 1 /\ at'.part = 0
           /\ Heard(answer.blocks, at') = Heard(answer.blocks, at)
           /\ frames'.calls = frames.calls /\ tables'.toolOf = tables.toolOf => ToolsSoFar'
<1>1. /\ StreamKept /\ ToolsSoFar
      /\ answer.blocks \in Seq(ReplyBlocks) /\ at \in Places(answer.blocks) /\ at.block <= LastBlock + 2
      /\ at' = Moved /\ answer' = answer
      /\ LastBlock \in Nat
  BY EventFinds
<1>2. at' = After(answer.blocks, at) /\ at'.block = at.block + 1 /\ at'.part = 0  BY <1>1, PlaceMoves
<1>3. Heard(answer.blocks, at') = Heard(answer.blocks, at)
  <2>1. at \in Places(answer.blocks) /\ at.block <= Len(answer.blocks) + 2  BY <1>1 DEF LastBlock
  <2>2. at.block \notin 1..Len(answer.blocks)  BY DEF LastBlock
  <2> QED  BY <1>1, <1>2, <2>1, <2>2, HeardMore
<1>4. ASSUME frames'.calls = frames.calls, tables'.toolOf = tables.toolOf PROVE ToolsSoFar'
  <2>1. frames.calls \in Seq(HeardCalls)  BY <1>1 DEF ToolsSoFar
  <2> QED  BY <1>1, <1>4, <2>1, ToolsStay
<1> QED  BY <1>2, <1>3, <1>4

\* The reason is kept for the last frame.
LEMMA StopReasonKeeps ==
    ASSUME NEW e, EventComes(e), StopReason(e)
    PROVE  StreamIInv'
<1>1. /\ StreamKept /\ ToolsSoFar /\ CallerHeard /\ ReasonSoFar
      /\ at.block <= LastBlock + 2
      /\ answer' = answer /\ garbled' = garbled /\ half' = <<>>
      /\ LastBlock \in Nat /\ LastBlock' = LastBlock /\ at.block \in Nat
      /\ frames.done = FALSE /\ frames.finish = NoFinish
  BY EventFinds
<1>2. at.block = LastBlock + 1 /\ e.kind = answer.stop
  <2>1. e.type = "message_delta"  BY DEF StopReason
  <2> QED  BY <2>1, EventWhere
<1>3. at.block \notin 1..LastBlock  BY <1>1, <1>2
<1>4. /\ tables = [toolOf |-> tables.toolOf, finish |-> tables.finish]
      /\ frames = [roles |-> frames.roles, text |-> frames.text, calls |-> frames.calls,
                    finish |-> frames.finish, done |-> frames.done]
      /\ frames.roles \in 0..1
  BY <1>1, StreamRecords
<1>5. tables.finish = NoFinish  BY <1>1, <1>2 DEF ReasonSoFar
<1> DEFINE given == IF answer.stop = "absent" THEN NoFinish ELSE Finish(answer.stop, Len(tables.toolOf) # 0)
<1>6. frames' = frames /\ tables' = [toolOf |-> tables.toolOf, finish |-> given]
  <2>1. tables.toolOf # <<>> <=> Len(tables.toolOf) # 0
    <3>1. tables.toolOf \in Seq(Nat)  BY <1>1 DEF ToolsSoFar
    <3> QED  BY <3>1, EmptySeq
  <2>2. frames' = frames  BY DEF StopReason
  <2>3. CASE answer.stop = "absent"
    <3>1. tables' = tables  BY <1>2, <2>3 DEF StopReason
    <3> QED  BY <1>4, <1>5, <2>2, <2>3, <3>1
  <2>4. CASE answer.stop # "absent"
    <3>1. tables' = [tables EXCEPT !.finish = Finish(answer.stop, tables.toolOf # <<>>)]
      BY <1>2, <2>4 DEF StopReason
    <3>2. Finish(answer.stop, tables.toolOf # <<>>) = given  BY <2>1, <2>4
    <3> HIDE DEF given
    <3>3. tables' = [tables EXCEPT !.finish = given]  BY <3>1, <3>2
    <3> QED  BY <1>4, <2>2, <3>3
  <2> QED  BY <2>3, <2>4
<1>7. /\ at'.block = LastBlock + 2 /\ Heard(answer.blocks, at') = Heard(answer.blocks, at) /\ ToolsSoFar'
  <2>1. frames'.calls = frames.calls /\ tables'.toolOf = tables.toolOf
    <3> HIDE DEF given
    <3> QED  BY <1>6
  <2>2. at'.block = at.block + 1  BY <1>3, OutsideBlocks
  <2> QED  BY <1>1, <1>2, <1>3, <2>1, <2>2, OutsideBlocks
<1> HIDE DEF given
<1>8. StreamKept'
  <2>1. tables' = [toolOf |-> tables'.toolOf, finish |-> tables'.finish]  BY <1>6
  <2>2. frames' = [roles |-> frames'.roles, text |-> frames'.text, calls |-> frames'.calls,
                   finish |-> frames'.finish, done |-> frames'.done] /\ frames'.roles \in 0..1
    BY <1>4, <1>6
  <2> QED  BY <2>1, <2>2, KeptOn
<1>9. CallerHeard'
  <2>1. ~garbled => frames.text = TextOf(Heard(answer.blocks, at)) /\ frames.calls = CallsOf(Heard(answer.blocks, at))
    BY <1>1 DEF CallerHeard
  <2> QED  BY <1>1, <1>6, <1>7, <2>1 DEF CallerHeard
<1>10. ReasonSoFar'
  <2>1. tables'.finish = given /\ tables'.toolOf = tables.toolOf  BY <1>6
  <2>2. frames'.finish = NoFinish /\ frames'.done = FALSE  BY <1>1, <1>6
  <2>3. ~(at'.block <= LastBlock' + 1)  BY <1>1, <1>7
  <2>4. given = IF answer'.stop = "absent" THEN NoFinish ELSE Finish(answer'.stop, Len(tables'.toolOf) # 0)
    BY <1>1, <2>1 DEF given
  <2> QED  BY <2>1, <2>2, <2>3, <2>4 DEF ReasonSoFar
<1> QED  BY <1>1, <1>7, <1>8, <1>9, <1>10 DEF StreamIInv, HalfIsComing

\* The last frame says why: what the upstream gave, or what the calls tell.
LEMMA LastFramesKeeps ==
    ASSUME NEW e, EventComes(e), LastFrames(e)
    PROVE  StreamIInv'
<1>1. /\ StreamKept /\ ToolsSoFar /\ CallerHeard /\ ReasonSoFar
      /\ at.block <= LastBlock + 2
      /\ answer' = answer /\ garbled' = garbled /\ half' = <<>>
      /\ LastBlock \in Nat /\ LastBlock' = LastBlock /\ at.block \in Nat
      /\ frames.done = FALSE /\ frames.finish = NoFinish
  BY EventFinds
<1>2. at.block = LastBlock + 2
  <2>1. e.type = "message_stop"  BY DEF LastFrames
  <2> QED  BY <2>1, EventWhere
<1>3. at.block \notin 1..LastBlock  BY <1>1, <1>2
<1>4. /\ tables = [toolOf |-> tables.toolOf, finish |-> tables.finish]
      /\ frames = [roles |-> frames.roles, text |-> frames.text, calls |-> frames.calls,
                    finish |-> frames.finish, done |-> frames.done]
      /\ frames.roles \in 0..1
  BY <1>1, StreamRecords
<1> DEFINE called == Len(tables.toolOf) # 0
           why == Finish(answer.stop, called)
<1>5. tables.finish = IF answer.stop = "absent" THEN NoFinish ELSE why  BY <1>1, <1>2 DEF ReasonSoFar
<1>6. tables' = tables /\ frames' = [roles |-> frames.roles, text |-> frames.text, calls |-> frames.calls,
                                     finish |-> why, done |-> TRUE]
  <2>1. tables.toolOf # <<>> <=> called
    <3>1. tables.toolOf \in Seq(Nat)  BY <1>1 DEF ToolsSoFar
    <3> QED  BY <3>1, EmptySeq
  <2> DEFINE last == IF tables.finish = NoFinish THEN Finish("absent", tables.toolOf # <<>>) ELSE tables.finish
  <2>2. last = why
    <3>1. called \in BOOLEAN  OBVIOUS
    <3> HIDE DEF called
    <3>2. why # NoFinish  BY <3>1, FinishIsReason
    <3>3. CASE answer.stop = "absent"
      <4>1. tables.finish = NoFinish  BY <1>5, <3>3
      <4>2. Finish("absent", tables.toolOf # <<>>) = Finish("absent", called)  BY <2>1, <3>1 DEF Finish
      <4> QED  BY <3>3, <4>1, <4>2
    <3>4. CASE answer.stop # "absent"
      <4>1. tables.finish = why  BY <1>5, <3>4
      <4> QED  BY <3>2, <4>1
    <3> QED  BY <3>3, <3>4
  <2>3. tables' = tables /\ frames' = [frames EXCEPT !.done = TRUE, !.finish = last]  BY DEF LastFrames
  <2> HIDE DEF last, why
  <2>4. [frames EXCEPT !.done = TRUE, !.finish = why]
          = [roles |-> frames.roles, text |-> frames.text, calls |-> frames.calls, finish |-> why, done |-> TRUE]
    <3> DEFINE yes == TRUE
               g == [roles |-> frames.roles, text |-> frames.text, calls |-> frames.calls, finish |-> frames.finish,
                     done |-> yes]
    <3> HIDE DEF yes
    <3>1. [frames EXCEPT !.done = yes, !.finish = why] = [[frames EXCEPT !.done = yes] EXCEPT !.finish = why]
      OBVIOUS
    <3>2. [frames EXCEPT !.done = yes] = g  BY <1>4
    <3>3. [g EXCEPT !.finish = why] = [roles |-> frames.roles, text |-> frames.text, calls |-> frames.calls,
                                       finish |-> why, done |-> yes]
      OBVIOUS
    <3> HIDE DEF g
    <3> QED  BY <3>1, <3>2, <3>3 DEF yes
  <2> QED  BY <2>2, <2>3, <2>4
<1> HIDE DEF why, called
<1>7. /\ at'.block = LastBlock + 3 /\ Heard(answer.blocks, at') = Heard(answer.blocks, at) /\ ToolsSoFar'
  <2>1. frames'.calls = frames.calls /\ tables'.toolOf = tables.toolOf  BY <1>6
  <2>2. at'.block = at.block + 1  BY <1>3, OutsideBlocks
  <2> QED  BY <1>1, <1>2, <1>3, <2>1, <2>2, OutsideBlocks
<1>8. StreamKept'
  <2>1. tables' = [toolOf |-> tables'.toolOf, finish |-> tables'.finish]  BY <1>4, <1>6
  <2>2. frames' = [roles |-> frames'.roles, text |-> frames'.text, calls |-> frames'.calls,
                   finish |-> frames'.finish, done |-> frames'.done] /\ frames'.roles \in 0..1
    BY <1>4, <1>6
  <2> QED  BY <2>1, <2>2, KeptOn
<1>9. CallerHeard'
  <2>1. ~garbled => frames.text = TextOf(Heard(answer.blocks, at)) /\ frames.calls = CallsOf(Heard(answer.blocks, at))
    BY <1>1 DEF CallerHeard
  <2> QED  BY <1>1, <1>6, <1>7, <2>1 DEF CallerHeard
<1>10. ReasonSoFar'
  <2>1. frames'.finish = why /\ frames'.done = TRUE  BY <1>6
  <2>2. ~(at'.block <= LastBlock' + 1) /\ ~(at'.block <= LastBlock' + 2) /\ at'.block # LastBlock' + 2  BY <1>1, <1>7
  <2>3. why = Finish(answer'.stop, Len(tables'.toolOf) # 0)  BY <1>1, <1>6 DEF why, called
  <2> QED  BY <2>1, <2>2, <2>3 DEF ReasonSoFar
<1> QED  BY <1>1, <1>7, <1>8, <1>9, <1>10 DEF StreamIInv, HalfIsComing

\* Whatever event comes, what the caller has is what was said.
LEMMA EventKeeps ==
    ASSUME NEW e, EventComes(e), Emit(e, e.text)
    PROVE  StreamIInv'
<1>1. CASE Announce(e)  BY <1>1, AnnounceKeeps
<1>2. CASE BlockStarts(e)  BY <1>2, BlockStartsKeeps
<1>3. CASE Fragment(e, e.text)  BY <1>3, FragmentKeeps
<1>4. CASE StopReason(e)  BY <1>4, StopReasonKeeps
<1>5. CASE LastFrames(e)  BY <1>5, LastFramesKeeps
<1> QED  BY <1>1, <1>2, <1>3, <1>4, <1>5 DEF Emit
\* The place of a stream that is not over.
LEMMA NotOver ==
    ASSUME StreamIInv, at # AllSaid
    PROVE  at.block <= LastBlock + 2
<1>1. [body |-> body, answer |-> answer] \in Exchanges /\ at \in Places(answer.blocks)
  BY DEF StreamIInv, StreamKept
<1>2. answer.blocks \in Seq(ReplyBlocks)  BY <1>1, ExchangeTyped
<1>3. Len(answer.blocks) \in Nat  BY <1>2
<1>4. ASSUME at.block = LastBlock + 3 PROVE FALSE
  <2>1. at.part = 0  BY <1>1, <1>3, <1>4 DEF Places, LastBlock
  <2>2. at = [block |-> at.block, part |-> at.part]  BY <1>1 DEF Places
  <2> QED  BY <1>4, <2>1, <2>2 DEF AllSaid
<1> QED  BY <1>1, <1>3, <1>4 DEF Places, LastBlock

\* What comes is a record, and what it says are fragments.
LEMMA ComingTyped ==
    ASSUME StreamIInv
    PROVE  /\ Coming = [type |-> Coming.type, index |-> Coming.index, kind |-> Coming.kind, id |-> Coming.id,
                        text |-> Coming.text]
           /\ Coming.text \in Seq(Fragments \cup {"?"})
<1>1. [body |-> body, answer |-> answer] \in Exchanges /\ at \in Places(answer.blocks)
  BY DEF StreamIInv, StreamKept
<1>2. answer.blocks \in Seq(ReplyBlocks)  BY <1>1, ExchangeTyped
<1>3. Coming.text \in Seq(Fragments \cup {"?"})
  <2>1. CASE at.block \in 1..LastBlock
    <3>1. answer.blocks[at.block] \in ReplyBlocks  BY <1>2, <2>1 DEF LastBlock
    <3>2. answer.blocks[at.block].text \in Seq(Fragments)  BY <3>1 DEF ReplyBlocks
    <3>3. at.part <= Len(answer.blocks[at.block].text) /\ at.part \in Nat  BY <1>1, <2>1 DEF Places, LastBlock
    <3>4. CASE at.part = 0
      <4>1. Coming.text = <<>>  BY <1>1, <1>2, <2>1, <3>4, ComingIs
      <4> QED  BY <4>1
    <3>5. CASE at.part # 0
      <4>1. Coming.text = <<answer.blocks[at.block].text[at.part]>>  BY <1>1, <1>2, <2>1, <3>5, ComingIs
      <4>2. answer.blocks[at.block].text[at.part] \in Fragments \cup {"?"}
        <5>1. at.part \in 1..Len(answer.blocks[at.block].text)  BY <3>2, <3>3, <3>5
        <5>2. answer.blocks[at.block].text[at.part] \in Fragments  BY <3>2, <5>1
        <5> QED  BY <5>2
      <4>3. <<answer.blocks[at.block].text[at.part]>> \in Seq(Fragments \cup {"?"})  BY <4>2, OneThing
      <4> QED  BY <4>1, <4>3
    <3> QED  BY <3>4, <3>5
  <2>2. CASE at.block \notin 1..LastBlock
    <3>1. Coming.text = <<>>  BY <1>1, <1>2, <2>2, ComingIs
    <3> QED  BY <3>1
  <2> QED  BY <2>1, <2>2
<1>4. Coming = [type |-> Coming.type, index |-> Coming.index, kind |-> Coming.kind, id |-> Coming.id,
                text |-> Coming.text]
  BY DEF Coming
<1> QED  BY <1>3, <1>4

\* A chunk that ends where a frame does keeps the invariant.
LEMMA WholeFrameKeeps ==
    ASSUME StreamIInv, WholeFrame
    PROVE  StreamIInv'
<1>3. at.block <= LastBlock + 2  BY NotOver DEF WholeFrame
<1>4. Coming.text \in Seq(Fragments \cup {"?"})  BY ComingTyped
<1>5. EventComes(Coming)  BY <1>3, <1>4 DEF WholeFrame, EventComes, NoFrame
<1>6. Emit(Coming, Coming.text)  BY DEF WholeFrame
<1> DEFINE e == Coming
<1>7. EventComes(e) /\ Emit(e, e.text)  BY <1>5, <1>6
<1> HIDE DEF e
<1> QED  BY <1>7, EventKeeps

\* A chunk that ends inside a frame changes nothing but what is kept of it.
LEMMA FirstPartKeeps ==
    ASSUME StreamIInv, NEW cut \in BOOLEAN, FirstPart(cut)
    PROVE  StreamIInv'
<1>1. /\ at # AllSaid /\ (cut => Coming.text # <<>>)
      /\ half' = <<[Coming EXCEPT !.text = IF cut THEN <<"?">> ELSE @]>>
      /\ garbled' = (garbled \/ cut)
      /\ body' = body /\ answer' = answer /\ at' = at /\ tables' = tables /\ frames' = frames /\ ended' = ended
  BY DEF FirstPart
<1>2. at.block <= LastBlock + 2  BY <1>1, NotOver
<1>3. StreamKept'
  <2>1. garbled' \in BOOLEAN  BY <1>1 DEF StreamIInv, StreamKept
  <2> QED  BY <1>1, <2>1 DEF StreamIInv, StreamKept
<1>4. ToolsSoFar'
  <2>1. InTool' <=> InTool  BY <1>1 DEF InTool, LastBlock
  <2> QED  BY <1>1, <2>1 DEF StreamIInv, ToolsSoFar
<1>5. ReasonSoFar'  BY <1>1 DEF StreamIInv, ReasonSoFar, LastBlock
<1>6. CallerHeard'  BY <1>1 DEF StreamIInv, CallerHeard, LastBlock
<1>7. HalfIsComing'
  <2>1. Coming' = Coming  BY <1>1 DEF Coming, LastBlock
  <2>2. LastBlock' = LastBlock  BY <1>1 DEF LastBlock
  <2>3. CASE cut
    <3>1. half' = <<[Coming EXCEPT !.text = <<"?">>]>> /\ garbled' /\ Coming.text # <<>>  BY <1>1, <2>3
    <3> QED  BY <1>1, <1>2, <2>1, <2>2, <3>1 DEF HalfIsComing
  <2>4. CASE ~cut
    <3>1. [Coming EXCEPT !.text = Coming.text] = Coming
      <4>1. Coming = [type |-> Coming.type, index |-> Coming.index, kind |-> Coming.kind, id |-> Coming.id,
                      text |-> Coming.text]
        BY ComingTyped
      <4> QED  BY <4>1
    <3>2. half' = <<[Coming EXCEPT !.text = Coming.text]>>  BY <1>1, <2>4
    <3>3. half' = <<Coming>>  BY <3>1, <3>2
    <3> QED  BY <1>1, <1>2, <2>1, <2>2, <3>3 DEF HalfIsComing
  <2> QED  BY <2>3, <2>4
<1> QED  BY <1>3, <1>4, <1>5, <1>6, <1>7 DEF StreamIInv

\* The rest of a frame: what was kept of it is used.
LEMMA SecondPartKeeps ==
    ASSUME StreamIInv, SecondPart
    PROVE  StreamIInv'
<1> DEFINE e == half[1]
<1>1. /\ half # <<>> /\ Emit(e, e.text) /\ at' = Moved /\ half' = <<>>
      /\ body' = body /\ answer' = answer /\ ended' = ended /\ garbled' = garbled
  BY DEF SecondPart, NoFrame
<1>2. /\ at.block <= LastBlock + 2
      /\ \/ half = <<Coming>>
         \/ garbled /\ half = <<[Coming EXCEPT !.text = <<"?">>]>>
  BY <1>1 DEF StreamIInv, HalfIsComing
<1>3. /\ Coming = [type |-> Coming.type, index |-> Coming.index, kind |-> Coming.kind, id |-> Coming.id,
                   text |-> Coming.text]
      /\ Coming.text \in Seq(Fragments \cup {"?"})
  BY ComingTyped
<1>4. /\ e.type = Coming.type /\ e.index = Coming.index /\ e.kind = Coming.kind /\ e.id = Coming.id
      /\ ~garbled => e.text = Coming.text
      /\ e.text \in Seq(Fragments \cup {"?"})
  <2>1. CASE half = <<Coming>>
    <3>1. e = Coming  BY <2>1
    <3> QED  BY <1>3, <3>1
  <2>2. CASE garbled /\ half = <<[Coming EXCEPT !.text = <<"?">>]>>
    <3> DEFINE q == <<"?">>
    <3>1. q \in Seq(Fragments \cup {"?"})  BY OneThing
    <3>2. e = [Coming EXCEPT !.text = q]  BY <2>2
    <3> HIDE DEF e, q
    <3>3. [Coming EXCEPT !.text = q] = [type |-> Coming.type, index |-> Coming.index, kind |-> Coming.kind,
                                        id |-> Coming.id, text |-> q]
      BY <1>3
    <3> QED  BY <2>2, <3>1, <3>2, <3>3
  <2> QED  BY <1>2, <2>1, <2>2
<1>5. EventComes(e)
  <2> HIDE DEF e
  <2> QED  BY <1>1, <1>2, <1>4 DEF EventComes
<1> HIDE DEF e
<1> QED  BY <1>1, <1>5, EventKeeps

\* An answer that is cut short says no more.
LEMMA CutShortKeeps ==
    ASSUME StreamIInv, CutShort
    PROVE  StreamIInv'
<1>1. /\ at.block < LastBlock + 2 /\ half' = half /\ half = <<>>
      /\ at' = [block |-> LastBlock + 3, part |-> 0]
      /\ body' = body /\ answer' = answer /\ tables' = tables /\ frames' = frames /\ ended' = ended
      /\ garbled' = garbled
  BY DEF CutShort, AllSaid, NoFrame
<1>2. [body |-> body, answer |-> answer] \in Exchanges /\ at \in Places(answer.blocks)
  BY DEF StreamIInv, StreamKept
<1>3. answer.blocks \in Seq(ReplyBlocks)  BY <1>2, ExchangeTyped
<1>4. LastBlock \in Nat /\ LastBlock' = LastBlock /\ at.block \in Nat  BY <1>1, <1>2, <1>3 DEF LastBlock, Places
<1>5. at'.block = LastBlock + 3 /\ at'.part = 0  BY <1>1
<1>6. at' \in Places(answer'.blocks)
  <2>1. LastBlock + 3 \in 0..(LastBlock + 3) /\ LastBlock + 3 \notin 1..LastBlock  BY <1>4
  <2> QED  BY <1>1, <2>1 DEF Places, LastBlock
<1>7. StreamKept'
  <2>1. at'.block # 0  BY <1>4, <1>5
  <2> QED  BY <1>1, <1>6, <2>1 DEF StreamIInv, StreamKept
<1>8. ToolsSoFar'
  <2>1. ~InTool'  BY <1>5 DEF InTool
  <2>2. /\ tables.toolOf \in Seq(Nat) /\ frames.calls \in Seq(HeardCalls) /\ Len(frames.calls) = Len(tables.toolOf)
        /\ \A k \in 1..Len(tables.toolOf) : tables.toolOf[k] <= at.block
    BY DEF StreamIInv, ToolsSoFar
  <2>3. \A k \in 1..Len(tables.toolOf) : tables.toolOf[k] \in Nat  BY <2>2
  <2>4. \A k \in 1..Len(tables.toolOf) : tables.toolOf[k] <= at'.block /\ tables.toolOf[k] # at'.block
    BY <1>1, <1>4, <1>5, <2>2, <2>3
  <2> QED  BY <1>1, <2>1, <2>2, <2>4 DEF ToolsSoFar
<1>9. frames.done = FALSE /\ frames.finish = NoFinish
  <2>1. at.block <= LastBlock + 2  BY <1>1, <1>4
  <2> QED  BY <2>1 DEF StreamIInv, ReasonSoFar
<1>10. CallerHeard'
  <2>1. ~(at'.block <= LastBlock' + 2)  BY <1>4, <1>5
  <2> QED  BY <1>1, <1>9, <2>1 DEF CallerHeard
<1>11. ReasonSoFar'
  <2>1. ~(at'.block <= LastBlock' + 2) /\ ~(at'.block <= LastBlock' + 1) /\ at'.block # LastBlock' + 2
    BY <1>4, <1>5
  <2> QED  BY <1>1, <1>9, <2>1 DEF ReasonSoFar
<1> QED  BY <1>1, <1>7, <1>8, <1>10, <1>11 DEF StreamIInv, HalfIsComing

\* The end of a stream, however it comes, changes nothing of what was heard.
LEMMA StreamEndKeeps ==
    ASSUME StreamIInv, ended' \in {"none", "written", "never"},
           UNCHANGED <<body, answer, at, half, tables, frames, garbled>>
    PROVE  StreamIInv'
<1>1. StreamKept'  BY DEF StreamIInv, StreamKept
<1>2. ToolsSoFar'
  <2>1. InTool' <=> InTool  BY DEF InTool, LastBlock
  <2> QED  BY <2>1 DEF StreamIInv, ToolsSoFar
<1>3. ReasonSoFar'  BY DEF StreamIInv, ReasonSoFar, LastBlock
<1>4. CallerHeard'  BY DEF StreamIInv, CallerHeard, LastBlock
<1>5. HalfIsComing'
  <2>1. Coming' = Coming /\ LastBlock' = LastBlock  BY DEF Coming, LastBlock
  <2> QED  BY <2>1 DEF StreamIInv, HalfIsComing
<1> QED  BY <1>1, <1>2, <1>3, <1>4, <1>5 DEF StreamIInv

\* Every step of a stream keeps the invariant.
LEMMA StreamHolds ==
    ASSUME StreamIInv, [TranslateNext]_translateVars
    PROVE  StreamIInv'
<1>1. CASE WholeFrame  BY <1>1, WholeFrameKeeps
<1>2. CASE SecondPart  BY <1>2, SecondPartKeeps
<1>3. CASE CutShort  BY <1>3, CutShortKeeps
<1>4. CASE StreamOver  BY <1>4, StreamEndKeeps DEF StreamOver
<1>5. CASE StreamThrows  BY <1>5, StreamEndKeeps DEF StreamThrows
<1>6. CASE \E cut \in BOOLEAN : FirstPart(cut)  BY <1>6, FirstPartKeeps
<1>7. CASE UNCHANGED translateVars
  <2>1. ended \in {"none", "written", "never"}  BY DEF StreamIInv, StreamKept
  <2> QED  BY <1>7, <2>1, StreamEndKeeps DEF translateVars
<1> QED  BY <1>1, <1>2, <1>3, <1>4, <1>5, <1>6, <1>7 DEF TranslateNext

\* The invariant of the stream gives its type and its promise.
LEMMA StreamSays ==
    ASSUME StreamIInv
    PROVE  TranslateTypeOK /\ StreamSaysTheSame
<1>1. [body |-> body, answer |-> answer] \in Exchanges /\ at \in Places(answer.blocks)
  BY DEF StreamIInv, StreamKept
<1>2. answer.blocks \in Seq(ReplyBlocks)  BY <1>1, ExchangeTyped
<1>3. LastBlock \in Nat /\ at.block \in Nat /\ at.block <= LastBlock + 3  BY <1>1, <1>2 DEF LastBlock, Places
<1>4. TranslateTypeOK
  <2>1. Len(half) <= 1
    <3>1. CASE half = <<>>  BY <3>1
    <3>2. CASE \E z : half = <<z>>  BY <3>2
    <3> QED  BY <3>1, <3>2 DEF StreamIInv, HalfIsComing
  <2>2. frames.roles \in 0..1 /\ ended \in {"none", "written", "never"}  BY DEF StreamIInv, StreamKept
  <2>3. Len(frames.calls) = Len(tables.toolOf)  BY DEF StreamIInv, ToolsSoFar
  <2> QED  BY <1>1, <2>1, <2>2, <2>3 DEF TranslateTypeOK
<1> DEFINE called == Len(tables.toolOf) # 0
           why == Finish(answer.stop, called)
<1>5. frames.done \in BOOLEAN /\ frames.finish = IF frames.done THEN why ELSE NoFinish
  BY DEF StreamIInv, ReasonSoFar
<1>6. why # NoFinish
  <2>1. called \in BOOLEAN  OBVIOUS
  <2> HIDE DEF called
  <2> QED  BY <2>1, FinishIsReason
<1>7. ASSUME frames.done, ~garbled
      PROVE  [text |-> frames.text, calls |-> frames.calls, finish |-> frames.finish] = ToOpenai(answer)
  <2>1. Heard(answer.blocks, at) = answer.blocks
    <3>1. ~(at.block <= LastBlock + 2)  BY <1>7 DEF StreamIInv, ReasonSoFar
    <3>2. at.block # 0 /\ at.block > Len(answer.blocks)  BY <1>3, <3>1 DEF LastBlock
    <3> QED  BY <3>2 DEF Heard
  <2>2. frames.text = TextOf(answer.blocks) /\ frames.calls = CallsOf(answer.blocks)
    BY <1>7, <2>1 DEF StreamIInv, CallerHeard
  <2>3. called <=> CallsOf(answer.blocks) # <<>>
    <3>1. frames.calls \in Seq(HeardCalls) /\ Len(frames.calls) = Len(tables.toolOf)  BY DEF StreamIInv, ToolsSoFar
    <3>2. frames.calls # <<>> <=> Len(frames.calls) # 0  BY <3>1, EmptySeq
    <3> QED  BY <2>2, <3>1, <3>2
  <2>4. Finish(answer.stop, CallsOf(answer.blocks) # <<>>) = why
    <3>1. CASE called  BY <2>3, <3>1
    <3>2. CASE ~called  BY <2>3, <3>2
    <3> QED  BY <3>1, <3>2
  <2>5. frames.finish = why  BY <1>5, <1>7
  <2> HIDE DEF why
  <2> QED  BY <2>2, <2>4, <2>5 DEF ToOpenai
<1>8. StreamSaysTheSame
  <2> HIDE DEF why
  <2>1. frames.done <=> frames.finish # NoFinish  BY <1>5, <1>6
  <2> QED  BY <1>7, <2>1 DEF StreamSaysTheSame
<1> QED  BY <1>4, <1>8
(* The request. *)
\* The blocks that come of the parts of a message, the blocks and turns of a rebuilt request, and what
\* there is of one on the way.
PlainBlocks == [kind : {"text", "image"}, id : Nat, cc : BOOLEAN]
SentBlocks == [kind : {"text", "image", "tool_use", "tool_result"}, id : Nat, cc : BOOLEAN]
SentTurns == [role : {"user", "assistant"}, content : Seq(SentBlocks)]
Takings == [system : BOOLEAN, msgs : Seq(SentTurns), pending : Seq(SentBlocks)]

\* f holds what was taken of the messages, up to each of them.
Takes(f, msgs, n) == f[0] = Untaken /\ \A i \in 1..n : f[i] = Take(f[i - 1], msgs[i])

\* The messages can be taken one by one, and TakenAll is what is there after the last.
LEMMA TakenRuns ==
    ASSUME NEW msgs, Len(msgs) \in Nat
    PROVE  \E f : Takes(f, msgs, Len(msgs)) /\ TakenAll(msgs) = f[Len(msgs)]
<1> DEFINE Upto(h, n) == h = [i \in 0..n |-> IF i = 0 THEN Untaken ELSE Take(h[i - 1], msgs[i])]
           Wrong == {n \in 0..Len(msgs) : ~\E h : Upto(h, n)}
           c == CHOOSE h : Upto(h, Len(msgs))
<1>1. Wrong = {}
  <2> SUFFICES ASSUME Wrong # {} PROVE FALSE  OBVIOUS
  <2>1. PICK n \in Wrong : \A m \in Wrong : n <= m
    <3>1. Wrong \in SUBSET Nat  OBVIOUS
    <3> HIDE DEF Wrong
    <3> QED  BY <3>1, LeastNumber
  <2>2. n \in 0..Len(msgs) /\ ~\E h : Upto(h, n)  BY <2>1
  <2>3. n # 0
    <3> SUFFICES ASSUME n = 0 PROVE FALSE  OBVIOUS
    <3> DEFINE h == [i \in 0..0 |-> Untaken]
    <3>1. Upto(h, 0)  OBVIOUS
    <3> QED  BY <2>2, <3>1
  <2>4. n \in 1..Len(msgs) /\ n - 1 \in 0..Len(msgs) /\ ~(n <= n - 1)  BY <2>2, <2>3
  <2>5. n - 1 \notin Wrong  BY <2>1, <2>4
  <2>6. PICK h : Upto(h, n - 1)  BY <2>4, <2>5
  <2>7. \A i \in 0..(n - 1) : h[i] = IF i = 0 THEN Untaken ELSE Take(h[i - 1], msgs[i])
    <3> SUFFICES ASSUME NEW i \in 0..(n - 1)
                 PROVE  h[i] = IF i = 0 THEN Untaken ELSE Take(h[i - 1], msgs[i])
      OBVIOUS
    <3> DEFINE F == [j \in 0..(n - 1) |-> IF j = 0 THEN Untaken ELSE Take(h[j - 1], msgs[j])]
    <3>1. h = F  BY <2>6
    <3>2. F[i] = IF i = 0 THEN Untaken ELSE Take(h[i - 1], msgs[i])  OBVIOUS
    <3> HIDE DEF F
    <3> QED  BY <3>1, <3>2
  <2> DEFINE g == [i \in 0..n |-> IF i < n THEN h[i] ELSE Take(h[n - 1], msgs[n])]
             G == [i \in 0..n |-> IF i = 0 THEN Untaken ELSE Take(g[i - 1], msgs[i])]
  <2>8. \A i \in 0..n : g[i] = IF i = 0 THEN Untaken ELSE Take(g[i - 1], msgs[i])
    <3> SUFFICES ASSUME NEW i \in 0..n PROVE g[i] = IF i = 0 THEN Untaken ELSE Take(g[i - 1], msgs[i])  OBVIOUS
    <3>1. \A j \in 0..(n - 1) : g[j] = h[j]  BY <2>4
    <3>2. g[n] = Take(h[n - 1], msgs[n])  BY <2>4
    <3> HIDE DEF g
    <3>3. CASE i = n
      <4>1. g[n - 1] = h[n - 1] /\ i # 0  BY <2>4, <3>1, <3>3
      <4> QED  BY <3>2, <3>3, <4>1
    <3>4. CASE i # n
      <4>1. i \in 0..(n - 1) /\ (i # 0 => i - 1 \in 0..(n - 1))  BY <2>4, <3>4
      <4>2. g[i] = h[i] /\ (i # 0 => g[i - 1] = h[i - 1])  BY <3>1, <4>1
      <4> QED  BY <2>7, <4>1, <4>2
    <3> QED  BY <3>3, <3>4
  <2>9. g = G
    <3>1. g = [i \in 0..n |-> g[i]]  OBVIOUS
    <3> HIDE DEF g
    <3> QED  BY <2>8, <3>1
  <2> QED
    <3>1. Upto(g, n)  BY <2>9
    <3> HIDE DEF Upto, g
    <3> QED  BY <2>2, <3>1
<1>2. \E h : Upto(h, Len(msgs))
  <2>1. Len(msgs) \in 0..Len(msgs)  OBVIOUS
  <2> HIDE DEF Upto
  <2> QED  BY <1>1, <2>1
<1>3. Upto(c, Len(msgs))
  <2> HIDE DEF Upto
  <2> QED  BY <1>2
<1>4. TakenAll(msgs) = c[Len(msgs)]  BY DEF TakenAll
<1> HIDE DEF c
<1>5. \A i \in 0..Len(msgs) : c[i] = IF i = 0 THEN Untaken ELSE Take(c[i - 1], msgs[i])
  <2> SUFFICES ASSUME NEW i \in 0..Len(msgs)
               PROVE  c[i] = IF i = 0 THEN Untaken ELSE Take(c[i - 1], msgs[i])
    OBVIOUS
  <2> DEFINE F == [j \in 0..Len(msgs) |-> IF j = 0 THEN Untaken ELSE Take(c[j - 1], msgs[j])]
  <2>1. c = F  BY <1>3
  <2>2. F[i] = IF i = 0 THEN Untaken ELSE Take(c[i - 1], msgs[i])  OBVIOUS
  <2> HIDE DEF F
  <2> QED  BY <2>1, <2>2
<1>6. Takes(c, msgs, Len(msgs))
  <2>1. 0 \in 0..Len(msgs) /\ \A i \in 1..Len(msgs) : i \in 0..Len(msgs) /\ i # 0  OBVIOUS
  <2> QED  BY <1>5, <2>1 DEF Takes
<1> QED  BY <1>4, <1>6

\* What is taken of the first n messages is the same in every conversation that begins with them.
LEMMA TakesOnce ==
    ASSUME NEW f, NEW g, NEW s, NEW t, NEW n \in Nat, \A i \in 1..n : s[i] = t[i], Takes(f, s, n), Takes(g, t, n)
    PROVE  f[n] = g[n]
<1> DEFINE Wrong == {i \in 0..n : f[i] # g[i]}
<1>1. Wrong = {}
  <2> SUFFICES ASSUME Wrong # {} PROVE FALSE  OBVIOUS
  <2>1. PICK k \in Wrong : \A m \in Wrong : k <= m
    <3>1. Wrong \in SUBSET Nat  OBVIOUS
    <3> HIDE DEF Wrong
    <3> QED  BY <3>1, LeastNumber
  <2>2. k \in 0..n /\ f[k] # g[k]  BY <2>1
  <2>3. k # 0  BY <2>2 DEF Takes
  <2>4. k \in 1..n /\ k - 1 \in 0..n /\ ~(k <= k - 1)  BY <2>2, <2>3
  <2>5. f[k - 1] = g[k - 1]  BY <2>1, <2>4
  <2>6. f[k] = Take(f[k - 1], s[k]) /\ g[k] = Take(g[k - 1], t[k])  BY <2>4 DEF Takes
  <2> QED  BY <2>2, <2>4, <2>5, <2>6
<1>2. n \in 0..n  OBVIOUS
<1> QED  BY <1>1, <1>2

\* Text and images become blocks, none of which asks or answers for a tool.
LEMMA ToBlocksTyped ==
    ASSUME NEW parts \in Seq(ChatParts)
    PROVE  ToBlocks(parts) \in Seq(PlainBlocks)
<1> DEFINE e(p) == IF p.kind = "remote" THEN <<>> ELSE <<Block(p.kind, 0, p.cc /\ p.kind = "text")>>
           m == [i \in DOMAIN parts |-> e(parts[i])]
<1>1. \A p \in ChatParts : e(p) \in Seq(PlainBlocks)
  <2> SUFFICES ASSUME NEW p \in ChatParts PROVE e(p) \in Seq(PlainBlocks)  OBVIOUS
  <2> DEFINE b == Block(p.kind, 0, p.cc /\ p.kind = "text")
             on == p.cc /\ p.kind = "text"
  <2>1. p.kind # "remote" => b \in PlainBlocks
    <3>1. p.kind \in {"text", "image", "remote"}  BY DEF ChatParts
    <3>2. on \in BOOLEAN  OBVIOUS
    <3> HIDE DEF on
    <3>3. p.kind # "remote" => [kind |-> p.kind, id |-> 0, cc |-> on] \in PlainBlocks  BY <3>1, <3>2 DEF PlainBlocks
    <3> QED  BY <3>3 DEF Block, on
  <2> HIDE DEF b
  <2>2. p.kind # "remote" => <<b>> \in Seq(PlainBlocks)  BY <2>1, OneThing
  <2>3. <<>> \in Seq(PlainBlocks)  OBVIOUS
  <2> QED  BY <2>2, <2>3 DEF b
<1> HIDE DEF e
<1>2. m \in Seq(Seq(PlainBlocks))
  <2>1. DOMAIN parts = 1..Len(parts) /\ Len(parts) \in Nat /\ \A i \in 1..Len(parts) : parts[i] \in ChatParts
    OBVIOUS
  <2> QED  BY <1>1, <2>1
<1> HIDE DEF m
<1>3. FlattenSeq(m) \in Seq(PlainBlocks)
  <2>1. <<>> \in Seq(PlainBlocks)  OBVIOUS
  <2> QED  BY <1>2, <2>1, FlattenMore
<1> QED  BY <1>3 DEF ToBlocks, m, e

\* Two sequences, one after the other.
LEMMA BothParts ==
    ASSUME NEW T, NEW a, NEW b, a \in Seq(T), b \in Seq(T)
    PROVE  /\ a \o b \in Seq(T) /\ Len(a \o b) = Len(a) + Len(b)
           /\ \A i \in 1..Len(a) : (a \o b)[i] = a[i]
           /\ \A i \in 1..Len(b) : (a \o b)[Len(a) + i] = b[i]
<1> DEFINE c == a \o b
<1>1. /\ c \in Seq(T) /\ Len(c) = Len(a) + Len(b)
      /\ \A i \in 1..(Len(a) + Len(b)) : c[i] = IF i <= Len(a) THEN a[i] ELSE b[i - Len(a)]
  BY ConcatProperties
<1>2. Len(a) \in Nat /\ Len(b) \in Nat  OBVIOUS
<1> HIDE DEF c
<1>3. \A i \in 1..Len(a) : c[i] = a[i]
  <2>1. \A i \in 1..Len(a) : i \in 1..(Len(a) + Len(b)) /\ i <= Len(a)  BY <1>2
  <2> QED  BY <1>1, <2>1
<1>4. \A i \in 1..Len(b) : c[Len(a) + i] = b[i]
  <2> SUFFICES ASSUME NEW i \in 1..Len(b) PROVE c[Len(a) + i] = b[i]  OBVIOUS
  <2> DEFINE j == Len(a) + i
  <2>1. j \in 1..(Len(a) + Len(b)) /\ ~(j <= Len(a)) /\ j - Len(a) = i  BY <1>2
  <2> HIDE DEF j
  <2>2. c[j] = b[i]  BY <1>1, <2>1
  <2> QED  BY <2>2 DEF j
<1> QED  BY <1>1, <1>3, <1>4 DEF c

\* A message's content: its plain blocks, then its calls.
LEMMA ContentTyped ==
    ASSUME NEW A \in Seq(PlainBlocks), NEW calls \in Seq(Nat)
    PROVE  LET c == A \o ToolUses(calls)
           IN  /\ c \in Seq(SentBlocks)
               /\ {c[k].id : k \in {j \in DOMAIN c : c[j].kind = "tool_use"}} = ToSet(calls)
<1> DEFINE U == ToolUses(calls)
           c == A \o U
           u(i) == Block("tool_use", calls[i], FALSE)
<1>1. Len(calls) \in Nat /\ DOMAIN calls = 1..Len(calls) /\ \A i \in 1..Len(calls) : calls[i] \in Nat  OBVIOUS
<1>2. \A i \in 1..Len(calls) : u(i) \in SentBlocks /\ u(i).kind = "tool_use" /\ u(i).id = calls[i]
  BY <1>1 DEF Block, SentBlocks
<1> HIDE DEF u
<1>3. U \in Seq(SentBlocks) /\ Len(U) = Len(calls) /\ \A i \in 1..Len(calls) : U[i] = u(i)
  <2>1. U = [i \in 1..Len(calls) |-> u(i)]  BY <1>1 DEF ToolUses, u
  <2> HIDE DEF U
  <2> QED  BY <1>1, <1>2, <2>1
<1>4. A \in Seq(SentBlocks) /\ Len(A) \in Nat /\ \A i \in 1..Len(A) : A[i].kind # "tool_use"
  <2>1. \A b \in PlainBlocks : b \in SentBlocks /\ b.kind # "tool_use"  BY DEF PlainBlocks, SentBlocks
  <2>2. \A i \in 1..Len(A) : A[i] \in PlainBlocks  OBVIOUS
  <2>3. Len(A) \in Nat  OBVIOUS
  <2>4. \A i \in 1..Len(A) : A[i] \in SentBlocks  BY <2>1, <2>2
  <2>5. A \in Seq(SentBlocks)  BY <2>3, <2>4
  <2> QED  BY <2>1, <2>2, <2>3, <2>5
<1> HIDE DEF U
<1>5. /\ c \in Seq(SentBlocks) /\ Len(c) = Len(A) + Len(U)
      /\ \A i \in 1..Len(A) : c[i] = A[i]
      /\ \A i \in 1..Len(U) : c[Len(A) + i] = U[i]
  <2>1. A \in Seq(SentBlocks)  BY <1>4
  <2>2. U \in Seq(SentBlocks)  BY <1>3
  <2> QED  BY <2>1, <2>2, BothParts
<1> HIDE DEF c
<1>6. DOMAIN c = 1..(Len(A) + Len(U))  BY <1>5
<1>7. \A k \in {j \in DOMAIN c : c[j].kind = "tool_use"} : \E i \in DOMAIN calls : c[k].id = calls[i]
  <2> SUFFICES ASSUME NEW k \in DOMAIN c, c[k].kind = "tool_use" PROVE \E i \in DOMAIN calls : c[k].id = calls[i]
    OBVIOUS
  <2>1. k \in 1..(Len(A) + Len(U)) /\ k \notin 1..Len(A)  BY <1>4, <1>5, <1>6
  <2>2. k - Len(A) \in 1..Len(U) /\ Len(A) + (k - Len(A)) = k  BY <1>1, <1>3, <1>4, <2>1
  <2>3. c[k] = U[k - Len(A)]
    <3> DEFINE i == k - Len(A)
    <3>1. i \in 1..Len(U) /\ Len(A) + i = k  BY <2>2
    <3> HIDE DEF i
    <3>2. c[Len(A) + i] = U[i]  BY <1>5, <3>1
    <3> QED  BY <3>1, <3>2 DEF i
  <2>4. c[k].id = calls[k - Len(A)]  BY <1>2, <1>3, <2>2, <2>3
  <2> QED  BY <1>1, <1>3, <2>2, <2>4
<1>8. \A i \in DOMAIN calls : \E k \in {j \in DOMAIN c : c[j].kind = "tool_use"} : calls[i] = c[k].id
  <2> SUFFICES ASSUME NEW i \in DOMAIN calls
               PROVE  \E k \in {j \in DOMAIN c : c[j].kind = "tool_use"} : calls[i] = c[k].id
    OBVIOUS
  <2>1. i \in 1..Len(U) /\ i \in 1..Len(calls)  BY <1>1, <1>3
  <2>2. c[Len(A) + i] = u(i)  BY <1>3, <1>5, <2>1
  <2>3. Len(A) + i \in DOMAIN c  BY <1>1, <1>3, <1>4, <1>6, <2>1
  <2> QED  BY <1>2, <2>1, <2>2, <2>3
<1>9. {c[k].id : k \in {j \in DOMAIN c : c[j].kind = "tool_use"}} = {calls[i] : i \in DOMAIN calls}  BY <1>7, <1>8
<1> QED  BY <1>5, <1>9 DEF c, U, ToSet
\* The tool messages among the first n that came after the t-th.
Waiting(msgs, n, t) == {msgs[j].id : j \in {k \in 1..n : k > t /\ msgs[k].role = "tool"}}

\* Nobody speaks after the t-th message, up to the n-th.
Quiet(msgs, t, n) == \A h \in (t + 1)..n : ~Speaks(msgs[h])

\* Nobody is to speak after the n-th message, or somebody does next.
Heeded(msgs, n) == n = Len(msgs) \/ Speaks(msgs[n + 1])

\* A turn is asked for, and answered by the turn after it.
AnsweredBy(out, i) == i < Len(out) /\ out[i + 1].role = "user" /\ Results(out[i + 1]) = Uses(out[i])

\* The results waiting for their turn are those of the tools since the last turn that was spoken, and every turn
\* but that one has its results.
ResultsSoFar(msgs, acc, n, t) ==
    /\ t \in 0..n /\ (t # 0 => Speaks(msgs[t])) /\ Quiet(msgs, t, n)
    /\ \A k \in DOMAIN acc.pending : acc.pending[k].kind = "tool_result"
    /\ {acc.pending[k].id : k \in DOMAIN acc.pending} = Waiting(msgs, n, t)
    /\ \A i \in DOMAIN acc.msgs : Uses(acc.msgs[i]) # {} =>
          \/ AnsweredBy(acc.msgs, i)
          \/ i = Len(acc.msgs) /\ t # 0 /\ Uses(acc.msgs[i]) = ToSet(msgs[t].calls)

\* What is taken keeps its shape when the results are flushed.
LEMMA FlushTyped ==
    ASSUME NEW acc \in Takings
    PROVE  /\ Flush(acc) = [system |-> acc.system,
                            msgs |-> acc.msgs \o Turn("user", acc.pending), pending |-> <<>>]
           /\ Flush(acc).msgs = acc.msgs \o Turn("user", acc.pending) /\ Flush(acc).pending = <<>>
           /\ Turn("user", acc.pending) \in Seq(SentTurns)
           /\ Flush(acc) \in Takings
<1>1. /\ acc.system \in BOOLEAN /\ acc.msgs \in Seq(SentTurns) /\ acc.pending \in Seq(SentBlocks)
      /\ acc = [system |-> acc.system, msgs |-> acc.msgs, pending |-> acc.pending]
  BY DEF Takings
<1> DEFINE x == Turn("user", acc.pending)
           m == acc.msgs \o x
           nothing == <<>>
<1>2. x \in Seq(SentTurns)
  <2>1. [role |-> "user", content |-> acc.pending] \in SentTurns  BY <1>1 DEF SentTurns
  <2>2. <<[role |-> "user", content |-> acc.pending]>> \in Seq(SentTurns)  BY <2>1, OneThing
  <2>3. <<>> \in Seq(SentTurns)  OBVIOUS
  <2> QED  BY <2>2, <2>3 DEF Turn
<1> HIDE DEF x
<1>3. m \in Seq(SentTurns)  BY <1>1, <1>2, ConcatProperties
<1>4. Flush(acc) = [[acc EXCEPT !.msgs = m] EXCEPT !.pending = nothing]  BY DEF Flush, x
<1> HIDE DEF m, nothing
<1>5. [acc EXCEPT !.msgs = m] = [system |-> acc.system, msgs |-> m, pending |-> acc.pending]  BY <1>1
<1>6. [[system |-> acc.system, msgs |-> m, pending |-> acc.pending] EXCEPT !.pending = nothing]
        = [system |-> acc.system, msgs |-> m, pending |-> nothing]
  OBVIOUS
<1>7. Flush(acc) = [system |-> acc.system, msgs |-> m, pending |-> nothing]  BY <1>4, <1>5, <1>6
<1>8. nothing \in Seq(SentBlocks)  BY DEF nothing
<1>9. Flush(acc) \in Takings  BY <1>1, <1>3, <1>7, <1>8 DEF Takings
<1>10. Flush(acc).msgs = m /\ Flush(acc).pending = nothing  BY <1>7
<1> QED  BY <1>2, <1>7, <1>9, <1>10 DEF m, nothing, x

\* A system message is merged into the prompt.
LEMMA TakeSystem ==
    ASSUME NEW acc \in Takings, NEW m \in ChatMessages, m.role = "system"
    PROVE  /\ Take(acc, m).msgs = acc.msgs /\ Take(acc, m).pending = acc.pending
           /\ Take(acc, m) \in Takings
<1>1. /\ acc.system \in BOOLEAN /\ acc.msgs \in Seq(SentTurns) /\ acc.pending \in Seq(SentBlocks)
      /\ acc = [system |-> acc.system, msgs |-> acc.msgs, pending |-> acc.pending]
  BY DEF Takings
<1> DEFINE s == acc.system \/ \E i \in DOMAIN m.parts : m.parts[i].kind = "text"
<1>2. s \in BOOLEAN  OBVIOUS
<1>3. Take(acc, m) = [acc EXCEPT !.system = s]  BY DEF Take
<1> HIDE DEF s
<1>4. Take(acc, m) = [system |-> s, msgs |-> acc.msgs, pending |-> acc.pending]  BY <1>1, <1>3
<1>5. Take(acc, m) \in Takings  BY <1>1, <1>2, <1>4 DEF Takings
<1> QED  BY <1>4, <1>5

\* A tool's result waits for the others.
LEMMA TakeTool ==
    ASSUME NEW acc \in Takings, NEW m \in ChatMessages, m.role = "tool"
    PROVE  /\ Take(acc, m).msgs = acc.msgs
           /\ Take(acc, m).pending = Append(acc.pending, Block("tool_result", m.id, FALSE))
           /\ Block("tool_result", m.id, FALSE) \in SentBlocks
           /\ Take(acc, m) \in Takings
<1>1. /\ acc.system \in BOOLEAN /\ acc.msgs \in Seq(SentTurns) /\ acc.pending \in Seq(SentBlocks)
      /\ acc = [system |-> acc.system, msgs |-> acc.msgs, pending |-> acc.pending]
  BY DEF Takings
<1> DEFINE b == Block("tool_result", m.id, FALSE)
           p == Append(acc.pending, b)
<1>2. b \in SentBlocks
  <2>1. m.id \in Nat  BY DEF ChatMessages
  <2> QED  BY <2>1 DEF Block, SentBlocks
<1>3. Take(acc, m) = [acc EXCEPT !.pending = p]  BY DEF Take
<1> HIDE DEF b
<1>4. p \in Seq(SentBlocks)  BY <1>1, <1>2
<1> HIDE DEF p
<1>5. Take(acc, m) = [system |-> acc.system, msgs |-> acc.msgs, pending |-> p]  BY <1>1, <1>3
<1>6. Take(acc, m) \in Takings  BY <1>1, <1>4, <1>5 DEF Takings
<1>7. Take(acc, m).msgs = acc.msgs /\ Take(acc, m).pending = p  BY <1>5
<1> QED  BY <1>2, <1>6, <1>7 DEF p, b

\* Who speaks makes a turn, after the results.
LEMMA TakeSpoken ==
    ASSUME NEW acc \in Takings, NEW m \in ChatMessages, Speaks(m)
    PROVE  /\ Take(acc, m).msgs = Flush(acc).msgs \o Turn(m.role, ToBlocks(m.parts) \o ToolUses(m.calls))
           /\ Take(acc, m).pending = <<>>
           /\ ToBlocks(m.parts) \o ToolUses(m.calls) \in Seq(SentBlocks)
           /\ Turn(m.role, ToBlocks(m.parts) \o ToolUses(m.calls)) \in Seq(SentTurns)
           /\ Take(acc, m) \in Takings
<1> DEFINE c == ToBlocks(m.parts) \o ToolUses(m.calls)
           x == Turn(m.role, c)
           f == Flush(acc)
           w == f.msgs \o x
<1>1. m.role \in {"user", "assistant"}  BY DEF Speaks
<1>2. f \in Takings /\ f.pending = <<>>  BY FlushTyped
<1>3. c \in Seq(SentBlocks)
  <2>1. m.parts \in Seq(ChatParts) /\ m.calls \in Seq(Nat)  BY DEF ChatMessages
  <2>2. ToBlocks(m.parts) \in Seq(PlainBlocks)  BY <2>1, ToBlocksTyped
  <2> QED  BY <2>1, <2>2, ContentTyped
<1> HIDE DEF c, f
<1>4. x \in Seq(SentTurns)
  <2>1. [role |-> m.role, content |-> c] \in SentTurns  BY <1>1, <1>3 DEF SentTurns
  <2>2. <<[role |-> m.role, content |-> c]>> \in Seq(SentTurns)  BY <2>1, OneThing
  <2>3. <<>> \in Seq(SentTurns)  OBVIOUS
  <2> QED  BY <2>2, <2>3 DEF Turn
<1> HIDE DEF x
<1>5. /\ f.system \in BOOLEAN /\ f.msgs \in Seq(SentTurns) /\ f.pending \in Seq(SentBlocks)
      /\ f = [system |-> f.system, msgs |-> f.msgs, pending |-> f.pending]
  BY <1>2 DEF Takings
<1>6. w \in Seq(SentTurns)  BY <1>4, <1>5, ConcatProperties
<1>7. Take(acc, m) = [f EXCEPT !.msgs = w]
  <2>1. m.role # "system" /\ m.role # "tool"  BY <1>1
  <2> QED  BY <2>1 DEF Take, f, x, c
<1> HIDE DEF w
<1>8. Take(acc, m) = [system |-> f.system, msgs |-> w, pending |-> f.pending]  BY <1>5, <1>7
<1>9. Take(acc, m) \in Takings  BY <1>5, <1>6, <1>8 DEF Takings
<1>10. Take(acc, m).msgs = w /\ Take(acc, m).pending = <<>>  BY <1>2, <1>8
<1> QED  BY <1>3, <1>4, <1>9, <1>10 DEF w, x, f, c
\* In a legal conversation what a turn calls is answered.
LEMMA LegalAnswers ==
    ASSUME NEW msgs, Legal(msgs), NEW t \in DOMAIN msgs, Speaks(msgs[t])
    PROVE  ToSet(msgs[t].calls) = ResultsOf(msgs, t)
BY DEF Legal

\* The number after n, seen from the numbers beyond it.
LEMMA NextOne ==
    ASSUME NEW l \in Nat, NEW n \in 0..l, NEW t \in 1..n, NEW k \in 1..l, k > n
    PROVE  n # l /\ n + 1 \in t..k /\ n + 1 > t
OBVIOUS

\* Once somebody speaks, or nobody does any more, the tools have said all they say to the last turn.
LEMMA WaitingIsAll ==
    ASSUME NEW msgs \in Seq(ChatMessages), NEW n \in 0..Len(msgs), NEW t \in 1..n, Quiet(msgs, t, n), Heeded(msgs, n)
    PROVE  ResultsOf(msgs, t) = Waiting(msgs, n, t)
<1> DEFINE quiet(k) == \A h \in t..k : h > t => ~Speaks(msgs[h])
           isTool(k) == msgs[k].role = "tool"
           R == {k \in DOMAIN msgs : k > t /\ isTool(k) /\ quiet(k)}
           W == {k \in 1..n : k > t /\ isTool(k)}
<1>1. Len(msgs) \in Nat /\ n \in Nat /\ n <= Len(msgs) /\ t \in Nat /\ t <= n /\ DOMAIN msgs = 1..Len(msgs)
  OBVIOUS
<1>2. \A k : k \in R <=> k \in DOMAIN msgs /\ k > t /\ isTool(k) /\ quiet(k)  OBVIOUS
<1>3. \A k : k \in W <=> k \in 1..n /\ k > t /\ isTool(k)  OBVIOUS
<1> HIDE DEF R, W, isTool
<1>4. \A k \in 1..n : quiet(k)
  <2> SUFFICES ASSUME NEW k \in 1..n, NEW h \in t..k, h > t PROVE ~Speaks(msgs[h])  OBVIOUS
  <2>1. h \in (t + 1)..n  BY <1>1
  <2> QED  BY <2>1 DEF Quiet
<1>5. \A k \in 1..Len(msgs) : k > n => ~quiet(k)
  <2> SUFFICES ASSUME NEW k \in 1..Len(msgs), k > n PROVE ~quiet(k)  OBVIOUS
  <2>1. n # Len(msgs) /\ n + 1 \in t..k /\ n + 1 > t
    <3> HIDE DEF quiet
    <3> QED  BY <1>1, NextOne
  <2>2. Speaks(msgs[n + 1])  BY <2>1 DEF Heeded
  <2> QED  BY <2>1, <2>2
<1> HIDE DEF quiet
<1>6. W \subseteq R
  <2> SUFFICES ASSUME NEW k \in W PROVE k \in R  OBVIOUS
  <2>1. k \in 1..n /\ k > t /\ isTool(k)  BY <1>3
  <2>2. quiet(k)  BY <1>4, <2>1
  <2>3. k \in DOMAIN msgs  BY <1>1, <2>1
  <2> QED  BY <1>2, <2>1, <2>2, <2>3
<1>7. R \subseteq W
  <2> SUFFICES ASSUME NEW k \in R PROVE k \in W  OBVIOUS
  <2>1. k \in 1..Len(msgs) /\ k > t /\ isTool(k) /\ quiet(k)  BY <1>1, <1>2
  <2>2. ~(k > n)  BY <1>5, <2>1
  <2>3. k \in 1..n  BY <1>1, <2>1, <2>2
  <2> QED  BY <1>3, <2>1, <2>3
<1>8. R = W  BY <1>6, <1>7
<1>9. ResultsOf(msgs, t) = {msgs[j].id : j \in R}  BY DEF ResultsOf, R, quiet, isTool
<1> QED  BY <1>8, <1>9 DEF Waiting, W, isTool

\* A turn that has its answer keeps it when more turns come.
LEMMA AnsweredStays ==
    ASSUME NEW a \in Seq(SentTurns), NEW b \in Seq(SentTurns), NEW i \in 1..Len(a), AnsweredBy(a, i)
    PROVE  AnsweredBy(a \o b, i)
<1> DEFINE w == a \o b
<1>1. /\ w \in Seq(SentTurns) /\ Len(w) = Len(a) + Len(b)
      /\ \A k \in 1..Len(a) : w[k] = a[k]
  BY BothParts
<1>2. Len(a) \in Nat /\ Len(b) \in Nat  OBVIOUS
<1> HIDE DEF w
<1>3. i < Len(a) /\ a[i + 1].role = "user" /\ Results(a[i + 1]) = Uses(a[i])  BY DEF AnsweredBy
<1>4. i + 1 \in 1..Len(a) /\ i < Len(w)  BY <1>1, <1>2, <1>3
<1>5. w[i] = a[i] /\ w[i + 1] = a[i + 1]  BY <1>1, <1>4
<1>6. AnsweredBy(w, i)  BY <1>3, <1>4, <1>5 DEF AnsweredBy
<1> QED  BY <1>6 DEF w

\* The turn of the results answers the turn before it.
LEMMA FlushAnswers ==
    ASSUME NEW msgs \in Seq(ChatMessages), Legal(msgs), NEW acc \in Takings, NEW n \in 0..Len(msgs), NEW t,
           ResultsSoFar(msgs, acc, n, t), Heeded(msgs, n)
    PROVE  \A i \in DOMAIN Flush(acc).msgs : Uses(Flush(acc).msgs[i]) # {} => AnsweredBy(Flush(acc).msgs, i)
<1> DEFINE out == acc.msgs
           p == acc.pending
           x == Turn("user", p)
           w == out \o x
           last == [role |-> "user", content |-> p]
<1>1. out \in Seq(SentTurns) /\ p \in Seq(SentBlocks)  BY DEF Takings
<1>2. x \in Seq(SentTurns) /\ Flush(acc).msgs = w  BY FlushTyped
<1>3. /\ t \in 0..n /\ (t # 0 => Speaks(msgs[t])) /\ Quiet(msgs, t, n)
      /\ \A k \in DOMAIN p : p[k].kind = "tool_result"
      /\ {p[k].id : k \in DOMAIN p} = Waiting(msgs, n, t)
      /\ \A i \in DOMAIN out : Uses(out[i]) # {} =>
            \/ AnsweredBy(out, i)
            \/ i = Len(out) /\ t # 0 /\ Uses(out[i]) = ToSet(msgs[t].calls)
  BY DEF ResultsSoFar
<1>4. Uses(last) = {} /\ Results(last) = Waiting(msgs, n, t)
  <2>1. last.content = p  OBVIOUS
  <2> HIDE DEF last
  <2>2. {j \in DOMAIN p : p[j].kind = "tool_use"} = {} /\ {j \in DOMAIN p : p[j].kind = "tool_result"} = DOMAIN p
    BY <1>3
  <2>3. {p[k].id : k \in {j \in DOMAIN p : p[j].kind = "tool_use"}} = {}  BY <2>2
  <2>4. {p[k].id : k \in {j \in DOMAIN p : p[j].kind = "tool_result"}} = Waiting(msgs, n, t)  BY <1>3, <2>2
  <2> QED  BY <2>1, <2>3, <2>4 DEF Uses, Results
<1>5. /\ p = <<>> => x = <<>> /\ Waiting(msgs, n, t) = {}
      /\ p # <<>> => x = <<last>>
  <2>1. p = <<>> => {p[k].id : k \in DOMAIN p} = {}  OBVIOUS
  <2>2. p = <<>> => Waiting(msgs, n, t) = {}  BY <1>3, <2>1
  <2> QED  BY <2>2 DEF Turn
<1>6. last.role = "user"  OBVIOUS
<1> HIDE DEF x, last, p, out
<1>7. /\ w \in Seq(SentTurns) /\ Len(w) = Len(out) + Len(x)
      /\ \A i \in 1..Len(out) : w[i] = out[i]
      /\ \A i \in 1..Len(x) : w[Len(out) + i] = x[i]
  BY <1>1, <1>2, BothParts
<1> HIDE DEF w
<1>8. Len(out) \in Nat /\ Len(x) \in Nat /\ DOMAIN w = 1..(Len(out) + Len(x)) /\ DOMAIN out = 1..Len(out)
  BY <1>1, <1>2, <1>7
<1>9. ASSUME NEW i \in DOMAIN w, Uses(w[i]) # {} PROVE AnsweredBy(w, i)
  <2>1. CASE i \in 1..Len(out)
    <3>1. w[i] = out[i] /\ Uses(out[i]) # {}  BY <1>7, <1>9, <2>1
    <3>2. CASE AnsweredBy(out, i)
      BY <1>1, <1>2, <2>1, <3>2, AnsweredStays DEF w
    <3>3. CASE i = Len(out) /\ t # 0 /\ Uses(out[i]) = ToSet(msgs[t].calls)
      <4>1. t \in 1..n /\ Speaks(msgs[t]) /\ t \in DOMAIN msgs  BY <1>3, <3>3
      <4>2. ToSet(msgs[t].calls) = ResultsOf(msgs, t)  BY <4>1, LegalAnswers
      <4>3. ResultsOf(msgs, t) = Waiting(msgs, n, t)
        <5>1. Quiet(msgs, t, n)  BY <1>3
        <5> QED  BY <4>1, <5>1, WaitingIsAll
      <4>4. Uses(out[i]) = Waiting(msgs, n, t)  BY <3>3, <4>2, <4>3
      <4>5. x = <<last>>  BY <1>5, <3>1, <4>4
      <4>6. Len(x) = 1 /\ x[1] = last  BY <4>5
      <4>7. w[i + 1] = last
        <5>1. 1 \in 1..Len(x) /\ Len(out) + 1 = i + 1  BY <3>3, <4>6
        <5>2. w[Len(out) + 1] = x[1]  BY <1>7, <5>1
        <5> QED  BY <4>6, <5>1, <5>2
      <4>8. i < Len(w)  BY <1>7, <1>8, <3>3, <4>6
      <4> QED  BY <1>4, <1>6, <3>1, <4>4, <4>7, <4>8 DEF AnsweredBy
    <3> QED  BY <1>3, <1>8, <2>1, <3>1, <3>2, <3>3
  <2>2. CASE i \notin 1..Len(out)
    <3>1. i - Len(out) \in 1..Len(x) /\ Len(out) + (i - Len(out)) = i  BY <1>8, <2>2
    <3>2. p # <<>>
      <4>1. Len(x) # 0  BY <1>8, <3>1
      <4> QED  BY <1>5, <4>1
    <3>3. x = <<last>> /\ Len(x) = 1 /\ x[1] = last  BY <1>5, <3>2
    <3>4. i = Len(out) + 1  BY <1>8, <3>1, <3>3
    <3>5. 1 \in 1..Len(x)  BY <3>3
    <3>6. w[Len(out) + 1] = last  BY <1>7, <3>3, <3>5
    <3> QED  BY <1>4, <1>9, <3>4, <3>6
  <2> QED  BY <2>1, <2>2
<1> QED  BY <1>2, <1>9 DEF w, out, x, p
\* What waits for its turn grows with the tools only.
LEMMA WaitingGrows ==
    ASSUME NEW msgs, NEW n \in Nat, NEW t \in 0..n
    PROVE  /\ msgs[n + 1].role # "tool" => Waiting(msgs, n + 1, t) = Waiting(msgs, n, t)
           /\ Waiting(msgs, n, n) = {}
           /\ ~Speaks(msgs[n + 1]) /\ Quiet(msgs, t, n) => Quiet(msgs, t, n + 1)
           /\ Quiet(msgs, n, n)
<1> DEFINE isTool(k) == msgs[k].role = "tool"
           W(m, s) == {k \in 1..m : k > s /\ isTool(k)}
<1> HIDE DEF isTool
<1>1. ~isTool(n + 1) => W(n + 1, t) = W(n, t)  OBVIOUS
<1>2. W(n, n) = {}  OBVIOUS
<1> HIDE DEF W
<1>3. \A m, s : Waiting(msgs, m, s) = {msgs[j].id : j \in W(m, s)}  BY DEF Waiting, W, isTool
<1>4. {msgs[j].id : j \in W(n, n)} = {}  BY <1>2
<1>5. \A h \in (t + 1)..(n + 1) : h \in (t + 1)..n \/ h = n + 1  OBVIOUS
<1>6. (n + 1)..n = {}  OBVIOUS
<1>7. ~Speaks(msgs[n + 1]) /\ Quiet(msgs, t, n) => Quiet(msgs, t, n + 1)  BY <1>5 DEF Quiet
<1>8. Quiet(msgs, n, n)  BY <1>6 DEF Quiet
<1>9. /\ msgs[n + 1].role # "tool" => Waiting(msgs, n + 1, t) = Waiting(msgs, n, t)
      /\ Waiting(msgs, n, n) = {}
  BY <1>1, <1>3, <1>4 DEF isTool
<1> QED  BY <1>7, <1>8, <1>9

\* A tool's result is one more that waits.
LEMMA OneMoreWaits ==
    ASSUME NEW msgs, NEW n \in Nat, NEW t \in 0..n, msgs[n + 1].role = "tool"
    PROVE  Waiting(msgs, n + 1, t) = Waiting(msgs, n, t) \cup {msgs[n + 1].id}
<1> DEFINE isTool(k) == msgs[k].role = "tool"
           W(m, s) == {k \in 1..m : k > s /\ isTool(k)}
<1>1. isTool(n + 1)  OBVIOUS
<1> HIDE DEF isTool
<1>2. W(n + 1, t) = W(n, t) \cup {n + 1}  BY <1>1
<1> HIDE DEF W
<1>3. {msgs[j].id : j \in W(n + 1, t)} = {msgs[j].id : j \in W(n, t)} \cup {msgs[n + 1].id}  BY <1>2
<1> QED  BY <1>3 DEF Waiting, W, isTool

\* A system message leaves the results as they are.
LEMMA SoFarSystem ==
    ASSUME NEW msgs \in Seq(ChatMessages), NEW acc \in Takings, NEW n \in Nat, NEW t, n < Len(msgs),
           ResultsSoFar(msgs, acc, n, t), msgs[n + 1].role = "system"
    PROVE  ResultsSoFar(msgs, Take(acc, msgs[n + 1]), n + 1, t)
<1> DEFINE m == msgs[n + 1]
           new == Take(acc, m)
<1>1. m \in ChatMessages
  <2>1. n + 1 \in 1..Len(msgs)  OBVIOUS
  <2> QED  BY <2>1
<1>2. new.msgs = acc.msgs /\ new.pending = acc.pending  BY <1>1, TakeSystem
<1> HIDE DEF new
<1>3. t \in 0..n /\ t \in 0..(n + 1)  BY DEF ResultsSoFar
<1>4. Waiting(msgs, n + 1, t) = Waiting(msgs, n, t)
  <2>1. msgs[n + 1].role # "tool"  OBVIOUS
  <2> QED  BY <1>3, <2>1, WaitingGrows
<1>5. Quiet(msgs, t, n + 1)
  <2>1. ~Speaks(msgs[n + 1]) /\ Quiet(msgs, t, n)  BY DEF Speaks, ResultsSoFar
  <2> QED  BY <1>3, <2>1, WaitingGrows
<1>6. ResultsSoFar(msgs, new, n + 1, t)  BY <1>2, <1>3, <1>4, <1>5 DEF ResultsSoFar
<1> QED  BY <1>6 DEF new

\* A tool's result waits with the others.
LEMMA SoFarTool ==
    ASSUME NEW msgs \in Seq(ChatMessages), NEW acc \in Takings, NEW n \in Nat, NEW t, n < Len(msgs),
           ResultsSoFar(msgs, acc, n, t), msgs[n + 1].role = "tool"
    PROVE  ResultsSoFar(msgs, Take(acc, msgs[n + 1]), n + 1, t)
<1> DEFINE m == msgs[n + 1]
           b == Block("tool_result", m.id, FALSE)
           p == acc.pending
           q == Append(p, b)
           new == Take(acc, m)
<1>1. m \in ChatMessages
  <2>1. n + 1 \in 1..Len(msgs)  OBVIOUS
  <2> QED  BY <2>1
<1>2. new.msgs = acc.msgs /\ new.pending = q /\ b \in SentBlocks  BY <1>1, TakeTool
<1>3. p \in Seq(SentBlocks)  BY DEF Takings
<1>4. b.kind = "tool_result" /\ b.id = m.id  BY DEF Block
<1> HIDE DEF new, b
<1>5. /\ DOMAIN q = 1..(Len(p) + 1) /\ q[Len(p) + 1] = b /\ DOMAIN p = 1..Len(p)
      /\ \A i \in 1..Len(p) : q[i] = p[i]
  <2> HIDE DEF p
  <2> QED  BY <1>2, <1>3
<1>6. Len(p) \in Nat  BY <1>3
<1> HIDE DEF p, q
<1>7. /\ t \in 0..n /\ Quiet(msgs, t, n)
      /\ \A k \in DOMAIN p : p[k].kind = "tool_result"
      /\ {p[k].id : k \in DOMAIN p} = Waiting(msgs, n, t)
  BY DEF ResultsSoFar, p
<1>8. DOMAIN q = DOMAIN p \cup {Len(p) + 1}  BY <1>5, <1>6
<1>9. \A k \in DOMAIN q : q[k].kind = "tool_result"
  <2> SUFFICES ASSUME NEW k \in DOMAIN q PROVE q[k].kind = "tool_result"  OBVIOUS
  <2>1. k \in DOMAIN p \/ k = Len(p) + 1  BY <1>8
  <2> QED  BY <1>4, <1>5, <1>7, <2>1
<1>10. {q[k].id : k \in DOMAIN q} = {p[k].id : k \in DOMAIN p} \cup {m.id}
  <2>1. \A k \in DOMAIN p : q[k].id = p[k].id  BY <1>5
  <2>2. q[Len(p) + 1].id = m.id  BY <1>4, <1>5
  <2> QED  BY <1>8, <2>1, <2>2
<1>11. {q[k].id : k \in DOMAIN q} = Waiting(msgs, n + 1, t)
  <2>1. msgs[n + 1].role = "tool" /\ t \in 0..n  BY <1>7
  <2>2. Waiting(msgs, n + 1, t) = Waiting(msgs, n, t) \cup {msgs[n + 1].id}  BY <2>1, OneMoreWaits
  <2> QED  BY <1>7, <1>10, <2>2
<1>12. Quiet(msgs, t, n + 1)
  <2>1. ~Speaks(msgs[n + 1])  BY DEF Speaks
  <2> QED  BY <1>7, <2>1, WaitingGrows
<1>13. t \in 0..(n + 1)  BY <1>7
<1>14. t # 0 => Speaks(msgs[t])  BY DEF ResultsSoFar
<1>15. \A i \in DOMAIN acc.msgs : Uses(acc.msgs[i]) # {} =>
            \/ AnsweredBy(acc.msgs, i)
            \/ i = Len(acc.msgs) /\ t # 0 /\ Uses(acc.msgs[i]) = ToSet(msgs[t].calls)
  BY DEF ResultsSoFar
<1>16. ResultsSoFar(msgs, new, n + 1, t)  BY <1>2, <1>9, <1>11, <1>12, <1>13, <1>14, <1>15 DEF ResultsSoFar
<1> QED  BY <1>16 DEF new

\* Who speaks next finds every turn before him answered.
LEMMA SoFarSpoken ==
    ASSUME NEW msgs \in Seq(ChatMessages), Legal(msgs), NEW acc \in Takings, NEW n \in Nat, NEW t, n < Len(msgs),
           ResultsSoFar(msgs, acc, n, t), Speaks(msgs[n + 1])
    PROVE  ResultsSoFar(msgs, Take(acc, msgs[n + 1]), n + 1, n + 1)
<1> DEFINE m == msgs[n + 1]
           w == Flush(acc).msgs
           A == ToBlocks(m.parts)
           c == A \o ToolUses(m.calls)
           x == Turn(m.role, c)
           o == w \o x
           turn == [role |-> m.role, content |-> c]
           new == Take(acc, m)
<1>1. m \in ChatMessages
  <2>1. n + 1 \in 1..Len(msgs)  OBVIOUS
  <2> QED  BY <2>1
<1>2. new.msgs = o /\ new.pending = <<>> /\ x \in Seq(SentTurns)  BY <1>1, TakeSpoken
<1>3. w \in Seq(SentTurns)
  <2>1. Flush(acc) \in Takings  BY FlushTyped
  <2> QED  BY <2>1 DEF Takings
<1>4. \A i \in DOMAIN w : Uses(w[i]) # {} => AnsweredBy(w, i)
  <2>1. n \in 0..Len(msgs) /\ Heeded(msgs, n)  BY DEF Heeded
  <2> QED  BY <2>1, FlushAnswers
<1>5. Uses(turn) = ToSet(m.calls)
  <2>1. m.parts \in Seq(ChatParts) /\ m.calls \in Seq(Nat)  BY <1>1 DEF ChatMessages
  <2>2. A \in Seq(PlainBlocks)  BY <2>1, ToBlocksTyped
  <2> HIDE DEF A
  <2>3. {c[k].id : k \in {j \in DOMAIN c : c[j].kind = "tool_use"}} = ToSet(m.calls)  BY <2>1, <2>2, ContentTyped
  <2> HIDE DEF c
  <2> QED  BY <2>3 DEF Uses
<1>6. x = <<>> \/ x = <<turn>>  BY DEF Turn
<1> HIDE DEF x, w, turn, new, A
<1>7. /\ Len(o) = Len(w) + Len(x)
      /\ \A i \in 1..Len(w) : o[i] = w[i]
      /\ \A i \in 1..Len(x) : o[Len(w) + i] = x[i]
      /\ o \in Seq(SentTurns)
  BY <1>2, <1>3, BothParts
<1>8. Len(w) \in Nat /\ Len(x) \in Nat /\ DOMAIN w = 1..Len(w)  BY <1>2, <1>3
<1>9. \A i \in 1..Len(w) : AnsweredBy(w, i) => AnsweredBy(o, i)  BY <1>2, <1>3, AnsweredStays
<1> HIDE DEF o
<1>10. DOMAIN o = 1..(Len(w) + Len(x))  BY <1>7
<1>11. ASSUME NEW i \in DOMAIN o, Uses(o[i]) # {}
       PROVE  AnsweredBy(o, i) \/ (i = Len(o) /\ Uses(o[i]) = ToSet(m.calls))
  <2>1. CASE i \in 1..Len(w)  BY <1>4, <1>7, <1>8, <1>9, <1>11, <2>1
  <2>2. CASE i \notin 1..Len(w)
    <3>1. i - Len(w) \in 1..Len(x) /\ Len(x) # 0  BY <1>8, <1>10, <2>2
    <3>2. x = <<turn>> /\ Len(x) = 1 /\ x[1] = turn
      <4>1. x # <<>>  BY <3>1
      <4> QED  BY <1>6, <4>1
    <3>3. i = Len(w) + 1 /\ 1 \in 1..Len(x)
      <4>1. Len(x) = 1 /\ i \in 1..(Len(w) + Len(x))  BY <1>10, <3>2
      <4>2. i = Len(w) + 1  BY <1>8, <2>2, <4>1
      <4>3. 1 \in 1..Len(x)  BY <4>1
      <4> QED  BY <4>2, <4>3
    <3>4. o[Len(w) + 1] = turn  BY <1>7, <3>2, <3>3
    <3>5. i = Len(o)  BY <1>7, <3>2, <3>3
    <3> QED  BY <1>5, <3>3, <3>4, <3>5
  <2> QED  BY <2>1, <2>2
<1>12. n + 1 \in Nat /\ n + 1 \in 0..(n + 1) /\ n + 1 # 0  OBVIOUS
<1>13. Waiting(msgs, n + 1, n + 1) = {} /\ Quiet(msgs, n + 1, n + 1)  BY <1>12, WaitingGrows
<1>14. /\ \A k \in DOMAIN new.pending : new.pending[k].kind = "tool_result"
       /\ {new.pending[k].id : k \in DOMAIN new.pending} = {}
  BY <1>2
<1>15. ResultsSoFar(msgs, new, n + 1, n + 1)  BY <1>2, <1>11, <1>12, <1>13, <1>14 DEF ResultsSoFar
<1> QED  BY <1>15 DEF new

\* The beginning: nothing is taken, nobody has spoken.
LEMMA SoFarNothing ==
    ASSUME NEW msgs
    PROVE  Untaken \in Takings /\ ResultsSoFar(msgs, Untaken, 0, 0)
<1>1. Untaken.pending = <<>> /\ Untaken.msgs = <<>>  BY DEF Untaken
<1>2. <<>> \in Seq(SentTurns) /\ <<>> \in Seq(SentBlocks)  OBVIOUS
<1>3. Untaken \in Takings  BY <1>2 DEF Untaken, Takings
<1>4. Waiting(msgs, 0, 0) = {} /\ Quiet(msgs, 0, 0)
  <2>1. 0 \in Nat /\ 0 \in 0..0  OBVIOUS
  <2> QED  BY <2>1, WaitingGrows
<1>5. {Untaken.pending[k].id : k \in DOMAIN Untaken.pending} = {}  BY <1>1
<1>6. 0 \in 0..0  OBVIOUS
<1> QED  BY <1>1, <1>3, <1>4, <1>5, <1>6 DEF ResultsSoFar
\* Whatever is taken next.
LEMMA TakeTyped ==
    ASSUME NEW acc \in Takings, NEW m \in ChatMessages
    PROVE  Take(acc, m) \in Takings
<1>1. m.role \in {"system", "user", "assistant", "tool"}  BY DEF ChatMessages
<1>2. CASE m.role = "system"  BY <1>2, TakeSystem
<1>3. CASE m.role = "tool"  BY <1>3, TakeTool
<1>4. CASE m.role \in {"user", "assistant"}
  <2>1. Speaks(m)  BY <1>4 DEF Speaks
  <2> QED  BY <2>1, TakeSpoken
<1> QED  BY <1>1, <1>2, <1>3, <1>4

\* What is taken is a rebuilt request, after every message.
LEMMA TakenTyped ==
    ASSUME NEW msgs \in Seq(ChatMessages), NEW f, Takes(f, msgs, Len(msgs))
    PROVE  \A n \in 0..Len(msgs) : f[n] \in Takings
<1> DEFINE Wrong == {n \in 0..Len(msgs) : f[n] \notin Takings}
<1>1. Len(msgs) \in Nat /\ \A i \in 1..Len(msgs) : msgs[i] \in ChatMessages  OBVIOUS
<1>2. Wrong = {}
  <2> SUFFICES ASSUME Wrong # {} PROVE FALSE  OBVIOUS
  <2>1. PICK n \in Wrong : \A k \in Wrong : n <= k
    <3>1. Wrong \in SUBSET Nat  BY <1>1
    <3> HIDE DEF Wrong
    <3> QED  BY <3>1, LeastNumber
  <2>2. n \in 0..Len(msgs) /\ f[n] \notin Takings  BY <2>1
  <2>3. n # 0
    <3>1. f[0] \in Takings  BY SoFarNothing DEF Takes
    <3> QED  BY <2>2, <3>1
  <2>4. n \in 1..Len(msgs) /\ n - 1 \in 0..Len(msgs) /\ ~(n <= n - 1)  BY <1>1, <2>2, <2>3
  <2>5. f[n - 1] \in Takings  BY <2>1, <2>4
  <2>6. f[n] = Take(f[n - 1], msgs[n]) /\ msgs[n] \in ChatMessages  BY <1>1, <2>4 DEF Takes
  <2>7. f[n] \in Takings  BY <2>5, <2>6, TakeTyped
  <2> QED  BY <2>2, <2>7
<1> QED  BY <1>2

\* One message more, whatever it is.
LEMMA SoFarMore ==
    ASSUME NEW msgs \in Seq(ChatMessages), Legal(msgs), NEW acc \in Takings, NEW n \in Nat, NEW t, n < Len(msgs),
           ResultsSoFar(msgs, acc, n, t)
    PROVE  \E s : ResultsSoFar(msgs, Take(acc, msgs[n + 1]), n + 1, s)
<1> DEFINE m == msgs[n + 1]
<1>1. m.role \in {"system", "user", "assistant", "tool"}
  <2>1. n + 1 \in 1..Len(msgs)  OBVIOUS
  <2>2. m \in ChatMessages  BY <2>1
  <2> HIDE DEF m
  <2> QED  BY <2>2 DEF ChatMessages
<1>2. CASE m.role = "system"  BY <1>2, SoFarSystem
<1>3. CASE m.role = "tool"  BY <1>3, SoFarTool
<1>4. CASE m.role \in {"user", "assistant"}
  <2>1. Speaks(msgs[n + 1])  BY <1>4 DEF Speaks
  <2> QED  BY <2>1, SoFarSpoken
<1> QED  BY <1>1, <1>2, <1>3, <1>4

\* The results wait for their turn, or have it, after every message of a legal conversation.
LEMMA SoFarAlways ==
    ASSUME NEW msgs \in Seq(ChatMessages), Legal(msgs), NEW f, Takes(f, msgs, Len(msgs))
    PROVE  \A n \in 0..Len(msgs) : \E t : ResultsSoFar(msgs, f[n], n, t)
<1> DEFINE Wrong == {n \in 0..Len(msgs) : ~\E t : ResultsSoFar(msgs, f[n], n, t)}
<1>1. Len(msgs) \in Nat  OBVIOUS
<1>2. Wrong = {}
  <2> SUFFICES ASSUME Wrong # {} PROVE FALSE  OBVIOUS
  <2>1. PICK n \in Wrong : \A k \in Wrong : n <= k
    <3>1. Wrong \in SUBSET Nat  BY <1>1
    <3> HIDE DEF Wrong
    <3> QED  BY <3>1, LeastNumber
  <2>2. n \in 0..Len(msgs) /\ ~\E t : ResultsSoFar(msgs, f[n], n, t)  BY <2>1
  <2>3. n # 0
    <3>1. ResultsSoFar(msgs, f[0], 0, 0)  BY SoFarNothing DEF Takes
    <3> QED  BY <2>2, <3>1
  <2> DEFINE k == n - 1
  <2>4. n \in 1..Len(msgs) /\ k \in 0..Len(msgs) /\ ~(n <= k)  BY <1>1, <2>2, <2>3
  <2>5. k \in Nat /\ k + 1 = n /\ k < Len(msgs)  BY <1>1, <2>4
  <2>6. f[n] = Take(f[k], msgs[n])  BY <2>4 DEF Takes
  <2> HIDE DEF k
  <2>7. PICK t : ResultsSoFar(msgs, f[k], k, t)  BY <2>1, <2>4
  <2>8. f[k] \in Takings  BY <2>4, TakenTyped
  <2>9. \E s : ResultsSoFar(msgs, Take(f[k], msgs[k + 1]), k + 1, s)  BY <2>5, <2>7, <2>8, SoFarMore
  <2> QED  BY <2>2, <2>5, <2>6, <2>9
<1> QED  BY <1>2

\* The rebuilt conversation: the messages, and the results that were still waiting.
LEMMA SentMessages ==
    ASSUME NEW b
    PROVE  ToAnthropic(b).msgs = Flush(TakenAll(b.msgs)).msgs
BY DEF ToAnthropic, Taken

\* Each result of a legal conversation comes with the others, right after the turn that asked for it.
LEMMA LegalTogether ==
    ASSUME NEW b \in ChatRequests
    PROVE  Legal(b.msgs) => Together(ToAnthropic(b).msgs)
<1> SUFFICES ASSUME Legal(b.msgs) PROVE Together(ToAnthropic(b).msgs)  OBVIOUS
<1> DEFINE msgs == b.msgs
           n == Len(msgs)
<1>1. msgs \in Seq(ChatMessages) /\ Legal(msgs)  BY DEF ChatRequests
<1>2. ToAnthropic(b).msgs = Flush(TakenAll(msgs)).msgs  BY SentMessages
<1> HIDE DEF msgs
<1>3. n \in Nat /\ n \in 0..n  BY <1>1
<1>4. PICK f : Takes(f, msgs, n) /\ TakenAll(msgs) = f[n]  BY <1>3, TakenRuns
<1>5. f[n] \in Takings  BY <1>1, <1>3, <1>4, TakenTyped
<1>6. PICK t : ResultsSoFar(msgs, f[n], n, t)  BY <1>1, <1>3, <1>4, SoFarAlways
<1>7. Heeded(msgs, n)  BY DEF Heeded
<1> DEFINE out == Flush(f[n]).msgs
<1>8. \A i \in DOMAIN out : Uses(out[i]) # {} => AnsweredBy(out, i)
  BY <1>1, <1>3, <1>5, <1>6, <1>7, FlushAnswers
<1> HIDE DEF out
<1>9. Together(out)  BY <1>8 DEF Together, AnsweredBy
<1> QED  BY <1>2, <1>4, <1>9 DEF out
\* What the caller adds to a conversation: a message of one text.
Spoken(r) == [role |-> r, parts |-> <<[kind |-> "text", cc |-> FALSE]>>, calls |-> <<>>, id |-> 0, cc |-> FALSE]

\* Such a message is one, and speaks.
LEMMA SpokenTyped ==
    ASSUME NEW r \in {"user", "assistant"}
    PROVE  Spoken(r) \in ChatMessages /\ Speaks(Spoken(r)) /\ Spoken(r).parts \in Seq(ChatParts)
<1> DEFINE part == [kind |-> "text", cc |-> FALSE]
           parts == <<part>>
           calls == <<>>
<1>1. part \in ChatParts  BY DEF ChatParts
<1> HIDE DEF part
<1>2. parts \in Seq(ChatParts)  BY <1>1, OneThing
<1>3. calls \in Seq(Nat)  OBVIOUS
<1>4. Spoken(r) = [role |-> r, parts |-> parts, calls |-> calls, id |-> 0, cc |-> FALSE]  BY DEF Spoken, part
<1> HIDE DEF parts, calls
<1>5. [role |-> r, parts |-> parts, calls |-> calls, id |-> 0, cc |-> FALSE] \in ChatMessages
  BY <1>2, <1>3 DEF ChatMessages
<1> QED  BY <1>2, <1>4, <1>5 DEF Speaks

\* The text of such a message becomes a block.
LEMMA SpokenBlock ==
    ASSUME NEW r \in {"user", "assistant"}
    PROVE  ToBlocks(Spoken(r).parts) # <<>>
<1> DEFINE parts == Spoken(r).parts
           e(p) == IF p.kind = "remote" THEN <<>> ELSE <<Block(p.kind, 0, p.cc /\ p.kind = "text")>>
           m == [i \in DOMAIN parts |-> e(parts[i])]
           x == <<Block("text", 0, FALSE)>>
           none == <<>>
<1>1. DOMAIN parts = 1..1 /\ parts[1] = [kind |-> "text", cc |-> FALSE]  BY DEF Spoken
<1>2. x \in Seq(PlainBlocks) /\ x # <<>>
  <2>1. Block("text", 0, FALSE) \in PlainBlocks  BY DEF Block, PlainBlocks
  <2> QED  BY <2>1, OneThing
<1>3. e(parts[1]) = x
  <2>1. (FALSE /\ "text" = "text") = FALSE  OBVIOUS
  <2>2. parts[1].kind = "text" /\ parts[1].cc = FALSE  BY <1>1
  <2>3. e(parts[1]) = <<Block("text", 0, FALSE /\ "text" = "text")>>  BY <2>2
  <2> QED  BY <2>1, <2>3
<1>4. ToBlocks(parts) = FlattenSeq(m)  BY DEF ToBlocks
<1> HIDE DEF x, e, parts
<1>5. m = Append(none, x)
  <2>1. \A i \in 1..1 : i = 1  OBVIOUS
  <2>2. \A i \in 1..1 : e(parts[i]) = x  BY <1>3, <2>1
  <2>3. m = [i \in 1..1 |-> e(parts[i])]  BY <1>1
  <2> HIDE DEF m
  <2>4. m = [i \in 1..1 |-> x]  BY <2>2, <2>3
  <2> QED  BY <2>4
<1>6. none \in Seq(Seq(PlainBlocks))  OBVIOUS
<1>7. FlattenSeq(none) = <<>>  BY FlattenNone
<1> HIDE DEF m, none
<1>8. FlattenSeq(Append(none, x)) = FlattenSeq(none) \o x  BY <1>2, <1>6, FlattenMore
<1>9. FlattenSeq(m) = x
  <2>1. <<>> \o x = x  BY <1>2, ConcatEmptySeq
  <2> QED  BY <1>5, <1>7, <1>8, <2>1
<1> QED  BY <1>2, <1>4, <1>9 DEF parts

\* Such a message makes a turn.
LEMMA SpokenTurn ==
    ASSUME NEW acc \in Takings, NEW r \in {"user", "assistant"}
    PROVE  LET new == Take(acc, Spoken(r))
           IN  new \in Takings /\ new.pending = <<>> /\ Len(new.msgs) = Len(Flush(acc).msgs) + 1
<1> DEFINE m == Spoken(r)
           new == Take(acc, m)
           w == Flush(acc).msgs
           A == ToBlocks(m.parts)
           U == ToolUses(m.calls)
           x == Turn(m.role, A \o U)
<1>1. m \in ChatMessages /\ Speaks(m) /\ m.parts \in Seq(ChatParts)  BY SpokenTyped
<1>2. A \in Seq(PlainBlocks) /\ A # <<>>  BY <1>1, ToBlocksTyped, SpokenBlock
<1>3. U = <<>>  BY DEF ToolUses, Spoken
<1>4. new.msgs = w \o x /\ new.pending = <<>> /\ x \in Seq(SentTurns) /\ new \in Takings  BY <1>1, TakeSpoken
<1> HIDE DEF A, U
<1>5. A \o U = A  BY <1>2, <1>3, ConcatEmptySeq
<1>6. Len(x) = 1  BY <1>2, <1>5 DEF Turn
<1>7. w \in Seq(SentTurns)
  <2>1. Flush(acc) \in Takings  BY FlushTyped
  <2> QED  BY <2>1 DEF Takings
<1> HIDE DEF w, x, new
<1>8. Len(w \o x) = Len(w) + Len(x)  BY <1>4, <1>7, BothParts
<1> QED  BY <1>4, <1>6, <1>8 DEF w, new

\* When no results wait, there is nothing to flush.
LEMMA FlushNothing ==
    ASSUME NEW acc \in Takings, acc.pending = <<>>
    PROVE  Flush(acc).msgs = acc.msgs
<1>1. Flush(acc).msgs = acc.msgs \o Turn("user", acc.pending)  BY FlushTyped
<1>2. Turn("user", acc.pending) = <<>>  BY DEF Turn
<1>3. acc.msgs \in Seq(SentTurns)  BY DEF Takings
<1>4. acc.msgs \o <<>> = acc.msgs  BY <1>3, ConcatEmptySeq
<1> QED  BY <1>1, <1>2, <1>4

\* The next request of a conversation: two messages more, none of which carries a mark.
LEMMA LongerIs ==
    ASSUME NEW b \in ChatRequests
    PROVE  /\ Longer(b).msgs = b.msgs \o <<Spoken("assistant"), Spoken("user")>>
           /\ Longer(b).tools = b.tools /\ Longer(b).long = TRUE
           /\ Longer(b) \in ChatRequests
<1> DEFINE more == <<Spoken("assistant"), Spoken("user")>>
           msgs == b.msgs \o more
           with == [b EXCEPT !.msgs = msgs]
<1>1. /\ b.msgs \in Seq(ChatMessages) /\ b.tools \in Seq(BOOLEAN) /\ b.none \in BOOLEAN /\ b.long \in BOOLEAN
      /\ b = [msgs |-> b.msgs, tools |-> b.tools, none |-> b.none, long |-> b.long]
  BY DEF ChatRequests
<1>2. more \in Seq(ChatMessages)
  <2>1. Spoken("assistant") \in ChatMessages /\ Spoken("user") \in ChatMessages  BY SpokenTyped
  <2> QED  BY <2>1
<1>3. Longer(b) = [with EXCEPT !.long = TRUE]  BY DEF Longer, Spoken
<1> HIDE DEF more
<1>4. msgs \in Seq(ChatMessages)  BY <1>1, <1>2, ConcatProperties
<1> HIDE DEF msgs
<1>5. with = [msgs |-> msgs, tools |-> b.tools, none |-> b.none, long |-> b.long]  BY <1>1
<1> HIDE DEF with
<1>6. Longer(b) = [msgs |-> msgs, tools |-> b.tools, none |-> b.none, long |-> TRUE]  BY <1>3, <1>5
<1>7. Longer(b) \in ChatRequests  BY <1>1, <1>4, <1>6 DEF ChatRequests
<1> QED  BY <1>6, <1>7 DEF msgs, more

\* A caller who sets no marks sets none in his next request.
LEMMA LongerUnmarked ==
    ASSUME NEW b \in ChatRequests, ~CallerMarks(b)
    PROVE  ~CallerMarks(Longer(b))
<1> DEFINE c == Longer(b)
           more == <<Spoken("assistant"), Spoken("user")>>
           msgs == b.msgs
           marked(m) == m.cc \/ \E k \in DOMAIN m.parts : m.parts[k].cc
<1>1. c.msgs = msgs \o more /\ c.tools = b.tools  BY LongerIs
<1>2. msgs \in Seq(ChatMessages)  BY DEF ChatRequests
<1>3. \A i \in 1..2 : ~marked(more[i])
  <2>1. ~marked(Spoken("assistant")) /\ ~marked(Spoken("user"))  BY DEF Spoken
  <2> HIDE DEF marked
  <2> QED  BY <2>1
<1>4. more \in Seq(ChatMessages) /\ Len(more) = 2
  <2>1. Spoken("assistant") \in ChatMessages /\ Spoken("user") \in ChatMessages  BY SpokenTyped
  <2> QED  BY <2>1
<1>5. (~\E i \in DOMAIN b.tools : b.tools[i]) /\ \A i \in DOMAIN msgs : ~marked(msgs[i])  BY DEF CallerMarks
<1>6. CallerMarks(c) <=> (\E i \in DOMAIN c.tools : c.tools[i]) \/ \E i \in DOMAIN c.msgs : marked(c.msgs[i])
  BY DEF CallerMarks
<1> HIDE DEF c, more, msgs, marked
<1> DEFINE all == msgs \o more
<1>7. /\ all \in Seq(ChatMessages) /\ Len(all) = Len(msgs) + Len(more)
      /\ \A i \in 1..Len(msgs) : all[i] = msgs[i]
      /\ \A i \in 1..Len(more) : all[Len(msgs) + i] = more[i]
  BY <1>2, <1>4, BothParts
<1> HIDE DEF all
<1>8. DOMAIN all = 1..(Len(msgs) + 2) /\ Len(msgs) \in Nat /\ DOMAIN msgs = 1..Len(msgs)  BY <1>2, <1>4, <1>7
<1>9. ASSUME NEW i \in DOMAIN all PROVE ~marked(all[i])
  <2>1. CASE i \in 1..Len(msgs)  BY <1>5, <1>7, <1>8, <2>1
  <2>2. CASE i \notin 1..Len(msgs)
    <3> DEFINE k == i - Len(msgs)
    <3>1. k \in 1..2 /\ Len(msgs) + k = i  BY <1>8, <2>2
    <3> HIDE DEF k
    <3>2. all[Len(msgs) + k] = more[k]  BY <1>4, <1>7, <3>1
    <3> QED  BY <1>3, <3>1, <3>2
  <2> QED  BY <2>1, <2>2
<1>10. ~CallerMarks(c)  BY <1>1, <1>5, <1>6, <1>9 DEF all
<1> QED  BY <1>10 DEF c
\* The next request has two turns more than this one.
LEMMA LongerTaken ==
    ASSUME NEW b \in ChatRequests
    PROVE  /\ Taken(b).msgs \in Seq(SentTurns) /\ Taken(b).system \in BOOLEAN
           /\ Len(Taken(Longer(b)).msgs) = Len(Taken(b).msgs) + 2
<1> DEFINE msgs == b.msgs
           n == Len(msgs)
           s1 == Spoken("assistant")
           s2 == Spoken("user")
           more == <<s1, s2>>
           all == msgs \o more
<1>1. msgs \in Seq(ChatMessages)  BY DEF ChatRequests
<1>2. Longer(b).msgs = all  BY LongerIs
<1>3. s1 \in ChatMessages /\ s2 \in ChatMessages  BY SpokenTyped
<1>4. more \in Seq(ChatMessages) /\ Len(more) = 2 /\ more[1] = s1 /\ more[2] = s2  BY <1>3
<1> HIDE DEF msgs, s1, s2, more
<1>5. /\ all \in Seq(ChatMessages) /\ Len(all) = Len(msgs) + Len(more)
      /\ \A i \in 1..Len(msgs) : all[i] = msgs[i]
      /\ \A i \in 1..Len(more) : all[Len(msgs) + i] = more[i]
  <2>1. more \in Seq(ChatMessages)  BY <1>4
  <2> QED  BY <1>1, <2>1, BothParts
<1> HIDE DEF all
<1>6. n \in Nat /\ Len(all) = n + 2  BY <1>1, <1>4, <1>5
<1>7. all[n + 1] = s1 /\ all[n + 2] = s2
  <2>1. 1 \in 1..Len(more) /\ 2 \in 1..Len(more)  BY <1>4
  <2>2. all[n + 1] = more[1] /\ all[n + 2] = more[2]  BY <1>5, <2>1
  <2> QED  BY <1>4, <2>2
<1>8. \A i \in 1..n : msgs[i] = all[i]  BY <1>5
<1> HIDE DEF n
<1>9. PICK f : Takes(f, msgs, n) /\ TakenAll(msgs) = f[n]  BY <1>6, TakenRuns DEF n
<1>10. PICK g : Takes(g, all, n + 2) /\ TakenAll(all) = g[n + 2]
  <2>1. Len(all) \in Nat  BY <1>6
  <2> QED  BY <1>6, <2>1, TakenRuns
<1>11. f[n] \in Takings
  <2>1. n \in 0..n  BY <1>6
  <2> QED  BY <1>1, <1>9, <2>1, TakenTyped DEF n
<1>12. f[n] = g[n]
  <2>1. \A i \in 1..n : i \in 1..(n + 2)  BY <1>6
  <2>2. Takes(g, all, n)  BY <1>10, <2>1 DEF Takes
  <2> QED  BY <1>6, <1>8, <1>9, <2>2, TakesOnce
<1> DEFINE a0 == f[n]
           a1 == Take(a0, s1)
           a2 == Take(a1, s2)
<1>13. g[n + 2] = a2
  <2>1. n + 1 \in 1..(n + 2) /\ n + 2 \in 1..(n + 2) /\ (n + 1) - 1 = n /\ (n + 2) - 1 = n + 1  BY <1>6
  <2>2. g[n + 1] = Take(g[n], all[n + 1]) /\ g[n + 2] = Take(g[n + 1], all[n + 2])  BY <1>10, <2>1 DEF Takes
  <2> QED  BY <1>7, <1>12, <2>2
<1>14. a1 \in Takings /\ a1.pending = <<>> /\ Len(a1.msgs) = Len(Flush(a0).msgs) + 1
  BY <1>11, SpokenTurn DEF s1
<1> HIDE DEF a1
<1>15. a2 \in Takings /\ a2.pending = <<>> /\ Len(a2.msgs) = Len(Flush(a1).msgs) + 1
  BY <1>14, SpokenTurn DEF s2
<1> HIDE DEF a2
<1>16. Flush(a1).msgs = a1.msgs /\ Flush(a2).msgs = a2.msgs  BY <1>14, <1>15, FlushNothing
<1>17. Taken(b) = Flush(a0) /\ Taken(Longer(b)) = Flush(a2)  BY <1>2, <1>9, <1>10, <1>13 DEF Taken, msgs
<1>18. Flush(a0).msgs \in Seq(SentTurns) /\ Flush(a0).system \in BOOLEAN
  <2>1. Flush(a0) \in Takings  BY <1>11, FlushTyped
  <2> QED  BY <2>1 DEF Takings
<1>19. Len(Flush(a0).msgs) \in Nat  BY <1>18
<1>20. Len(Flush(a2).msgs) = (Len(Flush(a0).msgs) + 1) + 1  BY <1>14, <1>15, <1>16
<1>21. Len(Flush(a2).msgs) = Len(Flush(a0).msgs) + 2  BY <1>19, <1>20
<1> QED  BY <1>17, <1>18, <1>21

\* Four things are at most four.
LEMMA AtMostFour ==
    ASSUME NEW a, NEW b, NEW c, NEW d, NEW S \in SUBSET {a, b, c, d}
    PROVE  Cardinality(S) <= 4
<1> DEFINE A == {a}
           B == A \cup {b}
           C == B \cup {c}
           D == C \cup {d}
<1>1. IsFiniteSet(A) /\ Cardinality(A) = 1  BY FS_Singleton
<1> HIDE DEF A
<1>2. IsFiniteSet(B) /\ Cardinality(B) \in {1, 2}
  <2>1. IsFiniteSet(B) /\ Cardinality(B) = IF b \in A THEN Cardinality(A) ELSE Cardinality(A) + 1
    BY <1>1, FS_AddElement
  <2> QED  BY <1>1, <2>1
<1> HIDE DEF B
<1>3. IsFiniteSet(C) /\ Cardinality(C) \in 1..3
  <2>1. IsFiniteSet(C) /\ Cardinality(C) = IF c \in B THEN Cardinality(B) ELSE Cardinality(B) + 1
    BY <1>2, FS_AddElement
  <2> QED  BY <1>2, <2>1
<1> HIDE DEF C
<1>4. IsFiniteSet(D) /\ Cardinality(D) \in 1..4
  <2>1. IsFiniteSet(D) /\ Cardinality(D) = IF d \in C THEN Cardinality(C) ELSE Cardinality(C) + 1
    BY <1>3, FS_AddElement
  <2> QED  BY <1>3, <2>1
<1>5. S \subseteq D  BY DEF A, B, C
<1> HIDE DEF D
<1>6. IsFiniteSet(S) /\ Cardinality(S) <= Cardinality(D)  BY <1>4, <1>5, FS_Subset
<1>7. Cardinality(S) \in Nat  BY <1>6, FS_CardinalityType
<1> QED  BY <1>4, <1>6, <1>7

\* The breakpoints are four at most.
LEMMA FewBreakpoints ==
    ASSUME NEW tools, NEW taken
    PROVE  Cardinality(Breakpoints(tools, taken)) <= 4
<1> DEFINE n == Len(taken.msgs)
           a == <<"tools", Len(tools)>>
           b == <<"system", 1>>
           c == <<"message", n>>
           d == <<"message", n - 2>>
           rolling == {<<"message", i>> : i \in Rolling(n)}
<1>1. rolling \subseteq {c, d}  BY DEF Rolling
<1>2. Breakpoints(tools, taken) = (IF tools = <<>> THEN {} ELSE {a}) \cup (IF taken.system THEN {b} ELSE {})
                                    \cup (IF n < 3 THEN {} ELSE rolling)
  BY DEF Breakpoints
<1> HIDE DEF a, b, c, d, n, rolling
<1>3. Breakpoints(tools, taken) \subseteq {a, b, c, d}  BY <1>1, <1>2
<1>4. Breakpoints(tools, taken) \in SUBSET {a, b, c, d}  BY <1>3
<1> HIDE DEF Breakpoints
<1> QED  BY <1>4, AtMostFour

\* The next request of a conversation finds this one's last breakpoint.
LEMMA NextTurnFinds ==
    ASSUME NEW b \in ChatRequests, b.long, ~CallerMarks(b)
    PROVE  LET now == ToAnthropic(b)
               next == ToAnthropic(Longer(b))
           IN  /\ Cardinality(now.marks) <= 4
               /\ Len(now.msgs) >= 3 => <<"message", Len(now.msgs)>> \in now.marks \cap next.marks
<1> DEFINE now == ToAnthropic(b)
           next == ToAnthropic(Longer(b))
           sent(x) == IF x.none THEN <<>> ELSE x.tools
           k == Len(Taken(b).msgs)
           l == Len(Taken(Longer(b)).msgs)
<1>1. now.msgs = Taken(b).msgs /\ now.marks = Breakpoints(sent(b), Taken(b))  BY DEF ToAnthropic
<1>2. ~CallerMarks(Longer(b)) /\ Longer(b).long  BY LongerUnmarked, LongerIs
<1>3. next.marks = Breakpoints(sent(Longer(b)), Taken(Longer(b)))  BY <1>2 DEF ToAnthropic
<1>4. k \in Nat /\ l = k + 2
  <2>1. Taken(b).msgs \in Seq(SentTurns) /\ l = k + 2  BY LongerTaken
  <2>2. k \in Nat  BY <2>1
  <2> QED  BY <2>1, <2>2
<1>5. Cardinality(now.marks) <= 4  BY <1>1, FewBreakpoints
<1> HIDE DEF sent, now, next
<1>6. k >= 3 => <<"message", k>> \in Breakpoints(sent(b), Taken(b))
  <2>1. k \in Rolling(k)  BY DEF Rolling
  <2>2. k >= 3 => ~(k < 3)  BY <1>4
  <2> QED  BY <2>1, <2>2 DEF Breakpoints
<1>7. k >= 3 => <<"message", k>> \in Breakpoints(sent(Longer(b)), Taken(Longer(b)))
  <2>1. k \in Rolling(l)
    <3>1. l - 2 = k  BY <1>4
    <3> QED  BY <3>1 DEF Rolling
  <2>2. k >= 3 => ~(l < 3)  BY <1>4
  <2> QED  BY <2>1, <2>2 DEF Breakpoints
<1>8. Len(now.msgs) = k  BY <1>1
<1> HIDE DEF k, l
<1>9. Len(now.msgs) >= 3 => <<"message", Len(now.msgs)>> \in now.marks \cap next.marks
  BY <1>1, <1>3, <1>6, <1>7, <1>8
<1> QED  BY <1>5, <1>9 DEF now, next

(* The theorem. *)
\* What the properties of a request say in a state follows from what the request is.
LEMMA RequestSays ==
    ASSUME StreamIInv
    PROVE  ResultsTogether /\ NextTurnHits
<1>1. body \in ChatRequests
  <2>1. [body |-> body, answer |-> answer] \in Exchanges  BY DEF StreamIInv, StreamKept
  <2>2. [body |-> body, answer |-> answer] \in [body : ChatRequests, answer : ChatReplies]
    BY <2>1, TranslateAssumption
  <2> QED  BY <2>2
<1>2. ResultsTogether  BY <1>1, LegalTogether DEF ResultsTogether
<1>3. NextTurnHits
  <2>1. CASE body.long /\ ~CallerMarks(body)  BY <1>1, <2>1, NextTurnFinds DEF NextTurnHits
  <2>2. CASE ~(body.long /\ ~CallerMarks(body))  BY <2>2 DEF NextTurnHits
  <2> QED  BY <2>1, <2>2
<1> QED  BY <1>2, <1>3

\* The caller has what was said so far in every state of every stream, by createSseTranslator of translate.js.
THEOREM TranslateHolds == TranslateSpec => []StreamIInv
<1>1. TranslateInit => StreamIInv  BY StreamBegins DEF TranslateInit
<1>2. StreamIInv /\ [TranslateNext]_translateVars => StreamIInv'  BY StreamHolds
<1> QED  BY <1>1, <1>2, PTL DEF TranslateSpec

\* A stream says what the answer in one piece says, the results of tools stay together and the next request
\* finds its breakpoint (translate.js), for any requests and answers.
THEOREM TranslateSound == TranslateSpec => []TranslateInv
<1>1. StreamIInv => TranslateInv  BY StreamSays, RequestSays DEF TranslateInv
<1> QED  BY <1>1, TranslateHolds, PTL
=============================================================================
