----------------------------- MODULE GateProofs -----------------------------
(***************************************************************************)
(* Proofs about Gate for any number of requests, slots and seats: the      *)
(* inductive invariant, the safety properties that follow from it, the     *)
(* order of grants, and the refinement of Admission.                       *)
(***************************************************************************)
EXTENDS Gate, FiniteSetTheorems, SequenceTheorems, TLAPS

USE GateAssumption

-----------------------------------------------------------------------------
(* Cardinalities, in the form the proofs below need them. *)

\* Adding an element to a finite set.
LEMMA CardAdd ==
    ASSUME NEW S, NEW x, IsFiniteSet(S)
    PROVE  /\ IsFiniteSet(S \cup {x})
           /\ Cardinality(S) \in Nat
           /\ Cardinality(S \cup {x}) \in Nat
           /\ Cardinality(S \cup {x}) <= Cardinality(S) + 1
           /\ x \notin S => Cardinality(S \cup {x}) = Cardinality(S) + 1
<1>1. IsFiniteSet(S \cup {x}) /\ Cardinality(S \cup {x}) = IF x \in S THEN Cardinality(S) ELSE Cardinality(S)+1
  BY FS_AddElement
<1>2. Cardinality(S) \in Nat
  BY FS_CardinalityType
<1> QED
  BY <1>1, <1>2

\* Taking an element out of a finite set.
LEMMA CardRemove ==
    ASSUME NEW S, NEW x \in S, IsFiniteSet(S)
    PROVE  /\ IsFiniteSet(S \ {x})
           /\ Cardinality(S) \in Nat
           /\ Cardinality(S \ {x}) \in Nat
           /\ Cardinality(S \ {x}) = Cardinality(S) - 1
<1>1. IsFiniteSet(S \ {x}) /\ Cardinality(S \ {x}) = Cardinality(S) - 1
  BY FS_RemoveElement
<1> QED
  BY <1>1, FS_CardinalityType

\* The union of two disjoint finite sets.
LEMMA CardDisjointUnion ==
    ASSUME NEW S, NEW T, IsFiniteSet(S), IsFiniteSet(T), S \cap T = {}
    PROVE  /\ IsFiniteSet(S \cup T)
           /\ Cardinality(S \cup T) = Cardinality(S) + Cardinality(T)
<1>1. /\ IsFiniteSet(S \cup T)
      /\ Cardinality(S \cup T) = Cardinality(S) + Cardinality(T) - Cardinality(S \cap T)
  BY FS_Union
<1>2. Cardinality(S \cap T) = 0
  BY FS_EmptySet
<1>3. Cardinality(S) \in Nat /\ Cardinality(T) \in Nat
  BY FS_CardinalityType
<1> QED
  BY <1>1, <1>2, <1>3

-----------------------------------------------------------------------------
(* Facts about pump. *)

\* The waiters among the first n of the queue are finitely many.
LEMMA UnsettledFinite ==
    ASSUME TypeOK, NEW n \in 0..Len(queue)
    PROVE  IsFiniteSet(Unsettled(n))
<1> DEFINE S == {queue[i] : i \in 1..n}
<1> DEFINE f == [i \in 1..n |-> queue[i]]
<1>1. f \in Surjection(1..n, S)
  BY DEF Surjection
<1>2. IsFiniteSet(1..n)
  BY FS_Interval
<1>3. IsFiniteSet(S)
  BY <1>1, <1>2, FS_Surjection
<1> QED
  BY <1>3, FS_Intersection DEF Unsettled

\* One more shift grants at most one more slot.
LEMMA UnsettledStep ==
    ASSUME TypeOK, NEW n \in 1..Len(queue)
    PROVE  /\ Cardinality(Unsettled(n)) \in Nat
           /\ Cardinality(Unsettled(n-1)) \in Nat
           /\ Cardinality(Unsettled(n)) <= Cardinality(Unsettled(n-1)) + 1
<1>1. Len(queue) \in Nat /\ n-1 \in 0..Len(queue) /\ n \in 0..Len(queue)
  BY DEF TypeOK
<1>2. IsFiniteSet(Unsettled(n-1)) /\ IsFiniteSet(Unsettled(n))
  BY <1>1, UnsettledFinite
<1>3. Unsettled(n) \subseteq Unsettled(n-1) \cup {queue[n]}
  BY <1>1 DEF Unsettled
<1>4. /\ IsFiniteSet(Unsettled(n-1) \cup {queue[n]})
      /\ Cardinality(Unsettled(n-1) \cup {queue[n]}) <= Cardinality(Unsettled(n-1)) + 1
  BY <1>2, CardAdd
<1>5. Cardinality(Unsettled(n)) <= Cardinality(Unsettled(n-1) \cup {queue[n]})
  BY <1>3, <1>4, FS_Subset
<1> QED
  BY <1>2, <1>4, <1>5, FS_CardinalityType

\* What a release changes: the slot of r is given back, waiters and nobody else
\* are granted one, and the slot accounting, the bound, the work conservation and
\* the queue of the pending callers are as before.
LEMMA ReleaseEffect ==
    ASSUME IInv, NEW r \in Requests, verdict[r] = "ok", Release(r)
    PROVE  /\ active' \in Nat /\ active' <= Limit
           /\ queue' \in Seq(Requests)
           /\ verdict' \in [Requests -> Verdicts]
           /\ released' = released \cup {r}
           /\ IsFiniteSet(Held') /\ SlotAccounting'
           /\ NoIdleSlot'
           /\ WaitersQueued'
           /\ \A s \in Requests : \/ verdict'[s] = verdict[s]
                                  \/ verdict[s] = "pending" /\ verdict'[s] = "ok"
<1>1. CASE r \in released
  <2>1. UNCHANGED <<active, queue, verdict, released>>
    BY <1>1 DEF Release
  <2> QED
    BY <1>1, <2>1 DEF IInv, TypeOK, SlotAccounting, NoIdleSlot, WaitersQueued, Held, Pending
<1>2. CASE r \notin released
  <2>1. released' = released \cup {r} /\ Pump(active - 1)
    BY <1>2 DEF Release
  <2>2. PICK n \in 0..Len(queue) :
            /\ PumpStops(active - 1, n)
            /\ \A m \in 0..(n-1) : ~PumpStops(active - 1, m)
            /\ queue' = SubSeq(queue, n+1, Len(queue))
            /\ active' = active - 1 + Cardinality(Unsettled(n))
            /\ verdict' = [s \in Requests |-> IF s \in Unsettled(n) THEN "ok" ELSE verdict[s]]
    BY <2>1 DEF Pump
  <2> DEFINE U == Unsettled(n)
  <2>3. IsFiniteSet(U) /\ Cardinality(U) \in Nat
    BY UnsettledFinite, FS_CardinalityType DEF IInv
  <2>4. Len(queue) \in Nat /\ queue \in [1..Len(queue) -> Requests]
    BY DEF IInv, TypeOK
  <2>5. r \in Held
    BY <1>2 DEF Held
  <2>6. /\ IsFiniteSet(Held \ {r})
        /\ Cardinality(Held \ {r}) = active - 1
        /\ active - 1 \in Nat
    BY <2>5, CardRemove DEF IInv, SlotAccounting
  <2>7. U \subseteq Pending
    BY DEF Unsettled
  <2>8. U \cap released = {} /\ U \cap Held = {}
    BY <2>7 DEF IInv, Coherent, Pending, Held
  <2>9. Held' = (Held \ {r}) \cup U
    BY <2>1, <2>2, <2>7, <2>8 DEF Held, Pending
  <2>10. (Held \ {r}) \cap U = {}
    BY <2>8
  <2>11. /\ IsFiniteSet(Held')
         /\ Cardinality(Held') = active - 1 + Cardinality(U)
    BY <2>3, <2>6, <2>9, <2>10, CardDisjointUnion
  <2>12. active' \in Nat /\ SlotAccounting'
    BY <2>2, <2>3, <2>6, <2>11 DEF SlotAccounting
  <2>13. active' <= Limit
    <3>1. CASE n = 0
      <4>1. U = {}
        BY <3>1 DEF Unsettled
      <4> QED
        BY <4>1, <2>2, <2>6, FS_EmptySet DEF IInv, TypeOK
    <3>2. CASE n # 0
      <4>1. n \in 1..Len(queue) /\ n-1 \in 0..(n-1)
        BY <3>2, <2>4
      <4>2. ~(active - 1 + Cardinality(Unsettled(n-1)) >= Limit)
        BY <4>1, <2>2 DEF PumpStops
      <4> QED
        BY <4>1, <4>2, <2>2, <2>6, UnsettledStep DEF IInv
    <3> QED
      BY <3>1, <3>2
  <2>14. queue' \in Seq(Requests) /\ Len(queue') = Len(queue) - n
    <3>1. \A i \in (n+1)..Len(queue) : queue[i] \in Requests
      BY <2>4
    <3>2. /\ SubSeq(queue, n+1, Len(queue)) \in Seq(Requests)
          /\ Len(SubSeq(queue, n+1, Len(queue))) =
                IF n+1 <= Len(queue) THEN Len(queue) - (n+1) + 1 ELSE 0
      BY <3>1, <2>4, SubSeqProperties
    <3>3. n \in Nat /\ n <= Len(queue) /\ Len(queue) \in Nat
      BY <2>4
    <3> QED
      BY <3>2, <3>3, <2>2
  <2>15. NoIdleSlot'
    <3>1. SUFFICES ASSUME queue' # <<>> PROVE active' = Limit
      BY DEF NoIdleSlot
    <3>2. n # Len(queue)
      <4>1. Len(queue') # 0
        BY <3>1, <2>14, EmptySeq
      <4> QED
        BY <4>1, <2>14, <2>4
    <3>3. active - 1 + Cardinality(U) >= Limit
      BY <3>2, <2>2 DEF PumpStops
    <3> QED
      BY <3>3, <2>2, <2>12, <2>13
  <2>16. verdict' \in [Requests -> Verdicts]
    BY <2>2 DEF IInv, TypeOK, Verdicts
  <2>17. WaitersQueued'
    <3>1. SUFFICES ASSUME NEW s \in Requests, verdict'[s] = "pending"
                   PROVE  \E j \in DOMAIN queue' : queue'[j] = s
      BY DEF WaitersQueued, Pending
    <3>2. s \in Pending /\ s \notin U
      BY <3>1, <2>2 DEF Pending
    <3>3. PICK i \in DOMAIN queue : queue[i] = s
      BY <3>2 DEF IInv, WaitersQueued
    <3>4. i \in 1..Len(queue) /\ i > n
      BY <3>2, <3>3, <2>4 DEF Unsettled
    <3>5. i - n \in 1..Len(queue')
      BY <3>4, <2>14, <2>4
    <3>6. queue'[i - n] = queue[i]
      BY <3>4, <3>5, <2>2, <2>4
    <3> QED
      BY <3>3, <3>5, <3>6, <2>14
  <2>18. \A s \in Requests : \/ verdict'[s] = verdict[s]
                             \/ verdict[s] = "pending" /\ verdict'[s] = "ok"
    BY <2>2, <2>7 DEF Pending
  <2> QED
    BY <2>1, <2>11, <2>12, <2>13, <2>14, <2>15, <2>16, <2>17, <2>18
<1> QED
  BY <1>1, <1>2

-----------------------------------------------------------------------------
(* The inductive invariant. *)

\* A fresh gate: no slot taken, nobody waits.
LEMMA InitInv == Init => IInv
<1> SUFFICES ASSUME Init PROVE IInv
  OBVIOUS
<1>1. Held = {}
  BY DEF Init, Held
<1>2. IsFiniteSet(Held) /\ Cardinality(Held) = 0
  BY <1>1, FS_EmptySet
<1>3. <<>> \in Seq(Requests)
  BY EmptySeq
<1> QED
  BY <1>1, <1>2, <1>3
  DEF Init, IInv, TypeOK, SlotAccounting, NoIdleSlot, WaitersQueued, Coherent, NoLeakOnClose,
      Pending, Verdicts, Phases

\* A step that leaves slots, queue and verdicts alone keeps what is said of them.
LEMMA QuietStep ==
    ASSUME IInv, UNCHANGED <<active, queue, verdict, released>>
    PROVE  /\ active' \in Nat /\ active' <= Limit
           /\ queue' \in Seq(Requests)
           /\ verdict' \in [Requests -> Verdicts]
           /\ released' \in SUBSET Requests
           /\ IsFiniteSet(Held') /\ SlotAccounting'
           /\ NoIdleSlot'
           /\ WaitersQueued'
BY DEF IInv, TypeOK, SlotAccounting, NoIdleSlot, WaitersQueued, Held, Pending

\* Settling a waiter, or giving a verdict other than a slot, moves no slot.
LEMMA SettleStep ==
    ASSUME IInv, NEW r \in Requests, NEW v \in Verdicts \ {"ok", "pending"},
           verdict[r] # "ok", Settle(r, v), UNCHANGED <<active, queue, released>>
    PROVE  /\ active' \in Nat /\ active' <= Limit
           /\ queue' \in Seq(Requests)
           /\ verdict' \in [Requests -> Verdicts]
           /\ released' \in SUBSET Requests
           /\ IsFiniteSet(Held') /\ SlotAccounting'
           /\ NoIdleSlot'
           /\ WaitersQueued'
<1>1. Held' = Held
  BY DEF IInv, TypeOK, Held, Settle
<1>2. Pending' \subseteq Pending
  BY DEF IInv, TypeOK, Pending, Settle
<1> QED
  BY <1>1, <1>2 DEF IInv, TypeOK, SlotAccounting, NoIdleSlot, WaitersQueued, Settle

\* run() up to `await admit` (gate.js:107-130, 134-145) keeps the invariant.
LEMMA EnterInv ==
    ASSUME IInv, NEW r \in Requests, Enter(r)
    PROVE  IInv'
<1>1. CASE Bypass(r)
  BY <1>1, QuietStep
  DEF Bypass, To, IInv, TypeOK, Coherent, NoLeakOnClose, Held, Phases, Gated
<1>2. CASE TakeSlot(r)
  <2>1. verdict[r] = "none" /\ r \notin released /\ r \notin Held
    BY <1>2 DEF TakeSlot, IInv, Coherent, Held
  <2>2. Held' = Held \cup {r}
    BY <1>2, <2>1 DEF TakeSlot, Settle, Held, IInv, TypeOK
  <2>3. IsFiniteSet(Held') /\ Cardinality(Held') = active + 1
    BY <2>1, <2>2, CardAdd DEF IInv, SlotAccounting
  <2>4. queue = <<>>
    BY <1>2 DEF TakeSlot, IInv, NoIdleSlot, TypeOK
  <2>5. Pending' = Pending
    BY <1>2, <2>1 DEF TakeSlot, Settle, Pending, IInv, TypeOK
  <2>6. TypeOK' /\ active' <= Limit
    BY <1>2 DEF TakeSlot, Settle, To, IInv, TypeOK, Verdicts, Phases
  <2>7. Coherent' /\ NoLeakOnClose'
    BY <1>2, <2>1 DEF TakeSlot, Settle, To, IInv, TypeOK, Coherent, NoLeakOnClose, Held, Gated
  <2> QED
    BY <1>2, <2>3, <2>4, <2>5, <2>6, <2>7
    DEF TakeSlot, IInv, SlotAccounting, NoIdleSlot, WaitersQueued
<1>3. CASE Refuse(r)
  <2>1. verdict[r] = "none" /\ r \notin released
    BY <1>3 DEF Refuse, IInv, Coherent
  <2>2. "full" \in Verdicts \ {"ok", "pending"}
    BY DEF Verdicts
  <2>3. Coherent' /\ NoLeakOnClose'
    BY <1>3, <2>1 DEF Refuse, Settle, To, IInv, TypeOK, Coherent, NoLeakOnClose, Held, Gated
  <2> QED
    BY <1>3, <2>1, <2>2, <2>3, SettleStep DEF Refuse, To, IInv, TypeOK, Phases
<1>4. CASE Enqueue(r)
  <2>1. verdict[r] = "none" /\ r \notin released
    BY <1>4 DEF Enqueue, IInv, Coherent
  <2>2. Held' = Held /\ Pending' = Pending \cup {r}
    BY <1>4, <2>1 DEF Enqueue, Settle, Held, Pending, IInv, TypeOK
  <2>3. /\ queue' \in Seq(Requests) /\ Len(queue') = Len(queue) + 1
        /\ queue'[Len(queue) + 1] = r
        /\ \A i \in 1..Len(queue) : queue'[i] = queue[i]
    BY <1>4, AppendProperties DEF Enqueue, IInv, TypeOK
  <2>4. WaitersQueued'
    <3>1. DOMAIN queue = 1..Len(queue) /\ DOMAIN queue' = 1..(Len(queue) + 1) /\ Len(queue) \in Nat
      BY <2>3 DEF IInv, TypeOK
    <3>2. \A s \in Pending : \E i \in DOMAIN queue' : queue'[i] = s
      BY <2>3, <3>1 DEF IInv, WaitersQueued
    <3> QED
      BY <2>2, <2>3, <3>1, <3>2 DEF WaitersQueued
  <2>5. active = Limit
    BY <1>4 DEF Enqueue, IInv, TypeOK
  <2>6. TypeOK'
    BY <1>4, <2>3 DEF Enqueue, Settle, To, IInv, TypeOK, Verdicts, Phases
  <2>7. Coherent' /\ NoLeakOnClose'
    BY <1>4, <2>1 DEF Enqueue, Settle, To, IInv, TypeOK, Coherent, NoLeakOnClose, Held, Gated
  <2> QED
    BY <1>4, <2>2, <2>4, <2>5, <2>6, <2>7 DEF Enqueue, IInv, SlotAccounting, NoIdleSlot
<1> QED
  BY <1>1, <1>2, <1>3, <1>4 DEF Enter

\* A release keeps the invariant, whatever the call that released does next.
LEMMA ReleaseInv ==
    ASSUME IInv, NEW r \in Requests, verdict[r] = "ok", Release(r),
           phase' \in [Requests -> Phases],
           sock' \in [Requests -> {"open", "ended", "closed"}],
           \A s \in Requests \ {r} : phase'[s] = phase[s] /\ sock'[s] = sock[s],
           \/ phase'[r] = "over"
           \/ phase'[r] = phase[r] /\ phase[r] # "admitting" /\ sock'[r] = "closed"
    PROVE  IInv'
<1>1. /\ active' \in Nat /\ active' <= Limit
      /\ queue' \in Seq(Requests)
      /\ verdict' \in [Requests -> Verdicts]
      /\ released' = released \cup {r}
      /\ IsFiniteSet(Held') /\ SlotAccounting'
      /\ NoIdleSlot'
      /\ WaitersQueued'
      /\ \A s \in Requests : \/ verdict'[s] = verdict[s]
                             \/ verdict[s] = "pending" /\ verdict'[s] = "ok"
  BY ReleaseEffect
<1>2. TypeOK'
  BY <1>1 DEF IInv, TypeOK
<1>3. Coherent'
  <2>1. SUFFICES ASSUME NEW s \in Requests
                 PROVE  /\ phase'[s] = "new" => verdict'[s] = "none"
                        /\ verdict'[s] = "pending" => phase'[s] = "admitting"
                        /\ s \in released' => verdict'[s] = "ok"
                        /\ phase'[s] = "admitting" => s \notin released'
                        /\ phase'[s] \in {"working", "piping"} =>
                              /\ Gated(s) => verdict'[s] = "ok"
                              /\ s \in released' => sock'[s] = "closed"
    BY DEF Coherent, Gated
  <2>2. CASE s = r
    BY <1>1, <2>2 DEF IInv, Coherent
  <2>3. CASE s # r
    BY <1>1, <2>3 DEF IInv, Coherent
  <2> QED
    BY <2>2, <2>3
<1>4. NoLeakOnClose'
  <2>1. SUFFICES ASSUME NEW s \in Requests, verdict'[s] = "ok", s \notin released', sock'[s] = "closed"
                 PROVE  phase'[s] = "admitting"
    BY DEF NoLeakOnClose, Held
  <2>2. s # r /\ s \notin released /\ phase'[s] = phase[s] /\ sock[s] = "closed"
    BY <1>1, <2>1
  <2> QED
    BY <1>1, <2>1, <2>2 DEF IInv, Coherent, NoLeakOnClose, Held
<1> QED
  BY <1>1, <1>2, <1>3, <1>4 DEF IInv

\* The WAIT_MS timer (gate.js:123) keeps the invariant.
LEMMA ExpireInv ==
    ASSUME IInv, NEW r \in Requests, Expire(r)
    PROVE  IInv'
<1>1. "timeout" \in Verdicts \ {"ok", "pending"}
  BY DEF Verdicts
<1>2. Coherent' /\ NoLeakOnClose'
  BY DEF Expire, Settle, IInv, TypeOK, Coherent, NoLeakOnClose, Held, Gated
<1> QED
  BY <1>1, <1>2, SettleStep DEF Expire, IInv, TypeOK

\* The close event keeps the invariant, whichever listener it finds.
LEMMA OnCloseInv ==
    ASSUME IInv, NEW r \in Requests, OnClose(r)
    PROVE  IInv'
<1>1. /\ sock' \in [Requests -> {"open", "ended", "closed"}]
      /\ phase' \in [Requests -> Phases]
      /\ \A s \in Requests \ {r} : phase'[s] = phase[s] /\ sock'[s] = sock[s]
      /\ phase'[r] = phase[r] /\ sock'[r] = "closed"
  BY DEF OnClose, IInv, TypeOK
<1>2. CASE verdict[r] = "pending" /\ Settle(r, "gone") /\ UNCHANGED <<active, queue, released>>
  <2>1. "gone" \in Verdicts \ {"ok", "pending"}
    BY DEF Verdicts
  <2>2. Coherent' /\ NoLeakOnClose'
    BY <1>1, <1>2 DEF Settle, IInv, TypeOK, Coherent, NoLeakOnClose, Held, Gated
  <2> QED
    BY <1>1, <1>2, <2>1, <2>2, SettleStep DEF IInv, TypeOK
<1>3. CASE verdict[r] = "ok" /\ phase[r] # "admitting" /\ Release(r)
  BY <1>1, <1>3, ReleaseInv
<1>4. CASE /\ verdict[r] # "pending"
           /\ verdict[r] = "ok" => phase[r] = "admitting"
           /\ UNCHANGED <<active, queue, verdict, released>>
  <2>1. Coherent' /\ NoLeakOnClose'
    BY <1>1, <1>4 DEF IInv, TypeOK, Coherent, NoLeakOnClose, Held, Gated
  <2> QED
    BY <1>1, <1>4, <2>1, QuietStep DEF IInv, TypeOK
<1> QED
  BY <1>2, <1>3, <1>4 DEF OnClose

\* The continuation of `await admit` (gate.js:146-170) keeps the invariant.
LEMMA ResumeInv ==
    ASSUME IInv, NEW r \in Requests, Resume(r)
    PROVE  IInv'
<1>1. CASE ResumeGone(r)
  <2>1. Coherent' /\ NoLeakOnClose' /\ phase' \in [Requests -> Phases]
    BY <1>1 DEF ResumeGone, To, IInv, TypeOK, Coherent, NoLeakOnClose, Held, Gated, Phases
  <2> QED
    BY <1>1, <2>1, QuietStep DEF ResumeGone, IInv, TypeOK
<1>2. CASE ResumeRefused(r)
  <2>1. Coherent' /\ NoLeakOnClose' /\ phase' \in [Requests -> Phases]
    BY <1>2 DEF ResumeRefused, To, End, IInv, TypeOK, Coherent, NoLeakOnClose, Held, Gated, Phases
  <2>2. sock' \in [Requests -> {"open", "ended", "closed"}]
    BY <1>2 DEF ResumeRefused, End, IInv, TypeOK
  <2> QED
    BY <1>2, <2>1, <2>2, QuietStep DEF ResumeRefused, IInv, TypeOK
<1>3. CASE ResumeDead(r)
  BY <1>3, ReleaseInv DEF ResumeDead, To, IInv, TypeOK, Phases
<1>4. CASE ResumeWork(r)
  <2>1. Coherent' /\ NoLeakOnClose' /\ phase' \in [Requests -> Phases]
    BY <1>4 DEF ResumeWork, To, IInv, TypeOK, Coherent, NoLeakOnClose, Held, Gated, Phases
  <2> QED
    BY <1>4, <2>1, QuietStep DEF ResumeWork, IInv, TypeOK
<1> QED
  BY <1>1, <1>2, <1>3, <1>4 DEF Resume

\* work() and the body it leaves behind keep the invariant.
LEMMA WorkInv ==
    ASSUME IInv, NEW r \in Requests, Work(r) \/ Body(r)
    PROVE  IInv'
<1>1. CASE Answer(r) \/ BodyEnds(r)
  <2>1. /\ phase[r] \in {"working", "piping"} /\ To(r, "over") /\ End(r)
        /\ UNCHANGED <<active, queue, verdict, released>>
    BY <1>1 DEF Answer, BodyEnds
  <2>2. Coherent' /\ NoLeakOnClose' /\ phase' \in [Requests -> Phases]
    BY <2>1 DEF To, End, IInv, TypeOK, Coherent, NoLeakOnClose, Held, Gated, Phases
  <2>3. sock' \in [Requests -> {"open", "ended", "closed"}]
    BY <2>1 DEF End, IInv, TypeOK
  <2> QED
    BY <2>1, <2>2, <2>3, QuietStep DEF IInv, TypeOK
<1>2. CASE StartPipe(r) \/ BodyBreaks(r)
  <2>1. /\ phase[r] \in {"working", "piping"}
        /\ To(r, "piping") \/ To(r, "over")
        /\ UNCHANGED <<active, queue, verdict, released, sock>>
    BY <1>2 DEF StartPipe, BodyBreaks
  <2>2. Coherent' /\ NoLeakOnClose' /\ phase' \in [Requests -> Phases]
    BY <2>1 DEF To, IInv, TypeOK, Coherent, NoLeakOnClose, Held, Gated, Phases
  <2> QED
    BY <2>1, <2>2, QuietStep DEF IInv, TypeOK
<1>3. CASE Throw(r)
  <2>1. /\ phase' \in [Requests -> Phases] /\ phase'[r] = "over" /\ sock' = sock
        /\ \A s \in Requests \ {r} : phase'[s] = phase[s]
    BY <1>3 DEF Throw, To, IInv, TypeOK, Phases
  <2>2. CASE verdict[r] = "ok"
    BY <1>3, <2>1, <2>2, ReleaseInv DEF Throw, IInv, TypeOK
  <2>3. CASE verdict[r] # "ok"
    <3>1. UNCHANGED <<active, queue, verdict, released>>
      BY <1>3, <2>3 DEF Throw
    <3>2. Coherent' /\ NoLeakOnClose'
      BY <1>3, <2>1, <2>3, <3>1 DEF Throw, To, IInv, TypeOK, Coherent, NoLeakOnClose, Held, Gated
    <3> QED
      BY <2>1, <3>1, <3>2, QuietStep DEF IInv, TypeOK
  <2> QED
    BY <2>2, <2>3
<1> QED
  BY <1>1, <1>2, <1>3 DEF Work, Body

\* A name that is used again takes nothing along of its last call.
LEMMA RecycleInv ==
    ASSUME IInv, NEW r \in Requests, Recycle(r)
    PROVE  IInv'
<1>1. r \notin Held
  BY DEF Recycle, IInv, NoLeakOnClose
<1>2. Held' = Held
  BY <1>1 DEF Recycle, Settle, Held, IInv, TypeOK
<1>3. Pending' \subseteq Pending
  BY DEF Recycle, Settle, Pending, IInv, TypeOK
<1>4. TypeOK'
  BY DEF Recycle, Settle, To, IInv, TypeOK, Verdicts, Phases
<1>5. Coherent' /\ NoLeakOnClose'
  BY <1>1, <1>2 DEF Recycle, Settle, To, IInv, TypeOK, Coherent, NoLeakOnClose, Held, Gated
<1> QED
  BY <1>2, <1>3, <1>4, <1>5 DEF Recycle, IInv, SlotAccounting, NoIdleSlot, WaitersQueued

\* The invariant is inductive: one case per action of the gate.
LEMMA StepInv == IInv /\ [Next]_vars => IInv'
<1> SUFFICES ASSUME IInv, [Next]_vars PROVE IInv'
  OBVIOUS
<1>1. CASE UNCHANGED vars
  BY <1>1, QuietStep DEF vars, IInv, TypeOK, Coherent, NoLeakOnClose, Held, Gated
<1>2. CASE Next
  <2>1. PICK r \in Requests : \/ Enter(r) \/ Expire(r) \/ HangUp(r) \/ Flushed(r)
                              \/ Resume(r) \/ Work(r) \/ Body(r) \/ Recycle(r)
    BY <1>2 DEF Next
  <2> QED
    BY <2>1, EnterInv, ExpireInv, OnCloseInv, ResumeInv, WorkInv, RecycleInv DEF HangUp, Flushed
<1> QED
  BY <1>1, <1>2

\* IInv is an invariant of the gate, for any number of requests, slots and seats.
THEOREM GateInvariant == Spec => []IInv
BY InitInv, StepInv, PTL DEF Spec

\* No slot is ever given back twice or forgotten (gate.js:162-172).
THEOREM GateSlotAccounting == Spec => []SlotAccounting
<1>1. IInv => SlotAccounting
  BY DEF IInv
<1> QED
  BY <1>1, GateInvariant, PTL

\* No slot stays idle while somebody is in the queue (gate.js:97-104).
THEOREM GateNoIdleSlot == Spec => []NoIdleSlot
<1>1. IInv => NoIdleSlot
  BY DEF IInv
<1> QED
  BY <1>1, GateInvariant, PTL

\* A closed response keeps no slot (gate.js:169-170).
THEOREM GateNoLeakOnClose == Spec => []NoLeakOnClose
<1>1. IInv => NoLeakOnClose
  BY DEF IInv
<1> QED
  BY <1>1, GateInvariant, PTL

\* Never more than Limit calls at work for a caller that is still there (gate.js:132).
THEOREM GateConnectedWorkBound == Spec => []ConnectedWorkBound
<1>1. IInv => ConnectedWorkBound
  <2> SUFFICES ASSUME IInv PROVE ConnectedWorkBound
    OBVIOUS
  <2> DEFINE W == {r \in Requests : /\ Gated(r) /\ phase[r] \in {"working", "piping"}
                                    /\ sock[r] # "closed"}
  <2>1. W \subseteq Held
    BY DEF IInv, Coherent, Held
  <2>2. Cardinality(W) <= Cardinality(Held) /\ Cardinality(W) \in Nat
    BY <2>1, FS_Subset, FS_CardinalityType DEF IInv
  <2> QED
    BY <2>2 DEF IInv, SlotAccounting, TypeOK, ConnectedWorkBound
<1> QED
  BY <1>1, GateInvariant, PTL

-----------------------------------------------------------------------------
(* The order of grants. *)

\* pump grants in the order of the queue (gate.js:97-104).
LEMMA ReleaseInOrder ==
    ASSUME IInv, NEW r \in Requests, verdict[r] = "ok", Release(r)
    PROVE  GrantsInOrder
<1> SUFFICES ASSUME NEW s \in Requests, verdict[s] # "ok", verdict'[s] = "ok"
             PROVE  /\ verdict[s] = "pending"
                    /\ \E j \in DOMAIN queue :
                          /\ queue[j] = s
                          /\ \A i \in 1..(j-1) : verdict'[queue[i]] # "pending"
  BY DEF GrantsInOrder
<1>1. r \notin released /\ Pump(active - 1)
  BY DEF Release
<1>2. PICK n \in 0..Len(queue) :
          verdict' = [t \in Requests |-> IF t \in Unsettled(n) THEN "ok" ELSE verdict[t]]
  BY <1>1 DEF Pump
<1>3. s \in Unsettled(n)
  BY <1>2
<1>4. PICK j \in 1..n : queue[j] = s
  BY <1>3 DEF Unsettled
<1>5. j \in DOMAIN queue /\ \A i \in 1..(j-1) : queue[i] \in Requests /\ i \in 1..n
  BY DEF IInv, TypeOK
<1>6. \A i \in 1..(j-1) : verdict'[queue[i]] # "pending"
  BY <1>2, <1>5 DEF Unsettled, Pending
<1> QED
  BY <1>3, <1>4, <1>5, <1>6 DEF Unsettled, Pending

\* Every step that grants a slot grants it in order.
LEMMA StepInOrder == IInv /\ [Next]_vars => [GrantsInOrder]_vars
<1> SUFFICES ASSUME IInv, Next PROVE GrantsInOrder
  BY DEF vars
<1>1. PICK r \in Requests : \/ Enter(r) \/ Expire(r) \/ HangUp(r) \/ Flushed(r)
                            \/ Resume(r) \/ Work(r) \/ Body(r) \/ Recycle(r)
  BY DEF Next
<1>2. CASE UNCHANGED verdict
  BY <1>2 DEF GrantsInOrder
<1>3. CASE \E v \in Verdicts \ {"ok"} : Settle(r, v)
  BY <1>3 DEF GrantsInOrder, Settle, IInv, TypeOK
<1>4. CASE TakeSlot(r)
  <2>1. queue = <<>>
    BY <1>4 DEF TakeSlot, IInv, NoIdleSlot, TypeOK
  <2>2. Pending = {}
    BY <2>1 DEF IInv, WaitersQueued
  <2> QED
    BY <1>4, <2>2 DEF TakeSlot, Settle, GrantsInOrder, Pending, IInv, TypeOK
<1>5. CASE verdict[r] = "ok" /\ Release(r)
  BY <1>5, ReleaseInOrder
<1> QED
  BY <1>1, <1>2, <1>3, <1>4, <1>5
  DEF Enter, Bypass, Refuse, Enqueue, Expire, HangUp, Flushed, OnClose, Resume, ResumeGone,
      ResumeRefused, ResumeDead, ResumeWork, Work, Answer, StartPipe, Throw, Body, BodyEnds,
      BodyBreaks, Recycle, Verdicts

\* pump shifts from the head, admit() pushes at the end, and nothing else touches the
\* queue (gate.js:99, 121).
LEMMA StepKeepsLine == IInv /\ [Next]_vars => [LineKept]_vars
<1> SUFFICES ASSUME IInv, Next PROVE LineKept
  BY DEF vars
<1>1. PICK r \in Requests : \/ Enter(r) \/ Expire(r) \/ HangUp(r) \/ Flushed(r)
                            \/ Resume(r) \/ Work(r) \/ Body(r) \/ Recycle(r)
  BY DEF Next
<1>2. CASE UNCHANGED queue
  BY <1>2 DEF LineKept
<1>3. CASE Enqueue(r)
  <2>1. verdict[r] = "none"
    BY <1>3 DEF Enqueue, IInv, Coherent
  <2> QED
    BY <1>3, <2>1 DEF Enqueue, Settle, LineKept, Pending, IInv, TypeOK
<1>4. CASE Release(r)
  BY <1>4 DEF Release, Pump, LineKept
<1> QED
  BY <1>1, <1>2, <1>3, <1>4
  DEF Enter, Bypass, TakeSlot, Refuse, Expire, HangUp, Flushed, OnClose, Resume, ResumeGone,
      ResumeRefused, ResumeDead, ResumeWork, Work, Answer, StartPipe, Throw, Body, BodyEnds,
      BodyBreaks, Recycle

\* Slots are granted first come, first served, whoever hangs up or times out.
THEOREM GateFirstComeFirstServed == Spec => FirstComeFirstServed
BY GateInvariant, StepInOrder, StepKeepsLine, PTL DEF Spec, FirstComeFirstServed

-----------------------------------------------------------------------------
(* The gate implements the abstract admission control. *)

\* The instance counts as we do.
LEMMA SameCardinality == \A S : Abstract!Cardinality(S) = Cardinality(S)
BY DEF Cardinality, Abstract!Cardinality

\* The holders and the waiters of the abstract state.
LEMMA StatusSets ==
    ASSUME IInv
    PROVE  Abstract!In("holding") = Held /\ Abstract!In("waiting") = Pending
BY DEF Abstract!In, Status, StatusOf, Held, Pending, IInv, TypeOK, Coherent

\* A release hands the slot to at most one waiter, and to one if there is one.
LEMMA ReleaseHandsOver ==
    ASSUME IInv, NEW r \in Requests, verdict[r] = "ok", r \notin released, Release(r)
    PROVE  \/ Pending = {} /\ UNCHANGED verdict
           \/ \E w \in Pending : verdict' = [verdict EXCEPT ![w] = "ok"]
<1>1. Pump(active - 1)
  BY DEF Release
<1>2. PICK n \in 0..Len(queue) :
          /\ PumpStops(active - 1, n)
          /\ active' = active - 1 + Cardinality(Unsettled(n))
          /\ verdict' = [t \in Requests |-> IF t \in Unsettled(n) THEN "ok" ELSE verdict[t]]
  BY <1>1 DEF Pump
<1>3. IsFiniteSet(Unsettled(n)) /\ Cardinality(Unsettled(n)) \in Nat
  BY UnsettledFinite, FS_CardinalityType DEF IInv
<1>4. active \in Nat /\ active' <= Limit
  BY ReleaseEffect DEF IInv, TypeOK
<1>5. CASE Pending = {}
  BY <1>2, <1>5 DEF Unsettled, IInv, TypeOK
<1>6. CASE Pending # {}
  <2>1. queue # <<>> /\ active = Limit
    BY <1>6 DEF IInv, WaitersQueued, NoIdleSlot
  <2>2. Cardinality(Unsettled(n)) <= 1
    BY <1>2, <1>3, <1>4, <2>1
  <2>3. CASE n = Len(queue)
    <3>1. Unsettled(n) = Pending
      BY <2>3 DEF Unsettled, IInv, WaitersQueued, TypeOK
    <3>2. Cardinality(Unsettled(n)) # 0
      BY <3>1, <1>6, <1>3, FS_EmptySet
    <3>3. Cardinality(Unsettled(n)) = 1
      BY <3>2, <2>2, <1>3
    <3>4. PICK w : Unsettled(n) = {w}
      BY <3>3, <1>3, FS_Singleton
    <3>5. w \in Pending
      BY <3>4 DEF Unsettled
    <3>6. verdict' = [verdict EXCEPT ![w] = "ok"]
      BY <1>2, <3>4 DEF IInv, TypeOK
    <3> QED
      BY <3>5, <3>6
  <2>4. CASE n # Len(queue)
    <3>1. active - 1 + Cardinality(Unsettled(n)) >= Limit
      BY <2>4, <1>2 DEF PumpStops
    <3>2. Cardinality(Unsettled(n)) = 1
      BY <3>1, <2>1, <2>2, <1>3, <1>4
    <3>3. PICK w : Unsettled(n) = {w}
      BY <3>2, <1>3, FS_Singleton
    <3>4. w \in Pending
      BY <3>3 DEF Unsettled
    <3>5. verdict' = [verdict EXCEPT ![w] = "ok"]
      BY <1>2, <3>3 DEF IInv, TypeOK
    <3> QED
      BY <3>4, <3>5
  <2> QED
    BY <2>3, <2>4
<1> QED
  BY <1>5, <1>6

\* A step that releases a slot is a Free, a HandOver, or nothing.
LEMMA ReleaseImplements ==
    ASSUME IInv, NEW r \in Requests, verdict[r] = "ok", Release(r)
    PROVE  Abstract!ANext \/ UNCHANGED Status
<1>1. CASE r \in released
  BY <1>1 DEF Release, Status, StatusOf, Held
<1>2. CASE r \notin released
  <2>1. Status[r] = "holding" /\ released' = released \cup {r}
    BY <1>2 DEF Status, StatusOf, Held, Release
  <2>2. CASE Pending = {} /\ UNCHANGED verdict
    <3>1. Status' = [Status EXCEPT ![r] = "served"]
      BY <2>1, <2>2 DEF Status, StatusOf, Held, IInv, TypeOK
    <3>2. Abstract!Free(r)
      BY <2>1, <2>2, <3>1, StatusSets DEF Abstract!Free
    <3> QED
      BY <3>2 DEF Abstract!ANext
  <2>3. CASE \E w \in Pending : verdict' = [verdict EXCEPT ![w] = "ok"]
    <3>1. PICK w \in Pending : verdict' = [verdict EXCEPT ![w] = "ok"]
      BY <2>3
    <3>2. w \in Requests /\ w # r /\ w \notin released /\ Status[w] = "waiting"
      BY DEF Pending, Status, StatusOf, IInv, Coherent
    <3>3. Status' = [Status EXCEPT ![r] = "served", ![w] = "holding"]
      BY <2>1, <3>1, <3>2 DEF Status, StatusOf, Held, IInv, TypeOK
    <3>4. Abstract!HandOver(r, w)
      BY <2>1, <3>2, <3>3 DEF Abstract!HandOver
    <3> QED
      BY <3>2, <3>4 DEF Abstract!ANext
  <2> QED
    BY <1>2, <2>2, <2>3, ReleaseHandsOver
<1> QED
  BY <1>1, <1>2

\* Every step of the gate is a step of Admission, or leaves its state alone.
LEMMA StepImplements ==
    IInv /\ [Next]_vars => [Abstract!ANext]_Status
<1> SUFFICES ASSUME IInv, [Next]_vars PROVE Abstract!ANext \/ UNCHANGED Status
  OBVIOUS
<1>1. CASE UNCHANGED vars
  BY <1>1 DEF vars, Status, StatusOf, Held
<1>2. CASE Next
  <2>1. PICK r \in Requests : \/ Enter(r) \/ Expire(r) \/ HangUp(r) \/ Flushed(r)
                              \/ Resume(r) \/ Work(r) \/ Body(r) \/ Recycle(r)
    BY <1>2 DEF Next
  <2>2. CASE UNCHANGED <<verdict, released>>
    BY <2>2 DEF Status, StatusOf, Held
  <2>3. CASE verdict[r] = "ok" /\ Release(r)
    BY <2>3, ReleaseImplements
  <2>4. CASE verdict[r] = "pending" /\ UNCHANGED released
             /\ \E v \in {"gone", "timeout"} : Settle(r, v)
    <3>1. Status[r] = "waiting" /\ Status' = [Status EXCEPT ![r] = "served"]
      BY <2>4 DEF Status, StatusOf, Held, Settle, IInv, TypeOK
    <3> QED
      BY <3>1 DEF Abstract!GiveUp, Abstract!ANext
  <2>5. CASE TakeSlot(r)
    <3>1. verdict[r] = "none" /\ r \notin released /\ UNCHANGED released
      BY <2>5 DEF TakeSlot, IInv, Coherent
    <3>2. Status[r] = "outside" /\ Status' = [Status EXCEPT ![r] = "holding"]
      BY <2>5, <3>1 DEF TakeSlot, Status, StatusOf, Held, Settle, IInv, TypeOK
    <3>3. Abstract!Cardinality(Abstract!In("holding")) < Limit
      BY <2>5, StatusSets, SameCardinality DEF TakeSlot, IInv, SlotAccounting
    <3> QED
      BY <3>2, <3>3 DEF Abstract!Acquire, Abstract!ANext
  <2>6. CASE Refuse(r) \/ Enqueue(r)
    <3>1. verdict[r] = "none" /\ UNCHANGED released /\ \E v \in {"full", "pending"} : Settle(r, v)
      BY <2>6 DEF Refuse, Enqueue, IInv, Coherent
    <3>2. Status[r] = "outside" /\ \E s \in {"waiting", "served"} : Status' = [Status EXCEPT ![r] = s]
      BY <3>1 DEF Status, StatusOf, Held, Settle, IInv, TypeOK
    <3>3. Abstract!Cardinality(Abstract!In("holding")) = Limit
      BY <2>6, StatusSets, SameCardinality DEF Refuse, Enqueue, IInv, SlotAccounting, TypeOK
    <3> QED
      BY <3>2, <3>3 DEF Abstract!Defer, Abstract!ANext
  <2>7. CASE Recycle(r)
    <3>1. r \notin Held /\ verdict[r] # "pending"
      BY <2>7 DEF Recycle, IInv, NoLeakOnClose, Coherent
    <3>2. Status' = [Status EXCEPT ![r] = "outside"]
      BY <2>7, <3>1 DEF Recycle, Status, StatusOf, Held, Settle, IInv, TypeOK
    <3>3. Status[r] \in {"outside", "served"}
      BY <3>1 DEF Status, StatusOf
    <3>4. CASE Status[r] = "served"
      BY <3>2, <3>4 DEF Abstract!Return, Abstract!ANext
    <3>5. CASE Status[r] = "outside"
      BY <3>2, <3>5 DEF Status
    <3> QED
      BY <3>3, <3>4, <3>5
  <2> QED
    BY <2>1, <2>2, <2>3, <2>4, <2>5, <2>6, <2>7
    DEF Enter, Bypass, Expire, HangUp, Flushed, OnClose, Resume, ResumeGone,
        ResumeRefused, ResumeDead, ResumeWork, Work, Answer, StartPipe, Throw, Body, BodyEnds,
        BodyBreaks
<1> QED
  BY <1>1, <1>2

\* The gate is a semaphore that never idles while somebody waits: every step of
\* it is a step of Admission, or changes nothing Admission speaks of.
THEOREM GateImplementsAdmission == Spec => ImplementsAdmission
<1>1. Init => Abstract!AInit
  BY DEF Init, Abstract!AInit, Status, StatusOf
<1> QED
  BY <1>1, StepImplements, GateInvariant, PTL DEF Spec, ImplementsAdmission, Abstract!ASpec
=============================================================================
