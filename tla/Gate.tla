-------------------------------- MODULE Gate --------------------------------
(***************************************************************************)
(* Admission control for one upstream that is a single piece of hardware   *)
(* (src/gate.js): at most Limit requests at a time, the others queue.      *)
(*                                                                         *)
(* A request is a call of `run` for one gate key.  `run` awaits `admit`,   *)
(* then `work` (http.js proxy), and its slot is given back on the close    *)
(* event of the response.  One action is one turn of the event loop: a     *)
(* promise that was resolved (`verdict`) and the code after the `await`    *)
(* (`Resume`) are two different actions, and anything may run in between.  *)
(*                                                                         *)
(* The name of a request is used again once its call is over and nothing   *)
(* refers to it any more, so arrivals are unbounded.                       *)
(***************************************************************************)
EXTENDS Integers, Sequences, FiniteSets

CONSTANTS Requests,   \* calls of run() that may be alive at the same time
          Reads,      \* those whose method is GET or HEAD
          Limit,      \* limitFor(provider): slots; 0 means ungated
          QueueMax    \* QUEUE_MAX: seats in the queue

ASSUME GateAssumption == /\ Reads \subseteq Requests
                         /\ Limit \in Nat
                         /\ QueueMax \in Nat \ {0}

VARIABLES active,     \* g.active
          queue,      \* g.q, settled waiters included until pump shifts them
          verdict,    \* what the promise returned by admit() resolved to
          phase,      \* where the call of run() is
          sock,       \* the response: open, ended (writableEnded), closed
          released    \* the requests whose `released` flag is set

vars == <<active, queue, verdict, phase, sock, released>>

Verdicts == {"none", "pending", "ok", "gone", "timeout", "full"}
\* new: before run(); admitting: at `await admit`; working: at `await work()`;
\* piping: work() returned, r.pipe(res) still copies the body; over: all done.
Phases == {"new", "admitting", "working", "piping", "over"}

TypeOK == /\ active \in Nat
          /\ queue \in Seq(Requests)
          /\ verdict \in [Requests -> Verdicts]
          /\ phase \in [Requests -> Phases]
          /\ sock \in [Requests -> {"open", "ended", "closed"}]
          /\ released \in SUBSET Requests

Init == /\ active = 0
        /\ queue = <<>>
        /\ verdict = [r \in Requests |-> "none"]
        /\ phase = [r \in Requests |-> "new"]
        /\ sock = [r \in Requests |-> "open"]
        /\ released = {}

-----------------------------------------------------------------------------
Gated(r) == Limit > 0 /\ r \notin Reads

\* The waiters that are not settled.
Pending == {r \in Requests : verdict[r] = "pending"}

\* Who holds a slot: granted, and not released yet.
Held == {r \in Requests : verdict[r] = "ok"} \ released

\* The unsettled waiters among the first n of the queue.
Unsettled(n) == {queue[i] : i \in 1..n} \cap Pending

\* pump stops after n shifts: nothing is left, or every slot is taken.
PumpStops(a, n) == n = Len(queue) \/ a + Cardinality(Unsettled(n)) >= Limit

\* pump(g) with g.active = a.
Pump(a) ==
    \E n \in 0..Len(queue) :
        /\ PumpStops(a, n)
        /\ \A m \in 0..(n-1) : ~PumpStops(a, m)
        /\ queue' = SubSeq(queue, n+1, Len(queue))
        /\ active' = a + Cardinality(Unsettled(n))
        /\ verdict' = [r \in Requests |-> IF r \in Unsettled(n) THEN "ok" ELSE verdict[r]]

\* Defect: release() that does not pump.
DefectNoPump(r) == IF r \in released
                   THEN UNCHANGED <<active, queue, verdict, released>>
                   ELSE /\ released' = released \cup {r}
                        /\ active' = active - 1
                        /\ UNCHANGED <<queue, verdict>>

\* release(): idempotent, gives the slot back and hands it on.
Release(r) == IF r \in released
              THEN UNCHANGED <<active, queue, verdict, released>>
              ELSE released' = released \cup {r} /\ Pump(active - 1)

Settle(r, v) == verdict' = [verdict EXCEPT ![r] = v]

To(r, p) == phase' = [phase EXCEPT ![r] = p]

\* res.end(): a response that is already closed swallows it.
End(r) == sock' = [sock EXCEPT ![r] = IF @ = "open" THEN "ended" ELSE @]

-----------------------------------------------------------------------------
\* run(): no gate for this provider, or a read: straight through.
Bypass(r) == /\ phase[r] = "new"
             /\ ~Gated(r)
             /\ To(r, "working")
             /\ UNCHANGED <<active, queue, verdict, sock, released>>

\* Defect: one slot too many.
DefectTakeSlot(r) == /\ phase[r] = "new" /\ Gated(r)
                     /\ active <= Limit
                     /\ active' = active + 1
                     /\ Settle(r, "ok")
                     /\ To(r, "admitting")
                     /\ UNCHANGED <<queue, sock, released>>

\* admit(): a free slot is taken at once.
TakeSlot(r) == /\ phase[r] = "new" /\ Gated(r)
               /\ active < Limit
               /\ active' = active + 1
               /\ Settle(r, "ok")
               /\ To(r, "admitting")
               /\ UNCHANGED <<queue, sock, released>>

\* admit(): no slot and no seat.
Refuse(r) == /\ phase[r] = "new" /\ Gated(r)
             /\ active >= Limit
             /\ Len(queue) >= QueueMax
             /\ Settle(r, "full")
             /\ To(r, "admitting")
             /\ UNCHANGED <<active, queue, sock, released>>

\* Defect: the newest waiter goes to the head of the line.
DefectEnqueue(r) == /\ phase[r] = "new" /\ Gated(r)
                    /\ active >= Limit
                    /\ Len(queue) < QueueMax
                    /\ queue' = <<r>> \o queue
                    /\ Settle(r, "pending")
                    /\ To(r, "admitting")
                    /\ UNCHANGED <<active, sock, released>>

\* admit(): wait in line.
Enqueue(r) == /\ phase[r] = "new" /\ Gated(r)
              /\ active >= Limit
              /\ Len(queue) < QueueMax
              /\ queue' = Append(queue, r)
              /\ Settle(r, "pending")
              /\ To(r, "admitting")
              /\ UNCHANGED <<active, sock, released>>

\* Defect: the timer lets a waiter wait on while every slot is taken.
DefectExpire(r) == /\ verdict[r] = "pending" /\ active < Limit
                   /\ Settle(r, "timeout")
                   /\ UNCHANGED <<active, queue, phase, sock, released>>

\* The WAIT_MS timer of a waiter; settle() clears it, so only a pending one has it.
Expire(r) == /\ verdict[r] = "pending"
             /\ Settle(r, "timeout")
             /\ UNCHANGED <<active, queue, phase, sock, released>>

\* The close event of the response, with the listener that is registered when it
\* fires: onClose of a waiter, release of a call that got past line 169, or none.
OnClose(r) ==
    /\ sock' = [sock EXCEPT ![r] = "closed"]
    /\ UNCHANGED phase
    /\ \/ /\ verdict[r] = "pending"
          /\ Settle(r, "gone")
          /\ UNCHANGED <<active, queue, released>>
       \/ /\ verdict[r] = "ok" /\ phase[r] # "admitting"
          /\ Release(r)
       \/ /\ verdict[r] # "pending"
          /\ verdict[r] = "ok" => phase[r] = "admitting"
          /\ UNCHANGED <<active, queue, verdict, released>>

\* The caller hangs up: at any time, also before run() and during work().
HangUp(r) == sock[r] = "open" /\ OnClose(r)

\* An ended response reaches the caller and closes.
Flushed(r) == sock[r] = "ended" /\ OnClose(r)

\* The continuation of `await admit`: nobody to answer.
ResumeGone(r) == /\ phase[r] = "admitting" /\ verdict[r] = "gone"
                 /\ To(r, "over")
                 /\ UNCHANGED <<active, queue, verdict, sock, released>>

\* ... 503 with Retry-After.
ResumeRefused(r) == /\ phase[r] = "admitting" /\ verdict[r] \in {"full", "timeout"}
                    /\ To(r, "over")
                    /\ End(r)
                    /\ UNCHANGED <<active, queue, verdict, released>>

\* Defect: no look at the response after the wait (gate.js:169 dropped).
DefectResumeDead(r) == /\ phase[r] = "admitting" /\ verdict[r] = "ok" /\ sock[r] # "open"
                       /\ To(r, "working")
                       /\ UNCHANGED <<active, queue, verdict, sock, released>>

\* ... a slot for a caller that left between the grant and this continuation.
ResumeDead(r) == /\ phase[r] = "admitting" /\ verdict[r] = "ok" /\ sock[r] # "open"
                 /\ To(r, "over")
                 /\ Release(r)
                 /\ UNCHANGED sock

\* ... the work starts, with release registered on close.
ResumeWork(r) == /\ phase[r] = "admitting" /\ verdict[r] = "ok" /\ sock[r] = "open"
                 /\ To(r, "working")
                 /\ UNCHANGED <<active, queue, verdict, sock, released>>

Resume(r) == ResumeGone(r) \/ ResumeRefused(r) \/ ResumeDead(r) \/ ResumeWork(r)

\* work() answers in full: an error row, a translated body, JSON enforcement.
Answer(r) == /\ phase[r] = "working"
             /\ To(r, "over")
             /\ End(r)
             /\ UNCHANGED <<active, queue, verdict, released>>

\* Defect: `finally { release() }` after work() instead of on close.
DefectStartPipe(r) == /\ phase[r] = "working"
                      /\ To(r, "piping")
                      /\ IF verdict[r] = "ok" THEN Release(r)
                         ELSE UNCHANGED <<active, queue, verdict, released>>
                      /\ UNCHANGED sock

\* work() returns with the body still to come: r.pipe(res).
StartPipe(r) == /\ phase[r] = "working"
                /\ To(r, "piping")
                /\ UNCHANGED <<active, queue, verdict, sock, released>>

\* work() throws (an upstream that breaks inside a translated stream): a slot
\* is released at once, and nothing ends the response.
Throw(r) == /\ phase[r] = "working"
            /\ To(r, "over")
            /\ IF verdict[r] = "ok" THEN Release(r)
               ELSE UNCHANGED <<active, queue, verdict, released>>
            /\ UNCHANGED sock

\* The upstream body ends: pipe() ends the response.
BodyEnds(r) == /\ phase[r] = "piping"
               /\ To(r, "over")
               /\ End(r)
               /\ UNCHANGED <<active, queue, verdict, released>>

\* The upstream body errors: pipe() leaves the response as it is.
BodyBreaks(r) == /\ phase[r] = "piping"
                 /\ To(r, "over")
                 /\ UNCHANGED <<active, queue, verdict, sock, released>>

\* The call is over and unreferenced: the next arrival takes its name.
Recycle(r) == /\ phase[r] = "over" /\ sock[r] = "closed"
              /\ \A i \in DOMAIN queue : queue[i] # r
              /\ To(r, "new")
              /\ Settle(r, "none")
              /\ sock' = [sock EXCEPT ![r] = "open"]
              /\ released' = released \ {r}
              /\ UNCHANGED <<active, queue>>

Enter(r) == Bypass(r) \/ TakeSlot(r) \/ Refuse(r) \/ Enqueue(r)

Work(r) == Answer(r) \/ StartPipe(r) \/ Throw(r)

Body(r) == BodyEnds(r) \/ BodyBreaks(r)

Next == \E r \in Requests : \/ Enter(r) \/ Expire(r) \/ HangUp(r) \/ Flushed(r)
                            \/ Resume(r) \/ Work(r) \/ Body(r) \/ Recycle(r)

Spec == Init /\ [][Next]_vars

\* What is sure to happen: promise continuations run, the header timeout ends
\* work(), an upstream body ends or errors, an ended response is flushed.  The
\* caller need not hang up, and the WAIT_MS timer is not relied on.
Fairness == \A r \in Requests : /\ WF_vars(Resume(r)) /\ WF_vars(Work(r))
                                /\ WF_vars(Body(r)) /\ WF_vars(Flushed(r))

FairSpec == Spec /\ Fairness

\* The WAIT_MS timers fire.
TimersFire == \A r \in Requests : WF_vars(Expire(r))

-----------------------------------------------------------------------------
(* Safety. *)

\* g.active is the number of slots that are held: whatever the order of grant,
\* close, resume and throw, no slot is given back twice or forgotten.
SlotAccounting == active = Cardinality(Held)

\* A slot is never given back to nobody: while the queue holds a waiter, settled
\* or not, every slot is taken (pump drains the queue before it stops short).
NoIdleSlot == queue # <<>> => active = Limit

\* Every caller whose promise is pending is in the queue, so that pump can find it.
WaitersQueued == \A r \in Pending : \E i \in DOMAIN queue : queue[i] = r

\* At most Limit calls run their work for a caller that is still there: the slot
\* lasts as long as the response, not only as long as work() (gate.js:161-166).
ConnectedWorkBound ==
    Cardinality({r \in Requests : /\ Gated(r) /\ phase[r] \in {"working", "piping"}
                                  /\ sock[r] # "closed"}) <= Limit

\* A closed response holds no slot, except one that was granted before the close
\* and whose continuation has still to run and give it back (gate.js:169).
NoLeakOnClose == \A r \in Held : sock[r] = "closed" => phase[r] = "admitting"

\* Nobody is granted a slot while a caller before it in the queue still waits, and a
\* newcomer never overtakes the queue.
GrantsInOrder ==
    \A r \in Requests :
        (verdict[r] # "ok" /\ verdict'[r] = "ok") =>
            IF verdict[r] = "pending"
            THEN \E j \in DOMAIN queue :
                    /\ queue[j] = r
                    /\ \A i \in 1..(j-1) : verdict'[queue[i]] # "pending"
            ELSE Pending = {}

\* The queue only ever loses its first callers, or gains a newcomer at its end.
LineKept ==
    \/ queue' = queue
    \/ \E n \in 0..Len(queue) : queue' = SubSeq(queue, n+1, Len(queue))
    \/ \E r \in Requests \ Pending : verdict'[r] = "pending" /\ queue' = Append(queue, r)

\* Slots are granted in the order of arrival.
FirstComeFirstServed == [][GrantsInOrder /\ LineKept]_vars

\* How the parts of the state of one call fit together.
Coherent ==
    \A r \in Requests :
        /\ phase[r] = "new" => verdict[r] = "none"
        /\ verdict[r] = "pending" => phase[r] = "admitting"
        /\ r \in released => verdict[r] = "ok"
        /\ phase[r] = "admitting" => r \notin released
        /\ phase[r] \in {"working", "piping"} =>
              /\ Gated(r) => verdict[r] = "ok"
              /\ r \in released => sock[r] = "closed"

\* The inductive invariant: what the safety properties above rest on, together.
IInv == /\ TypeOK
        /\ IsFiniteSet(Held)
        /\ SlotAccounting
        /\ active <= Limit
        /\ NoIdleSlot
        /\ WaitersQueued
        /\ Coherent
        /\ NoLeakOnClose

-----------------------------------------------------------------------------
(* Refinement: the gate implements the abstract admission control. *)

StatusOf(r) == IF verdict[r] = "none" THEN "outside"
               ELSE IF verdict[r] = "pending" THEN "waiting"
               ELSE IF r \in Held THEN "holding"
               ELSE "served"

Status == [r \in Requests |-> StatusOf(r)]

Abstract == INSTANCE Admission WITH status <- Status

\* Every step of the gate is a step of the semaphore, or none.
ImplementsAdmission == Abstract!ASpec

-----------------------------------------------------------------------------
(* Liveness. *)

\* The upstream body broke and the caller has not hung up: the response is open
\* for good, and its slot with it.
Stuck(r) == r \in Held /\ phase[r] = "over" /\ sock[r] = "open"

\* A slot that is held is given back, unless its body broke.
SlotReturned == \A r \in Requests : r \in Held ~> (r \notin Held \/ Stuck(r))

\* With the timers, every call that waits gets its turn or its refusal, even when all
\* the slots are stuck for good.
WaiterAnswered ==
    TimersFire => \A r \in Requests : r \in Pending ~> phase[r] \in {"working", "over"}

=============================================================================
