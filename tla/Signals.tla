------------------------------ MODULE Signals ------------------------------
(***************************************************************************)
(* What the router says without being asked: the events it ships to        *)
(* HyperDX (telemetry.js), collapsing what repeats itself, and the watcher *)
(* that reads the call log every quarter of an hour and ships what it      *)
(* finds wasteful (waste.js, server.js).                                   *)
(*                                                                         *)
(* Both decide that something has been said when they start to say it: a   *)
(* delivery may fail later, and a restart forgets what was said.           *)
(***************************************************************************)
EXTENDS Naturals, FiniteSets, FiniteSetsExt, Functions

CONSTANTS Desks,   \* instances: the messages, the size at which the map is pruned, how many occurrences
                   \* of each and in which windows; the consumers, the hours the log may show, the quarters between
                   \* two scans; whether the process restarts
          Unheard  \* a message the map does not hold, a finding that was never told

\* Occurrences and clocks are numbers; what is unheard is neither an entry nor an age.
ASSUME SignalsAssumption ==
    /\ Unheard \notin Nat /\ Unheard \notin [at : Nat, suppressed : Nat]
    /\ \A k \in DOMAIN Desks : LET d == Desks[k] IN
        /\ d.occurrences \in [d.messages -> Nat] /\ d.windows \subseteq Nat /\ d.pauses \subseteq Nat

KeepWindows == 10
Kinds == {"burn", "bloat", "spike"}
\* COOLDOWN, in quarters of an hour.
Cooldown == [burn |-> 24, spike |-> 4, bloat |-> 96]

VARIABLES
    desk,      \* the instance (by number)
    window,    \* the clock of the throttle, in SHIP_WINDOW_MS
    heard,     \* _shipSeen
    wire,      \* deliveries under way: the message and how many occurrences it stands for
    fails,     \* shipFails
    tally,     \* of each message: the occurrences, and what became of them (history)
    hour,      \* what the log shows of each consumer's last hour
    fired,     \* _fired: how many quarters of an hour ago a finding was shipped
    untold     \* the findings that held at a scan and had not been told within their cooldown (history)

signalVars == <<desk, window, heard, wire, fails, tally, hour, fired, untold>>

dk == Desks[desk]
Messages == dk.messages
Findings == Kinds \X dk.consumers
NothingYet == [happened |-> 0, told |-> 0, undelivered |-> 0, forgotten |-> 0, at |-> 0, sentAt |-> 0]

SignalsInit ==
    /\ desk \in DOMAIN Desks
    /\ window = 0 /\ fails = 0
    /\ heard = [s \in Messages |-> Unheard]
    /\ wire = [s \in Messages |-> {}]
    /\ tally = [s \in Messages |-> NothingYet]
    /\ hour \in [dk.consumers -> dk.hours]
    /\ fired = [f \in Findings |-> Unheard]
    /\ untold = {}

(***************************************************************************)
(* The throttle.                                                           *)
(***************************************************************************)
Known(h) == {s \in Messages : h[s] # Unheard}

\* Once the map is large, the entries that are older than ten windows go, with what they had counted.
Stale(h) == IF Cardinality(Known(h)) <= dk.cap THEN {}
            ELSE {s \in Known(h) : window - h[s].at > KeepWindows}

\* One more occurrence, which left or was counted.
Happens(q, left) ==
    [happened |-> q.happened + 1, told |-> q.told, undelivered |-> q.undelivered, forgotten |-> q.forgotten,
     at |-> window, sentAt |-> IF left THEN window ELSE q.sentAt]

\* Defect: one window for all messages.
DefectRepeats(s) == \E m \in Known(heard) : heard[m].at = window /\ heard[s] # Unheard

\* shipThrottle: the window of this message is still open.
Repeats(s) == heard[s] # Unheard /\ heard[s].at = window

\* shipLog, a repeat: it is counted.
Suppressed(s) ==
    /\ s \in Messages /\ tally[s].happened < dk.occurrences[s] /\ Repeats(s)
    /\ heard' = [heard EXCEPT ![s].suppressed = @ + 1]
    /\ tally' = [tally EXCEPT ![s] = Happens(@, FALSE)]
    /\ UNCHANGED <<desk, window, wire, fails, hour, fired, untold>>

\* shipLog, the first of a window: it ships, with the count of those it stands for.
Shipped(s) ==
    /\ s \in Messages /\ tally[s].happened < dk.occurrences[s] /\ ~ Repeats(s)
    /\ LET says == 1 + (IF heard[s] = Unheard THEN 0 ELSE heard[s].suppressed)
           noted == [heard EXCEPT ![s] = [at |-> window, suppressed |-> 0]]
       IN  /\ wire' = [wire EXCEPT ![s] = @ \cup {[n |-> tally[s].happened, says |-> says]}]
           /\ heard' = [m \in Messages |-> IF m \in Stale(noted) THEN Unheard ELSE noted[m]]
           /\ tally' = [m \in Messages |->
                  IF m = s THEN Happens(tally[m], TRUE)
                  ELSE IF m \in Stale(noted) THEN [tally[m] EXCEPT !.forgotten = @ + noted[m].suppressed]
                  ELSE tally[m]]
    /\ UNCHANGED <<desk, window, fails, hour, fired, untold>>

Delivered(s) ==
    \E d \in wire[s] :
        /\ wire' = [wire EXCEPT ![s] = @ \ {d}]
        /\ tally' = [tally EXCEPT ![s].told = @ + d.says]
        /\ UNCHANGED <<desk, window, heard, fails, hour, fired, untold>>

\* Defect: nothing notes that a delivery was answered with an error.
DefectUndelivered(s) ==
    \E d \in wire[s] :
        /\ wire' = [wire EXCEPT ![s] = @ \ {d}]
        /\ UNCHANGED <<desk, window, heard, fails, tally, hour, fired, untold>>

\* noteShipFail: an error status, or no answer; what it said is gone.
Undelivered(s) ==
    \E d \in wire[s] :
        /\ wire' = [wire EXCEPT ![s] = @ \ {d}]
        /\ fails' = fails + 1
        /\ tally' = [tally EXCEPT ![s].undelivered = @ + d.says]
        /\ UNCHANGED <<desk, window, heard, hour, fired, untold>>

NextWindow ==
    /\ window' \in {w \in dk.windows : w > window}
    /\ UNCHANGED <<desk, heard, wire, fails, tally, hour, fired, untold>>

(***************************************************************************)
(* The watcher.                                                            *)
(* An hour of a consumer is [billable, prompt, cachePct, toolsKb, busy]:   *)
(* billable and busy in millions of tokens, prompt the average in          *)
(* thousands.                                                              *)
(***************************************************************************)
Shape(kind, h) ==
    CASE kind = "burn" -> h.billable >= 5 /\ h.cachePct < 50 /\ h.prompt >= 20
      [] kind = "bloat" -> h.toolsKb >= 150
      [] kind = "spike" -> h.busy >= 1 /\ h.billable >= 2 /\ h.billable >= 3 * h.busy

Holds(f) == Shape(f[1], hour[f[2]])

\* Defect: a finding that was told is never told again.
DefectArms(f) == fired[f] = Unheard

\* arm: the cooldown of the finding is over.
Arms(f) == fired[f] = Unheard \/ fired[f] >= Cooldown[f[1]]

Later(age, n, f) == IF age = Unheard THEN Unheard ELSE Min({age + n, Cooldown[f[1]]})

\* scanWaste on a log that answers: every finding that holds and is armed is shipped.  The next scan comes n
\* quarters later.
Scan(n) ==
    LET out == {f \in Findings : Holds(f) /\ Arms(f)}
        ago(f) == IF f \in out THEN 0 ELSE fired[f]
    IN  /\ fired' = [f \in Findings |-> Later(ago(f), n, f)]
        /\ untold' = {f \in Findings : Holds(f) /\ (ago(f) = Unheard \/ ago(f) >= Cooldown[f[1]])}

\* A log that fails: its queries read no rows (db.js dbRows), and the scan finds nothing.
ScanUnread(n) ==
    /\ fired' = [f \in Findings |-> Later(fired[f], n, f)]
    /\ UNCHANGED untold

\* The tick of the watcher, and what the log shows by the next one.
Tick ==
    /\ \E n \in dk.pauses : Scan(n) \/ ScanUnread(n)
    /\ hour' \in [dk.consumers -> dk.hours]
    /\ UNCHANGED <<desk, window, heard, wire, fails, tally>>

\* A restart: what was said is forgotten, deliveries under way are gone.
Restarted ==
    /\ dk.restarts
    /\ heard' = [s \in Messages |-> Unheard]
    /\ tally' = [s \in Messages |-> NothingYet]
    /\ wire' = [s \in Messages |-> {}]
    /\ fails' = 0
    /\ fired' = [f \in Findings |-> Unheard]
    /\ untold' = {}
    /\ UNCHANGED <<desk, window, hour>>

SignalNext ==
    \/ \E s \in Messages : Suppressed(s) \/ Shipped(s) \/ Delivered(s) \/ Undelivered(s)
    \/ NextWindow \/ Tick \/ Restarted

SignalSpec == SignalsInit /\ [][SignalNext]_signalVars

SignalsTypeOK ==
    /\ \A s \in Known(heard) : heard[s].at \in 0..window /\ heard[s].suppressed \in 0..dk.occurrences[s]
    /\ \A f \in Findings : fired[f] \in {Unheard} \cup 0..Cooldown[f[1]]

(***************************************************************************)
(* Properties.                                                             *)
(***************************************************************************)
SumOf(ds) == SumFunctionOnSet([d \in ds |-> d.says], ds)

\* Suppression is honest: every occurrence was told, is counted and will be told with the next one, was lost
\* with a delivery that was noted as failed, or went with an entry of a map that had grown too large.
NothingUnaccounted ==
    /\ \A s \in Messages :
          tally[s].happened = tally[s].told + tally[s].undelivered + tally[s].forgotten + SumOf(wire[s])
                                + (IF heard[s] = Unheard THEN 0 ELSE heard[s].suppressed)
    /\ (\E s \in Messages : tally[s].undelivered > 0) => fails > 0

\* A fault is never held back behind another one: whenever it occurs, a message of its own left in the same
\* window.
NeverHeldBack == \A s \in Messages : tally[s].happened > 0 => tally[s].at = tally[s].sentAt

\* Whatever held at a scan had been told by then, and within its cooldown.
StandingFindingsTold == untold = {}

SignalsInv == SignalsTypeOK /\ NothingUnaccounted /\ NeverHeldBack /\ StandingFindingsTold

\* telemetry.js:233-234: an entry that is pruned was not counting.
PruneForgetsNothing == \A s \in Messages : tally[s].forgotten = 0
=============================================================================
