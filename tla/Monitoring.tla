----------------------------- MODULE Monitoring -----------------------------
(***************************************************************************)
(* What watches the fleet: the events and the waste watcher inside the     *)
(* router, and the pager that a timer starts beside it.  They take their   *)
(* steps in any order and share nothing but what they watch.               *)
(***************************************************************************)
EXTENDS Signals, Watch

MonitoringVars == <<signalVars, watchVars>>

MonitoringInit == SignalsInit /\ WatchInit

MonitoringNext ==
    \/ SignalNext /\ UNCHANGED watchVars
    \/ WatchNext /\ UNCHANGED signalVars

MonitoringSpec == MonitoringInit /\ [][MonitoringNext]_MonitoringVars

\* What watches is in order: suppression is honest, nothing is held back and standing findings are told
\* (telemetry.js, waste.js), and people know what the pager's state file knows (throttle-watch.py).
MonitoringInv == SignalsInv /\ WatchInv
=============================================================================
