------------------------------- MODULE Watch -------------------------------
(***************************************************************************)
(* monitor/throttle-watch.py: a script that a timer starts every few       *)
(* minutes.  It collects the conditions that hold now, compares them with  *)
(* its state file, saves the new state, and then pages people about what   *)
(* is new, what still holds, and what has gone.                            *)
(*                                                                         *)
(* A run may end between any two of its steps; times are kept as rounds    *)
(* since a condition was last paged, up to the round it is repeated in.    *)
(***************************************************************************)
EXTENDS Naturals, FiniteSets, Functions

CONSTANTS Posts,    \* instances: the conditions the fleet may show, by where they are read; the logins and how
                    \* they may stand; POOL_MIN; what may fail; whether WATCH_HOST is set, and its containers
          Remind,   \* REMIND_MIN, in rounds
          Followed  \* the conditions the liveness property speaks of

ASSUME WatchAssumption == Remind \in Nat \ {0}

VARIABLES
    post,      \* the instance (by number)
    pc,        \* idle, checking, saving, paging
    hot,       \* the conditions that hold in the fleet
    standing,  \* how each login stands
    restarted, \* containers that restarted since the last sample
    counted,   \* the containers in RC_FILE
    file,      \* STATE_FILE: for each condition the rounds since it was last paged
    next,      \* nxt
    page,      \* fresh, remind, cleared
    belief,    \* what people hold to be the case (history)
    missed,    \* conditions whose last page did not reach them (history)
    news       \* conditions the last page that did reach them named as holding (history)

watchVars == <<post, pc, hot, standing, restarted, counted, file, next, page, belief, missed, news>>

po == Posts[post]
NoPage == [fresh |-> {}, remind |-> {}, cleared |-> {}]
Nothing == [c \in {} |-> 0]

WatchInit ==
    /\ post \in DOMAIN Posts
    /\ pc = "idle" /\ hot = {} /\ restarted = {} /\ counted = {}
    /\ standing = [a \in po.logins |-> "allowed"]
    /\ file = Nothing /\ next = Nothing /\ page = NoPage
    /\ belief = {} /\ missed = {} /\ news = {}

(***************************************************************************)
(* What a run finds.                                                       *)
(***************************************************************************)
\* A login that can serve: no reading counts as available.
Usable(a) == standing[a] \in {"allowed", "unread"}

OfAccounts ==
    {<<"ratelimit", a>> : a \in {b \in po.logins : standing[b] = "rejected"}}
      \cup (IF po.logins # {} /\ Cardinality({a \in po.logins : Usable(a)}) <= po.poolMin
            THEN {<<"pool-headroom">>} ELSE {})

From(source) == {c \in hot : c[1] = source}

\* check_router, check_usage: a read that fails is a condition of its own, and hides those it would have shown.
OfRouter(fail) ==
    CASE fail = "router" -> {<<"router-down">>}
      [] fail = "cookie" -> {<<"router-auth">>}
      [] fail = "accounts" -> From("state") \cup {<<"accounts-read">>} \cup From("stats")
      [] fail = "stats" -> From("state") \cup OfAccounts \cup {<<"stats-read">>}
      [] OTHER -> From("state") \cup OfAccounts \cup From("stats")

\* check_gpu, check_containers: a container is looping when its count grew since the sample before.
OfHost == IF po.host THEN From("gpu") \cup {<<"restart", n>> : n \in restarted \cap counted} ELSE {}

(***************************************************************************)
(* The run.                                                                *)
(***************************************************************************)
\* The timer: a round has passed, and the fleet is not what it was.
TimerFires ==
    /\ pc = "idle" /\ pc' = "checking"
    /\ file' = [c \in DOMAIN file |-> IF file[c] = Remind THEN Remind ELSE file[c] + 1]
    /\ hot' \in SUBSET po.conditions
    /\ standing' \in [po.logins -> po.standings]
    /\ \E n \in SUBSET po.containers : restarted' = restarted \cup n
    /\ UNCHANGED <<post, counted, next, page, belief, missed, news>>

\* Defect: a condition that still holds counts as paged each time it is seen.
DefectStillHot(c) == 0

\* A condition the state file has: its page is due again, or not yet.
StillHot(c) == IF file[c] >= Remind THEN 0 ELSE file[c]

\* Collecting, and main up to the state: the sample of the containers is saved at once.
Sample(fail) ==
    /\ pc = "checking" /\ fail \in po.fails
    /\ LET conds == OfRouter(fail) \cup OfHost
           known == DOMAIN file
       IN  /\ next' = [c \in conds |-> IF c \in known THEN StillHot(c) ELSE 0]
           /\ page' = [fresh |-> conds \ known,
                       remind |-> {c \in conds \cap known : file[c] >= Remind},
                       cleared |-> known \ conds]
    /\ counted' = IF po.host THEN po.containers ELSE counted
    /\ restarted' = IF po.host THEN {} ELSE restarted
    /\ news' = {}
    /\ pc' = "saving"
    /\ UNCHANGED <<post, hot, standing, file, belief, missed>>

\* save_state: all of it or nothing (os.replace).
Save ==
    /\ pc = "saving"
    /\ file' = next
    /\ pc' = IF page = NoPage THEN "idle" ELSE "paging"
    /\ UNCHANGED <<post, hot, standing, restarted, counted, next, page, belief, missed, news>>

Holding == page.fresh \cup page.remind
Mentioned == Holding \cup page.cleared

\* tg_send, email_send: one of the chats or the mail arrives.
PageArrives ==
    /\ pc = "paging" /\ pc' = "idle"
    /\ belief' = (belief \ Mentioned) \cup Holding
    /\ missed' = missed \ Mentioned
    /\ news' = Holding
    /\ UNCHANGED <<post, hot, standing, restarted, counted, file, next, page>>

\* None of them arrives, or the run is killed before: the state is saved already.
PageLost ==
    /\ pc = "paging" /\ pc' = "idle"
    /\ missed' = missed \cup Holding \cup page.cleared
    /\ UNCHANGED <<post, hot, standing, restarted, counted, file, next, page, belief, news>>

\* The state cannot be written, or the run is killed before: nobody is paged.
SaveFails ==
    /\ pc = "saving" /\ pc' = "idle" /\ "save" \in po.fails
    /\ UNCHANGED <<post, hot, standing, restarted, counted, file, next, page, belief, missed, news>>

WatchNext ==
    \/ \E fail \in po.fails : Sample(fail)
    \/ TimerFires \/ Save \/ SaveFails \/ PageArrives \/ PageLost

WatchSpec == WatchInit /\ [][WatchNext]_watchVars

WatchTypeOK ==
    /\ pc \in {"idle", "checking", "saving", "paging"}
    /\ \A c \in DOMAIN file : file[c] \in 0..Remind
    /\ hot \subseteq po.conditions /\ restarted \cup counted \subseteq po.containers
    /\ page.fresh \cap page.cleared = {}

(***************************************************************************)
(* Properties.                                                             *)
(***************************************************************************)
\* Between two runs people know what the state file knows, of each condition whose last page reached them.
BeliefFollowsFile ==
    pc \in {"idle", "checking"} => (belief \ DOMAIN file) \cup (DOMAIN file \ belief) \subseteq missed

WatchInv == WatchTypeOK /\ BeliefFollowsFile

\* A condition that is found by every run is never forgotten: people are told of it again and again, whatever
\* pages are lost.
NeverForgotten ==
    \A c \in Followed : <>[](c \in DOMAIN next) => []<>(c \in news)

\* throttle-watch.py:26-27: a note that something cleared goes out when it goes away.
ClearedIsGone == pc = "paging" => \A c \in page.cleared : c \notin hot
=============================================================================
