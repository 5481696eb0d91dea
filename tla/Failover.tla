------------------------------ MODULE Failover ------------------------------
(***************************************************************************)
(* Calls to the claudecode provider and their failover: server.js picks a  *)
(* login and captures its token, http.js proxy sends the request, and a    *)
(* 429 is retried on other logins of the pool (accountfailover.js) before  *)
(* the caller sees it.  Between the send and the answer anything may       *)
(* happen to the pool (module Accounts), and other calls are in flight.    *)
(*                                                                         *)
(* One action is what runs between two awaits: the answer of an attempt,   *)
(* the choice of the next login and the next send are one step.            *)
(***************************************************************************)
EXTENDS Accounts

CONSTANTS Calls,      \* calls that may be in flight at the same time
          MaxTries,   \* MAX_ACCOUNT_TRIES
          HeadersOn   \* which answers carry the window headers: "ok", "error"

ASSUME FailoverAssumption == /\ MaxTries \in Nat \ {0}
                             /\ HeadersOn \subseteq {"ok", "error"}

VARIABLES
    pc,         \* idle; first: the first attempt is out; retry: another is; done
    project,    \* who calls
    account,    \* opts.account, and with it the login the call log names
    tried,      \* the logins this call was sent to
    sent,       \* how many requests went out for it
    last,       \* the login of the attempt that is out, or was answered last
    token,      \* the token that attempt carries
    outcome,    \* what the caller got
    sniffing    \* logins a 403 body is being read for (http.js up.clone().text())

callVars == <<pc, project, account, tried, sent, last, token, outcome, sniffing>>
vars == <<accountVars, callVars>>

Outcomes == {"none", "no_account", "ok", "429", "403", "error", "502", "504"}

TypeOK ==
    /\ AccountsTypeOK
    /\ pc \in [Calls -> {"idle", "first", "retry", "done"}]
    /\ project \in [Calls -> Projects]
    /\ account \in [Calls -> Logins \cup {None}]
    /\ tried \in [Calls -> SUBSET Logins]
    /\ sent \in [Calls -> Nat]
    /\ last \in [Calls -> Logins \cup {None}]
    /\ token \in [Calls -> Gens]
    /\ outcome \in [Calls -> Outcomes]
    /\ sniffing \subseteq Logins

Init ==
    /\ AccountsInit
    /\ pc = [c \in Calls |-> "idle"]
    /\ project \in [Calls -> Projects]
    /\ account = [c \in Calls |-> None]
    /\ tried = [c \in Calls |-> {}]
    /\ sent = [c \in Calls |-> 0]
    /\ last = [c \in Calls |-> None]
    /\ token = [c \in Calls |-> 0]
    /\ outcome = [c \in Calls |-> "none"]
    /\ sniffing = {}

-----------------------------------------------------------------------------
InFlight(c) == pc[c] \in {"first", "retry"}

\* The attempt's token belongs to a cancelled subscription: the answer is a 403.
Barred(c) == <<last[c], token[c]>> \in cancelled

\* Defect: each attempt starts the account of the call anew.
DefectSend(c, a) == /\ last' = [last EXCEPT ![c] = a]
                    /\ token' = [token EXCEPT ![c] = gen[a]]
                    /\ tried' = [tried EXCEPT ![c] = {a}]
                    /\ sent' = [sent EXCEPT ![c] = 1]

\* The attempt of call c is sent to login a.
Send(c, a) == /\ last' = [last EXCEPT ![c] = a]
              /\ token' = [token EXCEPT ![c] = gen[a]]
              /\ tried' = [tried EXCEPT ![c] = @ \cup {a}]
              /\ sent' = [sent EXCEPT ![c] = @ + 1]

\* The call is over; the caller gets o, and the row names login a.
Finish(c, a, o) ==
    /\ pc' = [pc EXCEPT ![c] = "done"]
    /\ account' = [account EXCEPT ![c] = a]
    /\ outcome' = [outcome EXCEPT ![c] = o]
    /\ UNCHANGED <<project, tried, sent, last, token>>

\* recordLimits: an answer with the window headers of login `from`, filed under `to`.
Harvest(from, to, kind) ==
    \/ UNCHANGED <<orgOf, window>>
    \/ /\ kind \in HeadersOn
       /\ \E r \in Readings : window' = [window EXCEPT ![from] = r]
       /\ orgOf' = [orgOf EXCEPT ![to] = from]

\* server.js: the login is chosen and its token captured.  With an empty pool the
\* provider's own credentials apply, and there is nothing to choose.
Arrive(c) ==
    /\ pc[c] = "idle" /\ pool # <<>>
    /\ AccountFor(project[c]) # None
    /\ pc' = [pc EXCEPT ![c] = "first"]
    /\ account' = [account EXCEPT ![c] = AccountFor(project[c])]
    /\ Send(c, AccountFor(project[c]))
    /\ UNCHANGED <<project, outcome, sniffing, accountVars>>

\* 403 no_account_for_project.
Refuse(c) ==
    /\ pc[c] = "idle" /\ pool # <<>>
    /\ AccountFor(project[c]) = None
    /\ Finish(c, None, "no_account")
    /\ UNCHANGED <<sniffing, accountVars>>

\* Defect: the failover does not rename opts.account.
DefectAnswerOk(c) ==
    /\ InFlight(c) /\ ~Barred(c)
    /\ Finish(c, account[c], "ok")
    /\ cool' = cool \ {last[c]}
    /\ Harvest(last[c], account[c], "ok")
    /\ UNCHANGED <<sniffing, pool, disabled, gen, cancelled, dead, strategy, pins, sweep, probes>>

\* The login the attempt went to serves the call, and the row says so.
AnswerOk(c) ==
    /\ InFlight(c) /\ ~Barred(c)
    /\ Finish(c, last[c], "ok")
    /\ cool' = cool \ {last[c]}
    /\ Harvest(last[c], last[c], "ok")
    /\ UNCHANGED <<sniffing, pool, disabled, gen, cancelled, dead, strategy, pins, sweep, probes>>

\* Defect: parked logins are asked too.
DefectAskParked(c) == {i \in DOMAIN pool : pool[i] \notin tried[c] \cup dead}

\* Defect: logins that cool are passed over.
DefectSkipCool(c) == {i \in DOMAIN pool : pool[i] \notin tried[c] \cup disabled \cup dead \cup cool}

\* Where a refused call may go: entries not tried, not parked, not known to be dead.
Eligible(c) == {i \in DOMAIN pool : pool[i] \notin tried[c] \cup disabled \cup dead}
Next429(c) == pool[Min(Eligible(c))]

\* A 429, and another login to try: the one that refused cools.
Retry(c) ==
    /\ InFlight(c) /\ ~Barred(c)
    /\ Cardinality(tried[c]) < MaxTries
    /\ Eligible(c) # {}
    /\ pc' = [pc EXCEPT ![c] = "retry"]
    /\ Send(c, Next429(c))
    /\ Bench({last[c]})
    /\ UNCHANGED <<project, account, outcome, sniffing, pool, disabled, gen, cancelled, dead,
                   orgOf, window, strategy, pins, sweep, probes>>

\* A 429 with no login left to ask: the loop cools the one that refused, then the
\* tail of proxy() cools opts.account.
GiveUpDry(c) ==
    /\ InFlight(c) /\ ~Barred(c)
    /\ Cardinality(tried[c]) < MaxTries /\ Eligible(c) = {}
    /\ Bench({last[c], account[c]})
    /\ Finish(c, account[c], "429")
    /\ UNCHANGED <<sniffing, pool, disabled, gen, cancelled, dead, orgOf, window, strategy,
                   pins, sweep, probes>>

\* Defect: the tail of proxy() cools the login that refused last only.
DefectGiveUpTries(c) ==
    /\ InFlight(c) /\ ~Barred(c)
    /\ Cardinality(tried[c]) >= MaxTries
    /\ Bench({last[c]})
    /\ Finish(c, account[c], "429")
    /\ UNCHANGED <<sniffing, pool, disabled, gen, cancelled, dead, orgOf, window, strategy,
                   pins, sweep, probes>>

\* A 429 with no try left: only the tail of proxy() cools.
GiveUpTries(c) ==
    /\ InFlight(c) /\ ~Barred(c)
    /\ Cardinality(tried[c]) >= MaxTries
    /\ Bench({account[c]})
    /\ Finish(c, account[c], "429")
    /\ UNCHANGED <<sniffing, pool, disabled, gen, cancelled, dead, orgOf, window, strategy,
                   pins, sweep, probes>>

\* 403 permission_error: answered at once, the body read for opts.account.
AnswerForbidden(c) ==
    /\ InFlight(c) /\ Barred(c)
    /\ Finish(c, account[c], "403")
    /\ sniffing' = sniffing \cup {account[c]}
    /\ UNCHANGED accountVars

\* Any other status of 400 or more; its headers are filed under opts.account.
AnswerError(c) ==
    /\ InFlight(c) /\ ~Barred(c)
    /\ Finish(c, account[c], "error")
    /\ Harvest(last[c], account[c], "error")
    /\ UNCHANGED <<sniffing, pool, disabled, gen, cancelled, dead, cool, strategy, pins, sweep, probes>>

\* No response headers within UPSTREAM_HEADER_TIMEOUT_MS; `timedOut` is set by the
\* timer of the first attempt only.
Stall(c) ==
    /\ InFlight(c)
    /\ Finish(c, account[c], IF pc[c] = "first" THEN "504" ELSE "502")
    /\ UNCHANGED <<sniffing, accountVars>>

Unreachable(c) ==
    /\ InFlight(c)
    /\ Finish(c, account[c], "502")
    /\ UNCHANGED <<sniffing, accountVars>>

\* The body of a 403 has been read: it says permission_error, and the login is out.
Sniffed(a) ==
    /\ a \in sniffing
    /\ sniffing' = sniffing \ {a}
    /\ AutoDisable(a)
    /\ UNCHANGED <<pc, project, account, tried, sent, last, token, outcome, pool, gen, cancelled,
                   dead, cool, orgOf, window, strategy, pins, sweep, probes>>

\* The body could not be read.
SniffFails(a) ==
    /\ a \in sniffing
    /\ sniffing' = sniffing \ {a}
    /\ UNCHANGED <<pc, project, account, tried, sent, last, token, outcome, accountVars>>

Answer(c) == \/ AnswerOk(c) \/ Retry(c) \/ GiveUpDry(c) \/ GiveUpTries(c)
             \/ AnswerForbidden(c) \/ AnswerError(c) \/ Stall(c) \/ Unreachable(c)

\* The name of a finished call is free for the next arrival, of any project.
Recycle(c) ==
    /\ pc[c] = "done"
    /\ pc' = [pc EXCEPT ![c] = "idle"]
    /\ \E p \in Projects : project' = [project EXCEPT ![c] = p]
    /\ account' = [account EXCEPT ![c] = None]
    /\ tried' = [tried EXCEPT ![c] = {}]
    /\ sent' = [sent EXCEPT ![c] = 0]
    /\ last' = [last EXCEPT ![c] = None]
    /\ token' = [token EXCEPT ![c] = 0]
    /\ outcome' = [outcome EXCEPT ![c] = "none"]
    /\ UNCHANGED <<sniffing, accountVars>>

Next ==
    \/ \E c \in Calls : Arrive(c) \/ Refuse(c) \/ Answer(c) \/ Recycle(c)
    \/ \E a \in Logins : Sniffed(a) \/ SniffFails(a)
    \/ AccountsNext /\ UNCHANGED callVars

Spec == Init /\ [][Next]_vars

\* Every attempt ends: the abort timers see to it.
FairSpec == Spec /\ \A c \in Calls : WF_vars(Answer(c))

-----------------------------------------------------------------------------
(* Safety. *)

\* A served call is billed and logged to the login that served it, however many
\* refused before and whatever happened to the pool meanwhile.
BilledToServer == \A c \in Calls : outcome[c] = "ok" => account[c] = last[c]

\* One call costs at most MaxTries round trips, retries included.
TriesBounded == \A c \in Calls : sent[c] <= MaxTries

\* No login is asked twice for one call, whatever was parked, cooled or imported
\* between the attempts.
NoLoginTwice == \A c \in Calls : Cardinality(tried[c]) = sent[c]

\* Every attempt, the first and each retry, goes to a login that is in the pool and
\* not parked when it is sent, with the token the login has then.
AttemptIsLive ==
    [][\A c \in Calls : (tried'[c] # tried[c] /\ tried'[c] # {})
          => /\ last'[c] \in InPool \ disabled
             /\ token'[c] = gen[last'[c]]]_vars

\* A 429 reaches the caller only after MaxTries refusals, or when no login that is
\* neither parked nor dead is left to ask ("If every login refuses, the caller gets
\* the 429", accountfailover.js:9).
DryMeansDry ==
    [][\A c \in Calls : (outcome[c] = "none" /\ outcome'[c] = "429")
          => \/ Cardinality(tried[c]) >= MaxTries
             \/ InPool \subseteq tried[c] \cup disabled \cup dead]_vars

\* After a call that ended in 429 the selector hands the same caller another login
\* than the one it was given, as long as there is a usable one.
NextCallHops ==
    [][\A c \in Calls, p \in Projects :
          (/\ project[c] = p /\ Selects(p)
           /\ outcome[c] = "none" /\ outcome'[c] = "429"
           /\ UsableLogins' # {})
          => AccountFor(p)' # account[c]]_vars

\* A reading is filed under the login it came from: the selector never takes the
\* windows of one subscription for those of another.
OrgsTrue == \A a \in Logins : orgOf[a] \in {None, a}

\* The books of the calls are sound after any number of failovers: tries are counted, no
\* login is asked twice, and the rows and the readings go to the login that served.
FailoverInv ==
    /\ TypeOK
    /\ TriesBounded
    /\ NoLoginTwice
    /\ BilledToServer
    /\ OrgsTrue

-----------------------------------------------------------------------------
(* Liveness. *)

\* Every call that was let in is answered, by a login or with an error.
EveryCallAnswered == \A c \in Calls : InFlight(c) ~> pc[c] = "done"

-----------------------------------------------------------------------------
(* What comments say and the code does not do. *)

\* http.js:346 "`opts.account` is the pool name that served this call": a body is
\* only read to park a login that has been cancelled.
BlamesTheDead == \A a \in sniffing : \E g \in Gens : <<a, g>> \in cancelled
=============================================================================
