--------------------------------- MODULE Panel ---------------------------------
(***************************************************************************)
(* The admin panel (panel/components/panel): pages that hold a copy of     *)
(* what the router answered some time ago.  The call log page asks for its *)
(* rows page by page and, when live, every 2.5 s for newer ones, with no   *)
(* order among the answers (pages/call-log.tsx); its export pages through  *)
(* the whole log; the rules page drafts a copy of the routing and posts it *)
(* back as a whole (pages/rules.tsx, rules-controls.tsx, rules-advanced).  *)
(* The router's half is in src/calllog.js, src/admin.js and src/config.js. *)
(***************************************************************************)
EXTENDS Integers, SequencesExt, FiniteSetsExt

CONSTANTS
    Screens,      \* what a behaviour may be about: "log", "filters", "export", "rules", "logging"
    LogMax,       \* bound on the calls logged
    Matching,     \* filter |-> the calls it matches
    PageSize,     \* rows of a page of the view
    TailMax,      \* a tail this long reloads the page (200 in the code)
    ExportPage,   \* 1000 in the code
    Slots,        \* bound on the requests in flight
    Operators,    \* browsers with the rules page open
    Ruled,        \* projects that may have a rule
    RuleProviders, RuleModels,
    Nobody        \* no request, no rule, no answer

ASSUME PanelAssumption ==
    /\ LogMax \in Nat /\ LogMax >= 2
    /\ PageSize \in Nat \ {0} /\ TailMax \in Nat \ {0} /\ ExportPage \in Nat \ {0}
    /\ "any" \in DOMAIN Matching /\ Nobody \notin DOMAIN Matching

VARIABLES
    screen,
    table,      \* the calls in the table: [first, last]
    view,     \* the page: [filter, offset, live, rows, total], and history: whether a poll has
              \* added to the last load, and the filter of that load if it has not been changed since
    asks,     \* the requests in flight, by slot
    tape,     \* an export: [after, all], and history: what the log held when it began, a page that was not read
    routing,  \* the router's half of the rules page and of the logging card: [routes, limits, retain]
    drafts    \* per browser: the draft of the page, and the answer it waits for

panelVars == <<screen, table, view, asks, tape, routing, drafts>>

(* ------------------------------- the call log ------------------------------ *)
Table == table.first..table.last
Ordered(S) == CHOOSE s \in [1..Cardinality(S) -> S] :
                 ToSet(s) = S /\ \A i, j \in DOMAIN s : i < j => s[i] < s[j]
Newest(S) == Reverse(Ordered(S))
Cut(s, n) == SubSeq(s, 1, IF Len(s) < n THEN Len(s) ELSE n)
InTable == screen \in {"log", "filters", "export"} /\ UNCHANGED <<screen, routing, drafts>>
OnPage == InTable /\ screen # "export" /\ UNCHANGED tape

CallLogged ==
    /\ InTable /\ table.last < LogMax /\ table' = [table EXCEPT !.last = @ + 1]
    /\ UNCHANGED <<view, asks, tape>>

\* Defect: the cleanup of the effect clears the interval and nothing else.
DefectDead(a) == a
\* A change of what the polling effect depends on runs its cleanup: polls in flight are dead from then on.
Dead(a) == [s \in Slots |-> IF a[s] # Nobody /\ a[s].kind = "tick" THEN [a[s] EXCEPT !.dead = TRUE] ELSE a[s]]
FreeSlots == {s \in Slots : asks[s] = Nobody}
Question(kind, filter, off) == [kind |-> kind, filter |-> filter, off |-> off, dead |-> FALSE, got |-> Nobody]

SetFilter(s, g) ==
    /\ OnPage /\ s \in FreeSlots /\ screen = "filters" /\ g # view.filter
    /\ view' = [view EXCEPT !.filter = g, !.of = Nobody]
    /\ asks' = [Dead(asks) EXCEPT ![s] = Question("load", g, 0)]
    /\ UNCHANGED table
\* Bound: in a behaviour the pages are turned and the log is cleared, once, or the filter is changed.
Load(s, off) ==
    /\ OnPage /\ s \in FreeSlots /\ screen = "log"
    /\ off \in {0, view.offset - PageSize, view.offset + PageSize} /\ off >= 0 /\ (off > 0 => off < view.total)
    /\ asks' = [asks EXCEPT ![s] = Question("load", view.filter, off)]
    /\ UNCHANGED <<table, view>>
ToggleLive ==
    /\ OnPage /\ screen = "log" /\ view' = [view EXCEPT !.live = ~@] /\ asks' = Dead(asks)
    /\ UNCHANGED table
\* The interval does not wait for the poll before; an empty page is loaded anew.
Poll(s) ==
    /\ OnPage /\ s \in FreeSlots /\ view.live /\ view.offset = 0
    /\ asks' = [asks EXCEPT ![s] = IF view.rows = <<>> THEN Question("load", view.filter, 0)
                                   ELSE Question("tick", view.filter, Head(view.rows))]
    /\ UNCHANGED <<table, view>>

\* listCalls: newest first, from an offset or above an id.
Listed(a) ==
    LET S == {i \in Table \cap Matching[a.filter] : a.kind = "tick" => i > a.off}
    IN IF a.kind = "tick" THEN [rows |-> Cut(Newest(S), TailMax), total |-> Cardinality(S)]
       ELSE [rows |-> Cut(SubSeq(Newest(S), a.off + 1, Cardinality(S)), PageSize), total |-> Cardinality(S)]
Served(s) ==
    /\ OnPage /\ asks[s] # Nobody /\ asks[s].got = Nobody
    /\ asks' = [asks EXCEPT ![s].got = Listed(asks[s])]
    /\ UNCHANGED <<table, view>>

Arrived(s, kind) == OnPage /\ asks[s] # Nobody /\ asks[s].got # Nobody /\ asks[s].kind = kind /\ UNCHANGED table
\* load(): whatever the page shows by now, the answer replaces it.
LoadLands(s) ==
    /\ Arrived(s, "load")
    /\ LET a == asks[s] IN
        /\ view' = [view EXCEPT !.rows = a.got.rows, !.total = a.got.total, !.offset = a.off,
                                !.tailed = FALSE, !.of = a.filter]
        /\ asks' = [(IF a.off = view.offset THEN asks ELSE Dead(asks)) EXCEPT ![s] = Nobody]
\* tick(): new rows go on top, a tail that is too long reloads the page, an answer that comes too late is dropped.
TickLands(s) ==
    /\ Arrived(s, "tick")
    /\ LET a == asks[s]
           new == a.got.rows
       IN CASE a.dead \/ new = <<>> -> asks' = [asks EXCEPT ![s] = Nobody] /\ UNCHANGED view
            [] ~a.dead /\ Len(new) >= TailMax ->
                 asks' = [asks EXCEPT ![s] = Question("load", a.filter, 0)] /\ UNCHANGED view
            [] OTHER ->
                 /\ view' = [view EXCEPT !.rows = Cut(new \o @, PageSize), !.total = @ + Len(new), !.tailed = TRUE]
                 /\ asks' = [asks EXCEPT ![s] = Nobody]
AskFails(s) ==
    /\ OnPage /\ asks[s] # Nobody /\ asks[s].got = Nobody
    /\ asks' = [asks EXCEPT ![s] = Nobody] /\ UNCHANGED <<table, view>>
ClearCalls(s) ==
    /\ OnPage /\ s \in FreeSlots /\ screen = "log" /\ table.first = 1
    /\ table' = [table EXCEPT !.first = table.last + 1]
    /\ asks' = [asks EXCEPT ![s] = Question("load", view.filter, 0)]
    /\ UNCHANGED view

(* -------------------------------- the export ------------------------------- *)
Exporting == InTable /\ screen = "export" /\ UNCHANGED <<view, asks>>
BeginExport ==
    /\ Exporting /\ tape = Nobody
    /\ tape' = [after |-> 0, all |-> <<>>, had |-> Table, unread |-> FALSE, over |-> FALSE] /\ UNCHANGED table
\* exportCalls and the loop of exportAll(): a page that is not full ends it, and a query that fails answers none.
Page(n) == Cut(Ordered({i \in Table : i > n}), ExportPage)
\* Defect: the next page is asked from the number of rows that came, as if the ids had no gaps.
DefectNextPage(rows, failed) ==
    /\ Exporting /\ tape # Nobody /\ ~tape.over
    /\ tape' = [tape EXCEPT !.all = @ \o rows, !.over = Len(rows) < ExportPage, !.unread = @ \/ failed,
                            !.after = Len(tape.all) + Len(rows)]
    /\ UNCHANGED table
NextPage(rows, failed) ==
    /\ Exporting /\ tape # Nobody /\ ~tape.over
    /\ tape' = [tape EXCEPT !.all = @ \o rows, !.over = Len(rows) < ExportPage, !.unread = @ \/ failed,
                            !.after = IF Len(rows) < ExportPage THEN @ ELSE Last(rows)]
    /\ UNCHANGED table
ExportReads == tape # Nobody /\ NextPage(Page(tape.after), FALSE)
ExportUnread == NextPage(<<>>, TRUE)
LogCleared == Exporting /\ table' = [table EXCEPT !.first = table.last + 1] /\ UNCHANGED tape

(* -------------------------------- the rules -------------------------------- *)
\* A rule says where a project's calls go, and what they may reach.
Rule(pin, block, providers, models) == [pin |-> pin, block |-> block, providers |-> providers, models |-> models]
NoRule == Rule(Nobody, FALSE, {}, {})
Says(r) == r # NoRule
Routes(f) == [k \in {k \in DOMAIN f : Says(f[k])} |-> f[k]]
DraftOf(o, k) == IF k \in DOMAIN drafts[o].routes THEN drafts[o].routes[k] ELSE NoRule
OnRules == screen = "rules" /\ UNCHANGED <<screen, table, view, asks, tape>>
Drafted(o, k, r) ==
    drafts' = [drafts EXCEPT ![o].routes = Routes([j \in DOMAIN @ \cup {k} |-> IF j = k THEN r ELSE @[j]])]

\* RuleSelect and its onChange: another pin keeps the allowlists, a block drops them.
PickPin(o, k, p) == OnRules /\ Drafted(o, k, [DraftOf(o, k) EXCEPT !.pin = p, !.block = FALSE]) /\ UNCHANGED routing
PickBlock(o, k) == OnRules /\ Drafted(o, k, [NoRule EXCEPT !.block = TRUE]) /\ UNCHANGED routing
\* AllowCell: a blocked project has no chips to toggle; a rule that says nothing any more is no rule.
Flipped(S, x) == IF x \in S THEN S \ {x} ELSE S \cup {x}
ToggleProvider(o, k, p) ==
    /\ OnRules /\ ~DraftOf(o, k).block
    /\ Drafted(o, k, [DraftOf(o, k) EXCEPT !.providers = Flipped(@, p)]) /\ UNCHANGED routing
ToggleModel(o, k, m) ==
    /\ OnRules /\ ~DraftOf(o, k).block
    /\ Drafted(o, k, [DraftOf(o, k) EXCEPT !.models = Flipped(@, m)]) /\ UNCHANGED routing

\* Defect: a rule without a pin is taken for no rule.
DefectSanitizeRule(r) == IF r.pin = Nobody THEN NoRule ELSE r
\* sanitizeRule and the loop over projectRoutes in mergeConfig: what a save leaves of a rule.
SanitizeRule(r) == [r EXCEPT !.providers = @ \cap RuleProviders, !.pin = IF @ = Nobody \/ @[1] \notin RuleProviders THEN Nobody ELSE @]
Merged(f) == Routes([k \in DOMAIN f |-> IF f[k].block THEN [NoRule EXCEPT !.block = TRUE] ELSE SanitizeRule(f[k])])

\* save() and saveLimits(): each posts its half of the page, and both answers carry the whole state.
PostBack(o, r) == routing' = r /\ drafts' = [drafts EXCEPT ![o].answer = r]
SaveRouting(o) ==
    /\ OnRules /\ drafts[o].answer = Nobody
    /\ PostBack(o, [routing EXCEPT !.routes = Merged(drafts[o].routes)])
EditLimit(o) ==
    /\ OnRules /\ drafts' = [drafts EXCEPT ![o].limits = 1 - @] /\ UNCHANGED routing
SaveLimits(o) ==
    /\ OnRules /\ drafts[o].answer = Nobody
    /\ PostBack(o, [routing EXCEPT !.limits = drafts[o].limits])
\* reload(r.state): the page is seeded again, whatever was drafted meanwhile.
Reseed(o) ==
    /\ OnRules /\ drafts[o].answer # Nobody
    /\ LET r == drafts[o].answer
       IN drafts' = [drafts EXCEPT ![o].routes = r.routes, ![o].limits = r.limits, ![o].answer = Nobody]
    /\ UNCHANGED routing
\* POST /api/routes, by which scripts set the rule of one project.
RouteSet(k, p) ==
    /\ OnRules /\ routing' = [routing EXCEPT !.routes = Routes([j \in DOMAIN @ \cup {k} |->
                                  IF j = k THEN [NoRule EXCEPT !.pin = p] ELSE @[j]])]
    /\ UNCHANGED drafts

(* ---------------------------- the logging card ----------------------------- *)
\* A retention of 0 keeps every row for ever.  What is typed is a string, and only a string "0" is posted as 0.
Posted(d) == IF d.retain = 0 /\ ~d.typed THEN 50000 ELSE d.retain
OnCard == screen = "logging" /\ UNCHANGED <<screen, table, view, asks, tape>>
ToggleContent(o) == OnCard /\ drafts' = [drafts EXCEPT ![o].content = ~@] /\ UNCHANGED routing
TypeRetain(o, n) == OnCard /\ drafts' = [drafts EXCEPT ![o].retain = n, ![o].typed = TRUE] /\ UNCHANGED routing
SaveLogging(o) ==
    /\ OnCard
    /\ routing' = [routing EXCEPT !.content = drafts[o].content, !.retain = Posted(drafts[o]),
                                  !.typed = @ \/ drafts[o].typed]
    /\ drafts' = [drafts EXCEPT ![o].retain = Posted(drafts[o]), ![o].typed = FALSE]

(* ---------------------------------- all of it ------------------------------ *)
NoRoutes == [k \in {} |-> NoRule]
PanelInit(s) ==
    /\ screen = s
    /\ table = [first |-> 1, last |-> 2]
    /\ view = [filter |-> "any", offset |-> 0, live |-> s = "filters", rows |-> <<>>, total |-> 0, tailed |-> FALSE, of |-> "any"]
    /\ asks = [q \in Slots |-> Nobody]
    /\ tape = Nobody
    /\ routing = [routes |-> NoRoutes, limits |-> 0, retain |-> 0, content |-> TRUE, typed |-> FALSE]
    /\ drafts = [o \in Operators |-> [routes |-> NoRoutes, limits |-> 0, answer |-> Nobody,
                                      retain |-> 0, content |-> TRUE, typed |-> FALSE]]
PageNext ==
    \/ CallLogged \/ ToggleLive
    \/ \E s \in Slots :
          \/ \E g \in DOMAIN Matching : SetFilter(s, g)
          \/ \E off \in 0..LogMax : Load(s, off)
          \/ Poll(s) \/ Served(s) \/ LoadLands(s) \/ TickLands(s) \/ AskFails(s) \/ ClearCalls(s)
ExportNext == CallLogged \/ BeginExport \/ ExportReads \/ ExportUnread \/ LogCleared
Pins == {Nobody} \cup (RuleProviders \X RuleModels)
RulesNext ==
    \E o \in Operators :
       \/ \E k \in Ruled :
             \/ \E p \in Pins : PickPin(o, k, p)
             \/ PickBlock(o, k) \/ \E p \in RuleProviders : ToggleProvider(o, k, p)
             \/ \E m \in RuleModels : ToggleModel(o, k, m)
             \/ \E p \in Pins : RouteSet(k, p)
       \/ SaveRouting(o) \/ EditLimit(o) \/ SaveLimits(o) \/ Reseed(o)
CardNext == \E o \in Operators : ToggleContent(o) \/ SaveLogging(o) \/ \E n \in {0, 100} : TypeRetain(o, n)
PanelNext == PageNext \/ ExportNext \/ RulesNext \/ CardNext

PanelSpec == (\E s \in Screens : PanelInit(s)) /\ [][PanelNext]_panelVars

(* -------------------------------- properties ------------------------------- *)
PanelTypeOK ==
    /\ screen \in Screens /\ table.last \in 0..LogMax /\ table.first \in 1..(LogMax + 1)
    /\ view.filter \in DOMAIN Matching /\ ToSet(view.rows) \subseteq 1..LogMax /\ Len(view.rows) <= PageSize
    /\ \A s \in Slots : asks[s] # Nobody => asks[s].kind \in {"load", "tick"}

\* Once a load of the filter has landed no row of another filter is put on top of it, and none at all on any page
\* but the first, however late the answer to a poll comes.
PageIsOneAnswer ==
    /\ view.filter = view.of => ToSet(view.rows) \subseteq Matching[view.filter]
    /\ view.offset > 0 => ~view.tailed

\* An export whose pages were all read holds every call the log held when it began and that is still there, once.
ExportWhole ==
    tape # Nobody =>
        /\ \A i, j \in DOMAIN tape.all : i < j => tape.all[i] < tape.all[j]
        /\ tape.over /\ ~tape.unread => tape.had \cap Table \subseteq ToSet(tape.all)

\* What the controls of the page can draft is what a save leaves of it, and what a boot reads back; no rule that
\* says nothing is left, and no block that allows something.
RulesSurvive ==
    \A f \in {routing.routes} \cup {drafts[o].routes : o \in Operators} :
        /\ Merged(f) = f
        /\ \A k \in DOMAIN f : f[k].block => f[k] = [NoRule EXCEPT !.block = TRUE]

PanelInv == PanelTypeOK /\ PageIsOneAnswer /\ ExportWhole /\ RulesSurvive

\* The log is pruned only when somebody asked for it (config.js: "0 = keep every row forever").
RetainIsTyped == routing.retain # 0 => routing.typed

\* Not kept: a load that was asked under an older filter and lands last.
ShowsItsFilter == (\A s \in Slots : asks[s] = Nobody) => view.of = view.filter
\* Not kept: polls that overlap, or a reload between a poll and its answer.
RowsOnce == IsInjective(view.rows)
\* Not kept: a save posts the whole map, so the rule another door set meanwhile is overwritten unseen, and an
\* answer seeds the page again over what was drafted since.
OthersStand == [][\A o \in Operators : SaveRouting(o) => \A k \in Ruled :
                     DraftOf(o, k) = NoRule => k \notin DOMAIN routing.routes]_panelVars
===============================================================================
