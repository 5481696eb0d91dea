-------------------------------- MODULE Ledger --------------------------------
(***************************************************************************)
(* What a row of the call log says of a call, and what the reports make of *)
(* the rows.  An upstream states what a call used in the dialect it speaks *)
(* and in one frame or several, of which a broken answer delivers only     *)
(* some; the proxy normalises what arrived and logs it (src/telemetry.js,  *)
(* src/http.js, src/translate.js, src/db.js).  Calls that never came here  *)
(* are reported by their client (src/otel.js).  The panel reads the log    *)
(* through the rollups of src/analytics.js, the prices of src/pricing.js,  *)
(* the filters of src/calllog.js and the quota query of src/routing.js.    *)
(*                                                                         *)
(* A usage is a function on the fields that were stated; a column nobody   *)
(* stated is Nil, the NULL of the table.                                   *)
(***************************************************************************)
EXTENDS Integers, FiniteSetsExt, SequencesExt, Functions

CONSTANTS
    LedgerCalls,   \* the calls made: model asked, model sent, provider, caller, dialect, and what they use
    MaxRows,       \* bound on the rows of the log
    ListPrice,     \* MODEL_COST, in twentieths of the input price of the cheapest: model |-> [in, out]
    Premium,       \* the models of a premium tier
    Directory,    \* CFG.consumers: consumer |-> [kind, owner], the owner Nil unless a person has it
    TopSeries,     \* how many series a chart shows (8 in the code)
    Nil

\* Counts and prices are numbers, a caller is a pair, and Nil is none of these; what claudecode answers it states
\* in Anthropic's words.
ASSUME LedgerAssumption ==
    /\ Nil \notin Nat
    /\ \A c \in LedgerCalls :
          /\ c.used \in [input : Nat, output : Nat, read : Nat, write : Nat]
          /\ c.stream \in BOOLEAN /\ c.translated \in BOOLEAN
          /\ c.provider = "claudecode" => c.dialect \in {"anthropic", "otel"}
          /\ LET a == c.caller
             IN a # Nil => /\ a = <<a[1], a[2]>> /\ a[2] \notin {"bare", "jobless"}
                           /\ Nil \notin {a[1]} \X {"bare", "jobless", Nil}
    /\ \A m \in DOMAIN ListPrice : ListPrice[m].in \in Nat /\ ListPrice[m].out \in Nat

VARIABLES
    ledger,   \* the rows of `calls`, oldest first; `said` is what the upstream had stated when it was written
    feed      \* the answer being read: the call, the frames to come, and the usage merged so far

ledgerVars == <<ledger, feed>>
NoFeed == [call |-> Nil]
Fields == {"input", "output", "read", "write", "prompt", "completion", "total"}
Of(u, f) == IF f \in DOMAIN u THEN u[f] ELSE 0
Column(u, f) == IF f \in DOMAIN u THEN u[f] ELSE Nil
Zero(n) == IF n = Nil THEN 0 ELSE n
AtLeast0(n) == IF n < 0 THEN 0 ELSE n
Over(u, v) == [f \in DOMAIN u \cup DOMAIN v |-> IF f \in DOMAIN u THEN u[f] ELSE v[f]]
NoUsage == [f \in {} |-> 0]

\* The frames an answer states its usage in: Anthropic gives the input first and the output with the last event;
\* the others give everything at the end.
Frames(c) ==
    LET all == [input |-> c.used.input, read |-> c.used.read, write |-> c.used.write, output |-> c.used.output]
    IN CASE c.dialect = "anthropic" /\ c.stream -> <<[all EXCEPT !.output = 1], [output |-> c.used.output]>>
         [] c.dialect = "anthropic" /\ ~c.stream -> <<all>>
         [] OTHER -> <<[prompt |-> c.used.input, completion |-> c.used.output,
                        total |-> c.used.input + c.used.output]>>

\* Defect: the cache classes are not taken for input.
DefectNormalizeUsage(u) ==
    IF {"prompt", "completion"} \cap DOMAIN u # {} \/ {"input", "output"} \cap DOMAIN u = {} THEN u
    ELSE Over([prompt |-> Of(u, "input"), completion |-> Of(u, "output"),
               total |-> Of(u, "input") + Of(u, "output")], u)

\* normalizeUsage: a usage in Anthropic's words gets the three counts of OpenAI's; the cache classes are input too.
NormalizeUsage(u) ==
    IF {"prompt", "completion"} \cap DOMAIN u # {} \/ {"input", "output"} \cap DOMAIN u = {} THEN u
    ELSE LET inp == Of(u, "input") + Of(u, "write") + Of(u, "read")
             out == Of(u, "output")
         IN Over([prompt |-> inp, completion |-> out, total |-> inp + out], u)

\* usageToOpenai: what a translated answer says of its usage.
UsageToOpenai(u) ==
    LET inp == Of(u, "input") + Of(u, "read") + Of(u, "write")
    IN [prompt |-> inp, completion |-> Of(u, "output"), total |-> inp + Of(u, "output"),
        read |-> Of(u, "read"), write |-> Of(u, "write")]

\* recordCall: the columns of a row.
RowOf(c, u, said) ==
    [asked |-> c.asked, sent |-> c.sent, provider |-> c.provider, caller |-> c.caller, direct |-> FALSE,
     prompt |-> Column(u, "prompt"), completion |-> Column(u, "completion"), total |-> Column(u, "total"),
     read |-> Column(u, "read"), write |-> Column(u, "write"), said |-> said]
Logged(r) == ledger' = Append(ledger, r) /\ feed' = NoFeed

Answer(c) ==
    /\ feed = NoFeed /\ Len(ledger) < MaxRows /\ c.dialect # "otel"
    /\ feed' = [call |-> c, frames |-> Frames(c), usage |-> NoUsage]
    /\ UNCHANGED ledger

\* mergeUsage, and message_start and message_delta of the translator: a later frame goes over an earlier one.
UsageFrame ==
    /\ feed # NoFeed /\ feed.frames # <<>>
    /\ feed' = [feed EXCEPT !.usage = Over(Head(feed.frames), @), !.frames = Tail(@)]
    /\ UNCHANGED ledger

\* The answer is over: a native one is read from the bytes kept, a translated stream keeps three of the counts.
Ended ==
    /\ feed # NoFeed /\ feed.frames = <<>>
    /\ LET c == feed.call
           u == feed.usage
           t == UsageToOpenai(u)
       IN Logged(RowOf(c, CASE ~c.translated -> NormalizeUsage(u)
                            [] c.translated /\ c.stream -> [f \in {"prompt", "completion", "total"} |-> t[f]]
                            [] OTHER -> t, u))

\* The upstream breaks off.  A native stream logs what it had merged, a body that is not whole parses to nothing;
\* a translated answer throws out of proxy() and leaves no row.
BreaksOff ==
    /\ feed # NoFeed /\ feed.frames # <<>>
    /\ IF feed.call.translated THEN feed' = NoFeed /\ UNCHANGED ledger
       ELSE LET u == IF feed.call.stream THEN feed.usage ELSE NoUsage
            IN Logged(RowOf(feed.call, NormalizeUsage(u), u))

\* otlpRows, ingest: an event of a client that went to the vendor directly becomes a row.
Ingest(c) ==
    /\ feed = NoFeed /\ Len(ledger) < MaxRows /\ c.dialect = "otel"
    /\ ledger' = Append(ledger,
         [RowOf(c, [prompt |-> c.used.input, completion |-> c.used.output,
                    total |-> c.used.input + c.used.output, read |-> c.used.read, write |-> c.used.write],
                c.used) EXCEPT !.direct = TRUE])
    /\ UNCHANGED feed

ClearLedger == ledger # <<>> /\ ledger' = <<>> /\ UNCHANGED feed

LedgerInit == ledger = <<>> /\ feed = NoFeed
LedgerNext ==
    \/ \E c \in LedgerCalls : Answer(c) \/ Ingest(c)
    \/ UsageFrame \/ Ended \/ BreaksOff \/ ClearLedger

LedgerSpec == LedgerInit /\ [][LedgerNext]_ledgerVars

(* ------------------------------- the reports ------------------------------ *)
Rows == DOMAIN ledger
One == [i \in Rows |-> 1]

\* The tokens of a row that drain a window: usageRollup and seriesHistory, then the quota of projectUsage.
\* GREATEST ignores a NULL, so a sum that is NULL counts as 0.
Billable ==
    [i \in Rows |-> LET r == ledger[i] IN IF Nil \in {r.total, r.read} THEN 0 ELSE AtLeast0(r.total - r.read)]
QuotaTokens == [i \in Rows |-> AtLeast0(Zero(ledger[i].total) - Zero(ledger[i].read))]

\* usageRollup: the rows that name a caller, by kind, by person, by consumer and by job.
Named == {i \in Rows : ledger[i].caller # Nil}
ConsumerOf(i) == ledger[i].caller[1]
JobOf(i) == ledger[i].caller[2]
KindOf(i) == IF ConsumerOf(i) \in DOMAIN Directory THEN Directory[ConsumerOf(i)].kind ELSE "unregistered"
Where(S, g(_)) == [v \in {g(i) : i \in S} |-> {i \in S : g(i) = v}]
ByKind == Where(Named, KindOf)
ByConsumer == Where(Named, ConsumerOf)
JobsOf(c) == Where({i \in ByConsumer[c] : JobOf(i) # Nil}, JobOf)

\* seriesHistory by owner: the series of the people, the rest of them folded, and what belongs to nobody.
OwnerOf(i) == Directory[ConsumerOf(i)].owner
Owned == {i \in Named : KindOf(i) = "dev" /\ OwnerOf(i) # Nil}
Excluded == Rows \ Owned
Ranked == SetToSortSeq({OwnerOf(i) : i \in Owned},
                       LAMBDA a, b : SumFunctionOnSet(Billable, Where(Owned, OwnerOf)[a])
                                     > SumFunctionOnSet(Billable, Where(Owned, OwnerOf)[b]))
Shown == {Ranked[k] : k \in 1..(IF Len(Ranked) < TopSeries THEN Len(Ranked) ELSE TopSeries)}
SeriesKey(i) == IF OwnerOf(i) \in Shown THEN OwnerOf(i) ELSE "other"

\* Defect: a model whose price is not known costs nothing.
DefectListCost(m, p, c, r, w) ==
    IF m \notin DOMAIN ListPrice THEN 0
    ELSE AtLeast0(p - r - w) * 20 * ListPrice[m].in + r * 2 * ListPrice[m].in + w * 25 * ListPrice[m].in
         + c * 20 * ListPrice[m].out

\* listCostUsd on the sums of one group: a read costs a tenth, a write a quarter more, an unknown model is Nil.
ListCost(m, p, c, r, w) ==
    IF m \notin DOMAIN ListPrice THEN Nil
    ELSE AtLeast0(p - r - w) * 20 * ListPrice[m].in + r * 2 * ListPrice[m].in + w * 25 * ListPrice[m].in
         + c * 20 * ListPrice[m].out
Sum(f, S) == SumFunctionOnSet([i \in Rows |-> Zero(ledger[i][f])], S)
CostOf(m, S) == ListCost(m, Sum("prompt", S), Sum("completion", S), Sum("read", S), Sum("write", S))

\* foldServedByModel: one line of the panel is a model asked of one provider, priced per model that served it.
Line(i) == <<ledger[i].asked, ledger[i].provider>>
SentOf(i) == IF ledger[i].sent = Nil THEN ledger[i].asked ELSE ledger[i].sent
FoldServedByModel(l) ==
    LET groups == Where({i \in Rows : Line(i) = l}, LAMBDA i : <<ledger[i].sent, ledger[i].caller>>)
        model(g) == IF g[1] = Nil THEN l[1] ELSE g[1]
        costs == [g \in DOMAIN groups |-> CostOf(model(g), groups[g])]
    IN [premium |-> \E g \in DOMAIN groups : model(g) \in Premium,
        listUsd |-> IF l[2] # "claudecode" THEN 0
                    ELSE IF \E g \in DOMAIN groups : costs[g] = Nil THEN Nil
                    ELSE SumFunction(costs)]

\* Defect: a row whose upstream said nothing of the cache is on neither side.
DefectCached(on) == {i \in Rows : ledger[i].read # Nil /\ (IF on THEN ledger[i].read > 0 ELSE ledger[i].read = 0)}

\* listCalls: the facets that are on, off or not asked for, and the three ways to name a caller.
Cached(on) == {i \in Rows : IF on THEN Zero(ledger[i].read) > 0
                            ELSE ledger[i].read = Nil \/ ledger[i].read = 0}
OfProject(q) ==
    {i \in Rows :
        IF q = Nil THEN ledger[i].caller = Nil
        ELSE CASE q[2] = "bare" -> i \in Named /\ ConsumerOf(i) = q[1]
               [] q[2] = "jobless" -> ledger[i].caller = <<q[1], Nil>>
               [] OTHER -> ledger[i].caller = q}

(* ------------------------------- properties ------------------------------- *)
LedgerTypeOK ==
    /\ \A i \in Rows : /\ {ledger[i][f] : f \in {"prompt", "completion", "total", "read", "write"}} \subseteq Nat \cup {Nil}
                       /\ DOMAIN ledger[i].said \subseteq Fields
    /\ feed # NoFeed => DOMAIN feed.usage \subseteq Fields

\* A row counts each token the upstream stated once: a prompt is the fresh input and both cache classes, from
\* whatever frames arrived before an answer broke off.
RowsCountOnce ==
    \A i \in Rows : LET r == ledger[i] IN
        (~r.direct /\ "input" \in DOMAIN r.said) =>
            /\ r.prompt = r.said.input + r.said.read + r.said.write
            /\ r.total = r.prompt + r.said.output

\* The list price of a line is what its calls cost, each class of tokens at its own rate where the row has the
\* breakdown, all of the prompt at the input rate where it has not (pricing.js: "correct when there is no caching
\* to account for"); no line with a model whose price is not known states a price.
CallCost(i) ==
    LET s == ledger[i].said
        kept(f) == IF ledger[i][f] = Nil THEN 0 ELSE Of(s, f)
    IN ListCost(SentOf(i), Of(s, "input") + Of(s, "read") + Of(s, "write"), Of(s, "output"), kept("read"), kept("write"))
ListCostIsExact ==
    \A i \in Rows :
        LET l == Line(i)
            rows == {k \in Rows : Line(k) = l}
            cost == FoldServedByModel(l).listUsd
        IN (l[2] = "claudecode" /\ \A k \in rows : ~ledger[k].direct) =>
               IF \E k \in rows : SentOf(k) \notin DOMAIN ListPrice THEN cost = Nil
               ELSE cost = SumFunctionOnSet([k \in Rows |-> CallCost(k)], rows)

\* A line on which any call ran a premium model is marked so, whatever it was asked for.
PremiumShows == \A i \in Rows : SentOf(i) \in Premium => FoldServedByModel(Line(i)).premium

\* Nothing is counted twice or lost between the rollups of one answer: the kinds and the consumers hold the same
\* calls, the jobs of a consumer no more than the consumer, the series and what is excluded every row.
RollupsConserve ==
    /\ \A count \in {One, Billable} :
          LET all(by) == SumFunction([v \in DOMAIN by |-> SumFunctionOnSet(count, by[v])])
          IN /\ all(ByKind) = all(ByConsumer)
             /\ \A c \in DOMAIN ByConsumer : all(JobsOf(c)) <= SumFunctionOnSet(count, ByConsumer[c])
    /\ LET series == Where(Owned, SeriesKey)
       IN Cardinality(Rows) = Cardinality(Excluded) + SumFunction([k \in DOMAIN series |-> Cardinality(series[k])])

\* A facet and its opposite split the log, and a consumer's filter is its jobs' and its jobless calls' together.
FiltersSplit ==
    /\ Cached(TRUE) \cup Cached(FALSE) = Rows /\ Cached(TRUE) \cap Cached(FALSE) = {}
    /\ OfProject(Nil) = Rows \ Named
    /\ \A i \in Named : LET c == ConsumerOf(i) IN
          OfProject(<<c, "bare">>) = OfProject(<<c, "jobless">>)
                                     \cup UNION {OfProject(<<c, j>>) : j \in DOMAIN JobsOf(c)}

LedgerInv == LedgerTypeOK /\ RowsCountOnce /\ ListCostIsExact /\ PremiumShows /\ RollupsConserve /\ FiltersSplit

\* What the report calls billable is what the quota charges (analytics.js: "routing.js already quotas on exactly
\* this expression").
BillableIsQuota ==
    \A c \in DOMAIN ByConsumer :
        SumFunctionOnSet(Billable, ByConsumer[c]) = SumFunctionOnSet(QuotaTokens, ByConsumer[c])
===============================================================================
