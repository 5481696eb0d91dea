------------------------------ MODULE MCServices ------------------------------
(***************************************************************************)
(* The services around the path of a call: the log and its archive, the    *)
(* image templates, the translation, the events and the waste watcher, the *)
(* pager of the operators, the catalogs, the rows and reports of usage,    *)
(* the edges of the router, and the panel.  They share nothing but the     *)
(* process they run in, so each is run by itself: `part` is the one a      *)
(* behaviour is about, and the others stand still.                         *)
(***************************************************************************)
EXTENDS Archive, ImageTemplates, Translate, Monitoring, Catalog, Ledger, Edges

VARIABLE part

Services == {"log", "images", "speech", "signals", "watch", "catalog", "ledger", "doors", "panel"}

Row == [part |-> <<"p", "p", "p">>, chats |-> {1}, retain |-> 0, pageSize |-> 3,
        runs |-> Runs, stops |-> 0, hand |-> 0, badReads |-> 0]
FirstCron == {CHOOSE r \in Crons : TRUE}

\* Runs that die between two parts of a page; one by hand beside the schedule on a log that is pruned; a cursor
\* that cannot be read.
MCLogs == <<
    [Row EXCEPT !.part = <<"p", "q", "p">>, !.chats = {1, 3}, !.pageSize = 2, !.stops = 1, !.runs = FirstCron],
    [Row EXCEPT !.retain = 1, !.hand = 1, !.runs = FirstCron \cup ByHand],
    [Row EXCEPT !.badReads = 1, !.runs = FirstCron] >>

\* One slug whose picture changes its type on a volume that fails; two fetches of one slug that race; callers
\* that name files themselves, and a seed whose picture is not there.
MCAlbums == <<
    [slugs |-> {"s"}, exts |-> {"jpg", "png"}, jobs |-> {"j1"}, volumes |-> {"ok", "full", "readonly"},
     seed |-> [s |-> <<"s", "jpg">>], names |-> FALSE],
    [slugs |-> {"s"}, exts |-> {"jpg"}, jobs |-> {"j1", "j2"}, volumes |-> {"ok"},
     seed |-> [s |-> <<"s", "jpg">>], names |-> FALSE],
    [slugs |-> {"s", "t"}, exts |-> {"jpg"}, jobs |-> {"j1"}, volumes |-> {"ok"},
     seed |-> [s |-> NoFile], names |-> TRUE] >>

\* Conversations: every order of up to two of these pieces; answers: text, thinking, calls, and mixtures.
Txt(cc) == [kind |-> "text", cc |-> cc]
Msg(role, parts, calls, id) == [role |-> role, parts |-> parts, calls |-> calls, id |-> id, cc |-> FALSE]
Sys(cc) == Msg("system", <<Txt(cc)>>, <<>>, 0)
User(cc) == Msg("user", <<Txt(FALSE), Txt(cc)>>, <<>>, 0)
Photo == Msg("user", <<[kind |-> "remote", cc |-> FALSE]>>, <<>>, 0)
Ask == Msg("assistant", <<>>, <<1, 2>>, 0)
Say == Msg("assistant", <<Txt(FALSE)>>, <<>>, 0)
Res(i) == Msg("tool", <<Txt(FALSE)>>, <<>>, i)
Pieces == {<<Sys(FALSE)>>, <<User(FALSE), Say>>, <<User(TRUE)>>, <<Photo>>, <<Say>>,
           <<Ask, Res(1), Res(2)>>, <<Ask, Res(2), Sys(TRUE), Res(1)>>}
Talks == {FlattenSeq(s) : s \in UNION {[1..n -> Pieces] : n \in 1..2}}
Blk(kind, id, text) == [kind |-> kind, id |-> id, text |-> text]
Answers == [blocks : {<<>>, <<Blk("text", 0, <<"x", "y">>)>>,
                      <<Blk("thinking", 0, <<"h">>), Blk("text", 0, <<"x">>),
                        Blk("tool_use", 7, <<"a", "b">>), Blk("tool_use", 8, <<"c">>)>>,
                      <<Blk("tool_use", 7, <<>>), Blk("text", 0, <<"x">>), Blk("tool_use", 8, <<"c", "d">>)>>},
            stop : {"end_turn", "tool_use", "refusal", "absent"}]
Hello == [msgs |-> <<User(FALSE)>>, tools |-> <<>>, none |-> FALSE, long |-> TRUE]
Silent == [blocks |-> <<>>, stop |-> "end_turn"]
Greeting == [body |-> Hello, answer |-> Silent]
MCExchanges == [body : {Hello}, answer : Answers]
    \cup [body : [msgs : Talks, tools : {<<>>, <<FALSE, TRUE>>}, none : BOOLEAN, long : BOOLEAN],
           answer : {Silent}]

\* A map that is pruned at one entry; a consumer that burns, spikes and is bloated; a process that restarts.
Hour(b, p, c, t, y) == [billable |-> b, prompt |-> p, cachePct |-> c, toolsKb |-> t, busy |-> y]
Quiet == Hour(0, 0, 0, 0, 0)
MCDesks == <<
    [messages |-> {"a", "b"}, cap |-> 1, occurrences |-> [a |-> 3, b |-> 1], windows |-> {1, 12},
     consumers |-> {}, hours |-> {Quiet}, pauses |-> {1}, restarts |-> FALSE],
    [messages |-> {}, cap |-> 1, occurrences |-> [m \in {} |-> 0], windows |-> {}, consumers |-> {"c"},
     hours |-> {Quiet, Hour(6, 86, 0, 0, 6), Hour(6, 86, 96, 280, 2), Hour(2, 1, 0, 150, 0)},
     pauses |-> {3, 24}, restarts |-> FALSE],
    [messages |-> {"a"}, cap |-> 1, occurrences |-> [a |-> 2], windows |-> {1}, consumers |-> {"c"},
     hours |-> {Hour(6, 86, 0, 0, 2)}, pauses |-> {1}, restarts |-> TRUE] >>

\* A throttled app and a router that is away; the logins of the pool; a reading that fails and hides
\* what it would have shown; a host with a container.
Throttled == <<"state", "app">>
Usage == <<"stats", "app">>
Gpu == <<"gpu", "0">>
Post == [conditions |-> {}, logins |-> {}, standings |-> {"allowed"}, poolMin |-> 1, fails |-> {"none"},
         host |-> FALSE, containers |-> {}]
MCPosts == <<
    [Post EXCEPT !.conditions = {Throttled}, !.fails = {"none", "router", "save"}],
    [Post EXCEPT !.logins = {"a"}, !.poolMin = 0, !.standings = {"allowed", "unread", "rejected", "dead"},
                 !.fails = {"none", "accounts"}],
    [Post EXCEPT !.conditions = {Usage}, !.fails = {"none", "stats", "cookie"}],
    [Post EXCEPT !.host = TRUE, !.containers = {"x"}, !.conditions = {Gpu}, !.fails = {"none", "save"}] >>
MCFollowed == {Throttled, <<"pool-headroom">>}

\* Two logins and one sweep; one login and two sweeps that overlap; openrouter; windows; quotas.
Shop == [logins |-> {}, ids |-> {}, listed |-> [a \in {} |-> {}], pageSize |-> 1, maxPages |-> 3,
         floor |-> {}, changes |-> 0, sweeps |-> {},
         orIds |-> {}, orConfigs |-> {[key |-> FALSE, freeOnly |-> TRUE, listed |-> {}]},
         replies |-> 0, quotaReplies |-> 0, keys |-> {}, maxKeys |-> 1]
MCShops == <<
    [Shop EXCEPT !.logins = {"a", "b"}, !.ids = {1, 2, 3}, !.listed = [a |-> {1, 2}, b |-> {2}],
                 !.floor = {3}, !.changes = 1, !.sweeps = {"w"}],
    [Shop EXCEPT !.logins = {"a"}, !.ids = {1, 2, 3}, !.listed = [a |-> {1, 2}], !.floor = {3},
                 !.changes = 1, !.sweeps = {"w", "v"}, !.pageSize = 2],
    [Shop EXCEPT !.orIds = {"x", "y"},
                 !.orConfigs = [key : BOOLEAN, freeOnly : BOOLEAN, listed : {{}, {"x"}}]],
    [Shop EXCEPT !.replies = 3],
    [Shop EXCEPT !.quotaReplies = 2, !.keys = {"j", "k"}] >>

\* Calls of every caller; an answer of each dialect, streamed or not, translated or not, of a model that is dear
\* or has no price; what clients report that went to the vendor directly.
Use(i, o, r, w) == [input |-> i, output |-> o, read |-> r, write |-> w]
Native == [asked |-> "haiku", sent |-> "haiku", provider |-> "claudecode", caller |-> <<"dev", Nil>>,
           dialect |-> "anthropic", stream |-> TRUE, translated |-> FALSE, used |-> Use(2, 3, 4, 1)]
Callers == {<<"dev", Nil>>, <<"dev", "job">>, <<"dev2", Nil>>, <<"bot", "job">>, Nil}
MCCalls ==
    [asked : {"haiku"}, sent : {"haiku", "opus", "unpriced"}, provider : {"claudecode"}, caller : {<<"dev", "job">>},
     dialect : {"anthropic"}, stream : BOOLEAN, translated : BOOLEAN, used : {Use(2, 3, 4, 1), Use(1, 1, 0, 8)}]
    \cup {[Native EXCEPT !.caller = c] : c \in Callers}
    \cup {[Native EXCEPT !.caller = c, !.dialect = "openai", !.provider = "groq", !.used = Use(5, 1, 0, 0)] :
             c \in Callers}
    \cup {[Native EXCEPT !.dialect = "otel", !.caller = c] : c \in {<<"dev2", "direct">>, Nil}}
MCPrice == [haiku |-> [in |-> 1, out |-> 5], opus |-> [in |-> 5, out |-> 25]]
MCDirectory == [dev |-> [kind |-> "dev", owner |-> "ann"], dev2 |-> [kind |-> "dev", owner |-> "bob"]]

MCUi == {<<"calls">>}

\* Every lane, with the credential it carries.
Lane(p, base, token, gated) == [provider |-> p, base |-> base, token |-> token, gated |-> gated, model |-> "m"]
Lanes == {Lane("crazyrouter", "crazyrouter", "none", FALSE)}
    \cup {Lane(p, p, "key", FALSE) : p \in {"openrouter", "groq", "freeaiapikey", "claudecode"}}
    \cup {Lane("local", "pbox", t, g) : t \in {"none", "api key"}, g \in BOOLEAN}
MCErrands == Documented \cup [kind : {"call"}, route : Lanes, body : Bodies] \cup {[kind |-> "body"], [kind |-> "login"]}

\* A filter that keeps every call, and one that keeps every other.
MCMatching == [any |-> 1..LogMax, odd |-> {i \in 1..LogMax : i % 2 = 1}]


vars == <<part, archiveVars, imageVars, translateVars, signalVars, watchVars, catalogVars,
          ledgerVars, doorVars, panelVars>>

\* The service p is the one that runs; the first instance of the others stands still.
Init ==
    /\ part \in Services
    /\ ArchiveInit /\ (part = "log" \/ book = 1)
    /\ ImageInit /\ (part = "images" \/ album = 1)
    /\ SignalsInit /\ (part = "signals" \/ desk = 1)
    /\ WatchInit /\ (part = "watch" \/ post = 1)
    /\ CatalogInit /\ (part = "catalog" \/ shop = 1)
    /\ \E x \in (IF part = "speech" THEN Exchanges ELSE {Greeting}) : TranslateStart(x)
    /\ LedgerInit
    /\ \E e \in (IF part = "doors" THEN Errands ELSE {[kind |-> "body"]}) : DoorsInit(e)
    /\ \E c \in (IF part = "panel" THEN Screens ELSE {"log"}) : PanelInit(c)

InLog == part = "log" /\ UNCHANGED
    <<part, imageVars, translateVars, signalVars, watchVars, catalogVars, ledgerVars, doorVars, panelVars>>

InImage == part = "images" /\ UNCHANGED
    <<part, archiveVars, translateVars, signalVars, watchVars, catalogVars, ledgerVars, doorVars, panelVars>>

InSpeech == part = "speech" /\ UNCHANGED
    <<part, archiveVars, imageVars, signalVars, watchVars, catalogVars, ledgerVars, doorVars, panelVars>>

InSignal == part = "signals" /\ UNCHANGED
    <<part, archiveVars, imageVars, translateVars, watchVars, catalogVars, ledgerVars, doorVars, panelVars>>

InWatch == part = "watch" /\ UNCHANGED
    <<part, archiveVars, imageVars, translateVars, signalVars, catalogVars, ledgerVars, doorVars, panelVars>>

InCatalog == part = "catalog" /\ UNCHANGED
    <<part, archiveVars, imageVars, translateVars, signalVars, watchVars, ledgerVars, doorVars, panelVars>>

InLedger == part = "ledger" /\ UNCHANGED
    <<part, archiveVars, imageVars, translateVars, signalVars, watchVars, catalogVars, doorVars, panelVars>>

InDoors == part = "doors" /\ UNCHANGED
    <<part, archiveVars, imageVars, translateVars, signalVars, watchVars, catalogVars, ledgerVars, panelVars>>

InPanel == part = "panel" /\ UNCHANGED
    <<part, archiveVars, imageVars, translateVars, signalVars, watchVars, catalogVars, ledgerVars, doorVars>>

LogNext == InLog /\ ArchiveNext

ImageSteps == InImage /\ ImageNext

SpeechSteps == InSpeech /\ TranslateNext

SignalSteps == InSignal /\ SignalNext

WatchSteps == InWatch /\ WatchNext

CatalogSteps == InCatalog /\ CatalogNext

LedgerSteps ==
    /\ InLedger
    /\ \/ \E c \in LedgerCalls : Answer(c) \/ Ingest(c)
       \/ UsageFrame \/ Ended \/ BreaksOff \/ ClearLedger

DoorsSteps ==
    /\ InDoors
    /\ \/ Chunk \/ BodyEnds \/ BodyAborted \/ ClockTicks
       \/ \E v \in Visitors : Login(v)

PanelSteps ==
    /\ InPanel
    /\ \/ CallLogged \/ ToggleLive
       \/ \E s \in Slots :
             \/ \E g \in DOMAIN Matching : SetFilter(s, g)
             \/ \E off \in 0..LogMax : Load(s, off)
             \/ Poll(s) \/ Served(s) \/ LoadLands(s) \/ TickLands(s) \/ AskFails(s)
             \/ ClearCalls(s)
       \/ BeginExport \/ ExportReads \/ ExportUnread \/ LogCleared
       \/ \E o \in Operators :
             \/ \E k \in Ruled :
                   \/ \E p \in Pins : PickPin(o, k, p) \/ RouteSet(k, p)
                   \/ PickBlock(o, k) \/ \E p \in RuleProviders : ToggleProvider(o, k, p)
                   \/ \E m \in RuleModels : ToggleModel(o, k, m)
             \/ SaveRouting(o) \/ EditLimit(o) \/ SaveLimits(o) \/ Reseed(o)
             \/ ToggleContent(o) \/ SaveLogging(o) \/ \E n \in {0, 100} : TypeRetain(o, n)

Next ==
    \/ LogNext \/ ImageSteps \/ SpeechSteps \/ SignalSteps \/ WatchSteps \/ CatalogSteps
    \/ LedgerSteps \/ DoorsSteps \/ PanelSteps

Spec == Init /\ [][Next]_vars

\* Once started a scheduled run of the archive goes on, and the schedule starts another.  The timer of the
\* pager fires and its runs end; the disk has room again and again, and a channel that is used again and again
\* about a condition gets through some day.
FairSpec ==
    /\ Spec
    /\ \A r \in Crons : WF_vars(InLog /\ CronStep(r))
    /\ WF_vars(InLog /\ \E r \in Crons : StartCron(r))
    /\ WF_vars(InWatch /\ TimerFires)
    /\ WF_vars(InWatch /\ \E fail \in po.fails : Sample(fail))
    /\ SF_vars(InWatch /\ Save)
    /\ WF_vars(InWatch /\ (PageArrives \/ PageLost))
    /\ \A c \in Followed : SF_vars(InWatch /\ c \in Holding /\ PageArrives)
=============================================================================
