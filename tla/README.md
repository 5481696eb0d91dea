# llm-hostbun-router in TLA+

A verification development of the router in this repository: one event loop that takes LLM
calls, decides who is calling, which upstream and which login serve the call, paces and admits
it, forwards it, logs it, and keeps the registry and the configuration an operator edits while
calls are in flight; and of the jobs that run beside it. The router is one process, so nothing
in it runs in parallel, and still almost every handler is interrupted: at each `await` any other
handler may run. The models are about those interruptions, and about what the functions between
them compute.

Paths are relative to the repository root; `gate.js` and the like are under `src/`, while
`server.js`, `translate.js`, `monitor/` and `archive/` stand beside it.

## 1. Inventory

| Component | Source | State | Operations | Hard behaviour |
|---|---|---|---|---|
| Admission gate | `gate.js` | `active`, queue, a promise and a `released` flag per call | `admit`, `pump`, `run`, `release` | grant, hang-up, timer, throw and end of response in any order |
| Account pool, selection | `routing.js` 270-503, `accounts.js`, `claudecode.js` 186-231, `db.js` 92-147 | pool, `disabled`, tokens, `ACCT_DEAD`, `ACCT_COOL`, `ACCT_CACHE`, pins, strategy | `accountFor`, pin, import, rotate, disable, remove, probe, sweep | probes answer after the pool has changed |
| Account failover | `accountfailover.js`, `http.js` 280-400, `server.js` 500-529 | per call: login, tried logins, attempt in flight | choose, send, retry on 429, book the result | several calls cool, park and un-cool the same logins |
| App creation | `consumers.js` 189-271 | `projectRoutes`, `projectAccounts`, per call `prev`, `had` | rule, key, pin, client lock, rollback | partial failure, other writers between the awaits |
| Consumer registry | `registry.js`, `db.js` 76-90, `config.js` 552-580, `identity.js` | tables of consumers, keys, aliases; their projection in `CFG` | add, remove, issue, revoke, alias, `refresh` | statements of several handlers interleave, reads fail, replies get lost |
| Identity | `identity.js` | key index, aliases, client locks | authenticate, normalise, register | what it reads was projected earlier |
| Request pipeline | `server.js` 297-560 | one call | authenticate, resolve, refuse, pace, dispatch | decisions before the waits, used after them |
| Route resolution | `routing.js` 1-180, 505-566 | `CFG` | `resolveRoute`, `projectRule`, `enforceAllow` | many overlapping rules |
| Usage limits, back-pressure | `routing.js` 129-265 | usage cache, `APP_THROTTLE` | `usageVerdict`, `note429`, `note2xx` | check before act, five-second cache |
| Proxy | `http.js` 235-481 | one call | build, fetch, translate, pipe, record | endings of a response |
| JSON enforcement | `jsonenforce.js` | one call | call, validate, re-prompt | bounded retries, rewritten bodies |
| Protocol translation | `translate.js` | stream translator | both directions | chunk boundaries, alternation of roles |
| Configuration store | `config.js`, `config-schema.js` | `CFG`, its file, the key index | merge, load, persist, reset | crash between mutation and persist, wholesale saves |
| Model catalog | `claudecode.js` 40-130, `openrouter.js` | advertised ids, openrouter's table | sweep, refresh, patch | lists change under a sweep, sweeps overlap |
| Vendor quota cache | `quota.js` | readings by key | record | cap on keys |
| Image templates | `imagetemplates.js` | templates, pictures on a volume | save, fetch, remove, render, seed | record and picture are written apart |
| Admin API | `admin.js` | session epoch, login throttle | every operator endpoint | wholesale saves against merges |
| Front doors | `server.js` 90-300 | none | which handler a path reaches | overlapping tests in a row |
| Call log, storage | `db.js`, `calllog.js` | Postgres | insert, list, export, prune, clear | swallowed errors, out-of-order commits |
| Archive job | `archive/archiver.js`, `run.sh` | cursor, bucket | page, put, verify, commit | killed runs, runs that race |
| Waste and premium alerts | `alert.js`, `waste.js` | cooldowns, baseline | scan, watch | armed before delivered |
| Telemetry | `telemetry.js`, `otel.js` | suppression map | ship, suppress, ingest | a map at its cap |
| Analytics, diagnostics | `analytics.js`, `diagnostics.js`, `pricing.js` | none | rollups, series, test call | NULL columns, dialects |
| Admin panel | `panel/components/panel/` | copies of what was answered | poll, load, draft, save | answers in any order |
| Operator tools | `monitor/throttle-watch.py`, `headroom-svc/` | state file | sample, save, page | save and page may each fail |

How they interact: `server.js` opens a door, authenticates against the registry's projection,
resolves a route, asks the quota and the throttle, asks the pool for a login, and hands the call
to the gate, whose `work` is the proxy or JSON enforcement. The proxy calls the failover on a
429. Proxy, failover, JSON enforcement, probes and the operator all write the marks the account
selection reads. Registry handlers and `createApp` write Postgres and then `refresh()` into the
`CFG` everything else reads. Reports, the archive, the watcher and the panel read the log the
calls leave.

What makes each correct:

- **Gate**: slots are conserved; none idles while somebody queues; arrival order; no slot
  outlives its response.
- **Selection**: a pick is never parked or gone; the selector does not run dry; dead logins
  leave the rotation and revived ones come back.
- **Failover**: bounded tries, no repetition, honest attribution, every call answered.
- **Pipeline**: one configuration decides who, whether and where; a cap counts every job it is
  on; one row for every call; free lanes before metered ones; pacing that was earned.
- **Store, app creation**: what is saved survives a boot; what was revoked stays revoked; a
  create that fails leaves nobody's rule changed.
- **Registry**: a key is its consumer's and nobody else's; a good key goes on working; a
  revoked one does not; aliases neither shadow nor dangle.
- **Services**: nothing the log has is lost to the archive; templates name pictures that are
  there; a stream says what the answer says; findings and pages reach people; catalogs are
  whole; rows count once in every report; the same call reads the same on the wire whoever
  sends it; a page shows one answer, and a draft keeps what others saved.

## 2. Modules

| Module | Models | Uses |
|---|---|---|
| `Admission` | abstract: a counting semaphore that never idles while somebody waits | |
| `Gate` | `gate.js`, and the endings of `proxy()` it depends on | `Admission` (refinement) |
| `Accounts` | the pool, the selection, the operator's endpoints, probes and sweeps | |
| `Failover` | calls to `claudecode` and their retries over that pool | `Accounts` |
| `Registry` | the registry's handlers, statement by statement, and `refresh()` | |
| `Routing` | `resolveRoute` as a function of the configuration | |
| `Limits` | caps, counts and back-pressure | |
| `Pipeline` | a call from its body to its row | `Routing`, `Limits` |
| `ConfigStore` | `CFG`, its file, sessions, the rules and `createApp` | |
| `Archive` | the call log and the job that copies it | |
| `ImageTemplates`, `Translate`, `Signals`, `Watch`, `Catalog`, `Ledger`, `Doors`, `Panel` | one service each | |
| `Monitoring` | what watches: the events in the router and the pager beside it | `Signals`, `Watch` |
| `Edges` | what a caller and an operator see: the doors and the panel | `Doors`, `Panel` |
| `MC*` | values of the constants for TLC; `MCServices` runs the services side by side | |
| `*Proofs` | theorems (section 5) | the module they are about, TLAPS |

Operators named `Defect...` are slips a change to the code could make (a dropped guard, a
missing reset, a swapped order); each stands before the definition it would replace and is not
part of any specification. They show that a property would notice.

**Gate.** A request is a call of `run`. An action is one turn of the event loop. A promise that
has been resolved (`verdict`) and the code after its `await` (`Resume`) are two steps, and
anything may run between them: `gate.js:169` exists for that window. `HangUp` is possible at any
time, before `run()` too. `queue` keeps the waiters that are settled until `pump` shifts them, as
the array does. `OnClose` finds whichever listener is registered when the event fires: the
waiter's, the release, or none. Names of requests are used again once nothing refers to them
(`Recycle`), so the arrivals are unbounded.

**Accounts and Failover.** A token is a generation number; what is cancelled is a
`<<login, token>>`. A reading keeps what the selection tells apart: whether the window is spent,
how much is left, the rank of its reset. Clocks are abstracted to "may end now" (`CoolEnds`,
`Roll`). Probes carry the entry they were given, token included, and write what they learn under
its name, as `refreshAccountLimits(acct)` does. In `Failover` the answer of one attempt, the
choice of the next login and its send are one step, because there is no `await` between them;
reading the body of a 403 is a step of its own (`Sniffed`).

**Registry.** One action is one SQL statement together with what the handler does with its
result. `snap` is what a `refresh()` has read so far; `Project` replaces the projection. A scene
says how many handlers are in flight, how many rows there may be, which operations and which
faults: reads that fail (`dbRows` answers "no rows", `refresh` keeps the old projection),
statements that fail, replies lost after the write. `issuedFor` is a history variable.

**Pipeline.** A call is a record; its place (`pc`) is the wait it is in. Everything up to
`Decide` is one instant, as in `server.js`; after it come the count, the slowdown, the pacing,
the compressor and the slot, and the configuration in force (`now`) may be edited during each.
`lived` remembers the configurations a call has seen, which is all the properties compare with.

**ConfigStore.** `cfg` and `file` are the two copies; `index` is `KEY_INDEX`, `page` an open
panel, `db` what the registry has for the apps that are made. `createApp` is one action between
two awaits. A write may fail (`writable`), a crash may tear the file (`Torn`).

**Services.** They share nothing but the process, so `MCServices` runs each alone (`part`).
`Archive`: a row takes its id when its insert starts and is seen when it commits. `ImageTemplates`:
a file is named by slug and type. `Translate`: texts are opaque; the upstream is at a part of a block (`at`) and chunks cut its
frames anywhere.
`Signals`: hours instead of clocks. `Watch`: rounds instead of clocks. `Catalog`: ids are numbers
in the order of the list, so a page is an interval of it. `Ledger`: a call is what it used; the
dialects and the reports over them are functions. `Doors`: a path is its segments; a body is the
set of things the senders tell apart. `Panel`: a view is the rows and the filter it shows.

## 3. Runs

| Run | Properties | Instance |
|---|---|---|
| `gate_safety` | `IInv`, `ConnectedWorkBound`, `FirstComeFirstServed`, `ImplementsAdmission` | four posts and a read, two slots, two seats |
| `gate_live` | `SlotReturned`, `WaiterAnswered` | three posts, one slot, one seat |
| `accounts_pool` | `AccountsInv`, `PickIsLive` | two logins, every operator endpoint, single probes, refusals, a rotation |
| `accounts_live` | `NeverDry`, `DeadLoginParked`, `RevivedIsUsed` | two logins, three readings, sweeps, cancellations, a rotation |
| `failover` | `FailoverInv`, `EveryCallAnswered`, `DryMeansDry`, `AttemptIsLive`, `NextCallHops` | one call after the other, three logins, two tries, cancellations, other callers' 429s |
| `pipeline` | `PipelineInv`, `AdmittedUnderOneConfig`, `PacingIsEarned`, `FreeBeforePaid`, `CapCountsEveryJob`, `EveryCallEnds` | five plays: two calls under a cap; caps edited; five configurations edited twice; logins switched off; the routing chain |
| `registry` | `RegistryInv`, `LiveKeyKeepsWorking` | three scenes: one handler at a time and three rows; the same with every fault and two rows; two handlers at once (remove, issue, revoke), no faults |
| `store` | `StoreInv`, `RestartKeeps`, `LoggedOutStaysOut`, `KeyedUnderRule`, `FailureRestoresRules`, `OnlyItsOwnRule` | four scenes: creates that fail, sessions and boots, pins and an open panel, a volume that stops taking writes; one maker, two apps |
| `services` | `ArchiveInv`, `ArchivedInTheEnd`, `ImagesInv`, `TranslateInv`, `MonitoringInv`, `NeverForgotten`, `CatalogInv`, `SweepsAreWhole`, `LedgerInv`, `EdgesInv` | the instances of each service in `MCServices` |
| `failover_blame` | `BlamesTheDead` (violated) | one call, three logins, a cancellation |
| `registry_overlap` | `RevokedIsDead` (violated) | two handlers, no faults |
| `store_logout` | `LogoutIsFinal` (violated) | logout, reset, boot |

`services` is one run because its parts do not touch each other: a behaviour is about one part,
and the state space is the sum of theirs. `MonitoringInv` is `SignalsInv` and `WatchInv`,
`EdgesInv` is `DoorsInv` and `PanelInv`.

Why the bounds are enough: the interesting cases need a full queue behind full slots with a
settled waiter inside it (five callers, two slots, two seats); a login that refused, one that is
tried next and one that is left (three logins); a name that is removed and registered again while
another handler holds the old id (two names, two rows, two handlers); a cap on an app and another
on its job, with two calls between count and row; a configuration saved twice in the waits of one
call; a page of two rows of two partitions and a third row that commits late (three rows); two
sweeps over a list that changes once. The play of the chain takes every way an id is claimed
(keys, list, catalogue, policy: 3 x 2^4 x 3) under every one of five policies above it. Symmetry
is used for interchangeable callers, keys, handlers and names, in safety runs only.

`failover` has fewer tries than logins, so that the bound and not always the pool ends the loop;
when all three are parked or cooling, the pool does. It parks logins by cancellation; the
operator's disabling is in `accounts_pool`. `OrgsTrue` is checked where error answers carry no
windows (`HeadersOn`): after a retry, `http.js:392` would file theirs under the first login.
`KeyedUnderRule` is about scenes in which nobody clears rules, posts stale maps or resets: an
operator who clears a rule asked for it. `CHECK_DEADLOCK` is off in `services` and `store_logout`
because a service whose inputs are used up stops, as does a session scene.

## 4. Fairness

- `Gate!Fairness`: continuations of promises run; `work` ends because the header timeout ends
  it; a body ends or errors (the `fetch` of Node errors a body that stays silent); an ended
  response is flushed. Nobody is assumed to hang up, and only `WaiterAnswered` relies on the wait
  timers (`TimersFire`).
- `AccountsFairness`: the sweep's interval fires, every probe ends (it has a timeout of its
  own), and a login probed for ever is some time answered (strong fairness).
- `Failover!FairSpec`: every attempt ends, by the abort timers. `Pipeline!FairSpec`: a call that
  can go on does; counts, sleeps and upstreams end by their timers.
- `ConfigStore!FairSpec`, for `store_logout`: deploys happen, handlers go on.
- `MCServices!FairSpec`: a scheduled run of the archive goes on once started and the schedule
  starts another; the watcher's timer fires and its runs end. Strong fairness for `Save` (the
  disk has room again and again) and for a page about a condition that stays (a channel that is
  used again and again gets through some day).

The safety properties rest on none of this.

## 5. Proofs

Everything below is proved for every value of the constants that satisfies the named
assumptions, and by induction over steps: an invariant `I` is found with `Init => I` and
`I /\ [Next]_vars => I'`, and the property follows from it. None of these modules has a
recursive operator.

| Module | Theorem | Statement (`=>` from the module's specification) |
|---|---|---|
| `GateProofs` | `GateInvariant` | `[]IInv` |
| | `GateSlotAccounting`, `GateNoIdleSlot`, `GateNoLeakOnClose`, `GateConnectedWorkBound` | one conjunct or consequence of `IInv` each |
| | `GateFirstComeFirstServed` | the action property of `gate_safety` |
| | `GateImplementsAdmission` | every step is one of `Admission`'s, or a stutter |
| `FailoverProofs` | `PoolSound`, `PickAlwaysLive`, `SelectorNeverDry` | `[]AccountsInv`, `[]PickIsLive`, `[]NeverDry` |
| | `FailoverHolds`, `FailoverSound` | `[]FailoverInductive`; `[]FailoverInv` if `"error" \notin HeadersOn` |
| | `AttemptsAreLive`, `DryIsDry`, `NextCallMovesOn` | the action properties of `failover` |
| `RegistryProofs` | `RegistryInductive`, `RegistryHolds` | `[]Inductive`, `[]RegistryInv` |
| | `RegistryLiveKeyKeepsWorking` | the action property of `registry` |
| `ConfigStoreProofs` | `StoreHolds`, `StoreSound`, `BootsKeep`, `LoggedOutIsOut` | `[]StoreInductive`, `[]StoreInv`, `[]RestartKeeps`, `[]LoggedOutStaysOut` |
| | `FailuresRestore`, `RulesOfItsOwn` | `FailureRestoresRules`, `OnlyItsOwnRule` |
| | `KeysUnderRules` | `KeyedUnderRule`, where creates come one at a time or none fails |
| `PipelineProofs` | `PipelineHolds`, `PipelineSound`, `OneConfigDecides`, `PacingEarned`, `FreeFirst` | `[]PipelineInductive` and the invariants of `pipeline` |
| | `CapsCount` | `CapCountsEveryJob` |
| `TranslateProofs` | `TranslateHolds`, `TranslateSound` | `[]StreamIInv`, `[]TranslateInv` |
| `ServicesProofs` | `ArchiveHolds`, `ArchiveSound` | `[]ArchiveInductive`, `[]ArchiveInv` |
| | `ImagesHold`, `ImagesSound` | `[]ImageInductive`, `[]ImagesInv` |
| | `WatchHolds`, `WatchSound` | `[]WatchInductive`, `[]WatchInv` |
| | `CatalogHolds`, `CatalogSound`, `SweepsWhole` | `[]CatalogInductive`, `[]CatalogInv`, `SweepsAreWhole` |
| | `SignalsHold`, `SignalsSound`, `MonitoringSound` | `[]SignalsInductive`, `[]SignalsInv`, `[]MonitoringInv` |
| | `LedgerHolds`, `LedgerSound` | `[]LedgerInductive`, `[]LedgerInv` |
| `EdgesProofs` | `DoorsHolds`, `DoorsSound` | `[]DoorsInductive`, `[]DoorsInv` |
| | `PanelHolds`, `PanelSound`, `EdgesSound` | `[]PanelInductive`, `[]PanelInv`, `[]EdgesInv` |

**Gate** (`GateAssumption`: `Limit` a number, `QueueMax` a positive one, `Reads` among the
requests, which need not be finite). `SlotAccounting` alone is not inductive. A release pumps the
queue, so it must be known that a waiter holds no slot yet and that no waiter has been released
(`Coherent`), that every pending waiter is in the queue (`WaitersQueued`), and that the set of
holders is finite. `ReleaseEffect` collects what one release changes: `pump` stops after `n`
shifts, one more shift grants at most one more slot (`UnsettledStep`), so it stops exactly at the
limit or at the end of the queue. Order and refinement follow because a release hands the slot to
the first pending waiter and to nobody else (`ReleaseHandsOver`).

**Accounts** (`AccountsAssumption`: logins are finitely many numbers, the first pool repeats
none and the first pins name its members). `AccountsInv` is inductive. A pick needs besides that
the orders of `autoAccount` and `firstUsableAccount` have a first element, which follows from the
least-number principle and from the pool being finite.

**Failover** (the above, and `FailoverAssumption`: at least one try). Tries are counted along one
call, so the invariant knows of each call (`Sound`) that its count is the size of the set of
logins it asked, that an idle one asked none, that a retry has left a try, and who `account` and
`last` are at each place. `OrgsTrue` is in the invariant only where `HeadersOn` has no
`"error"`: with it the property is false, which is the line `http.js:392` again.

**Registry** (`RegistryAssumption`, `NoneAssumption`: `None` is no name, key or set of keys;
finitely many handlers). That a key never moves needs that every id anybody holds, in a table, in
a handler or in a half-read refresh, is held under the name it was inserted for (`HandlersTrue`,
`IdsTrue`), and that keys have rows (`KeysHaveRows`): this part holds for any interleaving and
every fault. With one handler in flight what a refresh has read is the table still (`Alone`,
`SnapCurrent`); if moreover nothing fails, what a guard has read still holds at the write
(`GuardsHold`), no alias shadows (`Shadowless`) and the projection is current outside of
refreshes (`Current`).

**ConfigStore** (`ConfigStoreAssumption`, `ScenesAssumption`, `FilesAssumption`: `None` and
`Torn` are neither configurations nor requests). `StoreInductive` is `TypeOK`, the index
(`IndexTrue`), that whoever reaches premium models was in the baseline, also in the file
(`PremiumKept`), what each create is about and found before (`Makes`, `HadTrue`), that where
no create asks for an account none is pinned under one name alone (`NobodyPins`), that every
logout raised the epoch (`OldEpochs`), and that a create past its rule has one in force (`RuleFirst`). `KeysUnderRules`
says `Undisturbed`: with two creates, one that fails puts back the whole map it found, and the
rule of the other goes with it (section 7). The other theorems hold for any number of makers,
though `store` runs one.

**Pipeline** (`LimitsAssumption`, `PipelineAssumption`, `ConfigsAssumption`,
`ProjectsAssumption`: a good key names a project, ids are not `None`, caps are numbers). That one
configuration decided must be known from the decision on and through every wait, with the cap the
count is about; that a call leaves one row, as that it has left none before; the request must be
one of the menu. `CallSound` says this of one call and the configurations it lived under, and
only the decision looks at the configuration in force. That pacing is earned is kept with `owed`,
the doublings a consumer drew. `CapsCount` follows from `JudgeSound`: only `Counted` leaves
"counting", with every path the cap is on. `FreeFirst` is about the order of `Lanes` and needs no
induction.

**Archive** (`ArchiveAssumption`: row ids are finitely many positive numbers, a page holds at
least one row). That an object replaces another of its name without loss rests on what each run
holds: a page is whole between the cursor it was read from and its last row, but for rows that
have left since or came late; and a cursor is a row that was read, with all below it archived or
late or gone.

**Images** (`ImagesAssumption`: `NoFile` names no picture, a seed names one of its own). The
saved configuration too names only pictures that are there, each of its own slug, because any
boot may put it in force; a handler's picture is judged by where the handler is
(`HandlerSound`). **Watch** (`WatchAssumption`: pages are repeated after at least one round).
While a page is under way, what people believe is compared with what the file said before
(`Told`, `PageTrue`). **Catalog** (`CatalogAssumption`). A sweep has read each login up to its
cursor in whole pages (`LoginRead`), and the list of a login fits in the pages a reader takes:
`Cardinality(ids) <= maxPages * pageSize`, which is what `claudecode.js:62` says of the ten
pages of a hundred; without it a longer list would be cut and `SweepsAreWhole` false.
**Events** (`SignalsAssumption`: clocks and counts are numbers, `Unheard` is neither an entry nor
an age). The books of a message are a sum over its deliveries, which are a finite set, and two
deliveries are told apart by what had happened before each (`MessageSound`): a new one is never
taken for one under way.

**Translate** (`TranslateAssumption`: an exchange is a request of messages in the four roles and an
answer of blocks in the three kinds, and `NoFinish` is none of the reasons). Nothing is assumed of a
conversation: that it is one Anthropic would take (`Legal`) is a hypothesis of `ResultsTogether`
alone. `StreamIInv` says what the caller has put together so far: the text and the calls of the
blocks heard up to `at`, the last of them only as far as it was heard (`CallerHeard`), unless a cut
character was lost; a fragment of arguments finds its call because the tool the upstream is in is
the last one announced (`ToolsSoFar`); and a kept half of a frame is the first part of the one that
comes (`HalfIsComing`). Of the request, `ResultsSoFar` says after each message that the results
waiting for their turn are those of the tools since somebody last spoke, and that every turn but
that one has its results; so what is flushed when somebody speaks answers exactly that turn. That
the next request hits the cache is that two messages more are two turns more (`LongerTaken`): the
breakpoint two before its end is where this one had its last. `TakenAll`, `TextOf` and `CallsOf`
are folds; what is said of all the values of one is proved by contradiction, from the least it
fails for (`LeastNumber`, `JoinsOnce`, `TakesOnce`).

**Sums.** The library's `SumFunctionOnSet` recurs over finite sets. What is needed of it is proved
without an induction theorem: if a fact failed for some finite set, it would fail for one with the
least number of members, and taking one member away contradicts that (`SmallestFails`). So sums
exist and are the only ones (`SumsExist`, `SumsAgree`), grow by what is added (`SumMore`,
`SumLess`), are linear (`SumBoth`, `SumTimes`), monotone (`SumOfPart`), and the sums of the groups
of a partition add up to the sum of the whole (`SumOfGroups`).

**Ledger** (`LedgerAssumption`: counts and prices are numbers, `Nil` is none of them and no caller,
a caller is a consumer and a job that is neither of the words the filter reserves, and what
`claudecode` answers comes in Anthropic's words or by OTLP). What a row says of its call needs to
be known while the answer is still read: the usage merged so far is nothing or has all the words of
its dialect, and the first frame to come has them all (`FeedSound`), which is why a broken stream
is either a row with everything but the last count or one with nothing. Of a row it follows that a
cached prompt is never smaller than its two cache classes (`RowCost`), without which the clamp of
`pricing.js:102` would make the price of a group less than that of its calls; with it prices are linear
(`SumOfCosts`) and `ListCostIsExact` is an equation. The rollups are `SumOfGroups` over their
groupings; how `Ranked` orders the series plays no part in what they conserve.

**Doors** (`DoorsAssumption`: a page of the panel is at a path of its own, under none of the names
the router answers to; an errand is a path of the documentation or a call in one of the shapes the
senders tell apart; a lane that needs a key claims no model without one). That each documented path
opens its own door is a walk down the chain of tests: what each test says of a path is a lemma
(`TestsAre`), and the first that holds is the door (`DoorIs`), so a test that is moved or widened
breaks the proof of the path it takes away. That the bound on guesses is two windows' worth and not one is the
fixed window of `throttled()`: of what an address had compared, a part fell before its record began and the
rest is what the record counts (`Budgeted`); both are at most `MaxTries`, and what fell before has
left the last `Window` by the time the next record begins (`BudgetAges`). A map that is emptied
begins everybody's history anew.

**Panel** (`PanelAssumption`: sizes are positive, the log may hold two rows, `Nobody` is no filter).
That a page is one answer needs of every question in flight, that it asked for the
filter and the page it says; that an export is whole, that what it has read is every row of the
log up to where it reads next, in order. Rules survive because what a control drafts is already
what `sanitizeRule` would leave, and a merge leaves such maps alone.

Only model-checked is liveness (`SlotReturned`, `WaiterAnswered`, `DeadLoginParked`,
`RevivedIsUsed`, `EveryCallAnswered`, `EveryCallEnds`, `ArchivedInTheEnd`, `NeverForgotten`): it
needs `ENABLED`, which the prover does not handle. Every other property of a passing run is a
theorem, under the hypotheses the table names.

## 6. Findings

Three runs find a behaviour that contradicts a comment; `PROJECT.json` quotes it.

| Run | What happens |
|---|---|
| `failover_blame` | the 403 of the login that was retried parks the login tried first: `opts.account` is renamed on success only |
| `registry_overlap` | a refresh that read before a revocation projects after the one that read it, and the revoked key goes on working |
| `store_logout` | a reset deletes the file and carries the session epoch in memory only; the next boot starts from 1 and lets a logged-out cookie in |

## 7. Further departures

The models show, or reading the code for them showed, more places where it departs from what is
written; no standing run checks these. Where a formula is named it is a definition of the module,
or one to add to an instance of it, and TLC finds a short trace.

| Where | What is written | What happens |
|---|---|---|
| `Gate`: `"full"` only while `Cardinality(Pending) >= QueueMax` | `gate.js:150` "its queue is full" | seats of waiters that have left count until `pump` shifts them |
| `Gate`: at most `Limit` calls `working` or `piping` | `gate.js:132` "at most `limit` of this provider's requests in flight" | a hang-up frees the slot while the upstream still works on the call |
| `Gate`: `(r \in Held /\ phase[r] = "over") ~> r \notin Held` | `gate.js:165` "`close` is the one event that fires on every ending" | an upstream body that errors leaves the response open (`http.js:474`) |
| `Accounts`: a probe parks only a login with `Entry(a) \in cancelled` | `routing.js:441` "a dead/cancelled login" | a late 403 for the old token parks a login that was just rotated |
| `Accounts`: the head of `sweep` is never in `disabled` when its probe starts | `server.js:580` "Skips DISABLED accounts" | the list is fixed when the sweep starts |
| `Failover`: a `Stall(c)` ends with `outcome[c] = "504"` | `http.js:326` "504 says the upstream took the connection" | a retry that stalls is a 502 (`http.js:294`) |
| `Failover`: after a 429 `AccountFor(project[c]) # last[c]` while another is usable | `http.js:316` "instead of re-hitting this dry one" | out of tries, the login that refused last stays selectable |
| `Failover`: a human's call asks one login | `routing.js:311` "a human's session never hops" | the retry applies to every caller |
| `ConfigStore`: a failed create of an app with a rule leaves no key | `consumers.js:265` "leaves no orphan" | when the client lock throws, the key and the pin stay |
| `ConfigStore`: a failing create changes no other app's rule, with two makers | `docs/admin.md:37` "they merge" | where a rule was there before, the whole map of before the call is put back |
| `ConfigStore`: a pin names an account of the pool | `accounts.js:97` "rather than writing a pin that resolves to nothing" | the account is checked before the awaits and pinned after them; a forced removal leaves the pin under `consumerAccounts`, and a posted configuration cannot clear one |
| `ConfigStore`: the alert of an app that reaches premium models | `alert.js:49-50` "so this cannot drift from what actually happens on the wire" | `premiumWhy` ignores rules on `app:job` and misreports pins of a provider alone (`alert.js:63-76`) |
| `Registry`: `RevokedIsDead` with `"read"` faults | `config.js:557` "can never authenticate a dead key" | a revocation whose refresh fails is answered as done |
| `Registry`: `NoShadow` with two handlers | `registry.js:393` "would silently bill its traffic" | an alias and a consumer are written between each other's guards |
| `Registry`: an alias leads to a row | `registry.js:398` "an outage disguised as a cleanup" | removing a consumer leaves the aliases onto it; one may also be made onto nobody (`registry.js:330`) |
| `Registry`: `LiveKeyKeepsWorking` with two handlers | `consumers.js:79-80` "There is exactly one writer now" | an older refresh takes a new key away |
| `Archive`: `NoRowTwice` | `archiver.js:22-23` "overwrites the same deterministic part keys, it does not duplicate" | after a short page or a crash a row is in two objects; a backfill after a pruning overwrites an object with fewer rows; rows that commit below the cursor are never archived |
| `ImageTemplates` | `config-schema.js:165` "`storeReference()` is the only writer" | `saveTemplate` takes one the caller names; the old picture is unlinked before the new one is written; a slow fetch brings a removed template back, and removing all of them the seed |
| `Translate`: `MarksRideAlong` | `translate.js:73` "`cache_control` rides along" | a request whose caller marks a part that is dropped has none |
| `Signals`: `PruneForgetsNothing` | `telemetry.js:231-232` "Anything untouched for 10 windows cannot be mid-suppression" | the entries dropped were still counting; a finding is armed before it is delivered |
| `Signals` | `server.js:591-592` "The catch REPORTS" | `dbRows` swallows the error (`db.js:77-81`) |
| `Watch`: `ClearedIsGone` | `throttle-watch.py:26-27` "a short 'cleared' note when it goes away" | `CLEARED` is sent while the router cannot be reached; a lost one is never repeated; a state that cannot be saved pages nobody |
| `Catalog`: `PrimeIsFirst` | `db.js:93` "this primes it once at boot" | a late read of the rows overwrites a fresher reading; upserts land in the order of connections |
| `Catalog` | `openrouter.js:105-106` "the catalogue we publish and the catalogue we route on cannot disagree" | they do for upper-case ids in `OPENROUTER_MODELS` (`config.js:106`) |
| `Ledger`: `BillableIsQuota` | `analytics.js:59` "routing.js already quotas on exactly this expression" | a row whose `cache_read` is NULL counts nothing in the report (`analytics.js:64`) and whole in the quota (`routing.js:204`) |
| `Ledger` | `pricing.js:89` "`ptok` here is the TOTAL" | `otel.js:99` logs the uncached input only; translated streams drop the cache columns (`http.js:420-421`) and are priced at the input rate |
| `Doors`: `WholeOrNothing` | `http.js:65-68` "a TRUNCATED buffer instead would be worse than the problem" | a body whose caller hangs up is used as far as it came (`http.js:87`); the null of an over-long one becomes `{}` and the handler goes on (`http.js:104-108`) |
| `Doors`: `TestIsACall` | the panel's test sends what a call would | a gated local model is sent the other token (`diagnostics.js:103-105`), and thinking defaults are not applied |
| `Doors` | `admin.js:77` "max 10 attempts" | the code allows 30 (`admin.js:92`), and a full map forgets everybody |
| `Panel`: `RetainIsTyped` | `config.js:295` "0 = keep every row forever" | the card shows and posts 50000 for 0 (`call-log.tsx:134`, `:429`), so saving any logging option starts pruning |
| `Panel`: `ShowsItsFilter`, `RowsOnce`, `OthersStand` | | a load under an older filter that lands last is shown; overlapping ticks repeat rows; saving a whole map overwrites another operator's rule |

Some behaviours are modelled as they are and worth knowing: refused rows of a known project count
toward a cap on calls; a call refused for its key is booked on the consumer it claimed; JSON
enforcement loses the usage of earlier attempts and a re-prompt uses the login captured at
dispatch; an upstream error event in a stream is logged as 200; a translated stream that breaks
leaves no row; `/local/*` consults no rules; refusals of the gate leave no row.

## 8. Not modelled, and why

Reading endpoints and labels (`listAccounts`, `revealToken`, `setAccountMeta`, the state and
price endpoints), health probes and the prices file report what others said and change nothing
another component reads. Developers, client policies, purge and the import at boot of the registry
ride along with the rows that are modelled. The cached facets of the log, the merge into the
advertised list and the excerpts of prompts are data no property here tells apart. The panel's
pages of accounts, consumers, images and overview are forms over endpoints modelled elsewhere.
The compression service and the command-line tools run outside the router; the pipeline sees them
as a wait. Hashes, header names, wording, rendering and static files are left out.

## 9. What is next

1. The merge of the catalog into the advertised list, and `premiumWhy` by job rule.
2. A refinement of `Archive` onto an abstract log that loses nothing but what came late.
