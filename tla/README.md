# Verification of the New API gateway

The repository packages New API, a gateway between clients and AI platforms, as
an Android application. The program is the Go server under
`src/newapi/go-source`: it authenticates a request, reserves quota for it, picks
a channel, relays the request, and charges what it cost; background tasks poll
asynchronous jobs, test channels and clean up. Around it are a Java service that
starts the server on a phone, an Electron shell and a web front end.

This directory models the parts of the server that move money, the parts that
coordinate processes and goroutines, and the two pages of the front end that
have a protocol of their own: TLA+ modules, TLC configurations, and TLAPS proofs.
All source paths below are relative to `src/newapi/go-source`.

## 1. Inventory

Every component, its state, its operations, what is hard about it and what makes
it correct. *M*: modelled here; *P*: planned; *N*: will not be modelled.

| Component | Code | State | Operations | What is hard | What makes it correct | |
|---|---|---|---|---|---|---|
| Billing session | `service/billing_session.go`, `funding_source.go`, `billing.go` | per request: amount pre-consumed, reserved, held; flags settled, refunded, fundingSettled | NewBillingSession, Reserve, Settle, Refund | every database statement may fail; the refund runs in a goroutine; requests of a user overlap | a request costs its actual cost once, or nothing | M |
| Quota rows | `model/user.go`, `token.go`, `subscription.go` | user quota, token quota, subscription usage, pre-consume records | relative updates; transactions on subscriptions; period reset | check and update are separate statements; a nested transaction; resets in mid-request | no total exceeded; a refund given back once | M (as sessions use them) |
| System task runner | `model/system_task.go`, `service/system_task.go`, `controller/system_task_handlers.go` | task rows, one lock row per type, runner passes, handler goroutines | create, expire, claim, renew, finish, release | several processes on one database; crashes; leases and clocks | one task of a type at a time, started once, ended once; a running task can be found when its runner is gone | M |
| Asynchronous media tasks | `service/task_polling.go`, `task_billing.go`, `model/task.go`, `relay/relay_task.go` | task rows with status and quota; copies held by passes | submit, poll, sweep, bulk fail, fetch by the user, settle, refund | passes overlap; copies are stale; billing follows the status change in other statements | a task is billed once and exactly; its end is final; it ends | M |
| Midjourney tasks | `controller/midjourney.go` | Midjourney rows | poll, fail in bulk, refund | as above, with other rules | as above | P |
| Stream scanner | `relay/helper/stream_scanner.go`, `stream_result.go`, `relay/common/stream_status.go` | channels `stopChan`, `dataChan`, a mutex, a wait group, four goroutines and the caller | scan, handle, ping, stop, clean up | one stop channel read by several goroutines; timeouts; panics; an upstream that stalls | the caller returns with a reason and every chunk handled; goroutines end | M |
| Channel selection and retry | `service/channel_select.go`, `controller/relay.go`, `middleware/distributor.go`, `model/channel_cache.go`, `model/channel.go`, `service/channel.go` | cache of channels, rows, retry counter, group index | select, retry, disable, enable, rebuild | the counter is reset while it bounds a loop; the cache is rebuilt from old rows; cache and row are updated apart | the walk is bounded and in order, reaches every priority, and ends; the cache converges to the rows | M (one key per channel, with the memory cache) |
| Chat playground | `web/default/src/features/playground` | conversation, open stream, waiting chunks, requests in flight, editor, stored copy, timers | send, stream, stop, regenerate, edit, delete, clear, leave, reload | late answers; timers; a page that goes away in mid-answer while its requests go on; a full storage | each answer is asked, grows, ends, in its own message; what is shown is stored | M |
| Expression price editor | `web/default/src/features/system-settings/models`, `features/pricing/lib` | panel, editor in two modes, effects, stored expression | open, edit, switch mode or tab, template, rules, save | effects that copy state both ways; three places for one rule | a price and its rules survive; what is shown is saved | M |
| Batch update and caches | `model/utils.go` | deltas in memory | add, flush | a crash between accumulation and flush; checks on old values | deltas are applied once | P |
| Subscription life cycle | `model/subscription.go`, `service/subscription_reset_task.go` | orders, subscriptions, groups | order, complete, expire, reset | concurrent callbacks; group restored at the end | an order is completed once | P (the reset is M) |
| Top-up and redemption | `model/topup.go`, `model/redemption.go` | orders, codes | recharge, redeem | concurrent callbacks, row locks that are not taken | credited once | P |
| Rate limiting | `middleware/model-rate-limit.go` | counters | check, count | checked before and counted after the request | the limit | P |
| Android service | `../app/src/main/java` | pid file, child process | start, stop, query | restarts while the process runs | one server at a time | P (last) |
| Upstream adaptors, expression pricing | `relay/channel`, `pkg/billingexpr` | none | conversions, evaluation | data, not protocol | – | N |
| Desktop shell | `electron/main.js` | child process | start, watch, stop | restarts | one server at a time | P (last) |
| Accounts, OAuth, other web pages | `oauth`, `controller`, `web` | – | request and response | third-party services and user interface | – | N |

Interaction. A relayed request opens a billing session, relays through a
channel chosen per retry, and settles the session or leaves it to a deferred
refund. A submitted media task settles its session at once and is inserted as a
row; from then on the charge is adjusted by the poller. The poller is a handler
of the system task runner, so two polling passes overlap exactly when a runner
has lost its lease without having noticed. All of them meet in the quota rows.
A streamed answer passes the stream scanner inside the relayed request; its
usage is computed, and the session settled, after the scanner has returned. The
playground is a client of the relay, at the other end of such a stream. The
price editor writes the expression that decides what a request costs.

## 2. Modules

| Module | Models | Extends / uses |
|---|---|---|
| `BillingSession` | billing sessions over wallet, token and subscriptions | |
| `MCBillingSession` | its instances | `BillingSession` |
| `BillingSession_proofs`, `BillingLedger_proofs` | its theorems: life cycle, amounts | `BillingSession` |
| `TaskBoard` | what the task table promises, abstractly | |
| `SystemTask` | lease protocol of the runner | instantiates `TaskBoard` |
| `MCSystemTask`, `SystemTask_proofs` | its instances and theorems | `SystemTask` |
| `AsyncTask` | asynchronous media tasks and their billing | |
| `MCAsyncTask`, `AsyncTask_proofs` | its instances and theorems | `AsyncTask` |
| `StreamScanner` | the goroutines of one streamed answer | |
| `MCStreamScanner`, `StreamScanner_proofs` | its instance and theorems | `StreamScanner` |
| `ChannelRelay` | the retry loop of one request over the channel cache, and the cache | |
| `MCChannelRelay`, `ChannelRelay_proofs` | its instance and theorems | `ChannelRelay` |
| `Exchange` | what the playground promises about one answer, abstractly | |
| `Playground` | the chat playground and its stored copy | instantiates `Exchange` for every answer |
| `MCPlayground`, `Playground_proofs` | its instance; its theorems about the page, its answers and `Exchange` | `Playground` |
| `PriceEditor` | the editor of expression prices | |
| `MCPriceEditor`, `PriceEditor_proofs` | its instances and theorems | `PriceEditor` |

In the models of the database one step is one statement or one transaction: the
code holds no lock across them that another request, process or goroutine would
wait for. In `StreamScanner` a step is one operation on a channel, the mutex or
the wait group. In the browser a step is a whole handler, or all effects of one
render, because JavaScript runs each to its end.
`PROJECT.json` maps each definition to its lines.

### BillingSession

*State.* `wallet`, `token`, `subUsed` and `record` are database columns. `ses[r]`
is the Go struct with its funding source: `pre` is preConsumedQuota, `held` is
what the wallet source holds (`consumed`) or the subscription record
(`preConsumed`), `extraReserved` what Reserve added on a subscription. `pc[r]` is
the statement the call in progress does next (calls on a session exclude each
other through `s.mu`), `ref[r]` the next statement of the refund goroutine.
`took` and `logged` observe: what was moved for a request, and which error lines
were written.

*Actions.* `NewBillingSession` with `TryWallet`, `TrySubscription`, `Fallback` is
the choice of the source; `ReadToken` … `PreConsumeError` are preConsume with its
rollback; `Reserve` … `RollbackFundingReserve`, `Settle` … `SettleToken`, `Refund`
and the `RefundStep`s follow the functions of those names. `Settle` itself only
tests `settled`, as the code does; it is called by `SettleBilling`, inside a handler
that has deferred Refund to its end (`HandlerRunning`).
`SubscriptionPreConsume` is one transaction; `RefundSubscription` and `RefundSave`
are two, because the code opens the inner transaction on the global handle.
`ResetSubscription` is the end of a period.

*Faults.* Any statement may fail (bounded by `MaxFaults`). Saving the refunded
record may be lost (`lost_save`: the outer transaction fails after the inner one
committed) or its acknowledgement may be (`lost_ack`). `took[r].again` adds up what
retries gave back again for a lost record.

*Abstractions.* One user with one token. No Redis and no batch update: the
defaults without a Redis URL. Subscription transactions are atomic, as on
SQLite, the database of the Android build; other databases would need the row
lock that `gorm:query_option` no longer takes. Integers are unbounded. All active subscriptions agree on overflow, as the code asks only
whether all of them allow it.

### SystemTask and TaskBoard

*State.* `status`, `active`, `owner` are columns of `system_tasks`; `lock` is the
row of `system_task_locks` for the type (task 0: no row). `pc`, `my`, `age` are a
runner's pass: next statement, locals, and the age of the clock it read.
`handler[t]` is the goroutine of a task. Time is relative: `lock.left` counts down
with `Tick`.

*Actions.* A pass is `ExpireRead`, `ExpireMark`, `ExpireDelete`
(ExpireStaleSystemTaskLocks), then `ClaimRead`, `LockInsert` / `LockRead` /
`LockTakeover` (acquireSystemTaskLock), `ClaimMark`, `ClaimRun` or `ClaimLost` and
`ClaimRelease` (ClaimSystemTask). `Renew` and `RenewFails` are the heartbeat;
`FinishSystemTask`, `HandlerGivesUp`, `FinishRelease` end a handler. `Crash` takes a
process with all its goroutines; a restarted process is another runner.

*Abstractions.* One type, since types share no row. What a handler works on is
left out. Progress updates are written under the guard of the end and kept out
of the state. `MaxPause` bounds the age of a clock a pass still works with, to keep the
instances finite: the code has no such bound, so the runs about running tasks let
it exceed the TTL. `late` records the tasks that were set running after their
claimer's own lease had run out.

`TaskBoard` knows only `status` and `owner`: create when nothing is active, start
once, end once. `SystemTask` is shown to implement it.

### AsyncTask

*State.* `row` is the table, `full` the tasks whose row has progress 100%, `paid` what the funding source and the token have been
charged for a task, `upstream` the status the platform would report. A worker
stands for the handling of one row in a pass, or of one fetch by a user; `my` is
its copy (`from` the status read, `got` the status and `full` the progress fetched). `moves` counts
adjustments of the funding source after submission, `broken` marks tasks for
which a billing statement failed or a worker died while billing.

*Actions.* `Submit`; `SweepRead` and `Sweep` (sweepTimedOutTasks); `PollRead`, then
`FetchVideo` and `UpdateVideo`, or `FetchSuno` and `SaveSuno`, or `BulkFail` when the
channel is gone, or `Abandon`; `RefundFunding`, `RefundToken`, `RecalculateFunding`,
`RecalculateToken` (task_billing.go); `RealtimeRead`, `RealtimeFetch`,
`RealtimeUpdate` (tryRealtimeFetch); `Crash`. `Wins` is the compare-and-set of
`Task.UpdateWithStatus`.

*Abstractions.* Of `progress` only "100%" is kept, which the queries for unfinished
rows leave out (`TimedOut`, `Unfinished`). A reply may bring it without a final
status: the progress a video platform reports, or a fail reason from Suno
(`FullReplies`). SUBMITTED is treated as QUEUED. Any unfinished task may be found timed
out. `Actual` is the quota the adaptor or the token count arrives at.

### StreamScanner

*State.* `scan`, `hand`, `ping`, `pinger` and `main` are the places of the
scanner, the data handler, the ping goroutine, the goroutine that writes a ping,
and the caller. `stopChan` and `dataChan` are counts of what is buffered;
`writeMutex`, `wg`, `ctxDone`, `bodyClosed`, `stopClosed` are the objects of the
code, and `endReason` the first reason `SetEndReason` was given. `received` and
`handled` count chunks; `quit` says whether dataHandler stopped or panicked,
`overran` whether the clean-up gave up after five seconds.

*Actions.* `ScanLine`, `ScanStopped`, `ScanTakes`, `ScanQueues`, `ScanEnds`,
`ScanLeaves`, `ScanPanics`, `ScanPanicked`, `ScanSignals` are the scanner with its
deferred functions in their order; `HandTakes`, `HandLocks`, `HandReturns`,
`HandPanics`, `HandDrained`, `HandSignals` the data handler; `PingStarts`,
`PingerLocks`, `PingerWrites`, `PingSent`, `PingFails`, `PingEnds`, `PingPanics`,
`PingSignals` the pings;
`WaitEnds`, `MainSignals`, `MainJoins`, `MainCloses` the caller's wait and
clean-up; `clientLeaves` the end of the request's context.

*Abstractions.* A chunk is counted, not kept. Timers are nondeterministic: a
timeout may come at any time and, under fairness, comes. A read of the upstream
and a write to the client may block for ever. `endReason` tells apart the
reasons properties depend on.

### ChannelRelay

*State.* `cached` and `cacheStatus` are the memory cache (the lists by group and
`channelsIDM`, where a channel may be absent), `db` the status column, `snapshot`
what a rebuild has read and not yet swapped in. One request: `kind` of its token (one
group; auto; auto with crossGroupRetry), `retry`, `resetNextTry`,
`autoGroupIndex`, `channel`, `usingGroup` (whose ratio prices it), and `tried`, the channels called so
far. `updates` are the goroutines that disable or enable a channel, `update` the
one inside `channelStatusLock` that has done the cache. `disturbed`
and `raced` observe whether channels came or went during the request, and which
updates overlapped a rebuild.

*Actions.* `Distribute` is the choice of the first channel in the middleware;
`getChannel` one turn of the retry loop, with `LeaveGroup` and `Take` for the loop
over groups in `CacheGetRandomSatisfiedChannel`; `Answer` and `Fail` how a call ends,
with shouldRetry and processChannelError (`ShouldDisableChannel`: automatic disabling
may be off, altogether or for a channel); `updateCache` and `updateRow` the two
halves of `UpdateChannelStatus`, of which the second may fail; `readRows` (which may
fail and then empties the cache, as its error is not looked at) and `swapRows`
the two halves of `InitChannelCache`; `otherReport` the same reports made by other
requests, by the channel test and by administrators.

*Abstractions.* One model name, one key per channel, the memory cache on, no
affinity between users and channels, one node. The random choice by weight is a
choice among the channels of positive weight.

### Playground and Exchange

*State.* `messages` is the conversation; `source`, `pending`, `flushTimer` the open
stream and the chunks that wait for the flush; `requesting`, `calls`, `requestId`,
`controller` the requests without streaming; `saved`, `saveTimer`, `stale` the copy
in localStorage; `editing` and `dirty` the message editor. A text is a sequence of
the keys of the requests its pieces came from, so that a piece in the wrong
message can be seen.

*Actions.* Handlers keep their names (`handleSendMessage`, `handleStreamUpdate`,
`stopGeneration`, `handleRegenerateMessage`, …); `callAnswered`, `callFailed`,
`callAborted` end a request; `closedWithoutDone` is a stream the server closes with
status 200 and no [DONE]; `flushTimerFires` and `saveTimerFires` are the timers;
`leavePage`, `reloadPage` and `loadOnMount` take the page away and bring it back
from what is stored, repaired by `sanitizeMessagesOnLoad` and cut to size. Leaving
the page inside the application stops neither stream nor request: `left` are the
exchanges that go on (`leftExchangeEnds`), and since React may still compute the
first update of a component that is gone, `late` are the conversations it may save
then (`leftPageSaves`). A reload ends them. `crossed` records that an edit was
submitted while an answer was arriving.

*Abstractions.* Reasoning and content take the same way and are one text. Sizes
are counted in chunks. One tab. The configuration is a stream flag.

`Exchange` is what one answer promises: asked, growing only by its own text,
ended, then changed only by the user's hand; a page that comes back never shows it
as on its way. `AnswersFollowExchange` says that for every key the conversation,
seen through `AnswerIn`, implements `Exchange` (`INSTANCE … WITH`).

### PriceEditor

*State.* `stored` is the model's expression in the settings, `panel` the two
expressions (price and rules) of the panel, `editor` what the controls show,
`initRef` and `seen` what the effects remember, `settled` that none is left to run.
An expression is a base price and layers of rules, up to white space and the
version prefix.

*Actions.* `handleEdit` and `handleAdd` open the panel, `typeName`,
`handlePricingModeChange` (tabs: a hidden one is unmounted), `handleVisualChange`,
`handleRuleGroupsChange`, `addRuleGroup`, `handleRawChange`, `handleModeChange` and
`applyPreset` are the editor's handlers, `commitOpenEditor` saves. `useEffects` runs
the effects of one render in their order, on the values of that render. Parsing
and printing of rules (`buildRequestRuleExpr`, `tryParseRequestRuleExpr`,
`splitBillingExprAndRequestRules`, `combineBillingExpr`) are operators that do what the
code does to layers, factors and tests.

*Abstractions.* The user acts when the effects have come to rest: React runs them
before the next event is handled. A visual configuration is identified with the
expression it generates, up to how numbers are written. Beside these (`Configs`)
there are texts the form reads as another price than they state (`Loose`, with
`ReadAs`: a coefficient written as zero is dropped when the form is written) and
texts it cannot read (`Opaque`). Values that contain the expression's own separators
are left out. Production build: effects run once per render.

## 3. Runs

Requests, tasks, runners and workers are model values; `Sym` permutes the ones
the specification never tells apart, in runs that check invariants and action
properties only, never in those with liveness. `CHECK_DEADLOCK FALSE` is set for
billing sessions, media tasks, streams, relayed requests and the playground,
because requests, tasks and conversations simply come to an end; the system task
runner never stops and the price editor always has a next event, so there
deadlock is checked. `TypeOK` of the modules whose run does not list it was
checked on the same instances and can be added to their cfg.

| Run | Bounds | States | Shows |
|---|---|---|---|
| `billing_wallet` | 2 requests, wallet 3, token 4, quotas 0, 2, 4, trust limit 2, 1 failing statement | 253 000 | what a settled request has cost; that one in flight is covered; a lone request cannot overdraw; settlement is final |
| `billing_subscription` | 2 requests, 2 subscriptions (2 and 3), wallet 2, 3 preferences, 1 failing statement, lost record or lost acknowledgement, 1 period end | 1 595 000 | what a refunded or rejected request has cost, with fallback between sources, retried refunds and a reset in mid-request; totals |
| `billing_live` | 2 requests, 1 subscription without overflow, wallet 2, quotas 2, 3, 3 failing statements, lost saves too | 452 000 | one permitted source pays, nothing is over-refunded, calls return, refunds end |
| `system_task_safety` | 2 runners, 2 tasks, TTL 2, pauses up to 3, 1 crash, 1 failing statement | 1 399 000 | `TaskBoard` is implemented; a running task has its lock row, unless started late |
| `system_task_live` | 2 runners, 2 tasks, TTL 1, pauses up to 2, 1 crash | 395 000 | pending tasks start, running tasks end, unless started late |
| `async_video` | 1 video task, 3 workers, quotas 0, 2, 3, 1 fault, 1 crash | 580 000 | billed once and exactly, and the end is final |
| `async_live` | a Gemini or Vertex task and a legacy Suno task, both may lose their channel, 1 worker, 1 fault, 1 crash, 1 fetch | 509 000 | every task ends, unless its progress is complete without a final status |
| `stream_scanner` | `stopChan` of 3, `dataChan` of 1, 3 lines, 1 ping | 818 000 | a reason before the clean-up, no lost wake-up, every chunk handled; the caller returns, unless a panicking ping took its room; no goroutine stays |
| `channel_relay` | 2 groups, 3 channels, `RetryTimes` 1, 1 report by others, 1 failing statement | 139 000 | the walk is in order, bounded, reaches the first `RetryTimes + 1` priorities, and ends; the cache converges to the rows |
| `playground` | 3 messages created, answers of 2 chunks, 2 leaves or reloads, 1 refused save, small storage limits | 603 000 | every answer implements `Exchange`; only what runs is shown as waiting, and Stop ends it; what is shown is stored; generating ends |
| `price_editor` | 2 readable prices, 1 read as another one and 1 unreadable, up to 2 rule groups of 2 kinds, 2 templates, 1 save | 879 000 | price and rules survive; shown is submitted; rules are not weakened; effects come to rest |
| `price_editor_open` | the same | violation | finding 10: the code disagrees with what a document says of it |

Beside the runs, other configurations show where the code falls short of a
comment or of what one would expect (section 5):

| Configuration | Bounds | Finding |
|---|---|---|
| `BillingDoubleRefund.cfg` | 2 requests, 1 subscription, 1 lost record | 1 |
| `SystemTaskStuck.cfg` | 2 runners, 1 task, pauses up to 3 with TTL 1 | 2 |
| `SystemTaskFailedAlive.cfg` | 3 runners, 1 task, pauses no longer than the TTL, 1 crash | 3 |
| `AsyncSunoTwice.cfg`, `AsyncRealtime.cfg` | 1 task, 2 workers, no fault | 4, 5 |
| `AsyncStuck.cfg` | 1 Suno task, 1 worker, no fault | 12 |
| `StreamBlocked.cfg` | `stopChan` of 3, 1 line, 1 ping | 13 |
| `ChannelPriorities.cfg` | 3 priorities in the first group, `RetryTimes` 1 | 14 |
| `PriceEditorRewritten.cfg` | as `price_editor` | 15 |
| `PlaygroundResubmit.cfg` | 4 messages created | 11 |

*Why the bounds are enough to be of use.* Two requests are what it takes for a
check to be overtaken, and the amounts are chosen so that one request fits, two
do not, and a settlement can be above and below the reservation. Three workers
are a poller, an overlapping poller and a sweep; the rows of a pass do not
influence each other, so one row shows what video polling does. Two runners and
two tasks give a takeover and a late finish, a pause longer than the TTL a lock
that is lost unnoticed, a third runner (`SystemTaskFailedAlive.cfg`) an expiry by
someone uninvolved. A failing statement
or a crash can come at any step. `stopChan` has the capacity of the code; a
`dataChan` of one and three lines let the scanner block on a full channel, be
stopped there, and leave chunks behind. Two groups with two priorities in the
first one and one retry make the counter be reset, and make a channel vanish
between two tries. Three messages are a question, its answer, and a regenerated
one, two page changes bring the late save of a left page before a page that was
loaded; limits of two and three pieces make storing cut and
refuse. A price and two rules, one of them unreadable, are what it takes for
the effects to disagree; the price read as another one is what they must not hide. The theorems remove the bounds where they reach.

*Fairness.* Billing: weak fairness of the call in progress and of the refund
goroutine, because the Go runtime schedules both; nothing is asked of callers.
System tasks: weak fairness of time, of a runner's next statement and of a
handler's end; strong fairness of `ExpireRead` and `ClaimRead`, since each pass of
the loop in `StartSystemTaskRunner` does both, whichever of them finds something to
do. That a handler ends is an assumption. Media tasks: weak fairness of a worker's next statement; strong fairness
of `SweepRead`, since the polling handler is enabled while unfinished tasks exist,
every pass begins with `sweepTimedOutTasks`, and the timeout (1440 minutes by
default) passes. Nothing is asked of the upstream. Streams: weak fairness of each
goroutine that can go on, which includes the timers of the caller; strong
fairness of a goroutine waiting for `writeMutex`, which Go grants in the end.
Nothing is asked of the upstream; that a write to the client returns is asked
only inside `NoGoroutineStays` (`WritesReturn`), and `HandlerReturns` holds without
it. Relayed requests: a call answers or fails (the HTTP client has timeouts or
the client leaves), goroutines run, `SyncChannelCache` goes round for ever.
Playground: timers fire, a mounted page loads, and server or network end each
stream and each request; nothing is asked of the user. Price editor: React runs
the effects of a render; again nothing is asked of the user.

*What the properties except.* `SettledExact`, `RefundedExact`, `InFlightCovered` and
`RejectedClean` hold for requests without an error line in the
log (`RefundedExact` counts what was given back again for a lost record, finding 1,
and `SubscriptionKeepsShares` takes no more than that off the other requests): when a rollback, a token adjustment or the last refund attempt fails, the
code logs it and goes on, and the books of that request stay off by what failed.
`NeverOverRefunded`, `FundingByConsent`, `SubWithinTotal` and
`SettledIsFinal` hold whatever fails. Likewise `BilledExactly` is about tasks no
billing statement of which failed and whose worker did not die while billing,
and not about tasks from before `legacyTaskCutoff`, which the sweep fails without
a refund on purpose. `TaskEnds` excepts a task whose progress is complete without a
final status (finding 12), `RunningHasLock` and `RunningEnds` one that was set running
after its claimer's lease had run out (finding 2). `HandlerReturns` excepts the state
of finding 13, and no other. `AllChunksHandled` excepts a stream that dataHandler itself
stopped and a clean-up that gave up after five seconds (`overran`);
`ReasonBeforeCleanUp` a panic of the scanner, which wakes the caller before it sets
its reason; `NoLostWakeUp` a stop or panic of dataHandler while pings are on, when the
ping goroutine can take the last signal and the caller waits for the streaming
timeout; `NoGoroutineStays` the writer of a ping when a panic left the mutex
locked. `DisabledOnlyByRace` says that a disabled channel is on offer only after
a rebuild that overlapped the update, and `CacheConverges` that this heals.
`GenerationEnds` excepts a stream closed with status 200 and no [DONE], after which
the page counts as generating until the user presses Stop. `AnswersFollowExchange` and `RunsCanBeStopped`
end with an edit submitted while an answer is arriving (finding 11); the second does
not speak of what a page that was left had started, and `SavedIsShown` excepts the
late save of such a page (finding 17). `PriceSurvivesEditor` excepts prices that are
written otherwise than they were read (finding 15) and what finding 10 loses.
`ExhaustsPriorities` is about the first `RetryTimes + 1` priorities of a group
(finding 14).

## 4. Proofs

The theorems hold for all values of the constants that satisfy the named
assumptions: any number of requests, subscriptions, tasks, runners, workers,
faults and crashes.

**`BillingSession_proofs`.** Assumes `NumAssumption`, `SubAssumption`,
`ModeAssumption` (amounts are naturals, balances integers).
`BillingTypeCorrect`: `TypeOK` is not inductive, because giving back a reservation
on the wallet could take `held` below 0; `RollbackHeld` says that a reservation in
progress is held. With it each action keeps the types group by group.
`BillingFundingByConsent`, `BillingSettledIsFinal` follow from `LifeInv`: types; `Flow` (a refund is only started on an open session, a
committed funding source is followed by the end of Settle); `Consent` (the source
in use is one the preference and the plan allow, and the other was not charged).
The proof shows that a step of one request leaves the others alone
(`StepApart`) and then argues about one. `BillingSubWithinTotal` is inductive with the types.

**`SystemTask_proofs`.** Assumes `BoundAssumption` and `NobodyAssumption`.
`SystemTaskTypeCorrect`. `RowStep` says what any step does to the task rows (create,
start, end, or nothing), given that a claimed task exists (`ClaimTask`).
`SystemTaskActiveKey` and `SystemTaskImplementsBoard` follow from it.
`SystemTaskRunningHasLock` holds for pauses of any length. The property is not inductive:
`LeaseInv` adds that a pass that has taken the lock finds it as it left it
(`Owned`), that nothing is running meanwhile (`Exclusive`), and that a pass about to
take or delete a lock finds it expired only if no task is running under it
(`Careful`). That a pass with an old clock cannot do harm to a running task rests
on the conditions of the statements, which compare the holder and the expiry again;
the compare-and-set of the task is the one statement that has none (finding 2), and
`late` the tasks it lets through.

**`AsyncTask_proofs`.** Assumes `TaskAssumption` and `NumAssumption`.
`AsyncTypeCorrect` holds for all tasks. The other three are about video tasks
without fetch by the user (`Suno = Realtime = {}`); for the others they are false
(findings 4 and 5). `AsyncOneBill`: `OnceInv` says that a copy waiting for its
compare-and-set is of an unfinished row (`CopyInv`), and that a task is unbilled
until it ends and is then billed by one worker (`BillInv`); the winner of the
compare-and-set becomes that worker. It holds although rows are failed in bulk.
`AsyncEndIsFinal` and `AsyncBilledExactly` also need channels that are not deleted
(`Orphans = {}`, finding 7); `ExactInv` says what a task has cost between the two
statements of its billing.

**`BillingLedger_proofs`.** What a request has cost is at every step what its
session says it has. `LedgerInv` is `LifeInv` with one `Ledger` per request: `Booked`
(how pre-consumed, reserved and held amounts relate at each `pc`), `Covered` (a
session is opened with the quota asked for, or trusted), `TokenBalance` and
`FundingBalance` (what was taken from token and source is `TokenDue` and
`FundingDue`, exactly while nothing was logged and never less on the wallet and
the token). None of the five properties is inductive, since they speak of
requests at rest and the ledger is only whole between the two statements of a
reservation, a settlement or a refund when it says which half is done.
All five follow without further assumptions; for `BillingRefundedExact` the ledger
also says what retries gave back again when the record of a refund was lost.
The balances themselves are sums over all requests, of which only
`RequestAssumption` (they are finitely many) is assumed. A sum is the last of the
partial sums along an enumeration of the requests, and what would be an induction
over it takes the least index where the claim fails (`WFMin`).
`BillingConserved`: every step changes a balance and one request's share of it by
the same amount (`StepMoves`), so wallet and token are down by exactly what the
requests have taken. No share is negative (`BillingNeverOverRefunded`), hence no
balance is ever above its initial value and what `tryWallet` and
`PreConsumeTokenQuota` compare against is covered by it (`Checked`), whatever other
requests do in between. `BillingLoneRequestNeverOverdraws` follows when the
balances start at zero or above (`NothingOwed`); the code itself lets a balance go
below zero at settlement.
`BillingSubscriptionKeepsShares` needs more than the ledger,
which is exact only while nothing was logged: `SubBalance` says that what a request
has taken from its subscription is never less than `FundingDue` without what was given back
again, whatever failed,
and `SubHeld` that until a reset `amount_used` is at least the sum of what all
requests have taken from it. It is not equal to it, since
`PostConsumeUserSubscriptionDelta` clamps at 0, which only makes it larger
(`StepUsed`). The property itself adds up what quiet requests hold with `MapThenSumSet`;
`SumIsTotal` shows that this fold over a set is a sum along the enumeration, and
`TotalMonotone` compares the two.

**`StreamScanner_proofs`.** Assumes `StreamAssumption`. `StreamInv` has one part per
concern: which objects are closed by whom (`Closing`), that nobody leaves or
signals before there is a reason (`Reasoned`), how many signals are in `stopChan`
given who has gone and who has read one (`Signals`, `OneSignal`), and where the
chunks counted as received are (`Account`). From it come `StreamTypeCorrect`,
`StreamReasonBeforeCleanUp`, `StreamNoLostWakeUp`, `StreamAllChunksHandled`, for any
buffer, and two theorems about the deferred signals: with the code's buffer
(`StopCap >= 3`) one can only block when the ping goroutine has panicked, and then it
can (finding 13); with one more place (`StopCap >= 4`) none ever does.

**`ChannelRelay_proofs`.** Assumes `RelayAssumption` (the groups of a request are a
non-empty list without repetition) and that the channels are finitely many.
`WalkInOrder` is not inductive because the
selection sets the retry count back while it serves as the bound of the loop:
`WalkInv` adds where in its walk a request is (`Position`), that no later group was
called (`Reached`), and that the count bounds the calls to the current group
(`Counted`). `CacheInv` extends `DisabledOnlyByRace` to the time between the two
statements of an update. `ExhaustsPriorities` rests on two facts about the selection
(`OfferedByRank`): it finds a group empty only when it is, because the ranks of the
priorities have no gaps (`EveryRank`), and what it returns has the priority of the
retry count's rank. `ExhaustInv` then says that the retry count is the number of
ranks already called in the current group (`CurrentDone`), that a call stands for
the next rank (`CallIsNext`; when the selection has set the count back already, for
the last one of the group before), and that the groups before are done.

**`Playground_proofs`.** Assumes `PlaygroundAssumption`. What it proves
holds until an edit is submitted while an answer is arriving (`crossed`; finding 11
is what happens then), except for `PlaygroundSavedIsShown`, which holds for ever.
`PageInv` says that one request or stream runs at a time, that requests still on
their way after an abort have keys of their own (`Requests`, which is why the
`requestId` test suffices), that chunks wait only for a stream that is there
(`Sources`), and that only the last message waits, on the page and in the storage
(`Waiting`, from which the repair on load follows), also in what a page that was
left may save late (`LateInv`).

*Its answers.* `OwnInv` says that what is
on its way is for the last message (`Linked`) and that the texts shown and stored
are their messages' own; `PlaygroundAnswerInOwnMessage` follows. `KeyInv` says that
keys are not reused, on the page and across reloads, and that the last message
waits while something is on its way (`Busy`). With the three invariants every step
leaves the messages in place, rebuilds the list or opens the page (`StepShape`),
and each kind of step is a step of `Exchange` for every key, or leaves the answer
alone: `PlaygroundAnswersFollowExchange`.

**`PriceEditor_proofs`.** Assumes `PriceEditorAssumption`: any prices, groups,
templates and texts. The first half is about the operators: `FlattenSeq` of what
each group contributes, and what comes back when a rule is written and read
again. An induction over a sequence is done in set form (`Stepwise`: a set of
numbers that has 0 and with each number the next one), because the theorems of the
library that take a predicate cannot be used. `PriceRuleNeverWeakened` is this half
alone: a group is written test by test, and a text is read either factor by factor
into the same tests or not at all.
`PriceTypeCorrect` gives the types. `EditorInv` is about the copying between panel
and editor: at rest the panel has what the editor reports (`RestInv`), beside a
text in raw mode are the text's own rules if they can be read (`RawInv`), the form
has no price only until the first effect has run (`FreshInv`), and when that effect
is about to change to raw mode the form's rules are the panel's (`SwitchInv`). None of
these is inductive alone: each effect writes state that another reads in the next
render, so they hold together or not at all. `PriceShownIsSubmitted` follows.
`PriceSurvives`, about prices the form writes as it reads them (`Configs`), adds
`KeptInv`: the editor shows the price the user has set
(`EditorRight`), and the panel has it (`PanelRight`) or is given it before the first
effect can run.
The two theorems about saving assume `RulesOutermost`: below the rules that are
split off a text there are none that could be split off. The instances satisfy it
(`OutermostHere` in `MCPriceEditor`), texts the page writes do, and a text the user
types need not: with two readable layers of rules both properties are false
(finding 10).

`AnswerInOwnMessage`, the two theorems about blocked signals and the `TypeOK` of
`SystemTask`, `AsyncTask`, `StreamScanner`, `ChannelRelay`, `Playground` and `PriceEditor`
are theorems that no run repeats. No theorem assumes away a failure or a pause the
code can meet; where the code breaks a promise, the property says what is left of it
and a configuration of its own shows the rest.

**Only model-checked.** The liveness properties: TLAPS 1.4.5 does not reason about
fairness and `ENABLED`. Every safety property of a run that expects none to be
violated is also a theorem, those of media tasks, `LoneRequestNeverOverdraws` and those
about saving a price under the hypotheses named above.

## 5. Findings

Where a configuration is named, TLC shows the violation with it; finding 10 is a
run of the project, the other configurations are kept beside it for when the
code changes. 8, 9, 16 and 17 were found while reading and modelling.

1. `RefundSubscriptionPreConsume` (`model/subscription.go:1265`) calls a function
   that commits a transaction of its own; when the outer transaction then fails,
   the retry refunds again. The comment at line 1247 calls it idempotent.
   `BillingDoubleRefund.cfg`.
2. `ClaimSystemTask` (`model/system_task.go:246`) starts a task without checking that
   it still holds the lock. After a pause longer than the TTL the task runs
   without a lock row and nothing can end it; its `active_key` blocks the type, while
   `service/system_task.go:18` has the runner mark expired leases failed.
   `SystemTaskStuck.cfg`.
3. `ExpireStaleSystemTaskLocks` (`model/system_task.go:366`) fails a task from a lock
   row it read before another runner took over and started that task, although
   `service/system_task.go:306` says that a handler stays alive while its heartbeat
   succeeds. `SystemTaskFailedAlive.cfg`.
4. `updateSunoTasks` (`service/task_polling.go:288`) refunds before it saves, without
   a compare-and-set: two passes refund the same task. `AsyncSunoTwice.cfg`.
5. `tryRealtimeFetch` (`relay/relay_task.go:477`) ends a task without billing it.
   `AsyncRealtime.cfg`.
6. `tryRealtimeFetch` (`relay/relay_task.go:462`) takes over the upstream's status
   whatever the task's status is: a task that was swept and refunded becomes
   IN_PROGRESS again and is billed a second time. `AsyncRealtime.cfg` with
   `OneBill` as its invariant shows it.
7. Rows failed in bulk because their channel is gone or they have no upstream id
   (`service/task_polling.go:152`, `224`, `389`) are never refunded. `AsyncVideo.cfg`
   with `Orphans = {t1}` and `BilledExactly` shows it.
8. `legacyTaskCutoff` is 1740182400, which is 2025-02-22; the comment at
   `service/task_polling.go:53` says 2026-02-22.
9. `RelayTask` (`controller/relay.go`) ignores an error of the settlement, so that
   `task.Quota` may differ from what was charged; the model has this as a fault of
   `Submit`.
10. Opening a model whose expression the visual editor cannot parse replaces it
    by a price of zero, without any input
    (`features/system-settings/models/tiered-pricing-editor.tsx:1691`): the first
    render is visual and without configuration, so the third effect reports a zero
    price to the panel, and the second effect has armed the first one to take it
    over. Saving stores it. Run `price_editor_open`. Related, and excepted from
    `PriceSurvivesEditor`: a template or pasted text that changes price and rules
    together while the first effect is armed has its price put back; a rule with
    a numeric comparison or a search in a parameter cannot be read back, and
    switching to raw mode and saving multiplies it in twice; switching to visual
    mode with an unreadable text replaces the price by the default; a tab change
    drops rules that cannot be read and groups that are not complete yet. A typed
    text with readable rules inside readable rules, such as
    `((p * 2) * (rule)) * (rule)`, is outside the theorems: one layer stays in the
    price when it is split, and is split off when the editor is filled anew, so
    that renaming the model, clearing the text and saving can store a price with
    a layer missing.
11. Save and submit in the playground
    (`features/playground/components/message/playground-message-editor.tsx:92`) is
    not disabled while an answer is arriving, as the other message actions are
    (`hooks/use-message-action-guard.ts:24`: "Hook to guard message actions when
    generation is in progress"): the running answer is then written into the new
    message (`use-chat-handler.ts:257`). `PlaygroundResubmit.cfg`.
12. A Suno reply with a fail reason and a status that is not final
    (`service/task_polling.go:285`) refunds the task and saves it with progress 100%.
    `GetAllUnFinishSyncTasks` and `GetTimedOutUnfinishedTasks` (`model/task.go:295`,
    `311`) leave such rows out, so that it stays unfinished for ever. A video platform
    that reports progress 100% early does the same without the refund
    (`task_polling.go:559`). `model/task.go:318` says that `HasUnfinishedSyncTasks`
    reports whether a task is in progress. `AsyncStuck.cfg`.
13. `stopChan` has room for three (`relay/helper/stream_scanner.go:62`, "增加缓冲区避免阻塞",
    a larger buffer to avoid blocking), but a ping goroutine that panics is a fourth
    sender (line 130) beside scanner, data handler and clean-up: the send at line 90
    can block the caller for ever. `StreamBlocked.cfg`.
14. A group is left after `RetryTimes + 1` calls, so that its lower priorities are not
    called, while `service/channel_select.go:55` says "Each group will exhaust all its
    priorities before moving to the next group." `ChannelPriorities.cfg`.
15. `tryParseVisualConfig` takes a single tier without comparing what it would write
    (`features/pricing/lib/tier-expr.ts:178-194`), and `buildTierBodyExpr` drops
    coefficients of zero (line 123): opening `tier("base", p * 3 + c * 15 + cr * 0)`
    and saving stores it without `cr`, and cache reads, which were free, are billed at
    the price of `p` (`pkg/billingexpr/expr.md:13`; line 7: "What you write is what
    gets executed."). `PriceEditorRewritten.cfg`.
16. `Settle` (`service/billing_session.go:41`) would take a session that was refunded;
    only the order of the handler keeps it from being called then.
17. Leaving the playground for another page stops neither the stream nor the request
    (`use-chat-handler.ts:132` clears a timer, `use-stream-request.ts` has no clean-up):
    they run on unseen, cost what they cost, and cannot be stopped from the page the
    user comes back to. An update that arrives after the page is gone may set the
    save timer again (`use-playground-state.ts:75`) and write the conversation of the
    page that was left over what the new one has stored.

Smaller ones, without a configuration: the comment at `service/channel_select.go:67`
says that a group yields nothing once its priorities are exhausted, but
`GetRandomSatisfiedChannel` clamps the retry count to the lowest priority; a failing
ping sets the end reason although the stream goes on, and the reason stays; a
failing query in `InitChannelCache` empties the cache until the next sync, and one of
the abilities leaves a nil map that the next line writes to.

## 6. Plan

Done: `BillingSession`, `SystemTask` with `TaskBoard`, `AsyncTask`, `StreamScanner`,
`ChannelRelay`, `Playground` with `Exchange`, `PriceEditor`, and the theorems of
section 4. Next, in this order:

1. Midjourney polling beside `AsyncTask`; several keys per channel and a run without
   the memory cache in `ChannelRelay`.
2. `BatchUpdate` with the caches, implementing the relative updates that
   `BillingSession` takes as atomic; an abstract `Ledger` that `BillingSession` implements.
3. `Subscription` orders and groups, `TopUp` and `Redemption`, the rate limiter, the
   desktop shell, the dialog that tests channels in bulk, the Android service.

## 7. Not modelled

Conversions between vendors' formats, the evaluation of price expressions,
accounts and OAuth keep no state that several actors share. Most of the
repository's lines are the two generations of the web front end: forms, tables,
charts and translations, whose handlers send one request and show its answer, so
there is no protocol to state a property of; the two pages that have one are
modelled. Hazards seen there and left out: two tabs of the playground write one
storage key and the last save wins. Redis and the other
databases than SQLite are configurations the models leave out. Integers are
unbounded: quota is a Go `int` in a 32-bit column on some databases and a 32-bit
`int` in the armeabi-v7a build, and overflow is not examined. A crash in the
middle of a relayed request loses its reservation; the code keeps no record from
which it could be recovered and promises nothing, so there is no property for it.
Requests that overlap all pass the model rate limit, which counts successes
after the fact (`middleware/model-rate-limit.go:86`); redemption codes
(`model/redemption.go:130`) and subscription rows (`model/subscription.go:1181`) are
locked with an option that the gorm version in use ignores; Midjourney rows are
failed in bulk without a comparison or a refund (`controller/midjourney.go:93`).
With batch update on, quota changes wait in memory (`model/utils.go:48`), so that checks
read old values and a crash loses them. These belong to the parts still planned. What gin does with a context that a ping
still writes to after the handler has returned
(`relay/helper/stream_scanner.go:145`) is outside the model.
