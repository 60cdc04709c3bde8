# A TLA+ model of the live forex volatility tracker

This directory models the parts of the repository whose correctness depends on
the order in which processes, messages and failures interleave: the leader
lease, the supervised feed, the two stream persisters, the regime detector
across failovers, the recovery of missed history, the WebSocket gateway and the
browser's store. Every module is written from the source (`PROJECT.json`,
`map`, names the lines of each definition), checked with TLC on small instances
and, where the property is an invariant or a step property, proved with TLAPS
for every value of the constants.

## The system

| part | state it keeps | operations | what makes it hard |
|---|---|---|---|
| leader lease (`packages/platform/.../leader.py`) | a Redis key, `_is_leader`, `_lost` | acquire, renew, lose, release | pauses, lost replies, late commands |
| ingest pipeline (`apps/ingestor/.../pipeline.py`) | per symbol: bucket, window, detector; Redis: tick stream, quote, history, `regime:*`, alert stream | `handle`, `_write`, `_seal_bar`, `restore_detectors`, `adopt_provider` | one MULTI per tick, failover between bars, two leaders |
| regime detector (`packages/core/fx_core/alerts`) | Schmitt trigger, baseline, profile, session gate | `update`, `snapshot`, `restore` | long sequences; state only partly restored |
| feed supervisor (`apps/ingestor/.../main.py`, `supervisor.py`) | breaker, attempt ladder, stale flag, feed status | connect, retry, watchdog, heartbeat, shutdown | timeouts, deposed leaders, numeric limits |
| history recovery (`recovery.py`), request quota (`quota.py`) | runs, spans and an advisory lock in Postgres; back-offs in the process; a request ledger in Redis | plan, ask, insert, record, refresh, repair, finish | a run that ends anywhere, races with the worker, shared budgets |
| bar persister (`apps/worker/.../persister.py`, `db.py`) | accumulators, unacked ids; the consumer group's PEL; `bars_1m` rows with a watermark | drain, claim, read, flush, sweep | crashes between commit, ack and forget; two workers |
| alert persister (`alerts.py`, `db.py`) | the group's PEL, `alert_events` | drain, claim, read, insert, classify, ack | competing consumers, reused keys |
| WebSocket gateway (`apps/api/.../ws`, `routers/stream.py`) | sessions, conflating queues, wakeup events, send locks | dispatch, subscribe, snapshot, drain, drop | a single event loop, slow clients, races of snapshot and delta |
| browser store (`apps/web/src/lib/stream`, `lib/useChartBars.ts`) | per pair: sealed, recovered and provisional minutes, the forming one, regime, alerts, history generation; the socket | apply, seal, merge, seed, clear, reconnect, request history | frames, snapshots and history in any order; outages; a change of provider |

They interact through Redis: the leading ingestor writes the tick stream, the
alert stream, snapshots and pub/sub messages in one MULTI per tick; the worker
under its own lease consumes the tick stream; all workers compete for the alert
stream; every API replica listens to pub/sub and reads snapshots for new
subscribers.

## Modules

| module | models | composed of |
|---|---|---|
| `LeaderLease` | `LeaderLease.hold`, `_renew_loop` and the three commands, with a clock | |
| `StreamIds` | what a `COUNT n` read returns; oldest and newest id | |
| `TickLedger` | abstract: every tick is counted once and settled only when counted | |
| `BarPersister` | the bar persister's `run()` under a lease, `bars_1m`, the consumer group | `StreamIds`; implements `TickLedger` |
| `AlertPersister` | the alert persister's `run()`, `alert_events`, the consumer group | `StreamIds` |
| `Hysteresis` | the methods of `SchmittTrigger` as operators on a record | |
| `SchmittTrigger` | one trigger against a reference over the whole history | `Hysteresis` |
| `RegimeDetector` | detector, pipeline seal, MULTI, failover and promotion, one symbol | `Hysteresis` |
| `FeedSupervisor` | one ingestor process: `run`, `_run_as_leader`, `_consume_once`, heartbeat, breaker, ladder, watchdog, with the lease and the other replicas as environment | |
| `RecoveryPlan` | the planning functions of `recovery.py` (windows, missing spans, requests, rollup ranges) | |
| `RequestQuota` | `quota.py`: the ledger's take and record | |
| `HistoryRecovery` | runs of the recovery against the feed, the worker, the hot cache and the rollup's policy | `RecoveryPlan`, `RequestQuota` |
| `WsGateway` | one API replica: router, sessions, reader and writer tasks, browser view | |
| `BrowserStore` | one pair in one tab: frames, snapshots, history requests, outages | |

`MC*` modules give constants and symmetry sets; `*Proofs` modules hold the
theorems.

### How state and actions correspond to the code

*LeaderLease.* `owner`, `ttl` are the key and its PTTL; `pc`, `age` say where a
replica is in `hold()` and for how long. Redis runs a command in one step, the
process hears the result in a later one ("won", "renewed", "refused"). `delay`
bounds how late a due step is, `Grace` how long the body runs after `lost`;
`delay` is chosen by `Init` from `Delays` and never changes, so one instance
holds timely behaviours and those of a process that pauses.

*BarPersister.* A tick is its stream id; `RowOf` gives its bar. Prices are left
out: `merged[e]` counts how often tick `e` is in its bar's additive columns.
`mem`, `unacked` are `_accs` and `_unacked`; `pel`, `stale`, `delivered` the
group; `wm` is `last_stream_id`. The lease is the one of `LeaderLease` without
its clock; `Stall` lets it pass on under a paused owner. Every read, commit and
ack may fail executed or unexecuted; only the sweep suppresses a Redis error.
`Age` is kept from a running owner with folded ticks, because it flushes every
`flush_max_seconds` (1 s), far below `claim_idle_ms`.

*AlertPersister.* No lease: `Age` and `Sweep` let a worker take a batch another
is still working on. `rows` holds the timestamp stored under a key; `alarmed`
is the history of `alert.seq_collision`. Trimming of the alert stream at
`ALERT_MAXLEN` (10,000) is left out.

*Hysteresis, RegimeDetector.* Time is the minute of a bar. A z-score is the side
of the two thresholds it falls on; the baseline is `frozen` and `relearned`
(has it admitted a sample of the present event). `Seal` is one tick that closes
a bucket: `handle`, `_seal_bar`, `update` and the MULTI. `SealFails` is a MULTI
that was executed but whose reply was lost: the Redis error ends the process.
`StepDown` keeps the object, as `run()` does when it re-enters standby;
`Restore` replaces what `RegimeDetector.restore` replaces, and nothing else.

*WsGateway.* A conflated channel carries versions; alerts are `<<symbol, seq>>`.
The replica is one asyncio thread: `hog` names a writer that no longer
suspends. What lies between two awaits is one step. The snapshot is requested
(`StartSnapshot`), read (`ReadSnapshot`) and sent (`SendSnapshot`) in three.

*FeedSupervisor.* The process is one record, `me`; a unit of time is a
heartbeat. `pc` follows `run()`: standby, rehydrating, deciding (the head of
`_run_as_leader`'s loop), connecting, streaming, closing (the watchdog has
tripped), sleeping, leaving (the `finally` blocks), exiting, down. `breaker` and
`attempt` are those of `supervisor.py`, `age` the session's age, `idle` the time
since the last pet, `body` a heartbeat composed and not yet written. `status` is
`feed:status` with its TTL. `Quote`, `Drop`, `HangUp`, `AuthFails` are what a
session may bring; `Drop` and `HangUp` are the whole `except` and `else` block,
the back-off included. `Other` stands for all other replicas: it takes a free
lease and may write a status at any time. `failAge` and `quiet` are history
variables: the age of the last failure, and how long an open market has gone
without a quote.

*RecoveryPlan, RequestQuota, HistoryRecovery.* A minute is a number, a day a few
minutes. A bar is what it was made of: live ticks, the provider's history, or
both ("mixed"). `Start` is `run_once` and `_locked` up to `begin_run`; every
later statement that commits on its own is a step: the request taken from the
allowance (`Spend`), the request itself (`Ask`, after the sleep between two
requests), the insert, the cache, the span rows, the rollup refresh, the cache
repair, `finish_run`. The repair's EVAL per bar is one step: each of them adds
one bar and a run that ends among them leaves the rest for the next, as one
that ends before them does. A rate limit may ask for a wait (`RetryAfter`), an
operator for an end of the window (`Until`). `Abandon` ends a run before any of
the steps, with the row still "running"; it stands for an exception, a cancelled
task and a death. Between `Ask` and `RecordSpans` it is the fault "unrecorded",
since it takes the only trace of the request. `asked` is a history variable,
written when the provider is asked and read by no action: it says what was
asked, where the table `spans` says what the code knows of it. The ledger counts
requests by time and `Take` and `Record` are one EVAL each.

*BrowserStore.* A bar is the number of its ticks, since bars of one minute are
cumulative; the provider's own history has zero. A minute's three reports
(sealed, recovered, provisional) are those of `MinuteBook`. The socket is a
queue of frames; a snapshot is owed from the subscription on, read at any later
moment and delivered in its place, as the gateway does. `Conflate`, `Hide`,
`Takeover`, `Recover`, `Redeliver` and `SwitchProvider` are what the rest of the
system may do to a tab. A snapshot's bars and its forming minute, two round
trips in `manager.py`, are read in one step. After a takeover the next tick of
the minute starts a bar of its own, as the new leader's bucket does; after a
switch of provider the first tick is one of a later minute.

## Runs

Passing runs:

| run | checks | bounds, and what they reach |
|---|---|---|
| `lease` | `MutualExclusion`, `OnlyTheOwnerTouchesTheKey`, `DeadLeaderIsReplaced`, `OverlapEnds` | 2 replicas, TTL 7, renewal 2, grace 1, 2 deaths; a delay of 1 (just within `Timely`), 3, or 6, with which a renewal or release arrives after expiry and after a successor's SET |
| `persister_exact` | `ImplementsLedger`, `EveryTickSettles` | 2 workers, 3 ticks in 2 bars, 2 crashes, 1 error, no pause: each of commit, ack and forget is separated from the others by a crash or an error |
| `persister_any` | `AckedIsCovered`, `WatermarkNeverRetreats` | adds a pause, a trim, a malformed tick and two-entry pages |
| `trigger` | `TransitionsAreJustified`, `TriggerInv` (`TypeOK`, `NoTransitionIsMissed`) | 6 bars, gaps on both sides of `SampleTimeout`, failovers anywhere |
| `detector` | `AlternatesAcrossFailovers`, `FailoverIsSeamless`, `CooldownSurvivesFailover`, `FreezeIsBounded`, `ThresholdMeansMarketMoved`, `ObservationLostMeansBlind` | 2 replicas, 6 minutes, a cooldown of 3, a death, and a lease lost or taken over under a paused leader: two escalations fit in, a clear and a death between them. All but `FreezeIsBounded` are about behaviours in which no two replicas led at once |
| `alerts_unique` | `NoAlertIsLost`, `NoFalseAlarm`, `EveryAlertSettles` | 2 workers, 3 entries of which two are one transition and one malformed, a crash, an error |
| `gateway_order` | `ShowsTheLatest`, `AlertsAreNotConflated`, `SessionInv` (`TypeOK`, `OnlyWantedIsQueued`) | 1 client (sessions share nothing but the thread and the router), 2 versions, 2 alerts, 2 subscribes, an unsubscribe, a reconnect |
| `gateway_isolation` | `ServedUnlessAWriterSpins` | 2 clients, one of which may stall, an unsubscribe and a pub/sub outage; once an unsubscribe has left a writer spinning nothing is claimed (see `EveryClientIsServed` below) |
| `feed` | `FeedInv` (`TypeOK`, `ReadyMeansFresh`), `StaleFollowsTheSession`, `NoHammering`, `KeepsTrying`, `StatusIsHealed` | threshold, rest, ladder, exponent limit and healthy session of 2 units, timeouts of 1, a status TTL of 2; one fault (a death, a stop, a Redis error or an unwritten status) and one lost lease: breaker, ladder and exponent reach their limits, and a session can fall silent, close, retry and die within one status |
| `recovery` | `OneRunAtATime`, `BarsInv` (`TypeOK`, `NeverMixed`), `PlanIsExact`, `StoredBarsStay`, `RepairedByFinish`, `AsksApart`, `LeavesTheReserve` | a replica and an operator who does or does not want settled minutes, 2 runs that begin up to `Settle` apart, 7 minutes in days of 4, one closed, two that may be missing, one the worker is slow with; 2 requests a run, 4 a day; a rate limit with and without a wait, an operator who ends the window early; one fault anywhere: an abandoned run is followed by another, and both windows of the budget turn |
| `browser` | `BookInv` (`TypeOK`, `ShowsTheServersMinutes`), `HolesAreMarked`, `RegimeIsCurrent`, `RangeNeverShrinks`, `HistoryIsLoaded` | 4 minutes of up to 2 ticks, snapshots that reach one minute back, 3 frames in flight, an outage or a hidden tab, and one of conflation, failed request, takeover, redelivery or provider switch: an outage longer than a snapshot covers leaves a hole |

The type invariants of the lease, the persisters and the detector are theorems
and are not checked again by a run.

In one run the code contradicts what the repository says of it (the finding in
`PROJECT.json` quotes both sides): in `persister_poison` `DrainEnds` fails, since
a page of only malformed entries is never acknowledged and is read forever.

### Further disagreements the models show

Each of these is a property stated in its module and refuted by TLC within two
minutes when it is checked with the constants given (the others as in the
passing runs); they bound what the passing runs claim.

| property | constants | what happens |
|---|---|---|
| `LeaderLease!DeposedOnlyWithoutTheKey` | `Delays = {1}`, no death | `leader.py:114` takes the first failed renewal for a lost lease, though `leader.py:72-76` makes room for two |
| `BarPersister!NoTickTwice` | tick 1 malformed, 3 ticks of one bar, 1 error | an XACK that fails inside the sweep (`persister.py:316`) leaves committed ticks in memory; the next flush adds them again under a newer id |
| `BarPersister!NoTickLost` | 1 pause, 3 ticks of one bar | after a pause two persisters commit one row out of stream order, and the watermark skips the older ticks |
| `BarPersister!NoTickLost` | 2 crashes, pages of 2, 3 ticks of one bar | a death between two pages of the startup claim leaves the older entries with another consumer than the newer (`persister.py:286`) |
| `RegimeDetector!Alternates` | `MaxLosses = 1` | overlapping leaders publish one seq twice |
| `RegimeDetector!ThawMeansYardstickMoved` | 8 minutes, no failure | the bar that thaws the baseline may confirm a clear, tagged `BASELINE_THAW` before the baseline learned anything (`detector.py:165`) |
| `RegimeDetector!FreezeIsBounded` | without its `deposals = 0`; `MaxLosses = 1`, `ConfirmFor = RearmBars = 0`, 9 minutes | `_rebaselining` survives `restore()` (`detector.py:227`), and the freeze of a later event is not bounded |
| `AlertPersister!NoSilentLoss` | `Key <- ReusedKey` and its companions of `MCAlertPersister`, `BatchSize = 2`, `MaxId = 2`, no malformed entry | of two transitions of one key in one batch the second vanishes, neither stored nor reported as a collision (`alerts.py:158`) |
| `FeedSupervisor!FatalIsShown` | as `feed` | after a 401 `README.md:436` promises status `fatal`; the `finally` of `run()` says `stopped` over it (`main.py:381`) |
| `FeedSupervisor!OnlyTheLeaderReports` | as `feed` | a leader that has not noticed, or whose heartbeat is on its way, writes its status over its successor's, against the intent of `main.py:378-380` |
| `FeedSupervisor!StoppedIsTheLastWord` | as `feed` | a heartbeat composed before the shutdown lands after "stopped" (`main.py:316`) |
| `FeedSupervisor!DropsAreRetried` | as `feed` | `2.0**attempt` overflows (`supervisor.py:70`) outside the `try`, and a drop ends the process |
| `FeedSupervisor!ReadyMeansFresh` | without its `deposals = 0` | a process promoted again heartbeats the "healthy" of its former session while it rehydrates |
| `HistoryRecovery!RunsCannotOverlap` | as `recovery` | the connection that holds the advisory lock dies and the run goes on with others of the pool (`recovery.py:44-45`) |
| `HistoryRecovery!NeverFolded` | as `recovery` | ticks outlive `MINID ~` trimming, and the worker adds them to a recovered bar (`recovery.py:15-17`) |
| `HistoryRecovery!SucceededMeansAsked` | as `recovery` | a run whose pair is backed off plans nothing and is recorded as "succeeded" (`recovery.py:732-736`, `798-799`) |
| `HistoryRecovery!AskedOncePerInterval` | as `recovery` | "asked for at most once in each such interval, not on every run" (`recovery.py:86-88`); but a run that asks the provider (`recovery.py:844`) and ends before `record_spans` (`847`, `875`) leaves no row, and the next run asks for the same minutes within `Settle`. `AsksApart` is what is left: it holds while no run ends there |
| `BrowserStore!SnapshotIsAuthoritative` | as `browser` | `seedRegime` keeps the regime of before the outage until the next live frame (`store.ts:448-455`) |
| `WsGateway!EveryClientIsServed` | as `gateway_isolation` | "nobody blocks anybody" (`conflator.py:30`); but `drain()` leaves the event set when an unsubscribe has emptied the queue (`conflator.py:97`): the writer goes round without suspending, and every task of the replica waits for it |
| `WsGateway!StalledClientIsDropped` | 1 client, 1 stall | a client that stalls in a snapshot is not dropped: that send (`stream.py:169`) has no deadline |
| `WsGateway!NeverGoesBack` | 1 client, 2 versions, 1 subscribe | an older delta is sent after a newer snapshot |

`ObservationLostMeansBlind` leaves out behaviours with a deposal: a replica
promoted again first seals the bucket it left open (`pipeline.py:222` restores
the detector and not the bucket), and dates a silence from it.

Smaller things met on the way, which the models reproduce or leave out: the
watchdog is petted by ticks only (`main.py:156`), so a session of heartbeats
without quotes counts as silent; a silent session older than 30 s counts as one
that worked; `record()` is lost when Redis refuses it, and the ledger then
undercounts (`LeavesTheReserve` excludes it); a tab that knew no provider, or
had no book, when the provider changed has nothing to clear
(`SwitchProvider`'s guard); a `vol` frame conflated away is a sealed minute the
tab never gets (`HolesAreMarked` excludes it).

`CHECK_DEADLOCK FALSE` is said for the trigger, the detector, the gateway, the
recovery and the browser: their bounded inputs (bars, minutes, ticks, runs,
operations) run out.

### Fairness

- `LeaderLease`: the clock runs; a live process takes its due steps; a dead one
  is restarted; `Enter` is strongly fair, since the network does not lose the
  reply to every successful SET.
- `BarPersister`: asyncio runs ready tasks, the key expires, a standby polls, a
  dead process is restarted. `TurnFlush` is strongly fair: it is the
  `flush_max_seconds` timer of a loop that keeps turning.
- `AlertPersister`: asyncio and the clock; `Sweep` is strongly fair, being a
  timer of a loop that keeps turning. No restart is assumed.
- `WsGateway`: the router, and each reader and writer, weakly. All of them need
  the thread, so a writer that spins starves them.
- `FeedSupervisor`: the clock and everything asyncio has ready; `connect()` and
  the closing of a socket end at their timeouts; the renewer runs; a process
  that ended is started again. No quote, fault or step of another replica is
  owed, and neither is the end of a session that streams.
- `BrowserStore`: the history effect, its answer and its retry timer, weakly.

Errors, crashes, pauses, stalls and client operations are never owed.

## Proofs

| theorem | states | argument |
|---|---|---|
| `LeaderLeaseProofs!TypeCorrect` | `TypeOK` | per action |
| `LeaderLeaseProofs!LeaseIsCovered`, `TimelyLeaseExcludes` | `LeaseInv`, `MutualExclusion`: both of behaviours whose delay is `Timely` | `LeaseInv` is inductive: a replica past its SET owns the key, and what is left of the TTL plus what it has spent since its last PEXPIRE is at least the TTL; so the key cannot expire under it, and two bodies would be two owners |
| `LeaderLeaseProofs!KeyIsFenced` | `OnlyTheOwnerTouchesTheKey`, with no timing assumption | the compare in the Lua scripts |
| `BarPersisterProofs!TypeCorrect`, `WatermarksGrow` | `TypeOK`, `WatermarkNeverRetreats` | the upsert's WHERE clause |
| `BarPersisterProofs!AckOrderingCovers` | `AckedIsCovered` | `CoverInv` adds that an unacknowledged tick that parses is folded in memory and that flush() reaches XACK only with every folded tick at or below its row's watermark; without these the XACK step is not provable |
| `BarPersisterProofs!PersisterIsALedger` | `Spec /\ []Calm => ImplementsLedger`: the persister implements `TickLedger` as long as the state is `Calm` (no pause has outlived the lease, nothing was trimmed, every entry parses, at most a page is pending) | `ExactInv`: one body runs; a bar holds exactly the ticks up to its watermark, once each; what is pending is one batch of one consumer, committed as a whole or not at all; and whoever is past the startup claim has exactly this batch in memory. A commit is then a `Count` of the ledger or, repeated, a stutter, and an XACK settles only counted ticks. TLC refutes `ImplementsLedger` when any of the four conditions is dropped |
| `SchmittTriggerProofs!EvidenceBeforeTransition`, `EvidenceBringsTransition` | `TransitionsAreJustified`, `TriggerInv` | `HistoryInv` says how the trigger's fields stand to the history it was fed: the candidate is the longest run of bars for the other regime that ends with the last bar, a confirmed one that is still a candidate waits for the cooldown, `unobserved` is the minute the silence began, `lastEscalation` the minute of the latest escalation. No induction over the history is needed, since a bar only extends these runs or ends them |
| `RegimeDetectorProofs!TypeCorrect` | `TypeOK` | the operators of `Hysteresis` preserve the trigger's type |
| `RegimeDetectorProofs!StreamAlternates`, `CooldownSurvives`, `PromotionIsSeamless` | `AlternatesAcrossFailovers`, `CooldownSurvivesFailover`, `FailoverIsSeamless`: each as long as no two replicas have led at once | `StoryInv`: one leader, whose trigger agrees with the snapshot in seq, regime and last escalation; the snapshot agrees with the end of the stream and remembers its youngest escalation |
| `RegimeDetectorProofs!FreezeEnds`, `ThresholdIsTheMarket`, `LostIsBlind` | `FreezeIsBounded`, `ThresholdMeansMarketMoved`, `ObservationLostMeansBlind`; the first assumes `ThawAfter # 0` | `ClearInv`: a baseline that learns from an event has its trigger marked thawed, in memory and in the snapshot; the one leader's baseline is the stored one; `_rebaselining` is only set of a leader that learns; no open bucket and no silence began before the last evaluated minute. `TriggerConfig` accepts a `thaw_after` of zero, with which the bar that escalates is itself due for the thaw and freezes |
| `FeedSupervisorProofs!BreakerRests`, `ProviderIsLeftAlone` | `NoHammering` | `Rested`: a closed breaker is below its threshold; an open one is exactly as old as the last failure and no session runs under it; a half-open one has its probe under way, or its process is ending. The last part is what a stop, a refusal or a Redis error in the middle of a probe must not break: a half-open breaker in standby would let a later leadership try at once |
| `FeedSupervisorProofs!FlagFollowsTheSession` | `StaleFollowsTheSession` | per action |
| `FeedSupervisorProofs!HealthyMeansFresh` | `FeedInv` (`TypeOK`, `ReadyMeansFresh`) | `FreshInv`: the last word stays "healthy" while a silence goes unnoticed, the socket closes, the next try is slept for and times out, each stage counted by its own timer; a heartbeat on its way is within the same bound, and a written key exceeds it by no more than its TTL has run down. It needs that a leader which was never deposed owns the key |
| `HistoryRecoveryProofs!RunsExclude` | `OneRunAtATime` | `LockInv`: while no lock connection has been lost, a run inside holds the lock and its row is the only one marked running; `abort_stale_runs` under the lock restores it after an abandoned run |
| `HistoryRecoveryProofs!PlansAreExact` | `PlanIsExact` | in any state: `open_minutes` and `missing_spans` cover the missing minutes in order (`OpenMinutesExact`, `MissingSpansExact`), `split_by_days` loses and repeats none (`SplitExact`), and `plan_requests` only groups the parts, closing a request before it would span too many days (`PlanExact`) |
| `HistoryRecoveryProofs!BarsHold`, `StoredStay` | `BarsInv` (`TypeOK`, `NeverMixed`), `StoredBarsStay` | `Shape` is the types and bounds; `RunsInv` says that a run's window ends `Horizon` before the run began and that all it asks, got and inserted lies in the window; `PastInv` that recovered minutes are older than the horizon and waiting ticks are not. An insert can then only meet a minute that no tick will reach |
| `HistoryRecoveryProofs!KeepsTheReserve` | `LeavesTheReserve` | `LedgerInv`: the sorted set has every request of the last day, so what the Lua script counts is what was made; and the count of a ledger grows by the requests added |
| `HistoryRecoveryProofs!AsksAreApart` | `AsksApart`: as long as no run was cut short between its request and its span rows and no lock connection was lost | `AskInv`: every request made has its row in the table of spans, or the run that made it is inside and still has to write it. A run starts with the lock free, so no run is inside, all requests have rows and its plan leaves out what they cover; `DueInv`: what a run still has to ask is due. The requests of a plan share no minute, so one of them leaves the others due, and no other run asks under the lock |
| `HistoryRecoveryProofs!FinishedIsRepaired` | `RepairedByFinish` | `RollInv`: a minute in a closed bucket of a run's window is rolled up as it is stored, or the run's refresh is still to come and has it among its targets; and the repair's write leaves the cache with nothing more to take (`TakesAll`): what the bound drops is older than all that is kept |
| `AlertPersisterProofs!TypeCorrect`, `AckedIsStored`, `AlarmsAreReal` | `TypeOK`, `NoAlertIsLost`, `NoFalseAlarm`, assuming `KeysAreUnique` for the last two | `AlertInv`: a row is some transition of its key; a batch past its insert has a row for each of its keys |
| `WsGatewayProofs!SessionsAreSound` | `SessionInv` (`TypeOK`, `OnlyWantedIsQueued`) | per action |
| `WsGatewayProofs!SnapshotLeavesNoGap` | `ShowsTheLatest` | `DeliveryInv`: of a channel's versions in pub/sub the last is the newest; no copy is ahead of Redis; and while pub/sub was never down the newest version of a subscribed channel is shown, or is in pub/sub, the queue, the batch being sent, or a snapshot that is owed or read. A client at rest has none of these left |
| `WsGatewayProofs!NoAlertIsConflated` | `AlertsAreNotConflated` | `AlertsOnTheirWay`: a transition leaves the queue only for the batch that is being sent |

Every inductive invariant (`LeaseInv`, `CoverInv`, `ExactInv`, `HistoryInv`,
`StoryInv`, `ClearInv`, `FreshInv`, `AlertInv`, `DeliveryInv`,
`AlertsOnTheirWay`, `RunsInv`, `PastInv`, `LedgerInv`, `AskInv`, `DueInv`,
`RollInv`) was checked with TLC on the instance of its run before it
was proved. A process of `FeedSupervisor` and a run of `HistoryRecovery` are
records of fourteen and more fields; their proofs say of them only that they
have these fields, and what the invariant needs. The ladder's `Delays` are
written as the delays up to `BackoffCap` that `2 ^ attempt` allows, so that no
proof needs to know how large a power is.

The planner and the ledger's count are folds. A fold is the CHOOSE of a
recursive function over subsets, so the first sections of
`HistoryRecoveryProofs` show that such a function exists and follow it
by induction. The library's induction theorems take a predicate, which
the provers cannot instantiate; the inductions here are stated about the set of
those numbers or subsets for which the claim holds, from the well-foundedness of
the natural numbers (`WFMin`).

The recovery's proofs assume of the constants what `PlanAssumption`,
`RecoveryAssumption` and the quota's assumption say: signs, and which sets the
instance's minutes belong to. `Horizon > 0` is needed since the minute that has
just ended may wait in the stream; in the code the horizon is the stream's
retention plus two minutes (`apps/ingestor/fx_ingestor/main.py:296`,
`recovery.py:659`).

Only model-checked: every liveness property (TLAPS has no fairness here), and
the browser's `BookInv`, `HolesAreMarked`, `RegimeIsCurrent` and
`RangeNeverShrinks`, for which no inductive invariant has been written yet.

## Not modelled

Floating-point numerics (estimators, baseline and profile values), the session
calendar's time zones, provider frame parsing and HTTP, rendering, metrics and
logging, the REST reads other than `readyz`; tickets and the rate limiter, whose
operations are single atomic Redis commands. In the gateway: ping, malformed
operations, the symbol limit, the hello's own send, replica shutdown. In the
pipeline: `adopt_provider`'s parking of keys and the seeding of history, other
than what a tab sees of them. In the recovery: all but one symbol and one
rollup, and the dry run. In the feed supervisor: an error of the renewer's own
(it ends the lease as a refusal does), a Redis error while a socket closes, and
idle time while the market is closed, which `Aged` keeps at zero. In the
browser: the z series (`pushZ` may append an
older minute), daily bars, the minute built for a server without bars,
`MINUTE_CAP`, the socket's back-off.

## Plan

1. Proofs: the browser's `TypeOK` and `RangeNeverShrinks`, then an inductive
   invariant for `HolesAreMarked`.
2. `ProviderSwitch`: `adopt_provider` and the parked detectors' seq.
