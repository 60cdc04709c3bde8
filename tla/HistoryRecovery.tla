-------------------------- MODULE HistoryRecovery --------------------------
(***************************************************************************)
(* The recovery of missed minutes, apps/ingestor/fx_ingestor/recovery.py,  *)
(* for one symbol and one rollup, with its task in main.py and the ledger  *)
(* of provider requests in quota.py.  Several processes may try to run it: *)
(* the leading replicas, on a schedule, and an operator's command line.    *)
(*                                                                         *)
(* The world around a run are the feed and the worker, which store live    *)
(* minutes, the live writer of the hot cache, the refresh policy of the    *)
(* rollup, and the requests of the live feed.  A stored bar is only what   *)
(* it was made of: live ticks, the provider's history, or both.            *)
(* A dry run and `--help` change nothing and are left out.                 *)
(***************************************************************************)
EXTENDS RecoveryPlan, RequestQuota

CONSTANTS Replicas, Manual,   \* processes: scheduled and command-line ones
          Closed,             \* minutes the market is closed
          MaxRequests,        \* requests of one run
          Settle, AuthBackoff, RateBackoff,
          CacheBars,          \* HOT_CACHE_BARS
          PolicyLookback,     \* minutes the rollup's own policy looks back
          RetryAfter,         \* waits a rate limit may ask for, 0 for none
          Since, Until, IncludeSettled,   \* what an operator may ask for
          Gaps, Slow,         \* minutes that may pass without a tick, and those
                              \* the worker may take its time over
          FirstNow, MaxNow, MaxRuns, MaxFaults, RunTime,  \* model bounds
          LiveAt,             \* minutes in which the live feed may make a request
          LockLossAt          \* steps of a run before which the lock may be lost

Runners == Replicas \cup Manual
Minutes == 0..MaxNow - 1
Never   == -1

ASSUME RecoveryAssumption ==
    /\ Replicas \cap Manual = {}
    /\ Closed \subseteq Minutes /\ Gaps \subseteq Minutes /\ Slow \subseteq Minutes
    /\ {Since, Until} \subseteq SUBSET Minutes /\ IncludeSettled \subseteq BOOLEAN
    /\ RetryAfter \subseteq Nat /\ 0 \in RetryAfter
    /\ FirstNow \in 0..MaxNow
    /\ {Settle, AuthBackoff, RateBackoff, PolicyLookback, MaxFaults, RunTime}
           \subseteq Nat
    /\ {MaxRequests, CacheBars, MaxNow, MaxRuns} \subseteq Nat \ {0}

VARIABLES
    now,       \* the current minute
    bars,      \* bars_1m: what each minute's row was made of, "none" without a row
    pending,   \* minutes whose ticks the worker has not stored yet
    rolled,    \* the rows the rollup was last computed from
    cache,     \* minutes in the Redis series; the key exists iff it is not empty
    rows,      \* history_recovery_runs: the status of each run begun
    spans,     \* history_recovery_spans: [start, end, status, at]
    lock,      \* the advisory lock's holders: {} or one process
    run,       \* the run each process is in
    blocked,   \* blocked_until and symbol_blocked_until of each replica
    ledger,    \* the request ledger
    made,      \* history: every request entered, by time
    asked,     \* history: per minute, the time of the last run that asked for it
    faults     \* what has gone wrong so far

vars == <<now, bars, pending, rolled, cache, rows, spans, lock, run, blocked,
          ledger, made, asked, faults>>
account == <<ledger, made>>
world   == <<now, pending, account, faults>>

Kinds     == {"none", "live", "backfill", "mixed"}
Recovered == {"backfill", "mixed"}
Statuses  == {"running", "succeeded", "partial", "failed", "aborted"}
Answers   == {"bars", "auth", "rate", "forbidden", "error"}

Idle == [pc |-> "idle", id |-> 0, at |-> 0, window |-> [start |-> 0, end |-> -1],
         settledToo |-> FALSE, rest |-> <<>>, answer |-> "bars", got |-> {},
         inserted |-> {}, changed |-> {}, stale |-> {}, status |-> "running",
         incomplete |-> FALSE, refused |-> FALSE]

-----------------------------------------------------------------------------
(* The hot cache.                                                          *)

Newest(ms) == {m \in ms : Cardinality({n \in ms : n > m}) < CacheBars}

cache_horizon(at) == at - CacheBars

(* _CACHE_ADD_LUA.                                                         *)
cache_add(c, ms) == IF c = {} THEN {} ELSE Newest(c \cup ms)

cache_would_take(c, ms) ==
    IF c = {} THEN {} ELSE {m \in ms \ c : Cardinality(c) < CacheBars \/ m > Min(c)}

recovered_since(since) == {m \in Minutes : m >= since /\ bars[m] \in Recovered}

_cache_repairs(at) == cache_would_take(cache, recovered_since(cache_horizon(at)))

(* The rollup.                                                             *)

(* The minutes of the buckets a stale bucket of the window lies between.   *)
stale_rollups(window, at) ==
    LET bad == {m \in refresh_range(window.start, window.end, at) : rolled[m] # bars[m]}
    IN IF bad = {} THEN {} ELSE refresh_range(Min(bad), Max(bad), at)

(* One refresh over everything between the first and the last target.      *)
Targets(stale, changed, at) ==
    LET ms == stale \cup (IF changed = {} THEN {}
                          ELSE refresh_range(Min(changed), Max(changed), at))
    IN IF ms = {} THEN {} ELSE Min(ms)..Max(ms)

Refreshed(ms) == [m \in Minutes |-> IF m \in ms THEN bars[m] ELSE rolled[m]]

-----------------------------------------------------------------------------
(* What is missing, and what of it may be asked for.                       *)

present(window) == {m \in each_minute(window) : bars[m] # "none"}

settled == {s \in spans : s.status # "failed" /\ s.at >= s.end + Settle}

asked_since(since) == {s \in spans : s.at > since}

Askable(window, settledToo) ==
    missing_spans(open_minutes(window, Closed), present(window),
                  IF settledToo THEN {} ELSE settled \cup asked_since(now - Settle))

-----------------------------------------------------------------------------
(* A run.                                                                  *)

Fault(what) ==
    /\ what \notin faults /\ Cardinality(faults) < MaxFaults
    /\ faults' = faults \cup {what}

Goto(r, pc)     == run' = [run EXCEPT ![r].pc = pc]
Free            == [all |-> 0, symbol |-> 0]
BlockedOf(r)    == IF r \in Manual THEN Free ELSE blocked[r]

(* The next request, or the rollups when none is left.                     *)
AfterRequest(rest) == IF rest = <<>> THEN "roll" ELSE "ask"

latest == recovery_window(now)

(* The command line may begin and end anywhere before the newest minute.   *)
Windows(r) ==
    {w \in IF r \in Manual
           THEN {[start |-> s, end |-> Smaller(u, latest.end)] :
                     s \in Since, u \in Until \cup {latest.end}}
           ELSE {latest} :
        w.start <= w.end}

(* Mutated: runs left behind stay as they are.                             *)
abort_stale_runs_never(rs) == rs

abort_stale_runs(rs) ==
    [id \in DOMAIN rs |-> IF rs[id] = "running" THEN "aborted" ELSE rs[id]]

exclusive(r) == lock = {}

(* The run that begins now with these requests.                            *)
NewRun(w, settledToo, requests, stale, more) ==
    [Idle EXCEPT !.pc = AfterRequest(requests), !.id = Len(rows) + 1, !.at = now,
                 !.window = w, !.settledToo = settledToo, !.rest = requests,
                 !.stale = stale, !.incomplete = more]

(* run_once and _locked up to begin_run; a run that finds nothing to do    *)
(* has marked the dead ones and ends here.                                 *)
Start(r) ==
    /\ run[r].pc = "idle"
    /\ now >= BlockedOf(r).all
    /\ exclusive(r)
    /\ \E w \in Windows(r), settledToo \in (IF r \in Manual THEN IncludeSettled ELSE {FALSE}) :
         LET askable == Askable(w, settledToo)
             plan    == IF now < BlockedOf(r).symbol THEN <<>> ELSE plan_requests(askable)
             first   == SubSeq(plan, 1, Smaller(Len(plan), MaxRequests))
             stale   == stale_rollups(w, now)
             aborted == abort_stale_runs(rows)
         IN \/ /\ askable = <<>> /\ stale = {} /\ _cache_repairs(now) = {}
               /\ rows' = aborted
               /\ UNCHANGED <<lock, run>>
            \/ /\ askable # <<>> \/ stale # {} \/ _cache_repairs(now) # {}
               /\ Len(rows) < MaxRuns
               /\ rows' = Append(aborted, "running")
               /\ lock' = {r}
               /\ run' = [run EXCEPT ![r] =
                              NewRun(w, settledToo, first, stale, Len(plan) > MaxRequests)]
    /\ UNCHANGED <<world, bars, rolled, cache, spans, blocked, asked>>

(* The lease is lost: the loop of _request_all ends before its next        *)
(* request.                                                                *)
Stop(r) ==
    /\ r \in Replicas /\ run[r].pc = "ask"
    /\ run' = [run EXCEPT ![r].pc = "roll", ![r].rest = <<>>,
                          ![r].status = "aborted", ![r].incomplete = TRUE]
    /\ UNCHANGED <<world, bars, rolled, cache, rows, spans, lock, blocked, asked>>

(* A request for a pair this run was refused.                              *)
SkipRefused(r) ==
    /\ run[r].pc = "ask" /\ run[r].refused
    /\ run' = [run EXCEPT ![r].rest = Tail(@), ![r].pc = AfterRequest(Tail(run[r].rest))]
    /\ UNCHANGED <<world, bars, rolled, cache, rows, spans, lock, blocked, asked>>

(* No allowance to spare, or no ledger to prove it: the rest is postponed. *)
Postpone(r) ==
    /\ run[r].pc = "ask" /\ ~run[r].refused
    /\ run' = [run EXCEPT ![r].pc = "roll", ![r].rest = <<>>, ![r].incomplete = TRUE]
    /\ \/ /\ ~Take(ledger, now).granted
          /\ ledger' = Take(ledger, now).ledger /\ UNCHANGED faults
       \/ Fault("redis") /\ UNCHANGED ledger
    /\ UNCHANGED <<now, pending, made,
                   bars, rolled, cache, rows, spans, lock, blocked, asked>>

(* One request is taken from the allowance; the run may sleep before it    *)
(* makes it.                                                               *)
Spend(r) ==
    /\ run[r].pc = "ask" /\ ~run[r].refused
    /\ Take(ledger, now).granted
    /\ ledger' = Take(ledger, now).ledger
    /\ made' = [made EXCEPT ![now] = @ + 1]
    /\ Goto(r, "send")
    /\ UNCHANGED <<now, pending, faults,
                   bars, rolled, cache, rows, spans, lock, blocked, asked>>

(* The request is made, and from here on the provider was asked; it has    *)
(* bars for any of the minutes, or fails in one of its ways.               *)
Ask(r) ==
    /\ run[r].pc = "send"
    /\ asked' = [m \in Minutes |-> IF m \in Wanted(Head(run[r].rest))
                                   THEN Larger(asked[m], run[r].at) ELSE asked[m]]
    /\ \/ \E got \in SUBSET Wanted(Head(run[r].rest)) :
            run' = [run EXCEPT ![r].pc = "insert", ![r].answer = "bars", ![r].got = got]
       \/ \E e \in Answers \ {"bars"} :
            run' = [run EXCEPT ![r].pc = "record", ![r].answer = e, ![r].got = {}]
    /\ UNCHANGED <<world, bars, rolled, cache, rows, spans, lock, blocked>>

(* Mutated: ON CONFLICT DO UPDATE.                                         *)
InsertedOverwriting(got) == got

(* _INSERT_BARS: ON CONFLICT DO NOTHING RETURNING bucket.                  *)
Inserted(got) == {m \in got : bars[m] = "none"}

Insert(r) ==
    /\ run[r].pc = "insert"
    /\ bars' = [m \in Minutes |-> IF m \in Inserted(run[r].got) THEN "backfill" ELSE bars[m]]
    /\ run' = [run EXCEPT ![r].pc = "cache", ![r].inserted = Inserted(run[r].got)]
    /\ UNCHANGED <<world, rolled, cache, rows, spans, lock, blocked, asked>>

CacheInserted(r) ==
    /\ run[r].pc = "cache"
    /\ cache' = cache_add(cache, {m \in run[r].inserted : m >= cache_horizon(run[r].at)})
    /\ Goto(r, "record")
    /\ UNCHANGED <<world, bars, rolled, rows, spans, lock, blocked, asked>>

(* Mutated: a failed request leaves no row.                                *)
SpanRowsOfAnswers(part, answer, got, at) ==
    IF answer # "bars" THEN {}
    ELSE {[start |-> part.start, end |-> part.end, at |-> at,
           status |-> IF each_minute(part) \cap got = {} THEN "silent" ELSE "recovered"]}

(* The row of one span: failed, silent, or with bars for all or some of it.*)
SpanRows(part, answer, got, at) ==
    {[start |-> part.start, end |-> part.end, at |-> at,
      status |-> CASE answer # "bars" -> "failed"
                   [] each_minute(part) \subseteq got -> "recovered"
                   [] each_minute(part) \cap got = {} -> "silent"
                   [] OTHER -> "partial"]}

(* The back-offs after a run's answer, which may ask for a wait.           *)
BackedOff(until, me, wait) ==
    CASE me.answer = "auth"      -> [until EXCEPT !.all = me.at + AuthBackoff]
      [] me.answer = "rate"      -> [until EXCEPT !.all = me.at + Larger(wait, RateBackoff)]
      [] me.answer = "forbidden" -> [until EXCEPT !.symbol = me.at + AuthBackoff]
      [] OTHER -> until

(* record_spans, and what _request_all does with the outcome.              *)
RecordSpans(r) ==
    LET me   == run[r]
        over == me.answer \in {"auth", "rate"}
        rest == IF over THEN <<>> ELSE Tail(me.rest)
        req  == Head(me.rest)
    IN /\ me.pc = "record"
       /\ spans' = spans \cup UNION {SpanRows(req[k], me.answer, me.got, me.at) : k \in DOMAIN req}
       /\ IF r \in Manual THEN UNCHANGED blocked
          ELSE \E wait \in RetryAfter : blocked' = [blocked EXCEPT ![r] = BackedOff(@, me, wait)]
       /\ run' = [run EXCEPT ![r] = [me EXCEPT
             !.pc = AfterRequest(rest), !.rest = rest,
             !.changed = me.changed \cup me.inserted, !.inserted = {}, !.got = {},
             !.answer = "bars",
             !.refused = me.refused \/ me.answer = "forbidden",
             !.incomplete = me.incomplete \/ me.answer # "bars",
             !.status = IF me.answer = "auth" THEN "failed" ELSE me.status]]
       /\ UNCHANGED <<world, bars, rolled, cache, rows, lock, asked>>

(* Mutated: only what this run inserted is refreshed.                      *)
RollupTargetsChanged(r) == Targets({}, run[r].changed, run[r].at)

RollupTargets(r) == Targets(run[r].stale, run[r].changed, run[r].at)

RefreshRollups(r) ==
    /\ run[r].pc = "roll"
    /\ rolled' = Refreshed(RollupTargets(r))
    /\ Goto(r, "repair")
    /\ UNCHANGED <<world, bars, cache, rows, spans, lock, blocked, asked>>

RepairCache(r) ==
    /\ run[r].pc = "repair"
    /\ cache' = cache_add(cache, _cache_repairs(run[r].at))
    /\ Goto(r, "finish")
    /\ UNCHANGED <<world, bars, rolled, rows, spans, lock, blocked, asked>>

FinalStatus(me) ==
    IF me.status # "running" THEN me.status
    ELSE IF me.incomplete THEN "partial" ELSE "succeeded"

(* finish_run, and the lock goes with the context manager.                 *)
Finish(r) ==
    /\ run[r].pc = "finish"
    /\ rows' = [rows EXCEPT ![run[r].id] = FinalStatus(run[r])]
    /\ lock' = lock \ {r}
    /\ run' = [run EXCEPT ![r] = Idle]
    /\ UNCHANGED <<world, bars, rolled, cache, spans, blocked, asked>>

Unrecorded == {"insert", "cache", "record"}

(* PostgreSQL or Redis fails, the task is cancelled, or the process dies:  *)
(* the lock is released and the row stays "running".  The object and its   *)
(* back-offs outlive an error, not a new leadership or a new process.      *)
(* Between the request and record_spans it takes the trace of the request. *)
Abandon(r) ==
    /\ run[r].pc # "idle"
    /\ Fault(IF run[r].pc \in Unrecorded THEN "unrecorded" ELSE "abandoned")
    /\ lock' = lock \ {r}
    /\ run' = [run EXCEPT ![r] = Idle]
    /\ \/ UNCHANGED blocked
       \/ r \in Replicas /\ blocked' = [blocked EXCEPT ![r] = Free]
    /\ UNCHANGED <<now, pending, account, bars, rolled, cache, rows, spans, asked>>

-----------------------------------------------------------------------------
(* The world.  External, but for the bound of the cache and the ledger.    *)

(* The refresh policy: closed buckets of the recent past.                  *)
PolicyRange(t) == refresh_range(Larger(t - PolicyLookback, 0), t, t)

(* The outcomes of a minute: its ticks are stored, or in the stream still, *)
(* or there was none.                                                      *)
Outcomes(m) ==
    CASE m \in Closed -> {"missed"}
      [] OTHER -> {"stored"} \cup (IF m \in Slow THEN {"slow"} ELSE {})
                             \cup (IF m \in Gaps THEN {"missed"} ELSE {})

(* A minute ends; the live writer puts one with ticks in the cache.  The   *)
(* stream has dropped the ticks of every minute that becomes eligible,     *)
(* unless a fault kept them.                                               *)
NextMinute ==
    /\ now < MaxNow
    /\ \A r \in Runners : run[r].pc # "idle" => now < run[r].at + RunTime
    /\ now' = now + 1
    /\ \E outcome \in Outcomes(now) :
         /\ bars' = [bars EXCEPT ![now] = IF outcome = "stored" THEN "live" ELSE @]
         /\ pending' = {m \in pending : m > now - Horizon \/ "late" \in faults}
                         \cup (IF outcome = "slow" THEN {now} ELSE {})
         /\ cache' = IF outcome = "missed" THEN cache ELSE Newest(cache \cup {now})
    /\ rolled' = Refreshed(PolicyRange(now + 1))
    /\ UNCHANGED <<rows, spans, lock, run, blocked, account, asked, faults>>

(* The worker's upsert of a minute: into an absent row or onto one.        *)
WorkerStores(m) ==
    /\ m \in pending
    /\ pending' = pending \ {m}
    /\ bars' = [bars EXCEPT ![m] = IF @ \in Recovered THEN "mixed" ELSE "live"]
    /\ UNCHANGED <<now, rolled, cache, rows, spans, lock, run, blocked, account, asked,
                   faults>>

(* A request of the live feed: entered, unless Redis fails it.             *)
LiveRequest ==
    /\ now \in LiveAt /\ made[now] = 0
    /\ made' = [made EXCEPT ![now] = @ + 1]
    /\ \/ ledger' = Record(ledger, now) /\ UNCHANGED faults
       \/ Fault("redis") /\ UNCHANGED ledger
    /\ UNCHANGED <<now, bars, pending, rolled, cache, rows, spans, lock, run, blocked,
                   asked>>

(* The stream is trimmed only when a tick is added, and roughly: its ticks *)
(* may outlive their retention.                                            *)
StreamKeeps ==
    /\ pending # {} /\ Fault("late")
    /\ UNCHANGED <<now, bars, pending, rolled, cache, rows, spans, lock, run, blocked, account,
                   asked>>

(* The connection that holds the lock dies; the run has others.            *)
LockLost(r) ==
    /\ r \in lock /\ run[r].pc \in LockLossAt /\ Fault("lock")
    /\ lock' = {}
    /\ UNCHANGED <<now, bars, pending, rolled, cache, rows, spans, run, blocked, account,
                   asked>>

-----------------------------------------------------------------------------
(* The past is any the system may find; its rollup is up to date.          *)
Init ==
    /\ now = FirstNow
    /\ \E past \in [0..FirstNow - 1 -> {"stored", "slow", "missed"}] :
         /\ \A m \in DOMAIN past : past[m] \in Outcomes(m)
         /\ bars = [m \in Minutes |-> IF m < now /\ past[m] = "stored" THEN "live" ELSE "none"]
         /\ pending = {m \in DOMAIN past : past[m] = "slow" /\ m >= now - Horizon}
         /\ cache = Newest({m \in DOMAIN past : past[m] # "missed"})
    /\ rolled = bars
    /\ rows = <<>> /\ spans = {} /\ lock = {}
    /\ run = [r \in Runners |-> Idle]
    /\ blocked = [r \in Replicas |-> Free]
    /\ ledger = [t \in 0..MaxNow |-> 0] /\ made = ledger
    /\ asked = [m \in Minutes |-> Never]
    /\ faults = {}

RunStep(r) ==
    \/ Start(r) \/ Stop(r) \/ SkipRefused(r) \/ Postpone(r) \/ Spend(r) \/ Ask(r)
    \/ Insert(r) \/ CacheInserted(r) \/ RecordSpans(r) \/ RefreshRollups(r) \/ RepairCache(r) \/ Finish(r)

Next ==
    \/ \E r \in Runners : RunStep(r) \/ Abandon(r) \/ LockLost(r)
    \/ NextMinute \/ LiveRequest \/ StreamKeeps
    \/ \E m \in Minutes : WorkerStores(m)

Spec == Init /\ [][Next]_vars

-----------------------------------------------------------------------------
(* What holds.                                                             *)

RunRecord ==
    [pc : {"idle", "ask", "send", "insert", "cache", "record", "roll", "repair", "finish"},
     id : 0..MaxRuns, at : 0..MaxNow,
     window : [start : Minutes, end : {-1} \cup Minutes], settledToo : BOOLEAN,
     rest : Seq(Seq([start : Minutes, end : Minutes])), answer : Answers,
     got : SUBSET Minutes, inserted : SUBSET Minutes, changed : SUBSET Minutes,
     stale : SUBSET Minutes, status : Statuses, incomplete : BOOLEAN, refused : BOOLEAN]

(* The state has the shape of the tables, keys and objects it stands for,  *)
(* and the hot cache never outgrows its bound.                             *)
TypeOK ==
    /\ now \in 0..MaxNow
    /\ bars \in [Minutes -> Kinds] /\ rolled \in [Minutes -> Kinds]
    /\ pending \subseteq Minutes
    /\ cache \subseteq Minutes /\ Cardinality(cache) <= CacheBars
    /\ rows \in Seq(Statuses) /\ Len(rows) <= MaxRuns
    /\ spans \subseteq [start : Minutes, end : Minutes, at : 0..MaxNow,
                        status : {"failed", "recovered", "partial", "silent"}]
    /\ lock \subseteq Runners /\ Cardinality(lock) <= 1
    /\ run \in [Runners -> RunRecord]
    /\ blocked \in [Replicas -> [all : Nat, symbol : Nat]]
    /\ ledger \in [0..MaxNow -> Nat] /\ made \in [0..MaxNow -> Nat]
    /\ asked \in [Minutes -> {Never} \cup 0..MaxNow]
    /\ faults \subseteq {"abandoned", "unrecorded", "late", "lock", "redis"}

Inside(r) == run[r].pc # "idle"

(* Runs do not overlap, and no run is marked running but the one that is   *)
(* under way, or the last one that was abandoned: as long as the lock's    *)
(* connection lives as long as its run.                                    *)
OneRunAtATime ==
    "lock" \notin faults =>
        /\ \A r, q \in Runners : Inside(r) /\ Inside(q) => r = q
        /\ \A r \in Runners : Inside(r) =>
             {id \in DOMAIN rows : rows[id] = "running"} = {run[r].id}

(* Provider prices are never folded into a live bar: the worker has no     *)
(* ticks of a minute that may be recovered, as long as the stream keeps to *)
(* its retention.                                                          *)
NeverMixed == "late" \notin faults => \A m \in Minutes : bars[m] # "mixed"

(* Tables and cache keep their shape and bounds, and no bar is a mixture.  *)
BarsInv == TypeOK /\ NeverMixed

(* A run never changes a stored bar, whoever stored it while the run was   *)
(* on its way.                                                             *)
StoredBarsStay ==
    [][\A m \in Minutes :
         bars[m] # "none" /\ bars'[m] # bars[m] => m \in pending /\ m \notin pending']_vars

(* When a run finishes, the closed buckets of its window are the fold of   *)
(* their minutes and the cache lacks no recovered minute it would take,    *)
(* including what an abandoned run left undone.                            *)
RepairedByFinish ==
    [][\A r \in Runners :
         run[r].pc = "repair" /\ run'[r].pc = "finish" /\ faults \cap {"late", "lock"} = {} =>
            /\ \A m \in each_minute(run[r].window)
                        \cap refresh_range(run[r].window.start, run[r].window.end, run[r].at) :
                  rolled'[m] = bars'[m]
            /\ cache_would_take(cache', recovered_since(cache_horizon(run[r].at))) = {}]_vars

(* A run that heeds the rows of asked spans asks for a minute that a run   *)
(* which began less than Settle before it asked for, or for one that it    *)
(* asked for itself.                                                       *)
AsksTooSoon(r) ==
    /\ run[r].pc = "send" /\ run'[r].pc # "send" /\ run'[r].pc # "idle"
    /\ ~run[r].settledToo
    /\ \E m \in Wanted(Head(run[r].rest)) : asked[m] # Never /\ run[r].at - asked[m] < Settle

(* A minute is asked for again only by a run that begins Settle after the  *)
(* last one that asked for it, whatever the answer was, unless the         *)
(* operator wants settled minutes too: as long as no run is cut short      *)
(* between its request and record_spans, and no lock's connection is lost. *)
AsksApart ==
    [][faults \cap {"unrecorded", "lock"} = {} => \A r \in Runners : ~AsksTooSoon(r)]_vars

(* A plan asks for exactly the open minutes of the window that are missing *)
(* and were not asked for, oldest first, and no request spans more days    *)
(* than the provider takes.                                                *)
PlanIsExact ==
    \A w \in IF lock = {} THEN UNION {Windows(r) : r \in Runners} ELSE {} :
        LET plan == plan_requests(Askable(w, FALSE))
            bare == {m \in each_minute(w) \ Closed :
                       bars[m] = "none" /\ \A s \in settled \cup asked_since(now - Settle) :
                                             m \notin each_minute(s)}
        IN /\ UNION {Wanted(plan[k]) : k \in DOMAIN plan} = bare
           /\ \A k \in DOMAIN plan :
                /\ Day(Max(Wanted(plan[k]))) - Day(Min(Wanted(plan[k]))) < DaysPerRequest
                /\ k > 1 => Max(Wanted(plan[k - 1])) < Min(Wanted(plan[k]))

(* Background work leaves the live feed its reserve of every rolling hour  *)
(* and day, whoever takes the requests: as long as Redis took the feed's.  *)
LeavesTheReserve ==
    [][\A r \in Runners :
         Inside(r) /\ made' # made /\ run'[r] # run[r] /\ "redis" \notin faults =>
            /\ ZCount(made', now - HourMs) + ReservePerHour <= PerHour
            /\ ZCount(made', now - DayMs + 1) + ReservePerDay <= PerDay]_vars

-----------------------------------------------------------------------------
(* What the source says and the code does not do (see README).             *)

(* "Runs cannot overlap: each holds a PostgreSQL advisory lock for its     *)
(* whole duration" (recovery.py:44): false once the connection that holds  *)
(* the lock dies, as the run goes on with the pool's others.               *)
RunsCannotOverlap == \A r, q \in Runners : Inside(r) /\ Inside(q) => r = q

(* What is not settled "is asked for at most once in each such interval,   *)
(* not on every run" (recovery.py:87): false after a run that failed       *)
(* between its request and record_spans, of which no row tells.            *)
AskedOncePerInterval ==
    [][faults \subseteq {"abandoned", "unrecorded"} => \A r \in Runners : ~AsksTooSoon(r)]_vars

(* Provider prices are not folded into a live bar (recovery.py:15): false  *)
(* when the stream still holds ticks older than its retention.             *)
NeverFolded == \A m \in Minutes : bars[m] # "mixed"

(* A run that "succeeded" left nothing undone (recovery.py:798): false     *)
(* while the pair is backed off, when the plan is emptied without a trace. *)
SucceededMeansAsked ==
    [][\A r \in Runners :
         run[r].pc = "finish" /\ faults' = {} /\ rows' # rows
            /\ FinalStatus(run[r]) = "succeeded" =>
            \A m \in each_minute(run[r].window) \ Closed :
                bars[m] # "none" \/ \E s \in settled \cup asked_since(run[r].at - Settle) :
                                        m \in each_minute(s)]_vars

=============================================================================
