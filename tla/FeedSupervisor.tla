--------------------------- MODULE FeedSupervisor ---------------------------
(***************************************************************************)
(* The supervised feed of the ingestor: apps/ingestor/fx_ingestor/main.py  *)
(* (run, _run_as_leader, _consume_once, _publish_status, _heartbeat_loop)  *)
(* with the backoff, breaker and watchdog of supervisor.py, in one replica *)
(* (Me).  The other replicas are one environment, Other, that takes the    *)
(* lease when it is free and writes feed:status as any leader may.         *)
(*                                                                         *)
(* Time is discrete, a unit being one heartbeat (HEARTBEAT_S).  What the   *)
(* process owes at once (leaving a sleep, tripping the watchdog, beating)  *)
(* keeps the clock from moving on.  The lease is the one of LeaderLease    *)
(* without its timing: it may pass on under a paused leader (LosesKey),    *)
(* which hears of it later (Notice).                                       *)
(*                                                                         *)
(* The process is a record: pc, the flags of the lease and of the process, *)
(* breaker, attempt, the session (age since `started`, idle since the last *)
(* pet, quoted), the rest of a timed wait, the pipeline's stale flag, last *)
(* (_last_status) and the body of a heartbeat on its way to Redis.         *)
(***************************************************************************)
EXTENDS Integers

CONSTANTS Me, Other, NoOne,
          FailThreshold,     \* breaker_fail_threshold
          ResetAfter,        \* breaker_reset_s
          BackoffCap,        \* backoff_cap_s; the base is one unit
          MaxExponent,       \* 2.0**n overflows from n = MaxExponent on
          MinHealthy,        \* MIN_HEALTHY_SESSION_S
          StalenessTimeout,  \* staleness_timeout_s
          ConnectTime,       \* open_timeout of the provider's socket
          CloseTime,         \* close_timeout of the provider's socket
          StatusTtl,         \* TTL_STATUS_S
          MaxFaults,         \* bound: deaths, errors and unwritten statuses
          MaxDeposals        \* bound: leases lost by a living leader

ASSUME SupervisorAssumption ==
    /\ Me # Other /\ Me # NoOne /\ Other # NoOne
    /\ {FailThreshold, ResetAfter, BackoffCap, MaxExponent, MinHealthy,
        StalenessTimeout, StatusTtl} \subseteq Nat \ {0}
    /\ {ConnectTime, CloseTime, MaxFaults, MaxDeposals} \subseteq Nat

VARIABLES owner,     \* the lease key
          me,        \* the process
          status,    \* feed:status: what it says, who wrote it, its TTL
          market,    \* is_market_open()
          quiet,     \* history: how long an open market has gone without a
                     \* tick; not counted while nothing says "healthy"
          faults, deposals

budgets == <<faults, deposals>>
vars    == <<owner, me, status, market, quiet, budgets>>

FeedState == {"starting", "connecting", "healthy", "degraded", "fatal", "stopped"}

Session == {"connecting", "streaming", "closing"}
Leading == Session \cup {"rehydrating", "deciding", "sleeping", "leaving"}
Steps   == Leading \cup {"down", "standby", "exiting"}

NewBreaker == [state |-> "closed", failures |-> 0, age |-> 0]

(* Ingestor.__init__.                                                      *)
NewProcess == [pc |-> "standby", lost |-> FALSE, shutdown |-> FALSE, raised |-> "no",
               breaker |-> NewBreaker, attempt |-> 0, age |-> 0, idle |-> 0,
               quoted |-> FALSE, wait |-> 0, stale |-> FALSE, last |-> "starting",
               body |-> "none", beat |-> TRUE, failAge |-> ResetAfter]

Gone == [NewProcess EXCEPT !.pc = "down"]

Unknown == [state |-> "unknown", by |-> NoOne, ttl |-> 0]

Init ==
    /\ owner = NoOne /\ me = NewProcess
    /\ status = Unknown /\ market = TRUE /\ quiet = 0
    /\ faults = 0 /\ deposals = 0

Least(a, b) == IF a <= b THEN a ELSE b

---------------------------------------------------------------------------
(* Mutated forms of the definitions that follow.                           *)

(* Only a closed breaker opens: a failed probe leaves it half open.        *)
record_failure_once(b) ==
    LET n == Least(b.failures + 1, FailThreshold)
    IN IF n >= FailThreshold /\ b.state = "closed"
       THEN [state |-> "open", failures |-> n, age |-> 0]
       ELSE [b EXCEPT !.failures = n]

(* An open breaker stays open.                                             *)
allows_attempt_never(b) == [ok |-> b.state # "open", breaker |-> b]

(* SET without EX.                                                         *)
AgedStatusForever == status

---------------------------------------------------------------------------
(* supervisor.py.                                                          *)

record_success(b) == NewBreaker

record_failure(b) ==
    LET n == Least(b.failures + 1, FailThreshold)
    IN IF n >= FailThreshold /\ b.state # "open"
       THEN [state |-> "open", failures |-> n, age |-> 0]
       ELSE [b EXCEPT !.failures = n]

(* The answer, and the breaker it leaves.                                  *)
allows_attempt(b) ==
    LET probing == b.state = "open" /\ b.age >= ResetAfter
    IN [ok |-> b.state # "open" \/ probing,
        breaker |-> IF probing THEN [state |-> "half_open", failures |-> b.failures, age |-> 0]
                    ELSE b]

(* delay(): anything up to the ceiling, the lesser of the cap and 2^attempt*)
(* of the base, in whole units.                                            *)
Delays(attempt) == {d \in 0..BackoffCap : d <= 2 ^ attempt}

Overflows(attempt) == attempt >= MaxExponent

---------------------------------------------------------------------------
Fault == faults < MaxFaults /\ faults' = faults + 1

(* SET feed:status EX and PUBLISH; an error is suppressed.                 *)
Write(state) ==
    \/ /\ status' = [state |-> state, by |-> Me, ttl |-> StatusTtl]
       /\ UNCHANGED faults
    \/ Fault /\ UNCHANGED status

(* _publish_status, with s the replica otherwise: _last_status first.      *)
Publish(s, state) ==
    /\ me' = [s EXCEPT !.last = state]
    /\ Write(state)

Become(s) == me' = s /\ UNCHANGED <<status, faults>>

(* Where a session's variables go out of scope.                            *)
NoSession(s) == [s EXCEPT !.age = 0, !.idle = 0, !.quoted = FALSE, !.wait = 0]

(* _run_as_leader or _rehydrate raises.                                    *)
Raise(s, why) == [NoSession(s) EXCEPT !.pc = "leaving", !.raised = why]

rest == <<owner, market, quiet, deposals>>

---------------------------------------------------------------------------
(* Mutated: the stale flag outlives the reconnection.                      *)
ConnectedStillStale ==
    /\ me.pc = "connecting"
    /\ Publish([me EXCEPT !.pc = "streaming", !.wait = 0], "connecting")
    /\ UNCHANGED rest

(* Mutated: a heartbeat that only refreshes metrics.                       *)
BeatWithoutStatus ==
    /\ me.pc \in Leading /\ ~me.shutdown /\ ~me.beat /\ me.body = "none"
    /\ Become([me EXCEPT !.beat = TRUE])
    /\ UNCHANGED rest

---------------------------------------------------------------------------
(* async with lease.hold(): `lost` is cleared.                             *)
Acquire ==
    /\ me.pc = "standby" /\ owner = NoOne
    /\ owner' = Me
    /\ Become([me EXCEPT !.pc = "rehydrating", !.lost = FALSE])
    /\ UNCHANGED <<market, quiet, deposals>>

(* _rehydrate() takes its time; _run_as_leader starts a ladder of its own, *)
(* with the breaker of the process.                                        *)
Rehydrate ==
    /\ me.pc = "rehydrating"
    /\ Become([me EXCEPT !.pc = "deciding", !.attempt = 0])
    /\ UNCHANGED rest

(* RedisError out of _rehydrate or out of handle(): nobody retries it.     *)
RedisFails ==
    /\ me.pc \in {"rehydrating", "streaming"}
    /\ Fault
    /\ me' = Raise(me, "error")
    /\ UNCHANGED <<status, rest>>

(* The head of the while loop.                                             *)
Decide ==
    LET s    == me
        gate == allows_attempt(s.breaker)
    IN /\ s.pc = "deciding"
       /\ \/ /\ s.lost
             /\ Become([s EXCEPT !.pc = "leaving"])
          \/ /\ ~s.lost /\ ~gate.ok
             /\ Publish([s EXCEPT !.pc = "sleeping", !.wait = 1], "degraded")
          \/ /\ ~s.lost /\ gate.ok
             /\ Become([s EXCEPT !.pc = "connecting", !.wait = ConnectTime,
                                    !.breaker = gate.breaker])
       /\ UNCHANGED rest

(* _consume_once enters `async with provider` and starts the watchdog.     *)
Connected ==
    /\ me.pc = "connecting"
    /\ Publish([me EXCEPT !.pc = "streaming", !.stale = FALSE, !.wait = 0],
               "connecting")
    /\ UNCHANGED rest

(* `else:` of the try statement: the session returned.                     *)
Returned(s) ==
    LET healthy == s.age >= MinHealthy
    IN [NoSession(s) EXCEPT
           !.breaker = IF healthy THEN record_success(@) ELSE record_failure(@),
           !.failAge = IF healthy THEN @ ELSE 0,
           !.attempt = IF healthy THEN 0 ELSE @]

(* A quote: pet, handle, "healthy" on the first one; a lost lease is       *)
(* looked at here and nowhere else in the session.                         *)
Quote ==
    LET s   == me
        fed == [s EXCEPT !.idle = 0, !.quoted = TRUE]
        out == IF s.lost THEN [Returned(fed) EXCEPT !.pc = "deciding"] ELSE fed
    IN /\ s.pc \in {"streaming", "closing"}
       /\ quiet' = 0
       /\ \/ s.quoted /\ Become(out)
          \/ ~s.quoted /\ Publish(out, "healthy")
       /\ UNCHANGED <<owner, market, deposals>>

(* The watchdog finds the market open and the socket silent: the detectors *)
(* are gated, then the socket is closed.                                   *)
Trip ==
    /\ me.pc = "streaming" /\ market /\ me.idle > StalenessTimeout
    /\ Become([me EXCEPT !.pc = "closing", !.idle = 0, !.stale = TRUE,
                                !.wait = CloseTime])
    /\ UNCHANGED rest

(* ProviderError or OSError, from connect() or from stream(): a session    *)
(* that worked resets the ladder, then the failure counts.                 *)
Drop ==
    LET s       == me
        healthy == s.age >= MinHealthy
        attempt == IF healthy THEN 0 ELSE s.attempt
        failed  == [NoSession(s) EXCEPT
                       !.breaker = record_failure(IF healthy THEN record_success(@) ELSE @),
                       !.failAge = 0, !.stale = TRUE, !.attempt = attempt]
    IN /\ s.pc \in Session
       /\ \/ /\ Overflows(attempt)
             /\ Publish(Raise(failed, "error"), "degraded")
          \/ /\ ~Overflows(attempt)
             /\ \E d \in Delays(attempt) :
                   Publish([failed EXCEPT !.pc = "sleeping", !.wait = d,
                                             !.attempt = attempt + 1], "degraded")
       /\ UNCHANGED rest

(* stream() ends without an error while the lease is held.                 *)
HangUp ==
    LET s   == me
        out == Returned(s)
    IN /\ s.pc \in {"streaming", "closing"}
       /\ \/ s.lost /\ Become([out EXCEPT !.pc = "deciding"])
          \/ ~s.lost /\ Overflows(out.attempt) /\ Become(Raise(out, "error"))
          \/ /\ ~s.lost /\ ~Overflows(out.attempt)
             /\ \E d \in Delays(out.attempt) :
                   Become([out EXCEPT !.pc = "sleeping", !.wait = d,
                                         !.attempt = IF s.age >= MinHealthy THEN 0 ELSE @ + 1])
       /\ UNCHANGED rest

(* ProviderAuthError: "fatal" is said, the process is told to end.         *)
AuthFails ==
    /\ me.pc \in {"connecting", "streaming"}
    /\ Publish([Raise(me, "auth") EXCEPT !.shutdown = TRUE], "fatal")
    /\ UNCHANGED rest

Wake ==
    /\ me.pc = "sleeping" /\ me.wait = 0
    /\ Become([me EXCEPT !.pc = "deciding"])
    /\ UNCHANGED rest

(* SIGTERM: the flag is set and the task cancelled, wherever it is.        *)
Stop ==
    LET s == me
    IN /\ s.pc \in Leading \cup {"standby"} /\ ~s.shutdown
       /\ Fault
       /\ me' = [NoSession(s) EXCEPT !.shutdown = TRUE,
                    !.pc = IF s.pc = "standby" THEN "exiting" ELSE "leaving"]
       /\ UNCHANGED <<status, rest>>

(* The finally blocks of run() and hold(): "stopped" unless the lease is   *)
(* lost, then the lease is released; standby again unless the process ends.*)
Leave ==
    LET s   == me
        out == [s EXCEPT !.pc = IF s.shutdown \/ s.raised # "no" THEN "exiting"
                                ELSE "standby"]
    IN /\ s.pc = "leaving"
       /\ owner' = IF owner = Me THEN NoOne ELSE owner
       /\ \/ s.lost /\ Become(out)
          \/ ~s.lost /\ Publish(out, "stopped")
       /\ UNCHANGED <<market, quiet, deposals>>

(* The heartbeat is cancelled and Redis closed: the process is gone.  Why  *)
(* it went is kept until it is started again.                              *)
Exit ==
    /\ me.pc = "exiting"
    /\ Become([Gone EXCEPT !.raised = me.raised])
    /\ UNCHANGED rest

Crash ==
    /\ me.pc # "down"
    /\ Fault
    /\ owner' = IF owner = Me THEN NoOne ELSE owner
    /\ me' = Gone
    /\ UNCHANGED <<status, market, quiet, deposals>>

Restart ==
    /\ me.pc = "down"
    /\ Become(NewProcess)
    /\ UNCHANGED rest

---------------------------------------------------------------------------
(* _heartbeat_loop, before its await: only the leader composes a body.     *)
Beat ==
    LET s == me
    IN /\ s.pc \in Leading /\ ~s.shutdown /\ ~s.beat /\ s.body = "none"
       /\ Become([s EXCEPT !.beat = TRUE,
                              !.body = IF s.lost THEN "none" ELSE s.last])
       /\ UNCHANGED rest

(* ... and after it: the body lands in Redis, or the error is suppressed.  *)
BeatLands ==
    /\ me.body # "none"
    /\ me' = [me EXCEPT !.body = "none"]
    /\ Write(me.body)
    /\ UNCHANGED rest

(* The key expires or is taken while its owner is paused.                  *)
LosesKey ==
    /\ owner = Me /\ deposals < MaxDeposals
    /\ owner' = NoOne
    /\ deposals' = deposals + 1
    /\ UNCHANGED <<me, status, market, quiet, faults>>

(* The renewer is refused.                                                 *)
Notice ==
    /\ me.pc \in Leading /\ owner # Me /\ ~me.lost
    /\ Become([me EXCEPT !.lost = TRUE])
    /\ UNCHANGED rest

(* Another replica takes a free lease, or gives it up.                     *)
OtherLeads ==
    /\ owner \in {NoOne, Other}
    /\ owner' = IF owner = NoOne THEN Other ELSE NoOne
    /\ UNCHANGED <<me, status, market, quiet, budgets>>

(* It writes its status as the leader, or late, when it leads no more.     *)
OtherWrites ==
    /\ status' = [state |-> "healthy", by |-> Other, ttl |-> StatusTtl]
    /\ UNCHANGED <<owner, me, market, quiet, faults, deposals>>

---------------------------------------------------------------------------
(* What a replica owes before the next unit of time begins.                *)
Due(s) ==
    \/ s.pc \in {"deciding", "leaving", "exiting"}
    \/ s.pc \in {"sleeping", "connecting", "closing"} /\ s.wait = 0
    \/ s.pc = "streaming" /\ market /\ s.idle > StalenessTimeout
    \/ s.pc \in Leading /\ ~s.shutdown /\ ~s.beat
    \/ s.body # "none"

(* A unit of a replica's time; a watchdog that finds the market closed     *)
(* pets itself.                                                            *)
Aged(s) ==
    IF s.pc = "down" THEN s
    ELSE [s EXCEPT !.age  = IF s.pc \in Session THEN Least(s.age + 1, MinHealthy) ELSE s.age,
                   !.idle = IF s.pc = "streaming" /\ market
                            THEN Least(s.idle + 1, StalenessTimeout + 1) ELSE 0,
                   !.wait = IF s.wait > 0 THEN s.wait - 1 ELSE 0,
                   !.breaker = [s.breaker EXCEPT
                                  !.age = IF s.breaker.state = "open"
                                          THEN Least(s.breaker.age + 1, ResetAfter) ELSE 0],
                   !.failAge = IF s.breaker.failures < FailThreshold THEN ResetAfter
                               ELSE Least(s.failAge + 1, ResetAfter),
                   !.beat = s.pc \notin Leading]

AgedStatus == IF status.ttl <= 1 THEN Unknown ELSE [status EXCEPT !.ttl = @ - 1]

(* How long a status may say "healthy" after the last quote: the silence is*)
(* noticed, the socket closed, another try slept for and timed out, and the*)
(* key of a process that then dies expires.                                *)
FreshFor == StalenessTimeout + CloseTime + BackoffCap + ConnectTime + StatusTtl

(* A unit of time passes, and the market may open or close.                *)
Clock ==
    /\ ~Due(me)
    /\ me' = Aged(me)
    /\ status' = AgedStatus
    /\ quiet' = IF market /\ "healthy" \in {status.state, me.last, me.body}
                THEN Least(quiet + 1, FreshFor + 1) ELSE 0
    /\ market' \in BOOLEAN
    /\ UNCHANGED <<owner, budgets>>

Next ==
    \/ Acquire \/ Rehydrate \/ RedisFails \/ Decide
    \/ Connected \/ Quote \/ Trip \/ Drop \/ HangUp \/ AuthFails
    \/ Wake \/ Stop \/ Leave \/ Exit \/ Crash \/ Restart
    \/ Beat \/ BeatLands \/ LosesKey \/ Notice
    \/ OtherLeads \/ OtherWrites \/ Clock

Spec == Init /\ [][Next]_vars

(* Fairness: time passes; asyncio runs what is ready; connect() and the    *)
(* closing of a socket end at their timeouts; the renewer runs; a process  *)
(* that ended is started again.  Quotes, faults, the other replicas and the*)
(* market are not owed.                                                    *)
Fairness ==
    /\ WF_vars(Clock)
    /\ WF_vars(Acquire) /\ WF_vars(Rehydrate) /\ WF_vars(Decide)
    /\ WF_vars(me.pc \in {"connecting", "closing"} /\ Drop)
    /\ WF_vars(Trip) /\ WF_vars(Wake) /\ WF_vars(Leave) /\ WF_vars(Exit)
    /\ WF_vars(Restart) /\ WF_vars(Beat) /\ WF_vars(BeatLands) /\ WF_vars(Notice)

FairSpec == Spec /\ Fairness

---------------------------------------------------------------------------
Breaker == [state : {"closed", "open", "half_open"}, failures : 0..FailThreshold,
            age : 0..ResetAfter]

Process ==
    [pc : Steps, lost : BOOLEAN, shutdown : BOOLEAN, raised : {"no", "auth", "error"},
     breaker : Breaker, attempt : 0..MaxExponent, age : 0..MinHealthy,
     idle : 0..(StalenessTimeout + 1), quoted : BOOLEAN, wait : Nat,
     stale : BOOLEAN, last : FeedState, body : FeedState \cup {"none"},
     beat : BOOLEAN, failAge : 0..ResetAfter]

TypeOK ==
    /\ owner \in {Me, Other, NoOne}
    /\ me \in Process
    /\ \/ status = Unknown
       \/ status \in [state : FeedState, by : {Me, Other}, ttl : 1..StatusTtl]
    /\ market \in BOOLEAN /\ quiet \in 0..(FreshFor + 1)
    /\ faults \in 0..MaxFaults /\ deposals \in 0..MaxDeposals

(* readyz and the browser's banner take the feed for live while the key    *)
(* says "healthy" (its TTL is shorter than their 60 s).                    *)
Ready == status.state = "healthy"

(* "Silently rendering stale prices as if they were live is the one thing a*)
(* market dashboard must never do" (supervisor.py): in an open market this *)
(* replica's status says healthy only within FreshFor of its last quote,   *)
(* whether the socket goes silent, drops or hangs up, the process dies or  *)
(* stops, or a status is not written.  A process promoted again is left    *)
(* out: it heartbeats the status of its former session as it rehydrates.   *)
ReadyMeansFresh == Ready /\ status.by = Me /\ deposals = 0 => quiet <= FreshFor

(* The process, ladder and breaker keep within their bounds, and no status *)
(* outlives the feed it tells of.                                          *)
FeedInv == TypeOK /\ ReadyMeansFresh

(* What makes it inductive, before any lease is lost.  The last word stays *)
(* "healthy" while the silence goes unnoticed, the socket closes, the next *)
(* try is slept for and times out: no longer than LiveFor, each stage      *)
(* counted by its own timer.  A heartbeat repeats it, a key keeps it.      *)
NoticedBy == StalenessTimeout + 1
LiveFor   == NoticedBy + CloseTime + BackoffCap + ConnectTime

LastIsFresh ==
    me.last = "healthy" =>
        \/ me.pc = "streaming" /\ quiet <= me.idle
        \/ me.pc = "closing" /\ quiet + me.wait <= NoticedBy + CloseTime
        \/ me.pc = "sleeping" /\ quiet + me.wait <= NoticedBy + CloseTime + BackoffCap
        \/ me.pc = "deciding" /\ quiet <= NoticedBy + CloseTime + BackoffCap
        \/ me.pc = "connecting" /\ quiet + me.wait <= LiveFor
        \/ me.pc = "leaving" /\ quiet <= LiveFor

BodyIsFresh == me.body = "healthy" => quiet <= LiveFor

KeyIsFresh == Ready /\ status.by = Me => quiet + status.ttl <= LiveFor + StatusTtl

(* A leader that was never deposed still owns the key it took.             *)
Undeposed == ~me.lost /\ (me.pc \in Leading => owner = Me)

FreshInv ==
    /\ me.pc = "closing" => me.wait <= CloseTime
    /\ deposals = 0 => Undeposed /\ LastIsFresh /\ BodyIsFresh /\ KeyIsFresh

(* A provider that fails is left alone: after FailThreshold short sessions *)
(* in a row the next attempt is ResetAfter away, and so is every one after *)
(* it until a session works ("breaker opens after 5, half-open probe after *)
(* 30 s", README.md), also across a lost and regained lease.               *)
NoHammering ==
    [][me.pc = "deciding" /\ me'.pc = "connecting"
       /\ me.breaker.failures >= FailThreshold => me.failAge >= ResetAfter]_vars

(* The detectors are gated from the watchdog's trip until the next socket, *)
(* and never while a socket is trusted: a flag left behind by an earlier   *)
(* session or leadership would silence them for good.                      *)
StaleFollowsTheSession ==
    /\ me.pc = "streaming" => ~me.stale
    /\ me.pc = "closing" => me.stale

(* Whatever fails, a leader tries to reach the provider again and again:   *)
(* neither breaker nor ladder, watchdog or exception leaves the feed given *)
(* up by the replica that holds the lease.                                 *)
KeepsTrying == []<>(me.pc \in Session \/ owner # Me)

(* A status that was not written, or written over by a deposed leader or a *)
(* late heartbeat, is put right: the key comes to say what its leader says.*)
StatusIsHealed ==
    (owner = Me /\ (status.by # Me \/ status.state # me.last))
    ~> (owner # Me \/ (status.by = Me /\ status.state = me.last))

(* README.md: "Upstream returns 401: no retry, status `fatal`, exit 78".   *)
FatalIsShown ==
    me.pc = "down" /\ me.raised = "auth" /\ status.by = Me => status.state = "fatal"

(* main.py, of "stopped": once the lease has passed on, it "would          *)
(* contradict the replica that now owns the feed".                         *)
OnlyTheLeaderReports ==
    [][status'.by = Me /\ status # status' => owner # Other]_vars

(* test_ingestor_shutdown.py: "stopped" is the last word of a leader that  *)
(* is told to stop.                                                        *)
StoppedIsTheLastWord ==
    me.pc = "exiting" /\ me.shutdown /\ status.by = Me /\ faults = 1
        => status.state \in {"stopped", "fatal"}

(* providers/base.py: a connection that drops "raises ProviderError so the *)
(* supervisor's retry path owns it".                                       *)
DropsAreRetried == me.raised = "error" => faults > 0

============================================================================
