--------------------------- MODULE AlertPersister ---------------------------
(***************************************************************************)
(* The alert persister, apps/worker/fx_worker/alerts.py and the alert half *)
(* of db.py.  Every worker runs one, without a lease: they compete for the *)
(* entries of stream:alerts through one consumer group, insert transitions *)
(* under PRIMARY KEY (symbol, seq) with ON CONFLICT DO NOTHING, tell a     *)
(* redelivery from a reused seq by the stored timestamp, and only then     *)
(* acknowledge.                                                            *)
(*                                                                         *)
(* An entry is its stream id 1..MaxId; KeyOf is its (symbol, seq) and TsOf *)
(* its timestamp, 0 standing for no row.  Two entries are the same         *)
(* transition when both agree.                                             *)
(***************************************************************************)
EXTENDS StreamIds

CONSTANTS Worker, NoOne,
          MaxId,        \* bound: entries on the alert stream
          Key, KeyOf,   \* (symbol, seq), and the one of each entry
          TsOf,         \* ts of each entry
          Malformed,    \* entries _parse rejects
          BatchSize,    \* batch, the count of every read
          MaxCrashes,   \* bound: process deaths
          MaxFaults     \* bound: Redis and Postgres errors

Ids == 1..MaxId

ASSUME AlertAssumption ==
    /\ MaxId \in Nat /\ BatchSize \in Nat \ {0}
    /\ KeyOf \in [Ids -> Key] /\ TsOf \in [Ids -> Nat \ {0}]
    /\ Malformed \subseteq Ids
    /\ MaxCrashes \in Nat /\ MaxFaults \in Nat
    /\ NoOne \notin Worker

VARIABLES
    added,      \* entries 1..added are on the stream
    delivered,  \* the group's last-delivered id
    pel,        \* the consumer each entry is pending for, or NoOne
    stale,      \* pending entries idle for claim_idle_ms
    rows,       \* alert_events: the ts stored under each key, or 0
    pc,         \* where run() is
    phase,      \* what called _consume
    batch,      \* the entries _consume was given
    landed,     \* the keys insert_alerts got back from RETURNING
    next,       \* the cursor of claim_abandoned
    alarmed,    \* history: entries logged as alert.seq_collision
    crashes, faults

group   == <<delivered, pel, stale>>
worker  == <<pc, phase, batch, landed, next>>
budgets == <<crashes, faults>>
vars    == <<added, group, rows, worker, alarmed, budgets>>

(* drain, claim: the start of run(); read, sweep: its loop; insert,        *)
(* classify, ack: inside _flush; retry: run_forever sleeps off an error.   *)
Loops == {"drain", "claim", "read", "sweep"}
Steps == Loops \cup {"down", "retry", "insert", "classify", "ack"}

Pending == {e \in Ids : pel[e] # NoOne}

Parses(e) == e \notin Malformed

Init ==
    /\ added = 0
    /\ delivered = 0 /\ pel = [e \in Ids |-> NoOne] /\ stale = {}
    /\ rows = [k \in Key |-> 0]
    /\ pc = [w \in Worker |-> "drain"]
    /\ phase = [w \in Worker |-> "drain"]
    /\ batch = [w \in Worker |-> {}]
    /\ landed = [w \in Worker |-> {}]
    /\ next = [w \in Worker |-> 0]
    /\ alarmed = {}
    /\ crashes = 0 /\ faults = 0

Goto(w, step) == pc' = [pc EXCEPT ![w] = step]

Fault == faults < MaxFaults /\ faults' = faults + 1

(* The oldest BatchSize entries of S.                                      *)
FirstPage(S) == Page(S, BatchSize)

---------------------------------------------------------------------------
(* pipeline.py, _queue_transition.                                         *)
Add ==
    /\ added < MaxId
    /\ added' = added + 1
    /\ UNCHANGED <<group, rows, worker, alarmed, budgets>>

(* claim_idle_ms pass; a consumer may well be in the middle of a batch.    *)
Age ==
    /\ stale' = Pending
    /\ UNCHANGED <<added, delivered, pel, rows, worker, alarmed, budgets>>

---------------------------------------------------------------------------
(* Reading.                                                                *)

Consume(w, page, caller) ==
    /\ batch' = [batch EXCEPT ![w] = page]
    /\ phase' = [phase EXCEPT ![w] = caller]
    /\ Goto(w, "insert")
    /\ UNCHANGED landed

(* drain_own_pending, one XREADGROUP 0.                                    *)
Drain(w) ==
    LET page == FirstPage({e \in Ids : pel[e] = w})
    IN /\ pc[w] = "drain"
       /\ stale' = stale \ page
       /\ IF page # {} THEN Consume(w, page, "drain")
          ELSE Goto(w, "claim") /\ UNCHANGED <<phase, batch, landed>>
       /\ UNCHANGED <<added, delivered, pel, rows, next, alarmed, budgets>>

(* XAUTOCLAIM: what has been idle, from the cursor on, becomes w's.        *)
Scanned(w) == FirstPage({e \in stale : e >= next[w]})

Adopt(w) ==
    /\ pel' = [e \in Ids |-> IF e \in Scanned(w) THEN w ELSE pel[e]]
    /\ stale' = stale \ Scanned(w)

(* The cursor it returns: the next pending id, 0-0 at the end.             *)
Cursor(scan, c) ==
    LET rest == {e \in Pending : \A f \in scan : f < e}
    IN IF Cardinality(scan) < BatchSize \/ rest = {}
       THEN c = 0
       ELSE c \in rest /\ \A e \in rest : c <= e

ClaimPage(w) ==
    /\ Adopt(w)
    /\ IF Scanned(w) # {}
       THEN /\ \E c \in 0..MaxId : Cursor(Scanned(w), c) /\ next' = [next EXCEPT ![w] = c]
            /\ Consume(w, Scanned(w), pc[w])
       ELSE /\ next' = [next EXCEPT ![w] = 0]
            /\ Goto(w, "read")
            /\ UNCHANGED <<phase, batch, landed>>
    /\ UNCHANGED <<added, delivered, rows, alarmed, budgets>>

Claim(w) == pc[w] = "claim" /\ ClaimPage(w)

(* Mutated: run() never sweeps again.                                      *)
SweepSkipped(w) ==
    /\ pc[w] = "sweep"
    /\ Goto(w, "read")
    /\ UNCHANGED <<added, group, rows, phase, batch, landed, next, alarmed, budgets>>

(* Every CLAIM_SWEEP_INTERVAL_S.                                           *)
Sweep(w) == pc[w] = "sweep" /\ ClaimPage(w)

(* Not due yet.                                                            *)
SkipSweep(w) ==
    /\ pc[w] = "sweep"
    /\ next[w] = 0
    /\ Goto(w, "read")
    /\ UNCHANGED <<added, group, rows, phase, batch, landed, next, alarmed, budgets>>

(* XREADGROUP >.                                                           *)
NewPage == FirstPage({e \in Ids : e > delivered /\ e <= added})

Deliver(w) ==
    /\ pel' = [e \in Ids |-> IF e \in NewPage THEN w ELSE pel[e]]
    /\ delivered' \in {d \in 0..MaxId :
                         IF NewPage = {} THEN d = delivered
                         ELSE d \in NewPage /\ \A e \in NewPage : e <= d}
    /\ UNCHANGED stale

ReadNew(w) ==
    /\ pc[w] = "read"
    /\ Deliver(w)
    /\ IF NewPage # {} THEN Consume(w, NewPage, "read")
       ELSE Goto(w, "sweep") /\ UNCHANGED <<phase, batch, landed>>
    /\ UNCHANGED <<added, rows, next, alarmed, budgets>>

---------------------------------------------------------------------------
(* _flush: commit, classify, acknowledge.                                  *)

Parsed(w) == {e \in batch[w] : Parses(e)}

OfKey(S, k) == {e \in S : KeyOf[e] = k}

(* INSERT ... ON CONFLICT DO NOTHING: the first row of a batch under a free*)
(* key lands.                                                              *)
Stored(w) ==
    [k \in Key |-> IF rows[k] # 0 \/ OfKey(Parsed(w), k) = {} THEN rows[k]
                   ELSE TsOf[Oldest(OfKey(Parsed(w), k))]]

(* RETURNING symbol, seq.                                                  *)
Landed(w) == {k \in Key : rows[k] = 0 /\ OfKey(Parsed(w), k) # {}}

(* Mutated: acknowledge, then commit.                                      *)
AckFirst(w) ==
    /\ pc[w] = "insert"
    /\ pel' = [e \in Ids |-> IF e \in batch[w] THEN NoOne ELSE pel[e]]
    /\ stale' = stale \ batch[w]
    /\ Goto(w, "classify")
    /\ UNCHANGED <<added, delivered, rows, phase, batch, landed, next, alarmed, budgets>>

Insert(w) ==
    /\ pc[w] = "insert"
    /\ rows' = Stored(w)
    /\ landed' = [landed EXCEPT ![w] = Landed(w)]
    /\ Goto(w, "classify")
    /\ UNCHANGED <<added, group, phase, batch, next, alarmed, budgets>>

(* insert_alerts: rows whose key is not among the landed ones.             *)
Conflicted(w) == {e \in Parsed(w) : KeyOf[e] \notin landed[w]}

(* Mutated: every conflict is taken for a collision.                       *)
CollisionsAlways(w) == Conflicted(w)

(* _classify_conflicts.  by_key keeps the last row of each key.            *)
Collisions(w) ==
    {e \in {Newest(OfKey(Parsed(w), KeyOf[c])) : c \in Conflicted(w)} :
        rows[KeyOf[e]] # TsOf[e]}

Classify(w) ==
    /\ pc[w] = "classify"
    /\ alarmed' = alarmed \cup Collisions(w)
    /\ Goto(w, "ack")
    /\ UNCHANGED <<added, group, rows, phase, batch, landed, next, budgets>>

Xack(w) ==
    /\ pel' = [e \in Ids |-> IF e \in batch[w] THEN NoOne ELSE pel[e]]
    /\ stale' = stale \ batch[w]

(* _consume's locals go out of scope.                                      *)
Forget(w) ==
    /\ batch' = [batch EXCEPT ![w] = {}]
    /\ landed' = [landed EXCEPT ![w] = {}]

(* Where run() goes on after _consume.                                     *)
Resume(w) ==
    IF phase[w] = "drain" THEN "drain"
    ELSE IF phase[w] = "read" THEN "sweep"
    ELSE IF next[w] = 0 THEN "read" ELSE phase[w]

Ack(w) ==
    /\ pc[w] = "ack"
    /\ Xack(w)
    /\ Forget(w)
    /\ Goto(w, Resume(w))
    /\ UNCHANGED <<added, delivered, rows, phase, next, alarmed, budgets>>

---------------------------------------------------------------------------
(* Failures.  RedisError and OSError leave run() for run_forever, except a *)
(* RedisError in the sweep, which is suppressed.                           *)

Abandon(w, step) ==
    /\ Forget(w)
    /\ next' = [next EXCEPT ![w] = 0]
    /\ Goto(w, step)
    /\ UNCHANGED phase

AfterRedisError(w, loop) == IF loop = "sweep" THEN "read" ELSE "retry"

(* A read that failed, executed by Redis or not.                           *)
ReadFails(w) ==
    /\ pc[w] \in Loops
    /\ Fault
    /\ \/ UNCHANGED group
       \/ pc[w] \in {"claim", "sweep"} /\ Adopt(w) /\ UNCHANGED delivered
       \/ pc[w] = "read" /\ Deliver(w)
    /\ Abandon(w, AfterRedisError(w, pc[w]))
    /\ UNCHANGED <<added, rows, alarmed, crashes>>

(* The insert raised OSError: rolled back, or committed unheard.           *)
InsertFails(w) ==
    /\ pc[w] = "insert"
    /\ Fault
    /\ rows' \in {rows, Stored(w)}
    /\ Abandon(w, "retry")
    /\ UNCHANGED <<added, group, alarmed, crashes>>

(* alert_timestamp raised OSError, some conflicts already reported.        *)
ClassifyFails(w) ==
    /\ pc[w] = "classify"
    /\ Conflicted(w) # {}
    /\ Fault
    /\ \E told \in SUBSET Collisions(w) : alarmed' = alarmed \cup told
    /\ Abandon(w, "retry")
    /\ UNCHANGED <<added, group, rows, crashes>>

(* XACK raised, executed or not.                                           *)
AckFails(w) ==
    /\ pc[w] = "ack"
    /\ Fault
    /\ Xack(w) \/ UNCHANGED <<pel, stale>>
    /\ Abandon(w, AfterRedisError(w, phase[w]))
    /\ UNCHANGED <<added, delivered, rows, alarmed, crashes>>

(* run_forever calls run() again.                                          *)
Retry(w) ==
    /\ pc[w] = "retry"
    /\ Goto(w, "drain")
    /\ UNCHANGED <<added, group, rows, phase, batch, landed, next, alarmed, budgets>>

(* The process dies or is stopped; a PostgresError nobody catches does it. *)
Crash(w) ==
    /\ pc[w] # "down"
    /\ crashes < MaxCrashes
    /\ crashes' = crashes + 1
    /\ Abandon(w, "down")
    /\ UNCHANGED <<added, group, rows, alarmed, faults>>

(* It comes back under the same consumer name.                             *)
Restart(w) ==
    /\ pc[w] = "down"
    /\ Goto(w, "drain")
    /\ UNCHANGED <<added, group, rows, phase, batch, landed, next, alarmed, budgets>>

Work(w) ==
    \/ Drain(w) \/ Claim(w) \/ ReadNew(w) \/ Sweep(w) \/ SkipSweep(w)
    \/ Insert(w) \/ Classify(w) \/ Ack(w) \/ Retry(w)

Failure(w) ==
    \/ ReadFails(w) \/ InsertFails(w) \/ ClassifyFails(w) \/ AckFails(w)
    \/ Crash(w) \/ Restart(w)

Next ==
    \/ Add \/ Age
    \/ \E w \in Worker : Work(w) \/ Failure(w)

Spec == Init /\ [][Next]_vars

(* asyncio runs a ready task, time passes, and the sweep timer falls due in*)
(* a loop that keeps turning.  A dead worker need never come back.         *)
Fairness ==
    /\ WF_vars(Age)
    /\ \A w \in Worker : WF_vars(Work(w)) /\ SF_vars(Sweep(w))

FairSpec == Spec /\ Fairness

---------------------------------------------------------------------------
TypeOK ==
    /\ added \in 0..MaxId /\ delivered \in 0..MaxId /\ delivered <= added
    /\ pel \in [Ids -> Worker \cup {NoOne}]
    /\ stale \subseteq Pending
    /\ rows \in [Key -> Nat]
    /\ pc \in [Worker -> Steps]
    /\ phase \in [Worker -> Loops]
    /\ batch \in [Worker -> SUBSET Ids]
    /\ landed \in [Worker -> SUBSET Key]
    /\ next \in [Worker -> 0..MaxId]
    /\ alarmed \subseteq Ids
    /\ crashes \in 0..MaxCrashes /\ faults \in 0..MaxFaults

(* Delivered and never to be delivered again.                              *)
Settled(e) == e <= delivered /\ pel[e] = NoOne

(* The detector's contract: one key, one transition, however often it is on*)
(* the stream.                                                             *)
KeysAreUnique == \A e, f \in Ids : KeyOf[e] = KeyOf[f] => TsOf[e] = TsOf[f]

(* Commit, then ack ("Never the other way round"): a transition that parses*)
(* and has left the PEL is in alert_events, whichever of the competing     *)
(* workers crashed, failed or stole the other's batch.                     *)
NoAlertIsLost ==
    \A e \in Ids : Settled(e) /\ Parses(e) => rows[KeyOf[e]] = TsOf[e]

(* What makes it inductive.                                                *)
RowsAreTransitions ==
    \A k \in Key : rows[k] # 0 => \E e \in Ids : KeyOf[e] = k /\ rows[k] = TsOf[e]

InsertedBeforeAck ==
    \A w \in Worker :
        pc[w] \in {"classify", "ack"} =>
            \A e \in batch[w] : Parses(e) => rows[KeyOf[e]] # 0

OnlyBatched ==
    \A e \in Ids : Settled(e) /\ Parses(e) => rows[KeyOf[e]] # 0

AlertInv == RowsAreTransitions /\ InsertedBeforeAck /\ OnlyBatched

(* The alarm of _classify_conflicts is no false alarm: while every key is  *)
(* one transition, no redelivery, re-emission or race of two workers is    *)
(* reported as a reused seq.                                               *)
NoFalseAlarm == alarmed = {}

(* "a silent alerting failure is the worst failure this system has"        *)
(* (alerts.py): an acknowledged transition is stored, or it was reported as*)
(* a collision.                                                            *)
NoSilentLoss ==
    \A e \in Ids : Settled(e) /\ Parses(e) => rows[KeyOf[e]] = TsOf[e] \/ e \in alarmed

(* Every transition the ingestor emits is settled in the end, also when the*)
(* worker that was given it never comes back.                              *)
EveryAlertSettles == \A e \in Ids : (added >= e) ~> Settled(e)

============================================================================
