---------------------------- MODULE BarPersister ----------------------------
(***************************************************************************)
(* The bar persister, apps/worker/fx_worker/persister.py and db.py: workers*)
(* that take turns under a lease, read ticks from a Redis stream through a *)
(* consumer group, fold them in memory, commit the folded bars to Postgres *)
(* under a per-row watermark, and acknowledge only after the commit.       *)
(*                                                                         *)
(* A tick is its stream id, 1..MaxId in stream order; RowOf gives the bar  *)
(* (symbol, minute) it belongs to.  Prices are left out: `merged` records  *)
(* how many times each tick was added to its bar's additive columns.       *)
(*                                                                         *)
(* The lease is the one of LeaderLease, without its clock: the key passes  *)
(* on when its owner is not running the body, and, at most MaxStalls times,*)
(* under an owner that has been paused for longer than the TTL.            *)
(***************************************************************************)
EXTENDS StreamIds

CONSTANTS Worker, NoOne, Ghost,
          MaxId,       \* bound: ticks the ingestor writes
          Row, RowOf,  \* bars_1m primary keys, and the bar of each tick
          Malformed,   \* ids whose fields do not parse
          PageSize,    \* flush_max_rows, also the count of every read
          MaxCrashes,  \* bound: crashes and shutdowns
          MaxFaults,   \* bound: Redis and Postgres errors
          MaxStalls,   \* bound: pauses that outlive the lease
          MaxTrims     \* bound: XADD MINID trims

Ids == 1..MaxId

ASSUME PersisterAssumption ==
    /\ MaxId \in Nat /\ PageSize \in Nat \ {0}
    /\ RowOf \in [Ids -> Row]
    /\ Malformed \subseteq Ids
    /\ MaxCrashes \in Nat /\ MaxFaults \in Nat /\ MaxStalls \in Nat /\ MaxTrims \in Nat
    /\ NoOne \notin Worker /\ Ghost \notin Worker /\ NoOne # Ghost

VARIABLES
    added,      \* ids 1..added have been XADDed
    trimmed,    \* ids 1..trimmed have left the stream
    delivered,  \* the group's last-delivered id
    pel,        \* the consumer each entry is pending for, or NoOne
    stale,      \* pending entries idle for claim_idle_ms
    merged,     \* bars_1m: how often each tick is in its row
    wm,         \* bars_1m.last_stream_id
    owner,      \* the lease key
    pc,         \* where run() is
    phase,      \* what called flush()
    mem,        \* _accs: how often each tick is folded in memory
    unacked,    \* _unacked
    next,       \* the cursor of claim_abandoned
    lost,       \* lease.lost.is_set()
    crashes, faults, stalls, trims

stream  == <<added, trimmed>>
group   == <<delivered, pel, stale>>
table   == <<merged, wm>>
worker  == <<pc, phase, mem, unacked, next, lost>>
budgets == <<crashes, faults, stalls, trims>>
vars    == <<stream, group, table, owner, worker, budgets>>

(* drain, claim: the two recovery steps at the start of run(); top..sweep: *)
(* one turn of its loop; flush, ack: inside flush(); leaving: run() is over*)
(* and hold() has yet to release the lease.                                *)
Idle == {"down", "standby", "leaving"}
Body == {"drain", "claim", "top", "read", "turn", "sweep", "flush", "ack"}
Phases == {"drain", "claim", "turn", "sweep", "stop"}

InBody(w) == pc[w] \in Body

Pending == {e \in Ids : pel[e] # NoOne}

Empty == [e \in Ids |-> 0]

Init ==
    /\ added = 0 /\ trimmed = 0
    /\ delivered = 0 /\ pel = [e \in Ids |-> NoOne] /\ stale = {}
    /\ merged = Empty /\ wm = [r \in Row |-> 0]
    /\ owner = NoOne
    /\ pc = [w \in Worker |-> "standby"]
    /\ phase = [w \in Worker |-> "drain"]
    /\ mem = [w \in Worker |-> Empty]
    /\ unacked = [w \in Worker |-> {}]
    /\ next = [w \in Worker |-> 0]
    /\ lost = [w \in Worker |-> FALSE]
    /\ crashes = 0 /\ faults = 0 /\ stalls = 0 /\ trims = 0

Goto(w, step) == pc' = [pc EXCEPT ![w] = step]

Fault == faults < MaxFaults /\ faults' = faults + 1

(* The oldest PageSize entries of S.                                       *)
FirstPage(S) == Page(S, PageSize)

---------------------------------------------------------------------------
(* The ingestor (pipeline.py, _write) and the stream's retention.          *)

Add ==
    /\ added < MaxId
    /\ added' = added + 1
    /\ UNCHANGED <<trimmed, group, table, owner, worker, budgets>>

(* XADD ... MINID ~ drops the oldest entries, delivered or not, acked or   *)
(* not; a pending id stays in the PEL without its fields.                  *)
Trim ==
    /\ trims < MaxTrims
    /\ trims' = trims + 1
    /\ \E m \in (trimmed + 1)..added : trimmed' = m
    /\ UNCHANGED <<added, group, table, owner, worker, crashes, faults, stalls>>

(* A minute passes.  A running owner with parsed ticks in memory does not  *)
(* let it: it flushes every flush_max_seconds.                             *)
Age ==
    /\ \A w \in Worker : owner = w /\ InBody(w) => mem[w] = Empty
    /\ stale' = Pending
    /\ UNCHANGED <<stream, delivered, pel, table, owner, worker, budgets>>

---------------------------------------------------------------------------
(* The lease.                                                              *)

(* hold() acquires; run() starts with ensure_group, and drain_own_pending  *)
(* forgets whatever an earlier run left in memory.                         *)
Acquire(w) ==
    /\ pc[w] = "standby"
    /\ owner = NoOne
    /\ owner' = w
    /\ lost' = [lost EXCEPT ![w] = FALSE]
    /\ mem' = [mem EXCEPT ![w] = Empty]
    /\ unacked' = [unacked EXCEPT ![w] = {}]
    /\ next' = [next EXCEPT ![w] = 0]
    /\ Goto(w, "drain")
    /\ UNCHANGED <<stream, group, table, phase, budgets>>

(* hold()'s finally.  A release that fails is suppressed.                  *)
Leave(w) ==
    /\ pc[w] = "leaving"
    /\ owner' \in {owner, IF owner = w THEN NoOne ELSE owner}
    /\ Goto(w, "standby")
    /\ UNCHANGED <<stream, group, table, phase, mem, unacked, next, lost, budgets>>

(* The TTL runs out for an owner that is not in its body.                  *)
LeaseExpires ==
    /\ owner \in {Ghost} \cup {w \in Worker : pc[w] \in Idle}
    /\ owner' = NoOne
    /\ UNCHANGED <<stream, group, table, worker, budgets>>

(* The TTL runs out under a paused owner.                                  *)
Stall(w) ==
    /\ owner = w /\ InBody(w)
    /\ stalls < MaxStalls
    /\ stalls' = stalls + 1
    /\ owner' = NoOne
    /\ UNCHANGED <<stream, group, table, worker, crashes, faults, trims>>

(* _renew_loop hears 0: the key is gone or somebody else's.                *)
RenewRefused(w) ==
    /\ InBody(w) /\ ~lost[w]
    /\ owner # w
    /\ lost' = [lost EXCEPT ![w] = TRUE]
    /\ UNCHANGED <<stream, group, table, owner, pc, phase, mem, unacked, next, budgets>>

(* _renew_loop catches a RedisError, with the key still its own.           *)
RenewError(w) ==
    /\ InBody(w) /\ ~lost[w]
    /\ Fault
    /\ lost' = [lost EXCEPT ![w] = TRUE]
    /\ UNCHANGED <<stream, group, table, owner, pc, phase, mem, unacked, next,
                   crashes, stalls, trims>>

---------------------------------------------------------------------------
(* Reading.                                                                *)

(* _ingest_entry's try block.  XREADGROUP 0 returns a trimmed entry with no*)
(* fields, which fails like a malformed one.                               *)
Parses(e) == e \notin Malformed /\ e > trimmed

(* A page of entries is folded in; every id, malformed or not, goes to     *)
(* _unacked.                                                               *)
Ingest(w, page) ==
    /\ mem' = [mem EXCEPT ![w] =
                 [e \in Ids |-> mem[w][e] + (IF e \in page /\ Parses(e) THEN 1 ELSE 0)]]
    /\ unacked' = [unacked EXCEPT ![w] = unacked[w] \cup page]

Flush(w, caller) ==
    /\ phase' = [phase EXCEPT ![w] = caller]
    /\ Goto(w, "flush")

(* drain_own_pending: one XREADGROUP 0, which also restarts the idle time. *)
Drain(w) ==
    /\ pc[w] = "drain"
    /\ LET page == FirstPage({e \in Ids : pel[e] = w})
       IN /\ stale' = stale \ page
          /\ \/ /\ page = {}
                /\ Goto(w, "claim")
                /\ UNCHANGED <<phase, mem, unacked>>
             \/ /\ page # {}
                /\ Ingest(w, page)
                /\ Flush(w, "drain")
    /\ UNCHANGED <<stream, delivered, pel, table, owner, next, lost, budgets>>

(* XAUTOCLAIM over the entries of `idle` from the cursor on: the ones still*)
(* in the stream become w's, the trimmed ones leave the PEL.               *)
Scanned(w, idle) == FirstPage({e \in Pending \cap idle : e >= next[w]})

Adopt(w, scan) ==
    /\ pel' = [e \in Ids |-> IF e \notin scan THEN pel[e]
                             ELSE IF e > trimmed THEN w ELSE NoOne]
    /\ stale' = stale \ scan

(* The cursor Redis returns: the next pending id, 0-0 at the end.          *)
Cursor(scan, c) ==
    LET rest == {e \in Pending : \A f \in scan : f < e}
    IN IF Cardinality(scan) < PageSize \/ rest = {}
       THEN c = 0
       ELSE c \in rest /\ \A e \in rest : c <= e

(* One turn of claim_abandoned's loop; an empty page ends it.              *)
ClaimPage(w, idle, caller) ==
    LET scan == Scanned(w, idle)
        page == {e \in scan : e > trimmed}
    IN /\ Adopt(w, scan)
       /\ \/ /\ page = {}
             /\ next' = [next EXCEPT ![w] = 0]
             /\ Goto(w, "top")
             /\ UNCHANGED <<phase, mem, unacked>>
          \/ /\ page # {}
             /\ \E c \in 0..MaxId : Cursor(scan, c) /\ next' = [next EXCEPT ![w] = c]
             /\ Ingest(w, page)
             /\ Flush(w, caller)
       /\ UNCHANGED <<stream, delivered, table, owner, lost, budgets>>

(* Mutated: run() without its startup claim.                               *)
ClaimSkipped(w) ==
    /\ pc[w] = "claim"
    /\ Goto(w, "top")
    /\ UNCHANGED <<stream, group, table, owner, phase, mem, unacked, next, lost, budgets>>

(* At startup: min_idle_ms=0, every pending entry is a predecessor's.      *)
Claim(w) == pc[w] = "claim" /\ ClaimPage(w, Ids, "claim")

(* Every 30 s: whatever has been idle for 60 s.                            *)
Sweep(w) == pc[w] = "sweep" /\ ClaimPage(w, stale, "sweep")

(* The sweep is not due.                                                   *)
SkipSweep(w) ==
    /\ pc[w] = "sweep"
    /\ next[w] = 0
    /\ Goto(w, "top")
    /\ UNCHANGED <<stream, group, table, owner, phase, mem, unacked, next, lost, budgets>>

(* The head of the loop.  A lost lease ends run() without a flush.         *)
Top(w) ==
    /\ pc[w] = "top"
    /\ Goto(w, IF lost[w] THEN "leaving" ELSE "read")
    /\ UNCHANGED <<stream, group, table, owner, phase, mem, unacked, next, lost, budgets>>

(* SIGTERM: the loop ends and run() flushes once more.                     *)
Stop(w) ==
    /\ pc[w] = "top"
    /\ crashes < MaxCrashes
    /\ crashes' = crashes + 1
    /\ Flush(w, "stop")
    /\ UNCHANGED <<stream, group, table, owner, mem, unacked, next, lost,
                   faults, stalls, trims>>

(* XREADGROUP >: the oldest entries nobody has been given.                 *)
NewPage == FirstPage({e \in Ids : e > delivered /\ e > trimmed /\ e <= added})

Deliver(w) ==
    /\ pel' = [e \in Ids |-> IF e \in NewPage THEN w ELSE pel[e]]
    /\ stale' = stale \ NewPage
    /\ delivered' \in {d \in 0..MaxId :
                         IF NewPage = {} THEN d = delivered
                         ELSE d \in NewPage /\ \A e \in NewPage : e <= d}

(* It returns what it got, or nothing after blocking for a second; `lost`  *)
(* may have been set meanwhile and is not looked at.                       *)
ReadNew(w) ==
    /\ pc[w] = "read"
    /\ Deliver(w)
    /\ Ingest(w, NewPage)
    /\ Goto(w, "turn")
    /\ UNCHANGED <<stream, table, owner, phase, next, lost, budgets>>

(* _should_flush: enough entries, or (at any time, here) enough seconds.   *)
TurnFlush(w) ==
    /\ pc[w] = "turn"
    /\ Flush(w, "turn")
    /\ UNCHANGED <<stream, group, table, owner, mem, unacked, next, lost, budgets>>

TurnNoFlush(w) ==
    /\ pc[w] = "turn"
    /\ Cardinality(unacked[w]) < PageSize
    /\ Goto(w, "sweep")
    /\ UNCHANGED <<stream, group, table, owner, phase, mem, unacked, next, lost, budgets>>

---------------------------------------------------------------------------
(* flush(): commit, then ack, then forget.                                 *)

(* Where run() goes on after flush().                                      *)
Resume(w) ==
    LET caller == phase[w]
    IN IF caller = "drain" THEN "drain"
       ELSE IF caller = "turn" THEN "sweep"
       ELSE IF caller = "stop" THEN "leaving"
       ELSE IF next[w] = 0 THEN "top" ELSE caller

Batch(w, r) == {e \in Ids : mem[w][e] > 0 /\ RowOf[e] = r}

(* Mutated: the merge without its WHERE clause.                            *)
AppliesAlways(w, r) == Batch(w, r) # {}

(* The upsert's WHERE clause: the batch's id is above the row's.           *)
Applies(w, r) == \E e \in Batch(w, r) : e > wm[r]

(* upsert_bars: one transaction over all rows of the batch.                *)
Upsert(w) ==
    /\ merged' = [e \in Ids |-> IF Applies(w, RowOf[e]) THEN merged[e] + mem[w][e]
                                                        ELSE merged[e]]
    /\ wm' = [r \in Row |-> IF Applies(w, r) THEN Newest(Batch(w, r)) ELSE wm[r]]

(* XACK takes an id out of the PEL whoever it is pending for.              *)
Xack(w) ==
    /\ pel' = [e \in Ids |-> IF e \in unacked[w] THEN NoOne ELSE pel[e]]
    /\ stale' = stale \ unacked[w]

(* Nothing folded: flush() returns at once, and acknowledges nothing.      *)
FlushNothing(w) ==
    /\ pc[w] = "flush"
    /\ mem[w] = Empty
    /\ Goto(w, Resume(w))
    /\ UNCHANGED <<stream, group, table, owner, phase, mem, unacked, next, lost, budgets>>

(* Mutated: acknowledge, then commit.                                      *)
AckBeforeCommit(w) ==
    /\ pc[w] = "flush"
    /\ mem[w] # Empty
    /\ Xack(w)
    /\ Goto(w, "ack")
    /\ UNCHANGED <<stream, delivered, table, owner, phase, mem, unacked, next, lost, budgets>>

Commit(w) ==
    /\ pc[w] = "flush"
    /\ mem[w] # Empty
    /\ Upsert(w)
    /\ Goto(w, "ack")
    /\ UNCHANGED <<stream, group, owner, phase, mem, unacked, next, lost, budgets>>

Ack(w) ==
    /\ pc[w] = "ack"
    /\ Xack(w)
    /\ mem' = [mem EXCEPT ![w] = Empty]
    /\ unacked' = [unacked EXCEPT ![w] = {}]
    /\ Goto(w, Resume(w))
    /\ UNCHANGED <<stream, delivered, table, owner, phase, next, lost, budgets>>

---------------------------------------------------------------------------
(* Failures.  OSError and RedisError leave run() and are retried under a   *)
(* new lease by run_forever; only the sweep suppresses RedisError.         *)

(* A read that failed: Redis did not run it, or ran it and the reply was   *)
(* lost, so that the entries are ours in the PEL and not in memory.        *)
ReadFails(w) ==
    /\ Fault
    /\ \/ /\ pc[w] \in {"drain", "claim", "read"}
          /\ UNCHANGED group
       \/ /\ pc[w] = "read"
          /\ Deliver(w)
       \/ /\ pc[w] = "claim"
          /\ Adopt(w, Scanned(w, Ids))
          /\ UNCHANGED delivered
    /\ Goto(w, "leaving")
    /\ UNCHANGED <<stream, table, owner, phase, mem, unacked, next, lost,
                   crashes, stalls, trims>>

(* The same in the sweep, which goes on as if nothing had happened.        *)
SweepFails(w) ==
    /\ pc[w] = "sweep"
    /\ Fault
    /\ Adopt(w, Scanned(w, stale)) \/ UNCHANGED <<pel, stale>>
    /\ next' = [next EXCEPT ![w] = 0]
    /\ Goto(w, "top")
    /\ UNCHANGED <<stream, delivered, table, owner, phase, mem, unacked, lost,
                   crashes, stalls, trims>>

(* The commit raised: rolled back, or done with its answer lost.           *)
CommitFails(w) ==
    /\ pc[w] = "flush"
    /\ mem[w] # Empty
    /\ Fault
    /\ Upsert(w) \/ UNCHANGED table
    /\ Goto(w, "leaving")
    /\ UNCHANGED <<stream, group, owner, phase, mem, unacked, next, lost,
                   crashes, stalls, trims>>

(* XACK raised, after a commit: memory is kept.                            *)
AckFails(w) ==
    /\ pc[w] = "ack"
    /\ Fault
    /\ Xack(w) \/ UNCHANGED <<pel, stale>>
    /\ Goto(w, IF phase[w] = "sweep" THEN "top" ELSE "leaving")
    /\ next' = [next EXCEPT ![w] = 0]
    /\ UNCHANGED <<stream, delivered, table, owner, phase, mem, unacked, lost,
                   crashes, stalls, trims>>

(* The process dies: memory is gone, the PEL and the key are not.          *)
Crash(w) ==
    /\ pc[w] # "down"
    /\ crashes < MaxCrashes
    /\ crashes' = crashes + 1
    /\ owner' = IF owner = w THEN Ghost ELSE owner
    /\ mem' = [mem EXCEPT ![w] = Empty]
    /\ unacked' = [unacked EXCEPT ![w] = {}]
    /\ next' = [next EXCEPT ![w] = 0]
    /\ lost' = [lost EXCEPT ![w] = FALSE]
    /\ Goto(w, "down")
    /\ UNCHANGED <<stream, group, table, phase, faults, stalls, trims>>

(* It comes back under the same consumer name (FX_CONSUMER_NAME, by default*)
(* the host's).                                                            *)
Restart(w) ==
    /\ pc[w] = "down"
    /\ Goto(w, "standby")
    /\ UNCHANGED <<stream, group, table, owner, phase, mem, unacked, next, lost, budgets>>

Work(w) ==
    \/ Drain(w) \/ Claim(w) \/ Top(w) \/ ReadNew(w) \/ TurnFlush(w)
    \/ TurnNoFlush(w) \/ Sweep(w) \/ SkipSweep(w)
    \/ FlushNothing(w) \/ Commit(w) \/ Ack(w)

Failure(w) ==
    \/ ReadFails(w) \/ SweepFails(w) \/ CommitFails(w) \/ AckFails(w)
    \/ Crash(w) \/ Stop(w) \/ Stall(w) \/ RenewError(w)

Next ==
    \/ Add \/ Trim \/ Age \/ LeaseExpires
    \/ \E w \in Worker :
          \/ Acquire(w) \/ Leave(w) \/ Restart(w) \/ RenewRefused(w)
          \/ Work(w) \/ Failure(w)

Spec == Init /\ [][Next]_vars

(* asyncio runs a ready task, the orchestrator restarts a dead process, the*)
(* key expires, a standby polls.  Strong fairness of TurnFlush is the      *)
(* flush_max_seconds timer: a turn that keeps coming finds it due.         *)
Fairness ==
    /\ WF_vars(LeaseExpires)
    /\ WF_vars(\E w \in Worker : Acquire(w))
    /\ \A w \in Worker :
        /\ WF_vars(Work(w)) /\ SF_vars(TurnFlush(w))
        /\ WF_vars(Leave(w)) /\ WF_vars(Restart(w)) /\ WF_vars(RenewRefused(w))

FairSpec == Spec /\ Fairness

---------------------------------------------------------------------------
StreamOK ==
    /\ added \in 0..MaxId
    /\ trimmed \in Nat /\ trimmed <= added
    /\ delivered \in Nat /\ delivered <= added

GroupOK ==
    /\ pel \in [Ids -> Worker \cup {NoOne}]
    /\ stale \subseteq Pending

TableOK ==
    /\ merged \in [Ids -> Nat]
    /\ wm \in [Row -> 0..MaxId]

WorkerOK ==
    /\ pc \in [Worker -> Idle \cup Body]
    /\ phase \in [Worker -> Phases]
    /\ mem \in [Worker -> [Ids -> Nat]]
    /\ unacked \in [Worker -> SUBSET Ids]
    /\ next \in [Worker -> 0..MaxId]
    /\ lost \in [Worker -> BOOLEAN]

BudgetsOK ==
    /\ crashes \in 0..MaxCrashes /\ faults \in 0..MaxFaults
    /\ stalls \in 0..MaxStalls /\ trims \in 0..MaxTrims

TypeOK ==
    /\ StreamOK /\ GroupOK /\ TableOK /\ WorkerOK /\ BudgetsOK
    /\ owner \in Worker \cup {NoOne, Ghost}

(* Delivered and never to be delivered again.                              *)
Settled(e) == e <= delivered /\ pel[e] = NoOne

(* THE ACK ORDERING IS THE ENTIRE GUARANTEE (persister.py): in every       *)
(* interleaving, with any faults and pauses, a tick that parses and has    *)
(* left the PEL is at or below its row's watermark.                        *)
AckedIsCovered ==
    \A e \in Ids : Settled(e) /\ Parses(e) => e <= wm[RowOf[e]]

(* What makes it inductive: an unacknowledged tick that parses is folded in*)
(* memory, and flush() gets to its XACK only with every folded tick at or  *)
(* below its row's watermark.                                              *)
FoldedWhenParsed ==
    \A w \in Worker, e \in Ids : e \in unacked[w] /\ Parses(e) => mem[w][e] > 0

CommittedWhenAcking ==
    \A w \in Worker, e \in Ids :
        pc[w] = "ack" /\ mem[w][e] > 0 => e <= wm[RowOf[e]]

CoverInv == AckedIsCovered /\ FoldedWhenParsed /\ CommittedWhenAcking

(* A row's watermark never moves back, whoever commits (db.py, the WHERE   *)
(* clause of _UPSERT).                                                     *)
WatermarkNeverRetreats == [][\A r \in Row : wm'[r] >= wm[r]]_vars

(* No tick is in its bar twice (db.py: "an exactly-once effect").          *)
NoTickTwice == \A e \in Ids : merged[e] <= 1

(* No tick that parses is acknowledged without being in its bar            *)
(* (persister.py: "entries stay pending, get redelivered, get written").   *)
NoTickLost == \A e \in Ids : Settled(e) /\ Parses(e) => merged[e] >= 1

(* The persister implements the ledger of its promise.                     *)
Ledger == INSTANCE TickLedger WITH
            Ticks <- Ids, counted <- merged, settled <- {e \in Ids : Settled(e)}

ImplementsLedger == Ledger!Spec

(* When it does: no pause has outlived the lease, nothing was trimmed,     *)
(* every entry parses, and what is pending fits one page.  Without any of  *)
(* the four it does not (NoTickTwice, NoTickLost).                         *)
Calm ==
    /\ stalls = 0 /\ trims = 0 /\ Malformed = {}
    /\ Cardinality(Pending) <= PageSize

Covered(e) == e <= wm[RowOf[e]]

(* Only the owner of the key runs the body.                                *)
OneBody == \A w \in Worker : InBody(w) => owner = w

(* The bars hold exactly the ticks at or below their watermarks.           *)
WatermarkCounts ==
    \A e \in Ids : merged[e] = IF Covered(e) THEN 1 ELSE 0

NothingAhead ==
    /\ trimmed = 0
    /\ \A r \in Row : wm[r] <= delivered
    /\ \A e \in Pending : e <= delivered

(* What is pending is one batch: of one consumer, committed as a whole or  *)
(* not at all.                                                             *)
OneBatch ==
    /\ \A e, f \in Pending : pel[e] = pel[f]
    /\ (\A e \in Pending : Covered(e)) \/ (\A e \in Pending : ~Covered(e))

(* It is in the memory of whoever is past the startup claim, once each.    *)
Holds(w) ==
    /\ mem[w] = [e \in Ids |-> IF pel[e] = NoOne THEN 0 ELSE 1]
    /\ unacked[w] = Pending /\ stale = {}
    /\ \A e \in Pending : pel[e] = w

BatchIsHeld ==
    \A w \in Worker :
        /\ InBody(w) => next[w] = 0
        /\ pc[w] \in {"drain", "claim"} => mem[w] = Empty /\ unacked[w] = {}
        /\ pc[w] \in {"top", "read", "turn", "sweep"} =>
              Holds(w) /\ \A e \in Pending : ~Covered(e)
        /\ pc[w] = "flush" => Holds(w) /\ phase[w] # "sweep"
        /\ pc[w] = "ack" =>
              Holds(w) /\ phase[w] # "sweep" /\ \A e \in Pending : Covered(e)

ExactInv == OneBody /\ WatermarkCounts /\ NothingAhead /\ OneBatch /\ BatchIsHeld

(* Every tick the ingestor writes is in the end in its bar and settled,    *)
(* however the errors, crashes and failovers fall.                         *)
EveryTickSettles ==
    \A e \in Ids : (added >= e) ~> (Settled(e) /\ merged[e] = 1)

(* drain_own_pending ends: "a poison message that is retried forever is a  *)
(* worse outage than a dropped tick" (persister.py).                       *)
DrainEnds == \A w \in Worker :
    (pc[w] = "drain") ~> (pc[w] \notin {"drain", "flush", "ack"})

============================================================================
