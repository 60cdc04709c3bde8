--------------------------- MODULE RegimeDetector ---------------------------
(***************************************************************************)
(* The detection path of one symbol across ingestor replicas:              *)
(* packages/core/fx_core/alerts/detector.py (gates, baseline freeze, thaw, *)
(* Schmitt trigger) as apps/ingestor/fx_ingestor/pipeline.py drives it.    *)
(* One sealed bar is one MULTI: the detector's snapshot and, when the      *)
(* regime changed, one entry of the alert stream.  A new leader restores   *)
(* the snapshot; a replica that lost its lease keeps its object.           *)
(*                                                                         *)
(* The baseline is what the trigger's promises need of it: whether it is   *)
(* frozen, and whether it has admitted a sample of the stress event now in *)
(* progress (`relearned`).  The z-score itself is any.                     *)
(***************************************************************************)
EXTENDS Hysteresis, Sequences, FiniteSets

CONSTANTS Replica,
          SessionWarmup,   \* session_warmup
          RearmBars,       \* rearm_bars
          GapMultiple,     \* GAP_BAR_MULTIPLE
          MaxMinute,       \* bound: the last minute of a behaviour
          MaxStep,         \* bound: minutes from one tick to the next
          MaxExits,        \* bound: process deaths
          MaxLosses        \* bound: leases a living process loses, noticed or not

ASSUME DetectorAssumption ==
    /\ SessionWarmup \in Nat /\ RearmBars \in Nat /\ GapMultiple \in Nat
    /\ MaxMinute \in Nat /\ MaxStep \in Nat
    /\ MaxExits \in Nat /\ MaxLosses \in Nat

VARIABLES now,        \* the current minute
          leading,    \* replicas running _run_as_leader
          det,        \* each replica's RegimeDetector and SymbolState
          snap,       \* regime:{SYMBOL}; NoSnap before the first seal
          log,        \* the alert stream
          measured,   \* history: the last minute whose bar was evaluated
          exits,
          deposals,   \* leases a replica lost and stepped down for
          overlaps    \* leases taken over while their owner still leads

redis   == <<snap, log, measured>>
budgets == <<exits, deposals, overlaps>>
vars    == <<now, leading, det, redis, budgets>>

Baseline == [frozen : BOOLEAN, relearned : BOOLEAN]

NewBaseline == [frozen |-> FALSE, relearned |-> FALSE]

NewDetector == [trig |-> NewTrigger, base |-> NewBaseline,
                wasOpen |-> "unknown", openedAt |-> 0, contiguous |-> 0,
                rebaselining |-> FALSE, bucket |-> 0, lastSealed |-> 0]

Detector == [trig : Trigger, base : Baseline,
             wasOpen : {"unknown", "open", "closed"}, openedAt : Nat,
             contiguous : 0..(RearmBars + 1),
             rebaselining : BOOLEAN, bucket : Nat, lastSealed : Nat]

(* regime:{SYMBOL} holds no snapshot until the first bar seals.            *)
NoSnap == [exists |-> FALSE, trig |-> NewTrigger, base |-> NewBaseline]

Snapshot(d) == [exists |-> TRUE, trig |-> RestoreTrigger(d.trig), base |-> d.base]

(* What a sealed bar meets: a closed market, a feed marked stale, or a     *)
(* z-score, "none" while the baseline has none to give.                    *)
BarInput == [gate : {"closed", "stale"}, z : {"none"}]
            \cup [gate : {"clear"}, z : Score \cup {"none"}]

Init ==
    /\ now = 0 /\ leading = {}
    /\ snap = NoSnap /\ log = <<>> /\ measured = 0
    /\ det = [i \in Replica |-> NewDetector]
    /\ exits = 0 /\ deposals = 0 /\ overlaps = 0

---------------------------------------------------------------------------
(* Mutated forms of the definitions that follow.                           *)

(* Thawing without _rebaselining: the freeze re-applies at once.           *)
LearnWithoutRebaselining(d, trig, thawing, changed) ==
    LET stressed == trig.regime = "stressed"
    IN [d EXCEPT !.trig = trig, !.rebaselining = FALSE,
                 !.base = [frozen |-> stressed, relearned |-> FALSE]]

(* A promoted standby that starts cold.                                    *)
RestoreNothing(d) == d

---------------------------------------------------------------------------
(* _gate, first half: the session calendar.                                *)
NoteSession(d, bar, ts) ==
    LET open == bar.gate # "closed"
    IN [d EXCEPT !.openedAt = IF d.wasOpen = "closed" /\ open THEN ts ELSE @,
                 !.wasOpen  = IF open THEN "open" ELSE "closed"]

(* _gate, second half, on the detector NoteSession leaves; is_gap_bar is   *)
(* computed by _seal_bar from last_sealed.                                 *)
Gated(d, bar, ts) ==
    \/ bar.gate = "closed"
    \/ d.openedAt # 0 /\ ts - d.openedAt < SessionWarmup
    \/ d.lastSealed # 0 /\ ts - d.lastSealed > GapMultiple
    \/ bar.gate = "stale"

(* The end of update(): the freeze, and which samples the baseline admits. *)
Learn(d, trig, thawing, changed) ==
    LET stressed     == trig.regime = "stressed"
        rebaselining == ~changed /\ (d.rebaselining \/ thawing)
        frozen       == IF stressed
                        THEN ~rebaselining \/ (d.base.frozen /\ ~thawing)
                        ELSE FALSE
    IN [d EXCEPT !.trig = trig, !.rebaselining = rebaselining,
                 !.base = [frozen    |-> frozen,
                           relearned |-> /\ stressed /\ ~changed
                                         /\ d.base.relearned \/ ~frozen]]

(* RegimeDetector.update for a bar no gate stops.                          *)
Judge(d, z, ts) ==
    LET thawing == baseline_should_thaw(d.trig, ts) /\ ~d.rebaselining
        told    == IF thawing THEN mark_thawed(d.trig) ELSE d.trig
        res     == TriggerUpdate(told, z, ts)
    IN [det |-> Learn(d, res.trig, thawing, res.cause # "none"), cause |-> res.cause]

(* A gated bar, or one of the rearm_bars after it: the trigger holds, the  *)
(* baseline and _rebaselining are left as they are.                        *)
Skip(d, ts) ==
    LET res == hold(d.trig, ts)
    IN [det |-> [d EXCEPT !.trig = res.trig], cause |-> res.cause]

(* _seal_bar: last_sealed, then update().                                  *)
Update(d, bar, ts) ==
    LET seen   == NoteSession(d, bar, ts)
        gated  == Gated(seen, bar, ts)
        count  == IF gated THEN 0
                  ELSE IF d.contiguous > RearmBars THEN d.contiguous
                  ELSE d.contiguous + 1
        sealed == [seen EXCEPT !.lastSealed = ts, !.contiguous = count]
    IN IF gated \/ count <= RearmBars THEN Skip(sealed, ts) ELSE Judge(sealed, bar.z, ts)

(* RegimeDetector.restore replaces the trigger and the baseline only;      *)
(* restore_detectors leaves a detector alone when there is no snapshot.    *)
Restore(d) ==
    IF snap.exists THEN [d EXCEPT !.trig = snap.trig, !.base = snap.base] ELSE d

---------------------------------------------------------------------------
(* Mutated: the snapshot is written by a later turn.                       *)
ExecSnapshotLater(res, bar, ts) ==
    /\ snap' = IF res.cause = "none" THEN Snapshot(res.det) ELSE snap
    /\ log' = IF res.cause = "none" THEN log
              ELSE Append(log, [seq |-> res.det.trig.seq, new |-> res.det.trig.regime,
                                cause |-> res.cause, ts |-> ts])
    /\ UNCHANGED measured

(* The MULTI of one sealed bar.                                            *)
Exec(res, bar, ts) ==
    /\ snap' = Snapshot(res.det)
    /\ log' = IF res.cause = "none" THEN log
              ELSE Append(log, [seq |-> res.det.trig.seq, new |-> res.det.trig.regime,
                                cause |-> res.cause, ts |-> ts])
    /\ measured' = IF res.det.contiguous > RearmBars /\ bar.z # "none" /\ ts > measured
                   THEN ts ELSE measured

(* The first tick opens a bucket.                                          *)
OpenBucket(i, m) ==
    /\ i \in leading /\ det[i].bucket = 0
    /\ now' = m
    /\ det' = [det EXCEPT ![i].bucket = m]
    /\ UNCHANGED <<leading, redis, budgets>>

(* A tick of a later minute m closes the bucket that is open, however old  *)
(* it is, and opens its own; the MULTI goes through.                       *)
CloseBucket(i, m, bar) ==
    LET ts  == det[i].bucket
        res == Update([det[i] EXCEPT !.bucket = m], bar, ts)
    IN /\ det' = [det EXCEPT ![i] = res.det]
       /\ Exec(res, bar, ts)

Seal(i, m, bar) ==
    /\ i \in leading /\ det[i].bucket # 0 /\ m > det[i].bucket
    /\ now' = m
    /\ CloseBucket(i, m, bar)
    /\ UNCHANGED <<leading, budgets>>

Exit(i) ==
    /\ exits < MaxExits
    /\ exits' = exits + 1
    /\ leading' = leading \ {i}
    /\ det' = [det EXCEPT ![i] = NewDetector]
    /\ UNCHANGED <<deposals, overlaps>>

(* RedisError out of the MULTI ends the process, here with it executed.    *)
SealFails(i, m, bar) ==
    /\ i \in leading /\ det[i].bucket # 0 /\ m > det[i].bucket
    /\ now' = m
    /\ Exit(i)
    /\ Exec(Update(det[i], bar, det[i].bucket), bar, det[i].bucket)

(* Any other end of a process: leading or standing by, before a MULTI or   *)
(* by one that was not executed.                                           *)
Crash(i) == Exit(i) /\ UNCHANGED <<now, redis>>

(* The lease is won and restore_detectors runs before the first tick.      *)
Promote(i) ==
    /\ i \notin leading
    /\ \/ leading = {} /\ UNCHANGED overlaps
       \/ leading # {} /\ deposals + overlaps < MaxLosses /\ overlaps' = overlaps + 1
    /\ leading' = leading \cup {i}
    /\ det' = [det EXCEPT ![i] = Restore(det[i])]
    /\ UNCHANGED <<now, redis, exits, deposals>>

(* `lost` is noticed: back to standby in the same process.                 *)
StepDown(i) ==
    /\ i \in leading
    /\ deposals + overlaps < MaxLosses
    /\ deposals' = deposals + 1
    /\ leading' = leading \ {i}
    /\ UNCHANGED <<now, det, redis, exits, overlaps>>

Next ==
    \E i \in Replica :
        \/ Crash(i) \/ Promote(i) \/ StepDown(i)
        \/ \E m \in now..(now + MaxStep) :
              /\ 0 < m /\ m <= MaxMinute
              /\ \/ OpenBucket(i, m)
                 \/ \E bar \in BarInput : Seal(i, m, bar) \/ SealFails(i, m, bar)

Spec == Init /\ [][Next]_vars

---------------------------------------------------------------------------
TypeOK ==
    /\ now \in 0..MaxMinute
    /\ leading \subseteq Replica
    /\ det \in [Replica -> Detector]
    /\ \A i \in Replica : det[i].trig.cand = "none" <=> det[i].trig.candSamples = 0
    /\ snap.trig \in Trigger /\ snap.base \in Baseline
    /\ snap.trig.cand = "none" /\ snap.trig.candSamples = 0
    /\ log \in Seq([seq : Nat, new : Regime, cause : Cause, ts : Nat])
    /\ measured \in Nat
    /\ exits \in 0..MaxExits /\ deposals \in 0..MaxLosses /\ overlaps \in 0..MaxLosses

RegimeAfter(n) == IF n = 0 THEN "normal" ELSE log[n].new

(* seq counts 1, 2, 3, ... on the stream, and the regimes alternate.        *)
Alternates ==
    \A k \in 1..Len(log) : log[k].seq = k /\ log[k].new # RegimeAfter(k - 1)

(* The snapshot in Redis and the last entry of the stream tell one story.  *)
SnapshotTellsTheStory ==
    snap.trig.seq = Len(log) /\ snap.trig.regime = RegimeAfter(Len(log))

(* Escalations on the stream lie a cooldown apart.                         *)
EscalationsApart ==
    \A j, k \in 1..Len(log) :
        j < k /\ log[j].new = "stressed" /\ log[k].new = "stressed"
            => log[k].ts - log[j].ts >= Cooldown

(* THE ALTERNATION INVARIANT (hysteresis.py) on the stream every consumer  *)
(* reads holds through any failovers, deposals and failed writes, as long  *)
(* as no two replicas have led at once.                                    *)
AlternatesAcrossFailovers == overlaps = 0 => Alternates

(* Whoever is promoted takes up where the stream stands: restore_detectors *)
(* never finds a snapshot older or newer than the last alert.              *)
FailoverIsSeamless == overlaps = 0 => SnapshotTellsTheStory

(* The cooldown of an escalation binds whoever leads when it ends.         *)
CooldownSurvivesFailover == overlaps = 0 => EscalationsApart

(* What makes the three inductive: the one leader's trigger agrees with    *)
(* the snapshot in what a snapshot carries, the first snapshot finds       *)
(* untouched triggers, and no escalation on the stream is younger than the *)
(* one the snapshot remembers.                                             *)
Agree(t, u) ==
    t.seq = u.seq /\ t.regime = u.regime /\ t.lastEscalation = u.lastEscalation

OneLeader == \A i, j \in leading : i = j

LeaderAgrees ==
    /\ \A i \in leading : Agree(det[i].trig, snap.trig)
    /\ ~snap.exists => /\ snap = NoSnap
                       /\ \A i \in Replica : Agree(det[i].trig, snap.trig)

Remembered ==
    \A k \in 1..Len(log) :
        log[k].new = "stressed" =>
            snap.trig.lastEscalation # 0 /\ log[k].ts <= snap.trig.lastEscalation

StoryInv ==
    /\ OneLeader /\ LeaderAgrees /\ Remembered
    /\ Alternates /\ SnapshotTellsTheStory /\ EscalationsApart

(* "So the freeze is bounded" (hysteresis.py): a bar that is evaluated     *)
(* thaw_after or more into a stress event leaves the baseline learning,    *)
(* also while two replicas lead at once and write one snapshot.  Left out  *)
(* is a replica deposed and promoted again: its _rebaselining survives.    *)
FreezeIsBounded ==
    [][deposals = 0 =>
        \A i \in Replica :
            LET d == det'[i]
            IN d.lastSealed # det[i].lastSealed /\ d.contiguous > RearmBars
               /\ baseline_should_thaw(d.trig, d.lastSealed) => ~d.base.frozen]_vars

Cleared(cause) == Len(log') > Len(log) /\ log'[Len(log')].cause = cause
                  /\ log'[Len(log')].new = "normal"

(* A clear tagged THRESHOLD says the market moved: the yardstick has not   *)
(* been moved since the escalation, whoever led meanwhile, one at a time.  *)
ThresholdMeansMarketMoved ==
    [][Cleared("threshold") /\ overlaps = 0 => ~snap.base.relearned]_vars

(* A clear tagged BASELINE_THAW says "our yardstick moved": the baseline   *)
(* has admitted at least one sample of the event.                          *)
ThawMeansYardstickMoved == [][Cleared("baseline_thaw") => snap.base.relearned]_vars

(* OBSERVATION_LOST says "we stopped being able to measure": no leader has *)
(* evaluated a bar of the last observation_timeout minutes, through every  *)
(* crash and failover.  A deposed replica that is promoted again is left   *)
(* out: it first seals the minute it had left open.                        *)
ObservationLostMeansBlind ==
    [][Cleared("observation_lost") /\ deposals = 0 /\ overlaps = 0
          => log'[Len(log')].ts - measured >= ObservationTimeout]_vars

---------------------------------------------------------------------------
(* What the three properties above rest on.                                *)

(* A baseline that learns, or has learned, from the event in progress has  *)
(* its trigger marked thawed; the snapshot carries both.                   *)
Marked(trig, base) ==
    trig.regime = "stressed" /\ (~base.frozen \/ base.relearned) => trig.thawed

YardstickIsMarked ==
    /\ Marked(snap.trig, snap.base)
    /\ \A i \in Replica : Marked(det[i].trig, det[i].base)

(* The one leader's baseline is the one in the snapshot.                   *)
BaselineIsStored ==
    overlaps = 0 => \A i \in leading : snap.exists => det[i].base = snap.base

(* _rebaselining is only set of a leader that learns.                      *)
RebaseliningLearns ==
    deposals = 0 =>
        \A i \in Replica : /\ det[i].rebaselining => ~det[i].base.frozen
                           /\ i \notin leading => ~det[i].rebaselining

(* A standby has seen nothing; the leader's open bucket and the beginning  *)
(* of its silence are no earlier than the last evaluated minute.           *)
NothingMeasuredSince ==
    /\ snap.trig.unobserved = 0
    /\ deposals = 0 /\ overlaps = 0 =>
        /\ measured <= now
        /\ \A i \in Replica :
             /\ i \notin leading => det[i].bucket = 0 /\ det[i].trig.unobserved = 0
             /\ det[i].bucket # 0 => measured <= det[i].bucket
             /\ det[i].trig.unobserved # 0 => measured <= det[i].trig.unobserved

ClearInv ==
    YardstickIsMarked /\ BaselineIsStored /\ RebaseliningLearns /\ NothingMeasuredSince

============================================================================
