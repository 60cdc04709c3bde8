------------------------ MODULE RegimeDetectorProofs ------------------------
(***************************************************************************)
(* The alternation invariant and the cooldown of the alert stream, for any *)
(* number of replicas, bars, restarts and lost leases, as long as one      *)
(* replica leads at a time (overlaps = 0).                                 *)
(***************************************************************************)
EXTENDS RegimeDetector, SequenceTheorems, TLAPS

(* One update() of the trigger: what a call that returns a transition, and *)
(* one that returns None, do to the fields a snapshot carries.             *)
Turned(t, res, ts) ==
    /\ res.trig \in Trigger
    /\ res.trig.cand = "none" <=> res.trig.candSamples = 0
    /\ res.cause = "none" =>
          /\ res.trig.seq = t.seq
          /\ res.trig.regime = t.regime
          /\ res.trig.lastEscalation = t.lastEscalation
    /\ res.cause # "none" =>
          /\ res.cause \in Cause
          /\ res.trig.seq = t.seq + 1
          /\ res.trig.regime # t.regime
          /\ res.trig.lastEscalation =
                (IF res.trig.regime = "stressed" THEN ts ELSE t.lastEscalation)
          /\ res.trig.regime = "stressed" =>
                t.lastEscalation = 0 \/ ts - t.lastEscalation >= Cooldown

(* reset_candidate touches the candidate only.                             *)
LEMMA ResetType ==
    ASSUME NEW t \in Trigger
    PROVE  /\ reset_candidate(t) \in Trigger
           /\ reset_candidate(t).cand = "none"
           /\ reset_candidate(t).candSamples = 0
           /\ reset_candidate(t).seq = t.seq
           /\ reset_candidate(t).regime = t.regime
           /\ reset_candidate(t).lastEscalation = t.lastEscalation
           /\ reset_candidate(t).unobserved = t.unobserved
BY DEF reset_candidate, Trigger, Regime

(* commit takes the trigger to the other regime.                           *)
LEMMA CommitTurns ==
    ASSUME NEW t \in Trigger, NEW target \in Regime, NEW ts \in Nat
    PROVE  /\ commit(t, target, ts) \in Trigger
           /\ commit(t, target, ts).cand = "none"
           /\ commit(t, target, ts).candSamples = 0
           /\ commit(t, target, ts).seq = t.seq + 1
           /\ commit(t, target, ts).regime = target
           /\ commit(t, target, ts).lastEscalation =
                (IF target = "stressed" THEN ts ELSE t.lastEscalation)
<1> DEFINE r == reset_candidate(t)
<1>1. r \in Trigger /\ r.cand = "none" /\ r.candSamples = 0 /\ r.seq = t.seq
      /\ r.lastEscalation = t.lastEscalation
  BY ResetType
<1>2. commit(t, target, ts) =
        [r EXCEPT !.regime = target, !.seq = r.seq + 1, !.since = ts, !.thawed = FALSE,
                  !.lastEscalation = IF target = "stressed" THEN ts ELSE r.lastEscalation]
  BY DEF commit
<1> HIDE DEF r
<1> DEFINE c == commit(t, target, ts)
<1>3. c = [regime |-> target, seq |-> r.seq + 1, since |-> ts,
               cand |-> r.cand, candSince |-> r.candSince, candSamples |-> r.candSamples,
               lastSample |-> r.lastSample,
               lastEscalation |-> IF target = "stressed" THEN ts ELSE r.lastEscalation,
               unobserved |-> r.unobserved, thawed |-> FALSE]
  BY <1>1, <1>2 DEF Trigger
<1>4. /\ r.seq \in Nat /\ r.cand \in Regime \cup {"none"} /\ r.candSince \in Nat
      /\ r.candSamples \in Nat /\ r.lastSample \in Nat /\ r.lastEscalation \in Nat
      /\ r.unobserved \in Nat
  BY <1>1 DEF Trigger
<1>5. c \in Trigger
  BY <1>3, <1>4 DEF Trigger
<1>6. c.seq = t.seq + 1 /\ c.regime = target /\ c.cand = "none" /\ c.candSamples = 0
  BY <1>3, <1>1
<1>7. c.lastEscalation = (IF target = "stressed" THEN ts ELSE t.lastEscalation)
  BY <1>3, <1>1
<1> QED  BY <1>5, <1>6, <1>7

(* A trigger that only noted something turns nothing.                      *)
LEMMA QuietTurns ==
    ASSUME NEW t \in Trigger, NEW u \in Trigger, NEW ts \in Nat,
           u.cand = "none" <=> u.candSamples = 0,
           u.seq = t.seq, u.regime = t.regime, u.lastEscalation = t.lastEscalation
    PROVE  Turned(t, Quiet(u), ts)
BY DEF Turned, Quiet

(* A bar that cannot be evaluated.                                         *)
LEMMA HoldTurns ==
    ASSUME NEW t \in Trigger, NEW ts \in Nat
    PROVE  Turned(t, hold(t, ts), ts)
<1> DEFINE r == reset_candidate(t)
           held == [r EXCEPT !.unobserved = IF r.unobserved = 0 THEN ts ELSE r.unobserved]
<1>1. /\ r \in Trigger /\ r.cand = "none" /\ r.candSamples = 0
      /\ r.seq = t.seq /\ r.regime = t.regime /\ r.lastEscalation = t.lastEscalation
  BY ResetType
<1>2. /\ held \in Trigger /\ held.cand = "none" /\ held.candSamples = 0
      /\ held.seq = t.seq /\ held.regime = t.regime
      /\ held.lastEscalation = t.lastEscalation
  <2> HIDE DEF r
  <2> QED  BY <1>1 DEF Trigger
<1> DEFINE lostSight == t.regime = "stressed" /\ ts - held.unobserved >= ObservationTimeout
<1>3. hold(t, ts) = IF lostSight
                    THEN [trig |-> commit(held, "normal", ts), cause |-> "observation_lost"]
                    ELSE Quiet(held)
  BY DEF hold
<1> HIDE DEF held, lostSight
<1>4. CASE ~lostSight
  BY <1>2, <1>3, <1>4, QuietTurns
<1>5. CASE lostSight
  <2> DEFINE c == commit(held, "normal", ts)
  <2>1. /\ c \in Trigger /\ c.cand = "none" /\ c.candSamples = 0 /\ c.seq = held.seq + 1
        /\ c.regime = "normal" /\ c.lastEscalation = held.lastEscalation
    BY <1>2, CommitTurns DEF Regime
  <2>2. hold(t, ts) = [trig |-> c, cause |-> "observation_lost"]
    BY <1>3, <1>5
  <2>3. t.regime = "stressed"
    BY <1>5 DEF lostSight
  <2> HIDE DEF c
  <2> QED  BY <1>2, <2>1, <2>2, <2>3 DEF Turned, Cause
<1> QED  BY <1>4, <1>5

(* A bar that speaks for the other regime.                                 *)
LEMMA AccumulateTurns ==
    ASSUME NEW t \in Trigger, NEW target \in Regime, NEW ts \in Nat,
           target # t.regime
    PROVE  Turned(t, accumulate(t, target, ts), ts)
<1> DEFINE grown == IF t.cand # target
                    THEN [t EXCEPT !.cand = target, !.candSince = ts, !.candSamples = 1]
                    ELSE [t EXCEPT !.candSamples = t.candSamples + 1]
<1>1. /\ grown \in Trigger /\ grown.cand = target /\ grown.candSamples # 0
      /\ grown.seq = t.seq /\ grown.regime = t.regime
      /\ grown.lastEscalation = t.lastEscalation
  <2> DEFINE first == [t EXCEPT !.cand = target, !.candSince = ts, !.candSamples = 1]
             more  == [t EXCEPT !.candSamples = t.candSamples + 1]
  <2>1. /\ first \in Trigger /\ first.cand = target /\ first.candSamples = 1
        /\ first.seq = t.seq /\ first.regime = t.regime
        /\ first.lastEscalation = t.lastEscalation
    BY DEF Trigger
  <2>2. /\ more \in Trigger /\ more.cand = t.cand /\ more.candSamples = t.candSamples + 1
        /\ more.seq = t.seq /\ more.regime = t.regime
        /\ more.lastEscalation = t.lastEscalation
    BY DEF Trigger
  <2>3. t.candSamples \in Nat
    BY DEF Trigger
  <2>4. grown = IF t.cand # target THEN first ELSE more
    OBVIOUS
  <2> HIDE DEF first, more, grown
  <2> QED  BY <2>1, <2>2, <2>3, <2>4
<1> DEFINE wait == ~Confirmed(grown, ts) \/ Cooling(t, target, ts)
           why == IF target = "normal" /\ t.thawed THEN "baseline_thaw" ELSE "threshold"
<1>2. accumulate(t, target, ts) =
        IF wait THEN Quiet(grown)
        ELSE [trig |-> commit(grown, target, ts), cause |-> why]
  BY DEF accumulate
<1>3. target # "none"
  BY DEF Regime
<1>4. ~wait => target # "stressed" \/ t.lastEscalation = 0
               \/ ~(ts - t.lastEscalation < Cooldown)
  BY DEF Cooling
<1> HIDE DEF grown, wait
<1>5. CASE wait
  BY <1>1, <1>2, <1>3, <1>5, QuietTurns
<1>6. CASE ~wait
  <2> DEFINE c == commit(grown, target, ts)
  <2>1. /\ c \in Trigger /\ c.cand = "none" /\ c.candSamples = 0 /\ c.seq = grown.seq + 1
        /\ c.regime = target
        /\ c.lastEscalation = (IF target = "stressed" THEN ts ELSE grown.lastEscalation)
    BY <1>1, CommitTurns
  <2>2. why \in Cause /\ why # "none"
    BY DEF Cause
  <2>3. accumulate(t, target, ts) = [trig |-> c, cause |-> why]
    BY <1>2, <1>6
  <2>4. t.lastEscalation \in Nat /\ Cooldown \in Nat
    BY TriggerAssumption DEF Trigger
  <2>5. target = "stressed" => t.lastEscalation = 0 \/ ts - t.lastEscalation >= Cooldown
    BY <1>4, <1>6, <2>4
  <2> HIDE DEF c, why
  <2> QED  BY <1>1, <2>1, <2>2, <2>3, <2>5 DEF Turned
<1> QED  BY <1>5, <1>6

(* update(), whatever it is given.                                         *)
LEMMA UpdateTurns ==
    ASSUME NEW t \in Trigger, NEW z, NEW ts \in Nat
    PROVE  Turned(t, TriggerUpdate(t, z, ts), ts)
<1>1. CASE z = "none"
  BY <1>1, HoldTurns DEF TriggerUpdate
<1>2. CASE z # "none"
  <2> DEFINE chained == IF ChainBroken(t, ts) THEN reset_candidate(t) ELSE t
             seen == [chained EXCEPT !.unobserved = 0, !.lastSample = ts]
             target == target_regime(t, z)
  <2>1. /\ chained \in Trigger /\ chained.seq = t.seq /\ chained.regime = t.regime
        /\ chained.lastEscalation = t.lastEscalation
    BY ResetType
  <2>2. /\ seen \in Trigger /\ seen.seq = t.seq /\ seen.regime = t.regime
        /\ seen.lastEscalation = t.lastEscalation
    <3> HIDE DEF chained
    <3> QED  BY <2>1 DEF Trigger
  <2>3. target \in Regime
    BY DEF target_regime, Regime
  <2>4. TriggerUpdate(t, z, ts) = IF target = t.regime THEN Quiet(reset_candidate(seen))
                                  ELSE accumulate(seen, target, ts)
    BY <1>2 DEF TriggerUpdate, Evaluate
  <2> HIDE DEF seen, target
  <2>5. CASE target = t.regime
    <3>1. /\ reset_candidate(seen) \in Trigger
          /\ reset_candidate(seen).cand = "none" /\ reset_candidate(seen).candSamples = 0
          /\ reset_candidate(seen).seq = t.seq /\ reset_candidate(seen).regime = t.regime
          /\ reset_candidate(seen).lastEscalation = t.lastEscalation
      BY <2>2, ResetType
    <3> QED  BY <2>4, <2>5, <3>1, QuietTurns
  <2>6. CASE target # t.regime
    <3>1. Turned(seen, accumulate(seen, target, ts), ts)
      BY <2>2, <2>3, <2>6, AccumulateTurns
    <3> QED  BY <2>2, <2>4, <2>6, <3>1 DEF Turned
  <2> QED  BY <2>5, <2>6
<1> QED  BY <1>1, <1>2

(* mark_thawed leaves the regime alone.                                    *)
LEMMA MarkType ==
    ASSUME NEW t \in Trigger
    PROVE  mark_thawed(t) \in Trigger /\ Agree(mark_thawed(t), t)
<1> DEFINE m == mark_thawed(t)
<1>1. m = [regime |-> t.regime, seq |-> t.seq, since |-> t.since, cand |-> t.cand,
           candSince |-> t.candSince, candSamples |-> t.candSamples,
           lastSample |-> t.lastSample, lastEscalation |-> t.lastEscalation,
           unobserved |-> t.unobserved, thawed |-> TRUE]
  <2>1. m = [t EXCEPT !.thawed = TRUE]
    BY DEF mark_thawed
  <2> HIDE DEF m
  <2> QED  BY <2>1 DEF Trigger
<1>2. /\ t.regime \in Regime /\ t.seq \in Nat /\ t.since \in Nat
      /\ t.cand \in Regime \cup {"none"} /\ t.candSince \in Nat /\ t.candSamples \in Nat
      /\ t.lastSample \in Nat /\ t.lastEscalation \in Nat /\ t.unobserved \in Nat
  BY DEF Trigger
<1> HIDE DEF m
<1>3. m \in Trigger
  BY <1>1, <1>2 DEF Trigger
<1>4. Agree(m, t)
  BY <1>1 DEF Agree
<1> QED  BY <1>3, <1>4 DEF m

(* A snapshot carries what Agree compares.                                 *)
LEMMA RestoreType ==
    ASSUME NEW t \in Trigger
    PROVE  /\ RestoreTrigger(t) \in Trigger
           /\ Agree(RestoreTrigger(t), t)
           /\ RestoreTrigger(t).cand = "none" /\ RestoreTrigger(t).candSamples = 0
<1> DEFINE r == RestoreTrigger(t)
<1>1. r = [regime |-> t.regime, seq |-> t.seq, since |-> t.since, cand |-> "none",
           candSince |-> 0, candSamples |-> 0, lastSample |-> 0,
           lastEscalation |-> t.lastEscalation, unobserved |-> 0, thawed |-> t.thawed]
  <2> DEFINE n == NewTrigger
  <2>1. r = [n EXCEPT !.regime = t.regime, !.seq = t.seq, !.since = t.since,
                      !.lastEscalation = t.lastEscalation, !.thawed = t.thawed]
    BY DEF RestoreTrigger
  <2>2. /\ n \in Trigger /\ n.cand = "none" /\ n.candSince = 0 /\ n.candSamples = 0
        /\ n.lastSample = 0 /\ n.unobserved = 0
    BY DEF NewTrigger, Trigger, Regime
  <2> HIDE DEF r, n
  <2> QED  BY <2>1, <2>2 DEF Trigger
<1>2. /\ t.regime \in Regime /\ t.seq \in Nat /\ t.since \in Nat
      /\ t.lastEscalation \in Nat /\ t.thawed \in BOOLEAN
  BY DEF Trigger
<1> HIDE DEF r
<1>3. r \in Trigger
  BY <1>1, <1>2 DEF Trigger
<1>4. Agree(r, t) /\ r.cand = "none" /\ r.candSamples = 0
  BY <1>1 DEF Agree
<1> QED  BY <1>3, <1>4 DEF r

(* Learn stores the trigger it is given and touches the baseline only.     *)
LEMMA LearnType ==
    ASSUME NEW d \in Detector, NEW trig \in Trigger,
           NEW thawing \in BOOLEAN, NEW changed \in BOOLEAN
    PROVE  /\ Learn(d, trig, thawing, changed) \in Detector
           /\ Learn(d, trig, thawing, changed).trig = trig
<1> DEFINE l == Learn(d, trig, thawing, changed)
           stressed == trig.regime = "stressed"
           rebaselining == ~changed /\ (d.rebaselining \/ thawing)
           frozen == IF stressed THEN ~rebaselining \/ (d.base.frozen /\ ~thawing) ELSE FALSE
           relearned == (stressed /\ ~changed) /\ (d.base.relearned \/ ~frozen)
           base == [frozen |-> frozen, relearned |-> relearned]
<1>1. l = [d EXCEPT !.trig = trig, !.rebaselining = rebaselining, !.base = base]
  BY DEF Learn
<1>2. rebaselining \in BOOLEAN /\ base \in Baseline
  <2>1. rebaselining \in BOOLEAN /\ frozen \in BOOLEAN /\ relearned \in BOOLEAN
    BY Zenon
  <2> HIDE DEF frozen, relearned
  <2> QED  BY <2>1 DEF Baseline
<1> HIDE DEF l, rebaselining, base
<1>3. l = [trig |-> trig, base |-> base, wasOpen |-> d.wasOpen, openedAt |-> d.openedAt,
           contiguous |-> d.contiguous, rebaselining |-> rebaselining,
           bucket |-> d.bucket, lastSealed |-> d.lastSealed]
  BY <1>1 DEF Detector
<1>4. /\ d.wasOpen \in {"unknown", "open", "closed"} /\ d.openedAt \in Nat
      /\ d.contiguous \in 0..(RearmBars + 1) /\ d.bucket \in Nat /\ d.lastSealed \in Nat
  BY DEF Detector
<1>5. l \in Detector
  BY <1>2, <1>3, <1>4 DEF Detector
<1>6. l.trig = trig
  BY <1>3
<1> QED  BY <1>5, <1>6 DEF l

(* What RegimeDetector.update does to the trigger is one update of it.     *)
Detects(d, res, ts) ==
    /\ res.det \in Detector
    /\ Turned(d.trig, [trig |-> res.det.trig, cause |-> res.cause], ts)

(* A bar no gate stops.                                                    *)
LEMMA JudgeDetects ==
    ASSUME NEW d \in Detector, NEW z, NEW ts \in Nat
    PROVE  Detects(d, Judge(d, z, ts), ts)
<1> DEFINE thawing == baseline_should_thaw(d.trig, ts) /\ ~d.rebaselining
           told == IF thawing THEN mark_thawed(d.trig) ELSE d.trig
           res == TriggerUpdate(told, z, ts)
           changed == res.cause # "none"
           l == Learn(d, res.trig, thawing, changed)
<1>1. d.trig \in Trigger
  BY DEF Detector
<1>2. told \in Trigger /\ Agree(told, d.trig)
  BY <1>1, MarkType DEF Agree
<1>3. Turned(told, res, ts)
  <2> HIDE DEF told
  <2> QED  BY <1>2, UpdateTurns
<1>4. Judge(d, z, ts) = [det |-> l, cause |-> res.cause]
  BY DEF Judge
<1>5. thawing \in BOOLEAN /\ changed \in BOOLEAN
  BY Zenon DEF baseline_should_thaw
<1>6. res.trig \in Trigger
  BY <1>3 DEF Turned
<1> HIDE DEF thawing, told, res, changed
<1>7. l \in Detector /\ l.trig = res.trig
  BY <1>5, <1>6, LearnType
<1> HIDE DEF l
<1>8. Turned(told, [trig |-> l.trig, cause |-> res.cause], ts)
  BY <1>3, <1>7 DEF Turned
<1>9. Turned(d.trig, [trig |-> l.trig, cause |-> res.cause], ts)
  BY <1>2, <1>8 DEF Turned, Agree
<1> QED  BY <1>4, <1>7, <1>9 DEF Detects

(* A bar that is only held.                                                *)
LEMMA SkipDetects ==
    ASSUME NEW d \in Detector, NEW ts \in Nat
    PROVE  Detects(d, Skip(d, ts), ts)
<1> DEFINE res == hold(d.trig, ts)
           k == [d EXCEPT !.trig = res.trig]
<1>1. d.trig \in Trigger
  BY DEF Detector
<1>2. Turned(d.trig, res, ts)
  BY <1>1, HoldTurns
<1>3. Skip(d, ts) = [det |-> k, cause |-> res.cause]
  BY DEF Skip
<1> HIDE DEF res
<1>4. k \in Detector /\ k.trig = res.trig
  <2>1. res.trig \in Trigger
    BY <1>2 DEF Turned
  <2> QED  BY <2>1 DEF Detector
<1> HIDE DEF k
<1>5. Turned(d.trig, [trig |-> k.trig, cause |-> res.cause], ts)
  BY <1>2, <1>4 DEF Turned
<1> QED  BY <1>3, <1>4, <1>5 DEF Detects

(* Any sealed bar.                                                         *)
LEMMA UpdateDetects ==
    ASSUME NEW d \in Detector, NEW bar, NEW ts \in Nat
    PROVE  Detects(d, Update(d, bar, ts), ts)
<1> DEFINE seen == NoteSession(d, bar, ts)
           gated == Gated(seen, bar, ts)
           count == IF gated THEN 0
                    ELSE IF d.contiguous > RearmBars THEN d.contiguous ELSE d.contiguous + 1
           sealed == [seen EXCEPT !.lastSealed = ts, !.contiguous = count]
<1>1. seen \in Detector /\ seen.trig = d.trig
  <2> DEFINE a == IF d.wasOpen = "closed" /\ bar.gate # "closed" THEN ts ELSE d.openedAt
             o == IF bar.gate # "closed" THEN "open" ELSE "closed"
  <2>1. a \in Nat /\ o \in {"unknown", "open", "closed"}
    BY DEF Detector
  <2>2. seen = [d EXCEPT !.openedAt = a, !.wasOpen = o]
    BY DEF NoteSession
  <2> HIDE DEF a, o, seen
  <2> QED  BY <2>1, <2>2 DEF Detector
<1>2. count \in 0..(RearmBars + 1)
  <2>1. d.contiguous \in 0..(RearmBars + 1) /\ RearmBars \in Nat
    BY DetectorAssumption DEF Detector
  <2> HIDE DEF gated
  <2> QED  BY <2>1
<1>3. sealed \in Detector /\ sealed.trig = d.trig
  <2> HIDE DEF seen, count
  <2> QED  BY <1>1, <1>2 DEF Detector
<1>4. Update(d, bar, ts) = IF gated \/ count <= RearmBars THEN Skip(sealed, ts)
                           ELSE Judge(sealed, bar.z, ts)
  BY DEF Update
<1> HIDE DEF sealed
<1>5. Detects(sealed, Skip(sealed, ts), ts) /\ Detects(sealed, Judge(sealed, bar.z, ts), ts)
  BY <1>3, SkipDetects, JudgeDetects
<1>6. Detects(sealed, Update(d, bar, ts), ts)
  BY <1>4, <1>5
<1> QED  BY <1>3, <1>6 DEF Detects

(* The MULTI of a sealed bar keeps the types of what Redis holds.          *)
LEMMA ExecType ==
    ASSUME TypeOK, NEW d \in Detector, NEW res, NEW bar, NEW ts \in Nat,
           Detects(d, res, ts), Exec(res, bar, ts)
    PROVE  /\ snap'.trig \in Trigger /\ snap'.base \in Baseline
           /\ snap'.trig.cand = "none" /\ snap'.trig.candSamples = 0
           /\ log' \in Seq([seq : Nat, new : Regime, cause : Cause, ts : Nat])
           /\ measured' \in Nat
<1>1. /\ res.det \in Detector /\ res.det.trig \in Trigger /\ res.det.base \in Baseline
      /\ res.cause # "none" => res.cause \in Cause
  BY DEF Detects, Turned, Detector
<1>2. snap'.trig = RestoreTrigger(res.det.trig) /\ snap'.base = res.det.base
  BY DEF Exec, Snapshot
<1>3. snap'.trig \in Trigger /\ snap'.trig.cand = "none" /\ snap'.trig.candSamples = 0
  BY <1>1, <1>2, RestoreType
<1>4. log' \in Seq([seq : Nat, new : Regime, cause : Cause, ts : Nat])
  <2> DEFINE e == [seq |-> res.det.trig.seq, new |-> res.det.trig.regime,
                   cause |-> res.cause, ts |-> ts]
  <2>1. log' = IF res.cause = "none" THEN log ELSE Append(log, e)
    BY DEF Exec
  <2>2. res.cause # "none" => e \in [seq : Nat, new : Regime, cause : Cause, ts : Nat]
    BY <1>1 DEF Trigger
  <2>3. log \in Seq([seq : Nat, new : Regime, cause : Cause, ts : Nat])
    BY DEF TypeOK
  <2> DEFINE Entry == [seq : Nat, new : Regime, cause : Cause, ts : Nat]
  <2> HIDE DEF e, Entry
  <2>4. ASSUME res.cause # "none" PROVE Append(log, e) \in Seq(Entry)
    BY <2>2, <2>3, <2>4, AppendProperties DEF Entry
  <2> QED  BY <2>1, <2>3, <2>4 DEF Entry
<1>5. measured' \in Nat
  BY DEF Exec, TypeOK
<1> QED  BY <1>1, <1>2, <1>3, <1>4, <1>5

(* A fresh detector has its type.                                          *)
LEMMA NewDetectorType ==
    /\ NewDetector \in Detector
    /\ NewDetector.trig = NewTrigger
    /\ NewTrigger \in Trigger
    /\ NewTrigger.cand = "none" /\ NewTrigger.candSamples = 0
    /\ NewTrigger.seq = 0 /\ NewTrigger.regime = "normal" /\ NewTrigger.lastEscalation = 0
    /\ NewBaseline \in Baseline
<1>1. /\ NewTrigger \in Trigger /\ NewTrigger.cand = "none" /\ NewTrigger.candSamples = 0
      /\ NewTrigger.seq = 0 /\ NewTrigger.regime = "normal"
      /\ NewTrigger.lastEscalation = 0
  BY DEF NewTrigger, Trigger, Regime
<1>2. NewBaseline \in Baseline
  BY DEF NewBaseline, Baseline
<1>3. 0 \in 0..(RearmBars + 1)
  BY DetectorAssumption
<1>4. NewDetector \in Detector /\ NewDetector.trig = NewTrigger
  BY <1>1, <1>2, <1>3 DEF NewDetector, Detector
<1> QED  BY <1>1, <1>2, <1>4

(* Bars and minutes.                                                       *)
LEMMA TickType ==
    ASSUME TypeOK, NEW m \in now..(now + MaxStep), 0 < m, m <= MaxMinute
    PROVE  m \in Nat /\ m \in 0..MaxMinute
BY DetectorAssumption DEF TypeOK

(* Replacing one replica's detector.                                       *)
LEMMA PutType ==
    ASSUME TypeOK, NEW i \in Replica, NEW d \in Detector,
           d.trig.cand = "none" <=> d.trig.candSamples = 0,
           det' = [det EXCEPT ![i] = d]
    PROVE  /\ det' \in [Replica -> Detector]
           /\ \A j \in Replica : det'[j].trig.cand = "none" <=> det'[j].trig.candSamples = 0
BY DEF TypeOK

(* Every replica's detector, the snapshot and the alert stream keep their  *)
(* types, and a candidate is counted exactly while there is one.           *)
THEOREM TypeCorrect == Spec => []TypeOK
<1>1. Init => TypeOK
  <2> SUFFICES ASSUME Init PROVE TypeOK
    OBVIOUS
  <2>1. det \in [Replica -> Detector]
        /\ \A i \in Replica : det[i].trig.cand = "none" <=> det[i].trig.candSamples = 0
    BY NewDetectorType DEF Init
  <2>2. /\ snap.trig \in Trigger /\ snap.base \in Baseline
        /\ snap.trig.cand = "none" /\ snap.trig.candSamples = 0
    BY NewDetectorType DEF Init, NoSnap
  <2>3. log \in Seq([seq : Nat, new : Regime, cause : Cause, ts : Nat])
    BY DEF Init
  <2> QED  BY <2>1, <2>2, <2>3, DetectorAssumption DEF Init, TypeOK
<1>2. TypeOK /\ [Next]_vars => TypeOK'
  <2> SUFFICES ASSUME TypeOK, [Next]_vars PROVE TypeOK'
    OBVIOUS
  <2>1. CASE UNCHANGED vars
    BY <2>1 DEF TypeOK, vars, redis, budgets
  <2>2. ASSUME NEW i \in Replica, Crash(i) PROVE TypeOK'
    <3>1. det' = [det EXCEPT ![i] = NewDetector]
      BY <2>2 DEF Crash, Exit
    <3>2. /\ det' \in [Replica -> Detector]
          /\ \A j \in Replica : det'[j].trig.cand = "none" <=> det'[j].trig.candSamples = 0
      BY <3>1, PutType, NewDetectorType
    <3>3. UNCHANGED <<now, redis>> /\ leading' \subseteq Replica /\ exits' \in 0..MaxExits
          /\ UNCHANGED <<deposals, overlaps>>
      BY <2>2, DetectorAssumption DEF Crash, Exit, TypeOK
    <3> QED  BY <3>2, <3>3 DEF TypeOK, redis
  <2>3. ASSUME NEW i \in Replica, Promote(i) PROVE TypeOK'
    <3>1. det' = [det EXCEPT ![i] = Restore(det[i])]
      BY <2>3 DEF Promote
    <3>2. det[i] \in Detector /\ (det[i].trig.cand = "none" <=> det[i].trig.candSamples = 0)
      BY DEF TypeOK
    <3>3. /\ Restore(det[i]) \in Detector
          /\ Restore(det[i]).trig.cand = "none" <=> Restore(det[i]).trig.candSamples = 0
      BY <3>2 DEF TypeOK, Restore, Detector
    <3>4. /\ det' \in [Replica -> Detector]
          /\ \A j \in Replica : det'[j].trig.cand = "none" <=> det'[j].trig.candSamples = 0
      BY <3>1, <3>3, PutType
    <3>5. UNCHANGED <<now, redis, exits, deposals>> /\ leading' \subseteq Replica
          /\ overlaps' \in 0..MaxLosses
      BY <2>3, DetectorAssumption DEF Promote, TypeOK
    <3> QED  BY <3>4, <3>5 DEF TypeOK, redis
  <2>4. ASSUME NEW i \in Replica, StepDown(i) PROVE TypeOK'
    BY <2>4, DetectorAssumption DEF StepDown, TypeOK, redis
  <2>5. ASSUME NEW i \in Replica, NEW m \in now..(now + MaxStep), 0 < m, m <= MaxMinute,
               OpenBucket(i, m)
        PROVE  TypeOK'
    <3>1. m \in Nat /\ m \in 0..MaxMinute
      BY <2>5, TickType
    <3> DEFINE d == [det[i] EXCEPT !.bucket = m]
    <3>2. det[i] \in Detector /\ (det[i].trig.cand = "none" <=> det[i].trig.candSamples = 0)
      BY DEF TypeOK
    <3>3. d \in Detector /\ d.trig = det[i].trig
      BY <3>1, <3>2 DEF Detector
    <3>4. det' = [det EXCEPT ![i] = d]
      BY <2>5 DEF OpenBucket
    <3>5. /\ det' \in [Replica -> Detector]
          /\ \A j \in Replica : det'[j].trig.cand = "none" <=> det'[j].trig.candSamples = 0
      BY <3>2, <3>3, <3>4, PutType
    <3> QED  BY <2>5, <3>1, <3>5 DEF TypeOK, OpenBucket, redis, budgets
  <2>6. ASSUME NEW i \in Replica, NEW m \in now..(now + MaxStep), 0 < m, m <= MaxMinute,
               NEW bar \in BarInput, Seal(i, m, bar)
        PROVE  TypeOK'
    <3>1. m \in Nat /\ m \in 0..MaxMinute
      BY <2>6, TickType
    <3> DEFINE d == [det[i] EXCEPT !.bucket = m]
               ts == det[i].bucket
               res == Update(d, bar, ts)
    <3>2. d \in Detector /\ ts \in Nat
      BY <3>1 DEF TypeOK, Detector
    <3>3. Detects(d, res, ts)
      <4> HIDE DEF d, ts
      <4> QED  BY <3>2, UpdateDetects
    <3>4. det' = [det EXCEPT ![i] = res.det] /\ Exec(res, bar, ts) /\ now' = m
          /\ UNCHANGED <<leading, budgets>>
      BY <2>6 DEF Seal, CloseBucket
    <3> HIDE DEF d, ts, res
    <3>5. res.det \in Detector /\ (res.det.trig.cand = "none" <=> res.det.trig.candSamples = 0)
      BY <3>3 DEF Detects, Turned
    <3>6. /\ det' \in [Replica -> Detector]
          /\ \A j \in Replica : det'[j].trig.cand = "none" <=> det'[j].trig.candSamples = 0
      BY <3>4, <3>5, PutType
    <3>7. /\ snap'.trig \in Trigger /\ snap'.base \in Baseline
          /\ snap'.trig.cand = "none" /\ snap'.trig.candSamples = 0
          /\ log' \in Seq([seq : Nat, new : Regime, cause : Cause, ts : Nat])
          /\ measured' \in Nat
      BY <3>2, <3>3, <3>4, ExecType
    <3> QED  BY <3>1, <3>4, <3>6, <3>7 DEF TypeOK, budgets
  <2>7. ASSUME NEW i \in Replica, NEW m \in now..(now + MaxStep), 0 < m, m <= MaxMinute,
               NEW bar \in BarInput, SealFails(i, m, bar)
        PROVE  TypeOK'
    <3>1. m \in Nat /\ m \in 0..MaxMinute
      BY <2>7, TickType
    <3> DEFINE ts == det[i].bucket
               res == Update(det[i], bar, ts)
    <3>2. det[i] \in Detector /\ ts \in Nat
      BY DEF TypeOK, Detector
    <3>3. Detects(det[i], res, ts)
      BY <3>2, UpdateDetects
    <3>4. /\ det' = [det EXCEPT ![i] = NewDetector] /\ Exec(res, bar, ts) /\ now' = m
          /\ leading' \subseteq Replica /\ exits' \in 0..MaxExits
          /\ UNCHANGED <<deposals, overlaps>>
      BY <2>7, DetectorAssumption DEF SealFails, Exit, TypeOK
    <3> HIDE DEF ts, res
    <3>6. /\ det' \in [Replica -> Detector]
          /\ \A j \in Replica : det'[j].trig.cand = "none" <=> det'[j].trig.candSamples = 0
      BY <3>4, PutType, NewDetectorType
    <3>7. /\ snap'.trig \in Trigger /\ snap'.base \in Baseline
          /\ snap'.trig.cand = "none" /\ snap'.trig.candSamples = 0
          /\ log' \in Seq([seq : Nat, new : Regime, cause : Cause, ts : Nat])
          /\ measured' \in Nat
      BY <3>2, <3>3, <3>4, ExecType
    <3> QED  BY <3>1, <3>4, <3>6, <3>7 DEF TypeOK
  <2> QED  BY <2>1, <2>2, <2>3, <2>4, <2>5, <2>6, <2>7 DEF Next
<1> QED  BY <1>1, <1>2, PTL DEF Spec

(* The MULTI of a bar sealed by a leader that agrees with the snapshot     *)
(* continues the story the stream tells.                                   *)
LEMMA ExecContinues ==
    ASSUME TypeOK, Alternates, SnapshotTellsTheStory, Remembered, EscalationsApart,
           NEW d \in Detector, Agree(d.trig, snap.trig),
           NEW res, NEW bar, NEW ts \in Nat \ {0},
           Detects(d, res, ts), Exec(res, bar, ts)
    PROVE  /\ Alternates' /\ SnapshotTellsTheStory' /\ Remembered' /\ EscalationsApart'
           /\ Agree(res.det.trig, snap'.trig)
           /\ snap'.exists
<1> DEFINE Entry == [seq : Nat, new : Regime, cause : Cause, ts : Nat]
           t == d.trig
           u == res.det.trig
           e == [seq |-> u.seq, new |-> u.regime, cause |-> res.cause, ts |-> ts]
<1>1. t \in Trigger /\ u \in Trigger /\ Turned(t, [trig |-> u, cause |-> res.cause], ts)
  BY DEF Detects, Turned, Detector
<1>2. snap'.trig = RestoreTrigger(u) /\ snap'.exists
  BY DEF Exec, Snapshot
<1>3. snap'.trig \in Trigger /\ Agree(snap'.trig, u)
  BY <1>1, <1>2, RestoreType
<1>4. log \in Seq(Entry) /\ snap.trig \in Trigger
  BY DEF TypeOK
<1>5. log' = IF res.cause = "none" THEN log ELSE Append(log, e)
  BY DEF Exec
<1>6. /\ t.seq = Len(log) /\ t.regime = RegimeAfter(Len(log))
      /\ t.lastEscalation = snap.trig.lastEscalation
  BY DEF Agree, SnapshotTellsTheStory
<1>7. /\ snap'.trig.seq = u.seq /\ snap'.trig.regime = u.regime
      /\ snap'.trig.lastEscalation = u.lastEscalation
  BY <1>3 DEF Agree
<1>8. CASE res.cause = "none"
  <2>1. u.seq = t.seq /\ u.regime = t.regime /\ u.lastEscalation = t.lastEscalation
    BY <1>1, <1>8 DEF Turned
  <2>2. log' = log
    BY <1>5, <1>8
  <2>3. snap'.trig.lastEscalation = snap.trig.lastEscalation
    BY <1>6, <1>7, <2>1
  <2>4. Alternates' /\ EscalationsApart' /\ Remembered'
    BY <2>2, <2>3 DEF Alternates, EscalationsApart, Remembered, RegimeAfter
  <2>5. SnapshotTellsTheStory'
    BY <1>6, <1>7, <2>1, <2>2 DEF SnapshotTellsTheStory, RegimeAfter
  <2> QED  BY <1>2, <1>3, <2>4, <2>5 DEF Agree
<1>9. CASE res.cause # "none"
  <2>0. PICK n \in Nat : n = Len(log)
    BY <1>4, LenProperties
  <2>1. /\ res.cause \in Cause /\ u.seq = t.seq + 1 /\ u.regime # t.regime
        /\ u.lastEscalation = (IF u.regime = "stressed" THEN ts ELSE t.lastEscalation)
        /\ u.regime = "stressed" =>
              t.lastEscalation = 0 \/ ts - t.lastEscalation >= Cooldown
    BY <1>1, <1>9 DEF Turned
  <2>2. e \in Entry /\ e.seq = u.seq /\ e.new = u.regime /\ e.ts = ts
    BY <1>1, <2>1 DEF Trigger
  <2>3. t.lastEscalation \in Nat /\ Cooldown \in Nat
    BY <1>1, TriggerAssumption DEF Trigger
  <2>4. log' = Append(log, e)
    BY <1>5, <1>9
  <2> HIDE DEF e, Entry
  <2>5. /\ Len(log') = n + 1
        /\ \A k \in 1..n : log'[k] = log[k]
        /\ log'[n + 1] = e
    BY <1>4, <2>0, <2>2, <2>4, AppendProperties
  <2>6. \A k \in 1..n : log[k].ts \in Nat
    <3>1. \A k \in 1..n : log[k] \in Entry
      BY <1>4, <2>0
    <3> QED  BY <3>1 DEF Entry
  <2>7. \A k \in 1..n : log'[k].seq = k /\ log'[k].new # RegimeAfter(k - 1)'
    <3> SUFFICES ASSUME NEW k \in 1..n
                 PROVE  log'[k].seq = k /\ log'[k].new # RegimeAfter(k - 1)'
      OBVIOUS
    <3>1. log[k].seq = k /\ log[k].new # RegimeAfter(k - 1)
      BY <2>0 DEF Alternates
    <3>2. RegimeAfter(k - 1)' = RegimeAfter(k - 1)
      BY <2>3, <2>5 DEF RegimeAfter
    <3> QED  BY <2>5, <3>1, <3>2
  <2>8. log'[n + 1].seq = n + 1 /\ log'[n + 1].new # RegimeAfter(n)'
    <3>1. RegimeAfter(n)' = RegimeAfter(n)
      BY <2>3, <2>5 DEF RegimeAfter
    <3>2. t.regime = RegimeAfter(n) /\ t.seq = n
      BY <1>6, <2>0
    <3> QED  BY <2>1, <2>2, <2>5, <3>1, <3>2
  <2>9. Alternates'
    BY <2>3, <2>5, <2>7, <2>8 DEF Alternates
  <2>10. SnapshotTellsTheStory'
    <3>1. RegimeAfter(n + 1)' = u.regime
      BY <2>2, <2>3, <2>5 DEF RegimeAfter
    <3>2. u.seq = n + 1
      BY <1>6, <2>0, <2>1
    <3> QED  BY <1>7, <2>5, <3>1, <3>2 DEF SnapshotTellsTheStory
  <2>11. \A k \in 1..n : log[k].new = "stressed" =>
            t.lastEscalation # 0 /\ log[k].ts <= t.lastEscalation
    BY <1>6, <2>0 DEF Remembered
  <2>12. Remembered'
    <3> SUFFICES ASSUME NEW k \in 1..(n + 1), log'[k].new = "stressed"
                 PROVE  u.lastEscalation # 0 /\ log'[k].ts <= u.lastEscalation
      BY <1>7, <2>5 DEF Remembered
    <3>1. CASE k = n + 1
      BY <2>1, <2>2, <2>5, <3>1
    <3>2. CASE k # n + 1
      <4>1. k \in 1..n
        BY <2>3, <3>2
      <4>2. t.lastEscalation # 0 /\ log'[k].ts <= t.lastEscalation /\ log'[k].ts \in Nat
        BY <2>5, <2>6, <2>11, <4>1
      <4> QED  BY <2>1, <2>3, <4>2
    <3> QED  BY <3>1, <3>2
  <2>13. EscalationsApart'
    <3> SUFFICES ASSUME NEW j \in 1..(n + 1), NEW k \in 1..(n + 1), j < k,
                        log'[j].new = "stressed", log'[k].new = "stressed"
                 PROVE  log'[k].ts - log'[j].ts >= Cooldown
      BY <2>5 DEF EscalationsApart
    <3>1. j \in 1..n
      BY <2>3
    <3>2. CASE k = n + 1
      <4>1. t.lastEscalation # 0 /\ log'[j].ts <= t.lastEscalation /\ log'[j].ts \in Nat
        BY <2>5, <2>6, <2>11, <3>1
      <4>2. log'[k].ts = ts /\ u.regime = "stressed"
        BY <2>2, <2>5, <3>2
      <4>3. ts - t.lastEscalation >= Cooldown
        BY <2>1, <4>1, <4>2
      <4> QED  BY <2>3, <4>1, <4>2, <4>3
    <3>3. CASE k # n + 1
      <4>1. k \in 1..n
        BY <2>3, <3>3
      <4> QED  BY <2>0, <2>5, <3>1, <4>1 DEF EscalationsApart
    <3> QED  BY <3>2, <3>3
  <2> QED  BY <1>2, <1>3, <2>9, <2>10, <2>12, <2>13 DEF Agree
<1> QED  BY <1>8, <1>9

(* A step that leaves Redis alone leaves the story alone.                  *)
LEMMA QuietKeepsStory ==
    ASSUME Alternates, SnapshotTellsTheStory, Remembered, EscalationsApart,
           snap' = snap, log' = log
    PROVE  Alternates' /\ SnapshotTellsTheStory' /\ Remembered' /\ EscalationsApart'
BY DEF Alternates, SnapshotTellsTheStory, Remembered, EscalationsApart, RegimeAfter

(* Overlaps are only counted up.                                           *)
LEMMA OverlapsCount ==
    ASSUME TypeOK, [Next]_vars, overlaps' = 0
    PROVE  overlaps = 0
<1>1. overlaps \in Nat
  BY DEF TypeOK
<1>2. overlaps' = overlaps \/ overlaps' = overlaps + 1
  BY DEF Next, vars, budgets, Crash, Exit, Promote, StepDown, OpenBucket, Seal, SealFails
<1> QED  BY <1>1, <1>2

(* With one leader at a time the inductive invariant holds: whatever crash,*)
(* lost lease or failed write falls between two bars, the next leader takes*)
(* up exactly where the alert stream stands.                               *)
THEOREM StoryHolds == Spec => [](overlaps = 0 => StoryInv)
<1>1. Init => StoryInv
  <2> SUFFICES ASSUME Init PROVE StoryInv
    OBVIOUS
  <2>1. leading = {} /\ snap = NoSnap /\ log = <<>> /\ Len(log) = 0
        /\ \A i \in Replica : det[i] = NewDetector
    BY DEF Init
  <2>2. snap.trig = NewTrigger
    BY <2>1 DEF NoSnap
  <2>3. OneLeader /\ Alternates /\ Remembered /\ EscalationsApart
    BY <2>1 DEF OneLeader, Alternates, Remembered, EscalationsApart
  <2>4. SnapshotTellsTheStory
    BY <2>1, <2>2, NewDetectorType DEF SnapshotTellsTheStory, RegimeAfter
  <2>5. LeaderAgrees
    BY <2>1, <2>2, NewDetectorType DEF LeaderAgrees, Agree
  <2> QED  BY <2>3, <2>4, <2>5 DEF StoryInv
<1>2. TypeOK /\ (overlaps = 0 => StoryInv) /\ [Next]_vars => (overlaps = 0 => StoryInv)'
  <2> SUFFICES ASSUME TypeOK, overlaps = 0, StoryInv, [Next]_vars, overlaps' = 0
               PROVE  StoryInv'
    BY OverlapsCount
  <2>0. /\ OneLeader /\ LeaderAgrees /\ Remembered
        /\ Alternates /\ SnapshotTellsTheStory /\ EscalationsApart
    BY DEF StoryInv
  <2>1. CASE UNCHANGED vars
    <3>1. Alternates' /\ SnapshotTellsTheStory' /\ Remembered' /\ EscalationsApart'
      BY <2>0, <2>1, QuietKeepsStory DEF vars, redis
    <3>2. OneLeader' /\ LeaderAgrees'
      BY <2>0, <2>1 DEF vars, redis, OneLeader, LeaderAgrees
    <3> QED  BY <3>1, <3>2 DEF StoryInv
  <2>2. ASSUME NEW i \in Replica, Crash(i) PROVE StoryInv'
    <3>1. /\ det' = [det EXCEPT ![i] = NewDetector] /\ leading' = leading \ {i}
          /\ snap' = snap /\ log' = log
      BY <2>2 DEF Crash, Exit, redis
    <3>2. Alternates' /\ SnapshotTellsTheStory' /\ Remembered' /\ EscalationsApart'
      BY <2>0, <3>1, QuietKeepsStory
    <3>3. OneLeader'
      BY <2>0, <3>1 DEF OneLeader
    <3>4. ASSUME NEW j \in leading' PROVE Agree(det'[j].trig, snap'.trig)
      <4>1. j \in leading /\ j \in Replica /\ j # i
        BY <3>1, <3>4 DEF TypeOK
      <4>2. det'[j] = det[j]
        BY <3>1, <4>1 DEF TypeOK
      <4> QED  BY <2>0, <3>1, <4>1, <4>2 DEF LeaderAgrees
    <3>5. ASSUME ~snap'.exists, NEW j \in Replica PROVE Agree(det'[j].trig, snap'.trig)
      <4>1. snap.trig = NewTrigger /\ Agree(det[j].trig, snap.trig)
        BY <2>0, <3>1, <3>5 DEF LeaderAgrees, NoSnap
      <4>2. det'[j].trig = det[j].trig \/ det'[j].trig = NewTrigger
        BY <3>1, NewDetectorType DEF TypeOK
      <4> QED  BY <3>1, <4>1, <4>2 DEF Agree
    <3>6. LeaderAgrees'
      BY <2>0, <3>1, <3>4, <3>5 DEF LeaderAgrees
    <3> QED  BY <3>2, <3>3, <3>6 DEF StoryInv
  <2>3. ASSUME NEW i \in Replica, Promote(i) PROVE StoryInv'
    <3>1. /\ leading = {} /\ leading' = {i} /\ snap' = snap /\ log' = log
          /\ det' = [det EXCEPT ![i] = Restore(det[i])]
      BY <2>3 DEF Promote, redis
    <3>2. Alternates' /\ SnapshotTellsTheStory' /\ Remembered' /\ EscalationsApart'
      BY <2>0, <3>1, QuietKeepsStory
    <3>3. OneLeader'
      BY <3>1 DEF OneLeader
    <3>4. det[i] \in Detector /\ det'[i] = Restore(det[i])
      BY <3>1 DEF TypeOK
    <3>5. CASE snap.exists
      <4>1. Restore(det[i]).trig = snap.trig
        BY <3>4, <3>5 DEF Restore, Detector
      <4>2. LeaderAgrees'
        BY <3>1, <3>4, <3>5, <4>1 DEF LeaderAgrees, Agree
      <4> QED  BY <3>2, <3>3, <4>2 DEF StoryInv
    <3>6. CASE ~snap.exists
      <4>1. det' = det
        BY <3>1, <3>6 DEF Restore, TypeOK
      <4>2. LeaderAgrees'
        BY <2>0, <2>3, <3>1, <3>6, <4>1 DEF LeaderAgrees
      <4> QED  BY <3>2, <3>3, <4>2 DEF StoryInv
    <3> QED  BY <3>5, <3>6
  <2>4. ASSUME NEW i \in Replica, StepDown(i) PROVE StoryInv'
    <3>1. leading' = leading \ {i} /\ det' = det /\ snap' = snap /\ log' = log
      BY <2>4 DEF StepDown, redis
    <3>2. Alternates' /\ SnapshotTellsTheStory' /\ Remembered' /\ EscalationsApart'
      BY <2>0, <3>1, QuietKeepsStory
    <3>3. OneLeader' /\ LeaderAgrees'
      BY <2>0, <3>1 DEF OneLeader, LeaderAgrees
    <3> QED  BY <3>2, <3>3 DEF StoryInv
  <2>5. ASSUME NEW i \in Replica, NEW m \in now..(now + MaxStep), 0 < m, m <= MaxMinute,
               OpenBucket(i, m)
        PROVE  StoryInv'
    <3>1. /\ leading' = leading /\ snap' = snap /\ log' = log
          /\ det' = [det EXCEPT ![i] = [det[i] EXCEPT !.bucket = m]]
      BY <2>5 DEF OpenBucket, redis
    <3>2. Alternates' /\ SnapshotTellsTheStory' /\ Remembered' /\ EscalationsApart'
      BY <2>0, <3>1, QuietKeepsStory
    <3>3. \A j \in Replica : det'[j].trig = det[j].trig
      <4>1. \A j \in Replica : det[j] \in Detector
        BY DEF TypeOK
      <4>2. [det[i] EXCEPT !.bucket = m].trig = det[i].trig
        BY <4>1 DEF Detector
      <4> QED  BY <3>1, <4>2 DEF TypeOK
    <3>4. OneLeader' /\ LeaderAgrees'
      BY <2>0, <3>1, <3>3 DEF OneLeader, LeaderAgrees, TypeOK
    <3> QED  BY <3>2, <3>4 DEF StoryInv
  <2>6. ASSUME NEW i \in Replica, NEW m \in now..(now + MaxStep), 0 < m, m <= MaxMinute,
               NEW bar \in BarInput, Seal(i, m, bar)
        PROVE  StoryInv'
    <3>1. m \in Nat
      BY <2>6, TickType
    <3> DEFINE d == [det[i] EXCEPT !.bucket = m]
               ts == det[i].bucket
               res == Update(d, bar, ts)
    <3>2. d \in Detector /\ ts \in Nat \ {0} /\ d.trig = det[i].trig
      BY <2>6, <3>1 DEF TypeOK, Detector, Seal
    <3>3. Detects(d, res, ts)
      <4> HIDE DEF d, ts
      <4> QED  BY <3>2, UpdateDetects
    <3>4. /\ det' = [det EXCEPT ![i] = res.det] /\ Exec(res, bar, ts)
          /\ leading' = leading /\ i \in leading
      BY <2>6 DEF Seal, CloseBucket
    <3>5. Agree(d.trig, snap.trig)
      BY <2>0, <3>2, <3>4 DEF LeaderAgrees
    <3> HIDE DEF d, ts, res
    <3>6. /\ Alternates' /\ SnapshotTellsTheStory' /\ Remembered' /\ EscalationsApart'
          /\ Agree(res.det.trig, snap'.trig) /\ snap'.exists
      BY <2>0, <3>2, <3>3, <3>4, <3>5, ExecContinues
    <3>7. \A j \in leading' : j = i
      BY <2>0, <3>4 DEF OneLeader
    <3>8. det'[i] = res.det
      BY <3>4 DEF TypeOK
    <3>9. OneLeader' /\ LeaderAgrees'
      BY <3>6, <3>7, <3>8 DEF OneLeader, LeaderAgrees
    <3> QED  BY <3>6, <3>9 DEF StoryInv
  <2>7. ASSUME NEW i \in Replica, NEW m \in now..(now + MaxStep), 0 < m, m <= MaxMinute,
               NEW bar \in BarInput, SealFails(i, m, bar)
        PROVE  StoryInv'
    <3> DEFINE d == det[i]
               ts == d.bucket
               res == Update(d, bar, ts)
    <3>1. d \in Detector /\ ts \in Nat \ {0}
      BY <2>7 DEF TypeOK, Detector, SealFails
    <3>2. Detects(d, res, ts)
      BY <3>1, UpdateDetects
    <3>3. Exec(res, bar, ts) /\ leading' = leading \ {i} /\ i \in leading
      BY <2>7 DEF SealFails, Exit
    <3>4. Agree(d.trig, snap.trig)
      BY <2>0, <3>3 DEF LeaderAgrees
    <3> HIDE DEF d, ts, res
    <3>5. /\ Alternates' /\ SnapshotTellsTheStory' /\ Remembered' /\ EscalationsApart'
          /\ snap'.exists
      BY <2>0, <3>1, <3>2, <3>3, <3>4, ExecContinues
    <3>6. leading' = {}
      BY <2>0, <3>3 DEF OneLeader
    <3>7. OneLeader' /\ LeaderAgrees'
      BY <3>5, <3>6 DEF OneLeader, LeaderAgrees
    <3> QED  BY <3>5, <3>7 DEF StoryInv
  <2> QED  BY <2>1, <2>2, <2>3, <2>4, <2>5, <2>6, <2>7 DEF Next
<1> QED  BY <1>1, <1>2, TypeCorrect, PTL DEF Spec

(* The alternation invariant of hysteresis.py holds of the stream: seq     *)
(* counts without a hole and the regimes alternate.                        *)
THEOREM StreamAlternates == Spec => []AlternatesAcrossFailovers
<1>1. (overlaps = 0 => StoryInv) => AlternatesAcrossFailovers
  BY DEF StoryInv, AlternatesAcrossFailovers
<1> QED  BY <1>1, StoryHolds, PTL

(* The cooldown between escalations survives every failover.               *)
THEOREM CooldownSurvives == Spec => []CooldownSurvivesFailover
<1>1. (overlaps = 0 => StoryInv) => CooldownSurvivesFailover
  BY DEF StoryInv, CooldownSurvivesFailover
<1> QED  BY <1>1, StoryHolds, PTL

(* restore_detectors always finds the snapshot that goes with the last     *)
(* alert of the stream.                                                    *)
THEOREM PromotionIsSeamless == Spec => []FailoverIsSeamless
<1>1. (overlaps = 0 => StoryInv) => FailoverIsSeamless
  BY DEF StoryInv, FailoverIsSeamless
<1> QED  BY <1>1, StoryHolds, PTL

---------------------------------------------------------------------------
(* The meaning of the causes.  What one update() says of since, of the     *)
(* thawed mark and of the silence.                                         *)
Told(t, res, z, ts) ==
    /\ res.cause = "none" => res.trig.since = t.since /\ res.trig.thawed = t.thawed
    /\ res.cause # "none" => res.trig.since = ts
    /\ res.cause = "threshold" /\ res.trig.regime = "normal" => t.thawed = FALSE
    /\ z # "none" => res.trig.unobserved = 0 /\ res.cause # "observation_lost"
    /\ z = "none" =>
          /\ res.cause \in {"none", "observation_lost"}
          /\ res.trig.unobserved = (IF t.unobserved = 0 THEN ts ELSE t.unobserved)
          /\ res.cause = "observation_lost" =>
                res.trig.regime = "normal" /\ ts - res.trig.unobserved >= ObservationTimeout

(* reset_candidate leaves these fields alone.                              *)
LEMMA ResetTold ==
    ASSUME NEW t \in Trigger
    PROVE  /\ reset_candidate(t).since = t.since
           /\ reset_candidate(t).thawed = t.thawed
           /\ reset_candidate(t).unobserved = t.unobserved
BY DEF reset_candidate, Trigger

(* commit begins a new spell and leaves the silence alone.                 *)
LEMMA CommitTold ==
    ASSUME NEW t \in Trigger, NEW target \in Regime, NEW ts \in Nat
    PROVE  /\ commit(t, target, ts).since = ts
           /\ commit(t, target, ts).unobserved = t.unobserved
<1> DEFINE r == reset_candidate(t)
<1>1. r \in Trigger /\ r.unobserved = t.unobserved
  BY ResetType
<1>2. commit(t, target, ts) =
        [r EXCEPT !.regime = target, !.seq = r.seq + 1, !.since = ts, !.thawed = FALSE,
                  !.lastEscalation = IF target = "stressed" THEN ts ELSE r.lastEscalation]
  BY DEF commit
<1> HIDE DEF r
<1> DEFINE c == commit(t, target, ts)
<1>3. c.since = ts /\ c.unobserved = r.unobserved
  BY <1>1, <1>2 DEF Trigger
<1> QED  BY <1>1, <1>3

(* A bar that cannot be evaluated.                                         *)
LEMMA HoldTold ==
    ASSUME NEW t \in Trigger, NEW ts \in Nat
    PROVE  Told(t, hold(t, ts), "none", ts)
<1> DEFINE r == reset_candidate(t)
           first == IF r.unobserved = 0 THEN ts ELSE r.unobserved
           held == [r EXCEPT !.unobserved = first]
           lost == t.regime = "stressed" /\ ts - held.unobserved >= ObservationTimeout
           c == commit(held, "normal", ts)
<1>1. r \in Trigger /\ r.since = t.since /\ r.thawed = t.thawed /\ r.unobserved = t.unobserved
  BY ResetType, ResetTold
<1>2. first \in Nat /\ first = (IF t.unobserved = 0 THEN ts ELSE t.unobserved)
  <2> HIDE DEF r
  <2> QED  BY <1>1 DEF Trigger
<1>3. hold(t, ts) = IF lost THEN [trig |-> c, cause |-> "observation_lost"] ELSE Quiet(held)
  BY DEF hold
<1> HIDE DEF r, first
<1>4. held \in Trigger
  BY <1>1, <1>2 DEF Trigger
<1>5. held.since = r.since /\ held.unobserved = first /\ held.thawed = r.thawed
  BY <1>1 DEF Trigger
<1> HIDE DEF held
<1>6. c.since = ts /\ c.unobserved = held.unobserved /\ c.regime = "normal"
  BY <1>4, CommitTold, CommitTurns DEF Regime
<1> HIDE DEF c
<1>7. CASE ~lost
  <2>1. hold(t, ts).trig = held /\ hold(t, ts).cause = "none"
    BY <1>3, <1>7 DEF Quiet
  <2> QED  BY <1>1, <1>2, <1>5, <2>1 DEF Told
<1>8. CASE lost
  <2>1. hold(t, ts).trig = c /\ hold(t, ts).cause = "observation_lost"
    BY <1>3, <1>8
  <2> QED  BY <1>2, <1>5, <1>6, <1>8, <2>1 DEF Told
<1> QED  BY <1>7, <1>8

(* A bar that speaks for the other regime.                                 *)
LEMMA AccumulateTold ==
    ASSUME NEW t \in Trigger, NEW target \in Regime, NEW ts \in Nat, NEW z, z # "none",
           t.unobserved = 0
    PROVE  Told(t, accumulate(t, target, ts), z, ts)
<1> DEFINE first == [t EXCEPT !.cand = target, !.candSince = ts, !.candSamples = 1]
           more  == [t EXCEPT !.candSamples = t.candSamples + 1]
           grown == IF t.cand # target THEN first ELSE more
           wait  == ~Confirmed(grown, ts) \/ Cooling(t, target, ts)
           why   == IF target = "normal" /\ t.thawed THEN "baseline_thaw" ELSE "threshold"
           c     == commit(grown, target, ts)
<1>1. first \in Trigger /\ more \in Trigger
  <2>1. first \in Trigger
    BY DEF Trigger
  <2>2. more \in Trigger
    BY DEF Trigger
  <2> QED  BY <2>1, <2>2
<1>2. /\ first.since = t.since /\ first.thawed = t.thawed /\ first.unobserved = t.unobserved
      /\ more.since = t.since /\ more.thawed = t.thawed /\ more.unobserved = t.unobserved
  BY DEF Trigger
<1>3. accumulate(t, target, ts) = IF wait THEN Quiet(grown) ELSE [trig |-> c, cause |-> why]
  BY DEF accumulate
<1> HIDE DEF first, more
<1>4. /\ grown \in Trigger /\ grown.since = t.since /\ grown.thawed = t.thawed
      /\ grown.unobserved = t.unobserved
  BY <1>1, <1>2
<1>5. /\ why = "threshold" \/ why = "baseline_thaw"
      /\ why = "threshold" => target # "normal" \/ ~t.thawed
  BY Zenon
<1>6. t.thawed \in BOOLEAN
  BY DEF Trigger
<1>7. why = "threshold" /\ target = "normal" => t.thawed = FALSE
  BY <1>5, <1>6, Zenon
<1> HIDE DEF grown, wait, why
<1>8. c.since = ts /\ c.unobserved = grown.unobserved /\ c.regime = target
  BY <1>4, CommitTold, CommitTurns
<1> HIDE DEF c
<1>9. CASE wait
  <2>1. accumulate(t, target, ts).trig = grown /\ accumulate(t, target, ts).cause = "none"
    BY <1>3, <1>9 DEF Quiet
  <2> QED  BY <1>4, <2>1 DEF Told
<1>10. CASE ~wait
  <2>1. accumulate(t, target, ts).trig = c /\ accumulate(t, target, ts).cause = why
    BY <1>3, <1>10
  <2> QED  BY <1>4, <1>5, <1>7, <1>8, <2>1 DEF Told
<1> QED  BY <1>9, <1>10

(* A bar with a score: noted before it is judged.                          *)
Noted(r, ts) == [r EXCEPT !.unobserved = 0, !.lastSample = ts]

LEMMA NotedTold ==
    ASSUME NEW r \in Trigger, NEW ts \in Nat
    PROVE  /\ Noted(r, ts) \in Trigger
           /\ Noted(r, ts).since = r.since /\ Noted(r, ts).thawed = r.thawed
           /\ Noted(r, ts).unobserved = 0 /\ Noted(r, ts).regime = r.regime
<1>1. Noted(r, ts) \in Trigger
  BY DEF Trigger, Noted
<1>2. /\ Noted(r, ts).since = r.since /\ Noted(r, ts).thawed = r.thawed
      /\ Noted(r, ts).unobserved = 0 /\ Noted(r, ts).regime = r.regime
  BY DEF Trigger, Noted
<1> QED  BY <1>1, <1>2

(* update(), whatever it is given.                                         *)
LEMMA UpdateTold ==
    ASSUME NEW t \in Trigger, NEW z, NEW ts \in Nat
    PROVE  Told(t, TriggerUpdate(t, z, ts), z, ts)
<1>1. CASE z = "none"
  BY <1>1, HoldTold DEF TriggerUpdate
<1>2. CASE z # "none"
  <2> DEFINE chained == IF ChainBroken(t, ts) THEN reset_candidate(t) ELSE t
             seen == Noted(chained, ts)
             target == target_regime(t, z)
  <2>1. /\ chained \in Trigger /\ chained.since = t.since /\ chained.thawed = t.thawed
    BY ResetType, ResetTold
  <2>2. /\ seen \in Trigger /\ seen.since = t.since /\ seen.thawed = t.thawed
        /\ seen.unobserved = 0
    <3> HIDE DEF chained
    <3> QED  BY <2>1, NotedTold
  <2>3. target \in Regime
    BY DEF target_regime, Regime
  <2>4. TriggerUpdate(t, z, ts) = IF target = t.regime THEN Quiet(reset_candidate(seen))
                                  ELSE accumulate(seen, target, ts)
    BY <1>2 DEF TriggerUpdate, Evaluate, Noted
  <2> HIDE DEF seen, target
  <2>5. CASE target = t.regime
    <3> DEFINE r == reset_candidate(seen)
    <3>1. r.since = seen.since /\ r.thawed = seen.thawed /\ r.unobserved = seen.unobserved
      BY <2>2, ResetTold
    <3>2. TriggerUpdate(t, z, ts).trig = r /\ TriggerUpdate(t, z, ts).cause = "none"
      BY <2>4, <2>5 DEF Quiet
    <3> HIDE DEF r
    <3> QED  BY <1>2, <2>2, <3>1, <3>2 DEF Told
  <2>6. CASE target # t.regime
    <3>1. Told(seen, accumulate(seen, target, ts), z, ts)
      BY <1>2, <2>2, <2>3, AccumulateTold
    <3>2. TriggerUpdate(t, z, ts) = accumulate(seen, target, ts)
      BY <2>4, <2>6
    <3> QED  BY <1>2, <2>2, <3>1, <3>2 DEF Told
  <2> QED  BY <2>5, <2>6
<1> QED  BY <1>1, <1>2

(* What RegimeDetector.update leaves of a bar that is only held.           *)
HeldBar(d, res, ts) ==
    /\ res.det.contiguous <= RearmBars
    /\ res.det.base = d.base /\ res.det.rebaselining = d.rebaselining
    /\ Told(d.trig, [trig |-> res.det.trig, cause |-> res.cause], "none", ts)

(* And of one that is judged: whether it thaws, the trigger that is told,  *)
(* and what the baseline makes of the answer.                              *)
JudgedBar(d, res, z, ts) ==
    /\ res.det.contiguous > RearmBars
    /\ \E thawing \in BOOLEAN, told \in Trigger :
          /\ thawing <=> baseline_should_thaw(d.trig, ts) /\ ~d.rebaselining
          /\ told.since = d.trig.since /\ told.regime = d.trig.regime
          /\ told.unobserved = d.trig.unobserved
          /\ told.thawed = (IF thawing THEN TRUE ELSE d.trig.thawed)
          /\ Told(told, [trig |-> res.det.trig, cause |-> res.cause], z, ts)
          /\ res.det.rebaselining <=> res.cause = "none" /\ (d.rebaselining \/ thawing)
          /\ res.det.base.frozen <=>
                /\ res.det.trig.regime = "stressed"
                /\ ~res.det.rebaselining \/ (d.base.frozen /\ ~thawing)
          /\ res.det.base.relearned <=>
                /\ res.det.trig.regime = "stressed" /\ res.cause = "none"
                /\ d.base.relearned \/ ~res.det.base.frozen

Reads(d, res, z, ts) ==
    /\ res.det.lastSealed = ts /\ res.det.bucket = d.bucket
    /\ HeldBar(d, res, ts) \/ JudgedBar(d, res, z, ts)

(* mark_thawed marks, and nothing else.                                    *)
LEMMA MarkTold ==
    ASSUME NEW t \in Trigger
    PROVE  /\ mark_thawed(t).since = t.since /\ mark_thawed(t).regime = t.regime
           /\ mark_thawed(t).unobserved = t.unobserved /\ mark_thawed(t).thawed = TRUE
BY DEF mark_thawed, Trigger

(* What Learn makes of the baseline.                                       *)
LEMMA LearnFields ==
    ASSUME NEW d \in Detector, NEW trig \in Trigger,
           NEW thawing \in BOOLEAN, NEW changed \in BOOLEAN
    PROVE  LET l == Learn(d, trig, thawing, changed)
           IN /\ l.contiguous = d.contiguous /\ l.lastSealed = d.lastSealed
              /\ l.bucket = d.bucket
              /\ l.rebaselining <=> ~changed /\ (d.rebaselining \/ thawing)
              /\ l.base.frozen <=> /\ trig.regime = "stressed"
                                   /\ ~l.rebaselining \/ (d.base.frozen /\ ~thawing)
              /\ l.base.relearned <=> /\ trig.regime = "stressed" /\ ~changed
                                      /\ d.base.relearned \/ ~l.base.frozen
<1> DEFINE l == Learn(d, trig, thawing, changed)
           stressed == trig.regime = "stressed"
           rebaselining == ~changed /\ (d.rebaselining \/ thawing)
           frozen == IF stressed THEN ~rebaselining \/ (d.base.frozen /\ ~thawing) ELSE FALSE
           relearned == (stressed /\ ~changed) /\ (d.base.relearned \/ ~frozen)
           base == [frozen |-> frozen, relearned |-> relearned]
<1>1. l = [d EXCEPT !.trig = trig, !.rebaselining = rebaselining, !.base = base]
  BY DEF Learn
<1>2. frozen <=> stressed /\ (~rebaselining \/ (d.base.frozen /\ ~thawing))
  BY Zenon
<1>3. base.frozen = frozen /\ base.relearned = relearned
  <2> HIDE DEF frozen, relearned
  <2> QED  OBVIOUS
<1> HIDE DEF l, rebaselining, base
<1>4. /\ l.base = base /\ l.rebaselining = rebaselining /\ l.contiguous = d.contiguous
      /\ l.lastSealed = d.lastSealed /\ l.bucket = d.bucket
  BY <1>1 DEF Detector
<1>5. l.base.frozen = frozen /\ l.base.relearned = relearned
  BY <1>3, <1>4, Zenon
<1>6. l.rebaselining <=> ~changed /\ (d.rebaselining \/ thawing)
  BY <1>4, Zenon DEF rebaselining
<1>7. l.base.frozen <=> stressed /\ (~l.rebaselining \/ (d.base.frozen /\ ~thawing))
  <2> HIDE DEF frozen
  <2> QED  BY <1>2, <1>4, <1>5, Zenon
<1>8. l.base.relearned <=> (stressed /\ ~changed) /\ (d.base.relearned \/ ~l.base.frozen)
  <2>1. relearned <=> (stressed /\ ~changed) /\ (d.base.relearned \/ ~frozen)
    OBVIOUS
  <2> HIDE DEF frozen, relearned
  <2> QED  BY <1>5, <2>1, Zenon
<1>9. /\ l.contiguous = d.contiguous /\ l.lastSealed = d.lastSealed /\ l.bucket = d.bucket
  BY <1>4
<1> HIDE DEF frozen, relearned
<1> QED  BY <1>6, <1>7, <1>8, <1>9, Zenon DEF l

(* A bar no gate stops.                                                    *)
LEMMA JudgeReads ==
    ASSUME NEW d \in Detector, NEW z, NEW ts \in Nat, d.contiguous > RearmBars
    PROVE  /\ JudgedBar(d, Judge(d, z, ts), z, ts)
           /\ Judge(d, z, ts).det.lastSealed = d.lastSealed
           /\ Judge(d, z, ts).det.bucket = d.bucket
<1> DEFINE thawing == baseline_should_thaw(d.trig, ts) /\ ~d.rebaselining
           told == IF thawing THEN mark_thawed(d.trig) ELSE d.trig
           res == TriggerUpdate(told, z, ts)
           changed == res.cause # "none"
           l == Learn(d, res.trig, thawing, changed)
           j == Judge(d, z, ts)
<1>1. d.trig \in Trigger
  BY DEF Detector
<1>2. told \in Trigger
  BY <1>1, MarkType
<1>3. Turned(told, res, ts) /\ Told(told, res, z, ts)
  <2> HIDE DEF told
  <2> QED  BY <1>2, UpdateTurns, UpdateTold
<1>4. /\ told.since = d.trig.since /\ told.regime = d.trig.regime
      /\ told.unobserved = d.trig.unobserved
      /\ told.thawed = (IF thawing THEN TRUE ELSE d.trig.thawed)
  <2> HIDE DEF thawing
  <2>1. CASE thawing
    BY <1>1, <2>1, MarkTold
  <2>2. CASE ~thawing
    BY <2>2
  <2> QED  BY <2>1, <2>2
<1>5. j = [det |-> l, cause |-> res.cause]
  BY DEF Judge
<1>6. thawing \in BOOLEAN /\ changed \in BOOLEAN
      /\ (thawing <=> baseline_should_thaw(d.trig, ts) /\ ~d.rebaselining)
      /\ (~changed <=> res.cause = "none")
  BY Zenon DEF baseline_should_thaw
<1>7. res.trig \in Trigger
  BY <1>3 DEF Turned
<1> HIDE DEF thawing, told, res, changed, j
<1>8. /\ l.contiguous = d.contiguous /\ l.lastSealed = d.lastSealed /\ l.bucket = d.bucket
      /\ l.rebaselining <=> ~changed /\ (d.rebaselining \/ thawing)
      /\ l.base.frozen <=> /\ res.trig.regime = "stressed"
                           /\ ~l.rebaselining \/ (d.base.frozen /\ ~thawing)
      /\ l.base.relearned <=> /\ res.trig.regime = "stressed" /\ ~changed
                              /\ d.base.relearned \/ ~l.base.frozen
  BY <1>6, <1>7, LearnFields
<1>9. l.trig = res.trig
  BY <1>6, <1>7, LearnType
<1> HIDE DEF l
<1>10. j.det = l /\ j.cause = res.cause
  BY <1>5
<1>11. Told(told, [trig |-> j.det.trig, cause |-> j.cause], z, ts)
  BY <1>3, <1>9, <1>10 DEF Told
<1>12. /\ j.det.rebaselining <=> j.cause = "none" /\ (d.rebaselining \/ thawing)
       /\ j.det.base.frozen <=> /\ j.det.trig.regime = "stressed"
                                /\ ~j.det.rebaselining \/ (d.base.frozen /\ ~thawing)
       /\ j.det.base.relearned <=> /\ j.det.trig.regime = "stressed" /\ j.cause = "none"
                                   /\ d.base.relearned \/ ~j.det.base.frozen
  BY <1>6, <1>8, <1>9, <1>10, Zenon
<1>13. j.det.contiguous > RearmBars
  BY <1>8, <1>10
<1>14. \E th \in BOOLEAN, to \in Trigger :
          /\ th <=> baseline_should_thaw(d.trig, ts) /\ ~d.rebaselining
          /\ to.since = d.trig.since /\ to.regime = d.trig.regime
          /\ to.unobserved = d.trig.unobserved
          /\ to.thawed = (IF th THEN TRUE ELSE d.trig.thawed)
          /\ Told(to, [trig |-> j.det.trig, cause |-> j.cause], z, ts)
          /\ j.det.rebaselining <=> j.cause = "none" /\ (d.rebaselining \/ th)
          /\ j.det.base.frozen <=>
                /\ j.det.trig.regime = "stressed"
                /\ ~j.det.rebaselining \/ (d.base.frozen /\ ~th)
          /\ j.det.base.relearned <=>
                /\ j.det.trig.regime = "stressed" /\ j.cause = "none"
                /\ d.base.relearned \/ ~j.det.base.frozen
  <2> thawing \in BOOLEAN /\ told \in Trigger
    BY <1>2, <1>6
  <2> WITNESS thawing \in BOOLEAN, told \in Trigger
  <2> QED  BY <1>4, <1>6, <1>11, <1>12, Zenon
<1>15. JudgedBar(d, j, z, ts)
  BY <1>13, <1>14, Zenon DEF JudgedBar
<1> QED  BY <1>8, <1>10, <1>15 DEF j

(* A bar that is only held.                                                *)
LEMMA SkipReads ==
    ASSUME NEW d \in Detector, NEW ts \in Nat, d.contiguous <= RearmBars
    PROVE  /\ HeldBar(d, Skip(d, ts), ts)
           /\ Skip(d, ts).det.lastSealed = d.lastSealed
           /\ Skip(d, ts).det.bucket = d.bucket
<1> DEFINE res == hold(d.trig, ts)
           k == [d EXCEPT !.trig = res.trig]
           s == Skip(d, ts)
<1>1. d.trig \in Trigger
  BY DEF Detector
<1>2. Told(d.trig, res, "none", ts)
  BY <1>1, HoldTold
<1>3. s.det = k /\ s.cause = res.cause
  BY DEF Skip
<1> HIDE DEF res
<1>4. /\ k.trig = res.trig /\ k.base = d.base /\ k.rebaselining = d.rebaselining
      /\ k.contiguous = d.contiguous /\ k.lastSealed = d.lastSealed /\ k.bucket = d.bucket
  BY DEF Detector
<1> HIDE DEF k, s
<1>5. Told(d.trig, [trig |-> s.det.trig, cause |-> s.cause], "none", ts)
  BY <1>2, <1>3, <1>4 DEF Told
<1>6. HeldBar(d, s, ts)
  BY <1>3, <1>4, <1>5 DEF HeldBar
<1> QED  BY <1>3, <1>4, <1>6 DEF s

(* Any sealed bar.                                                         *)
LEMMA UpdateReads ==
    ASSUME NEW d \in Detector, NEW bar, NEW ts \in Nat
    PROVE  Reads(d, Update(d, bar, ts), bar.z, ts)
<1> DEFINE seen == NoteSession(d, bar, ts)
           gated == Gated(seen, bar, ts)
           count == IF gated THEN 0
                    ELSE IF d.contiguous > RearmBars THEN d.contiguous ELSE d.contiguous + 1
           sealed == [seen EXCEPT !.lastSealed = ts, !.contiguous = count]
           u == Update(d, bar, ts)
<1>1. /\ seen \in Detector /\ seen.trig = d.trig /\ seen.base = d.base
      /\ seen.rebaselining = d.rebaselining /\ seen.bucket = d.bucket
  <2> DEFINE a == IF d.wasOpen = "closed" /\ bar.gate # "closed" THEN ts ELSE d.openedAt
             o == IF bar.gate # "closed" THEN "open" ELSE "closed"
  <2>1. a \in Nat /\ o \in {"unknown", "open", "closed"}
    BY DEF Detector
  <2>2. seen = [d EXCEPT !.openedAt = a, !.wasOpen = o]
    BY DEF NoteSession
  <2> HIDE DEF a, o, seen
  <2>3. seen \in Detector
    BY <2>1, <2>2 DEF Detector
  <2>4. /\ seen.trig = d.trig /\ seen.base = d.base
        /\ seen.rebaselining = d.rebaselining /\ seen.bucket = d.bucket
    BY <2>2 DEF Detector
  <2> QED  BY <2>3, <2>4
<1>2. count \in 0..(RearmBars + 1) /\ RearmBars \in Nat /\ (gated => count <= RearmBars)
  <2>1. d.contiguous \in 0..(RearmBars + 1) /\ RearmBars \in Nat
    BY DetectorAssumption DEF Detector
  <2> HIDE DEF gated
  <2> QED  BY <2>1
<1>3. sealed \in Detector
  <2> HIDE DEF seen, count
  <2> QED  BY <1>1, <1>2 DEF Detector
<1>4. /\ sealed.trig = d.trig /\ sealed.base = d.base
      /\ sealed.rebaselining = d.rebaselining /\ sealed.bucket = d.bucket
      /\ sealed.lastSealed = ts /\ sealed.contiguous = count
  <2> HIDE DEF seen, count
  <2> QED  BY <1>1, <1>2 DEF Detector
<1>5. u = IF gated \/ count <= RearmBars THEN Skip(sealed, ts) ELSE Judge(sealed, bar.z, ts)
  BY DEF Update
<1> HIDE DEF sealed, count, gated, u
<1>6. CASE count <= RearmBars
  <2>1. u = Skip(sealed, ts)
    BY <1>5, <1>6
  <2>2. /\ HeldBar(sealed, u, ts) /\ u.det.lastSealed = ts /\ u.det.bucket = d.bucket
    BY <1>3, <1>4, <1>6, <2>1, SkipReads
  <2>3. HeldBar(d, u, ts)
    BY <1>4, <2>2 DEF HeldBar
  <2> QED  BY <2>2, <2>3 DEF Reads, u
<1>7. CASE ~(count <= RearmBars)
  <2>1. u = Judge(sealed, bar.z, ts) /\ count > RearmBars
    BY <1>2, <1>5, <1>7
  <2>2. /\ JudgedBar(sealed, u, bar.z, ts) /\ u.det.lastSealed = ts /\ u.det.bucket = d.bucket
    BY <1>3, <1>4, <2>1, JudgeReads
  <2>3. JudgedBar(d, u, bar.z, ts)
    BY <1>4, <2>2, Zenon DEF JudgedBar
  <2> QED  BY <2>2, <2>3 DEF Reads, u
<1> QED  BY <1>6, <1>7

---------------------------------------------------------------------------
(* A sealed bar keeps the marks right, and says what its cause says.       *)

LEMMA SealMarks ==
    ASSUME NEW d \in Detector, NEW res, NEW z, NEW ts \in Nat,
           Detects(d, res, ts), Reads(d, res, z, ts), Marked(d.trig, d.base)
    PROVE  Marked(res.det.trig, res.det.base)
<1> DEFINE u == res.det.trig
           b == res.det.base
<1>1. res.cause = "none" => u.regime = d.trig.regime
  BY DEF Detects, Turned
<1>2. CASE HeldBar(d, res, ts)
  <2>1. b = d.base /\ (res.cause = "none" => u.thawed = d.trig.thawed)
        /\ (res.cause # "none" => u.regime = "normal")
    BY <1>2 DEF HeldBar, Told
  <2>2. CASE res.cause = "none"
    BY <1>1, <2>1, <2>2, Zenon DEF Marked
  <2>3. CASE res.cause # "none"
    BY <2>1, <2>3 DEF Marked
  <2> QED  BY <2>2, <2>3
<1>3. CASE JudgedBar(d, res, z, ts)
  <2>1. PICK thawing \in BOOLEAN, told \in Trigger :
          /\ told.thawed = (IF thawing THEN TRUE ELSE d.trig.thawed)
          /\ Told(told, [trig |-> u, cause |-> res.cause], z, ts)
          /\ res.det.rebaselining <=> res.cause = "none" /\ (d.rebaselining \/ thawing)
          /\ b.frozen <=> /\ u.regime = "stressed"
                          /\ ~res.det.rebaselining \/ (d.base.frozen /\ ~thawing)
          /\ b.relearned <=> /\ u.regime = "stressed" /\ res.cause = "none"
                             /\ d.base.relearned \/ ~b.frozen
    BY <1>3, Zenon DEF JudgedBar
  <2>2. res.cause = "none" => u.thawed = told.thawed
    BY <2>1 DEF Told
  <2>3. SUFFICES ASSUME u.regime = "stressed", ~b.frozen \/ b.relearned PROVE u.thawed
    BY Zenon DEF Marked
  <2>4. res.cause = "none" /\ (~b.frozen \/ d.base.relearned)
    BY <2>1, <2>3, Zenon
  <2>5. CASE thawing
    BY <2>1, <2>2, <2>4, <2>5, Zenon
  <2>6. CASE ~thawing
    <3>1. ~d.base.frozen \/ d.base.relearned
      BY <2>1, <2>3, <2>4, <2>6, Zenon
    <3>2. d.trig.regime = "stressed"
      BY <1>1, <2>3, <2>4
    <3>3. d.trig.thawed
      BY <3>1, <3>2, Zenon DEF Marked
    <3>4. told.thawed = d.trig.thawed
      BY <2>1, <2>6, Zenon
    <3> QED  BY <2>2, <2>4, <3>3, <3>4, Zenon
  <2> QED  BY <2>5, <2>6
<1> QED  BY <1>2, <1>3 DEF Reads

LEMMA SealLearns ==
    ASSUME NEW d, NEW res, NEW z, NEW ts, Reads(d, res, z, ts),
           d.rebaselining => ~d.base.frozen
    PROVE  res.det.rebaselining => ~res.det.base.frozen
<1>1. CASE HeldBar(d, res, ts)
  BY <1>1, Zenon DEF HeldBar
<1>2. CASE JudgedBar(d, res, z, ts)
  BY <1>2, Zenon DEF JudgedBar
<1> QED  BY <1>1, <1>2 DEF Reads

(* A bar judged thaw_after or more into the event leaves the baseline      *)
(* learning.                                                               *)
LEMMA SealThaws ==
    ASSUME NEW d \in Detector, NEW res, NEW z, NEW ts \in Nat, ThawAfter # 0,
           Detects(d, res, ts), Reads(d, res, z, ts), d.rebaselining => ~d.base.frozen,
           res.det.contiguous > RearmBars, baseline_should_thaw(res.det.trig, ts)
    PROVE  ~res.det.base.frozen
<1> DEFINE u == res.det.trig
           b == res.det.base
<1>1. res.det \in Detector /\ RearmBars \in Nat /\ ThawAfter \in Nat
  BY DetectorAssumption, TriggerAssumption DEF Detects
<1>2. res.det.contiguous \in Nat
  BY <1>1 DEF Detector
<1>3. JudgedBar(d, res, z, ts)
  BY <1>1, <1>2 DEF Reads, HeldBar
<1>4. PICK thawing \in BOOLEAN, told \in Trigger :
        /\ thawing <=> baseline_should_thaw(d.trig, ts) /\ ~d.rebaselining
        /\ told.since = d.trig.since
        /\ Told(told, [trig |-> u, cause |-> res.cause], z, ts)
        /\ res.det.rebaselining <=> res.cause = "none" /\ (d.rebaselining \/ thawing)
        /\ b.frozen <=> /\ u.regime = "stressed"
                        /\ ~res.det.rebaselining \/ (d.base.frozen /\ ~thawing)
  BY <1>3, Zenon DEF JudgedBar
<1>5. u.regime = "stressed" /\ u.since # 0 /\ ts - u.since >= ThawAfter
  BY DEF baseline_should_thaw
<1>6. res.cause = "none"
  <2> SUFFICES ASSUME res.cause # "none" PROVE FALSE
    OBVIOUS
  <2>1. u.since = ts
    BY <1>4 DEF Told
  <2> QED  BY <1>1, <1>5, <2>1
<1>7. u.since = d.trig.since /\ u.regime = d.trig.regime
  BY <1>4, <1>6 DEF Told, Detects, Turned
<1>8. baseline_should_thaw(d.trig, ts)
  BY <1>5, <1>7 DEF baseline_should_thaw
<1>9. d.rebaselining \/ thawing
  BY <1>4, <1>8, Zenon
<1>10. res.det.rebaselining
  BY <1>4, <1>6, <1>9, Zenon
<1>11. ~(d.base.frozen /\ ~thawing)
  BY <1>9, Zenon
<1> QED  BY <1>4, <1>10, <1>11, Zenon

(* A threshold clear was made by a trigger nothing had been relearned for. *)
LEMMA SealMeansThreshold ==
    ASSUME NEW d \in Detector, NEW res, NEW z, NEW ts \in Nat,
           Detects(d, res, ts), Reads(d, res, z, ts), Marked(d.trig, d.base),
           res.cause = "threshold", res.det.trig.regime = "normal"
    PROVE  ~d.base.relearned
<1>1. JudgedBar(d, res, z, ts)
  BY DEF Reads, HeldBar, Told
<1>2. PICK thawing \in BOOLEAN, told \in Trigger :
        /\ told.thawed = (IF thawing THEN TRUE ELSE d.trig.thawed)
        /\ Told(told, [trig |-> res.det.trig, cause |-> res.cause], z, ts)
  BY <1>1, Zenon DEF JudgedBar
<1>3. told.thawed = FALSE
  BY <1>2 DEF Told
<1>4. d.trig.thawed = FALSE
  BY <1>2, <1>3, Zenon
<1>5. d.trig.regime = "stressed"
  <2>1. d.trig.regime \in Regime
    BY DEF Detector, Trigger
  <2>2. d.trig.regime # "normal"
    BY DEF Detects, Turned
  <2> QED  BY <2>1, <2>2 DEF Regime
<1> QED  BY <1>4, <1>5, Zenon DEF Marked

(* The silence of a sealed bar, and what a lost observation says of it.    *)
LEMMA SealIsTimed ==
    ASSUME NEW d \in Detector, NEW res, NEW z, NEW ts \in Nat, Reads(d, res, z, ts),
           Detects(d, res, ts)
    PROVE  /\ res.det.contiguous > RearmBars /\ z # "none" =>
                 res.det.trig.unobserved = 0 /\ res.cause # "observation_lost"
           /\ ~(res.det.contiguous > RearmBars /\ z # "none") =>
                 /\ res.det.trig.unobserved =
                       (IF d.trig.unobserved = 0 THEN ts ELSE d.trig.unobserved)
                 /\ res.cause = "observation_lost" =>
                       ts - res.det.trig.unobserved >= ObservationTimeout
<1>1. res.det.contiguous \in Nat /\ RearmBars \in Nat
  BY DetectorAssumption DEF Detects, Detector
<1>2. CASE HeldBar(d, res, ts)
  BY <1>1, <1>2 DEF HeldBar, Told
<1>3. CASE JudgedBar(d, res, z, ts)
  <2>1. PICK told \in Trigger :
          /\ res.det.contiguous > RearmBars
          /\ told.unobserved = d.trig.unobserved
          /\ Told(told, [trig |-> res.det.trig, cause |-> res.cause], z, ts)
    BY <1>3, Zenon DEF JudgedBar
  <2> QED  BY <2>1 DEF Told
<1> QED  BY <1>2, <1>3 DEF Reads

---------------------------------------------------------------------------
(* The causes across replicas: the parts of ClearInv.                      *)

(* One replica's detector is replaced, the others stay.                    *)
LEMMA PutAt ==
    ASSUME TypeOK, NEW i \in Replica, NEW d, det' = [det EXCEPT ![i] = d]
    PROVE  /\ det'[i] = d
           /\ \A j \in Replica : j # i => det'[j] = det[j]
BY DEF TypeOK

(* A fresh detector has marked, learned and seen nothing.                  *)
LEMMA FreshDetector ==
    /\ Marked(NewDetector.trig, NewDetector.base)
    /\ ~NewDetector.rebaselining /\ ~NewDetector.base.relearned
    /\ NewDetector.bucket = 0 /\ NewDetector.trig.unobserved = 0
    /\ NewDetector.contiguous = 0 /\ NewDetector.lastSealed = 0
    /\ NoSnap.trig = NewDetector.trig /\ NoSnap.base = NewDetector.base
<1>1. NewDetector.trig.regime = "normal" /\ NewDetector.trig.unobserved = 0
  BY DEF NewDetector, NewTrigger
<1>2. Marked(NewDetector.trig, NewDetector.base)
  BY <1>1 DEF Marked
<1>3. ~NewDetector.rebaselining /\ ~NewDetector.base.relearned
  BY Zenon DEF NewDetector, NewBaseline
<1>4. /\ NewDetector.bucket = 0 /\ NewDetector.contiguous = 0 /\ NewDetector.lastSealed = 0
      /\ NoSnap.trig = NewDetector.trig /\ NoSnap.base = NewDetector.base
  BY DEF NewDetector, NoSnap
<1> QED  BY <1>1, <1>2, <1>3, <1>4

(* Lost leases are only counted up, a noticed one by StepDown.             *)
LEMMA DeposalsCount ==
    ASSUME TypeOK, [Next]_vars, deposals' = 0
    PROVE  deposals = 0 /\ \A i \in Replica : ~StepDown(i)
<1>1. deposals \in Nat
  BY DEF TypeOK
<1>2. deposals' = deposals \/ deposals' = deposals + 1
  BY DEF Next, vars, budgets, Crash, Exit, Promote, StepDown, OpenBucket, Seal, SealFails
<1>3. ASSUME NEW i \in Replica, StepDown(i) PROVE FALSE
  BY <1>1, <1>3 DEF StepDown
<1> QED  BY <1>1, <1>2, <1>3

(* A snapshot keeps the mark and drops the silence.                        *)
LEMMA RestoreTold ==
    ASSUME NEW t \in Trigger
    PROVE  /\ RestoreTrigger(t).regime = t.regime /\ RestoreTrigger(t).thawed = t.thawed
           /\ RestoreTrigger(t).unobserved = 0
BY DEF RestoreTrigger, NewTrigger

(* The MULTI of a bar: what it stores, and how far it measured.            *)
LEMMA ExecStores ==
    ASSUME NEW d \in Detector, NEW res, NEW bar, NEW ts \in Nat,
           Detects(d, res, ts), Reads(d, res, bar.z, ts), Exec(res, bar, ts),
           Marked(d.trig, d.base)
    PROVE  /\ Marked(res.det.trig, res.det.base)
           /\ Marked(snap'.trig, snap'.base)
           /\ snap'.trig.unobserved = 0 /\ snap'.base = res.det.base
<1>1. res.det.trig \in Trigger
  BY DEF Detects, Turned
<1>2. snap'.trig = RestoreTrigger(res.det.trig) /\ snap'.base = res.det.base
  BY DEF Exec, Snapshot
<1>3. Marked(res.det.trig, res.det.base)
  BY SealMarks
<1>4. /\ snap'.trig.regime = res.det.trig.regime /\ snap'.trig.thawed = res.det.trig.thawed
      /\ snap'.trig.unobserved = 0
  BY <1>1, <1>2, RestoreTold
<1>5. Marked(snap'.trig, snap'.base)
  BY <1>2, <1>3, <1>4, Zenon DEF Marked
<1> QED  BY <1>2, <1>3, <1>4, <1>5

LEMMA ExecMeasures ==
    ASSUME NEW d \in Detector, NEW res, NEW bar, NEW ts \in Nat, measured \in Nat,
           Detects(d, res, ts), Reads(d, res, bar.z, ts), Exec(res, bar, ts),
           measured <= ts, d.trig.unobserved # 0 => measured <= d.trig.unobserved
    PROVE  /\ measured' <= ts
           /\ res.det.trig.unobserved # 0 => measured' <= res.det.trig.unobserved
<1>1. d.trig.unobserved \in Nat
  BY DEF Detector, Trigger
<1> DEFINE seen == res.det.contiguous > RearmBars /\ bar.z # "none"
<1>2. measured' = IF seen /\ ts > measured THEN ts ELSE measured
  BY DEF Exec
<1>3. /\ seen => res.det.trig.unobserved = 0
      /\ ~seen => res.det.trig.unobserved =
                     (IF d.trig.unobserved = 0 THEN ts ELSE d.trig.unobserved)
  BY SealIsTimed
<1> HIDE DEF seen
<1>4. CASE seen
  BY <1>2, <1>3, <1>4
<1>5. CASE ~seen
  BY <1>1, <1>2, <1>3, <1>5
<1> QED  BY <1>4, <1>5

(* The parts are inductive, the last three on what StoryInv says of the    *)
(* one leader.                                                             *)
LEMMA ClearHolds == Spec => []ClearInv
<1>1. Init => ClearInv
  <2> SUFFICES ASSUME Init PROVE ClearInv
    OBVIOUS
  <2>1. /\ \A i \in Replica : det[i] = NewDetector
        /\ snap = NoSnap /\ leading = {} /\ measured = 0 /\ now = 0
    BY DEF Init
  <2>2. YardstickIsMarked
    BY <2>1, FreshDetector DEF YardstickIsMarked
  <2>3. BaselineIsStored /\ RebaseliningLearns
    BY <2>1, FreshDetector DEF BaselineIsStored, RebaseliningLearns
  <2>4. NothingMeasuredSince
    BY <2>1, FreshDetector DEF NothingMeasuredSince
  <2> QED  BY <2>2, <2>3, <2>4 DEF ClearInv
<1>2. TypeOK /\ (overlaps = 0 => StoryInv) /\ ClearInv /\ [Next]_vars => ClearInv'
  <2> SUFFICES ASSUME TypeOK, overlaps = 0 => StoryInv, ClearInv, [Next]_vars
               PROVE  ClearInv'
    OBVIOUS
  <2>0. /\ YardstickIsMarked /\ BaselineIsStored /\ RebaseliningLearns /\ NothingMeasuredSince
        /\ overlaps = 0 => OneLeader
    BY DEF ClearInv, StoryInv
  <2>a. (overlaps' = 0 => overlaps = 0) /\ (deposals' = 0 => deposals = 0)
    BY OverlapsCount, DeposalsCount
  <2>b. /\ now \in Nat /\ measured \in Nat
        /\ \A j \in Replica : /\ det[j] \in Detector /\ det[j].bucket \in Nat
                              /\ det[j].trig \in Trigger /\ det[j].trig.unobserved \in Nat
    <3>1. now \in Nat /\ measured \in Nat /\ \A j \in Replica : det[j] \in Detector
      BY DEF TypeOK
    <3>2. \A d \in Detector : d.bucket \in Nat /\ d.trig \in Trigger
      BY DEF Detector
    <3>3. \A t \in Trigger : t.unobserved \in Nat
      BY DEF Trigger
    <3> QED  BY <3>1, <3>2, <3>3
  <2>1. CASE UNCHANGED vars
    BY <2>1 DEF vars, redis, budgets, ClearInv, YardstickIsMarked, BaselineIsStored,
                RebaseliningLearns, NothingMeasuredSince
  <2>2. ASSUME NEW i \in Replica, Crash(i) PROVE ClearInv'
    <3>1. /\ det' = [det EXCEPT ![i] = NewDetector] /\ leading' = leading \ {i}
          /\ snap' = snap /\ measured' = measured /\ now' = now
          /\ overlaps' = overlaps /\ deposals' = deposals
      BY <2>2 DEF Crash, Exit, redis
    <3>2. det'[i] = NewDetector /\ \A j \in Replica : j # i => det'[j] = det[j]
      BY <3>1, PutAt
    <3>3. YardstickIsMarked'
      BY <2>0, <3>1, <3>2, FreshDetector DEF YardstickIsMarked
    <3>4. BaselineIsStored'
      BY <2>0, <3>1, <3>2 DEF BaselineIsStored, TypeOK
    <3>5. RebaseliningLearns'
      BY <2>0, <3>1, <3>2, FreshDetector DEF RebaseliningLearns
    <3>6. NothingMeasuredSince'
      BY <2>0, <3>1, <3>2, FreshDetector DEF NothingMeasuredSince
    <3> QED  BY <3>3, <3>4, <3>5, <3>6 DEF ClearInv
  <2>3. ASSUME NEW i \in Replica, Promote(i) PROVE ClearInv'
    <3>1. /\ i \notin leading /\ leading' = leading \cup {i} /\ (leading = {} \/ overlaps' # 0)
          /\ snap' = snap /\ measured' = measured /\ now' = now /\ deposals' = deposals
          /\ det' = [det EXCEPT ![i] = Restore(det[i])]
      <4>1. overlaps \in Nat
        BY DEF TypeOK
      <4> QED  BY <2>3, <4>1 DEF Promote, redis
    <3>2. det'[i] = Restore(det[i]) /\ \A j \in Replica : j # i => det'[j] = det[j]
      BY <3>1, PutAt
    <3>3. /\ det'[i].rebaselining = det[i].rebaselining /\ det'[i].bucket = det[i].bucket
          /\ \/ det'[i].trig = det[i].trig /\ det'[i].base = det[i].base /\ ~snap.exists
             \/ det'[i].trig = snap.trig /\ det'[i].base = snap.base
      <4>1. CASE snap.exists
        BY <2>b, <3>2, <4>1 DEF Restore, Detector
      <4>2. CASE ~snap.exists
        BY <3>2, <4>2 DEF Restore
      <4> QED  BY <4>1, <4>2
    <3>4. YardstickIsMarked'
      BY <2>0, <3>1, <3>2, <3>3, Zenon DEF YardstickIsMarked
    <3>5. BaselineIsStored'
      BY <2>0, <3>1, <3>3, Zenon DEF BaselineIsStored
    <3>6. RebaseliningLearns'
      <4> SUFFICES ASSUME deposals = 0, NEW j \in Replica
                   PROVE  /\ det'[j].rebaselining => ~det'[j].base.frozen
                          /\ j \notin leading' => ~det'[j].rebaselining
        BY <3>1 DEF RebaseliningLearns
      <4>0. \A k \in Replica : /\ det[k].rebaselining => ~det[k].base.frozen
                               /\ k \notin leading => ~det[k].rebaselining
        BY <2>0 DEF RebaseliningLearns
      <4>1. CASE j = i
        <5>0. i \notin leading
          BY <3>1
        <5>1. ~det[i].rebaselining
          BY <4>0, <5>0, Zenon
        <5>2. ~det'[i].rebaselining
          BY <3>3, <5>1, Zenon
        <5> QED  BY <4>1, <5>2
      <4>2. CASE j # i
        <5>1. det'[j] = det[j]
          BY <3>2, <4>2
        <5>2. j \notin leading' => j \notin leading
          BY <3>1
        <5>3. det[j].rebaselining => ~det[j].base.frozen
          BY <4>0, Zenon
        <5>4. j \notin leading => ~det[j].rebaselining
          BY <4>0, Zenon
        <5> QED  BY <5>1, <5>2, <5>3, <5>4, Zenon
      <4> QED  BY <4>1, <4>2
    <3>7. NothingMeasuredSince'
      <4>1. snap'.trig.unobserved = 0
        BY <2>0, <3>1 DEF NothingMeasuredSince
      <4>2. ASSUME deposals' = 0, overlaps' = 0
            PROVE  /\ measured' <= now'
                   /\ \A j \in Replica :
                        /\ j \notin leading' => det'[j].bucket = 0 /\ det'[j].trig.unobserved = 0
                        /\ det'[j].bucket # 0 => measured' <= det'[j].bucket
                        /\ det'[j].trig.unobserved # 0 => measured' <= det'[j].trig.unobserved
        <5>1. /\ measured <= now
              /\ \A j \in Replica :
                   /\ j \notin leading => det[j].bucket = 0 /\ det[j].trig.unobserved = 0
                   /\ det[j].bucket # 0 => measured <= det[j].bucket
                   /\ det[j].trig.unobserved # 0 => measured <= det[j].trig.unobserved
          BY <2>0, <2>a, <4>2 DEF NothingMeasuredSince
        <5>2. det'[i].bucket = 0 /\ det'[i].trig.unobserved = 0
          BY <3>1, <3>3, <4>1, <5>1
        <5> QED  BY <3>1, <3>2, <5>1, <5>2
      <4> QED  BY <4>1, <4>2 DEF NothingMeasuredSince
    <3> QED  BY <3>4, <3>5, <3>6, <3>7 DEF ClearInv
  <2>4. ASSUME NEW i \in Replica, StepDown(i) PROVE ClearInv'
    <3>1. /\ leading' = leading \ {i} /\ det' = det /\ snap' = snap /\ measured' = measured
          /\ now' = now /\ overlaps' = overlaps /\ deposals' # 0
      BY <2>4, DeposalsCount DEF StepDown, redis
    <3>2. YardstickIsMarked' /\ BaselineIsStored'
      BY <2>0, <3>1 DEF YardstickIsMarked, BaselineIsStored
    <3>3. RebaseliningLearns' /\ NothingMeasuredSince'
      BY <2>0, <3>1 DEF RebaseliningLearns, NothingMeasuredSince
    <3> QED  BY <3>2, <3>3 DEF ClearInv
  <2>5. ASSUME NEW i \in Replica, NEW m \in now..(now + MaxStep), 0 < m, m <= MaxMinute,
               OpenBucket(i, m)
        PROVE  ClearInv'
    <3>1. m \in Nat /\ now <= m
      BY <2>b, <2>5, TickType, DetectorAssumption
    <3>2. /\ i \in leading /\ leading' = leading /\ snap' = snap /\ measured' = measured
          /\ now' = m /\ overlaps' = overlaps /\ deposals' = deposals
          /\ det' = [det EXCEPT ![i] = [det[i] EXCEPT !.bucket = m]]
      BY <2>5 DEF OpenBucket, redis, budgets
    <3>3. det'[i] = [det[i] EXCEPT !.bucket = m] /\ \A j \in Replica : j # i => det'[j] = det[j]
      BY <3>2, PutAt
    <3>4. /\ det'[i].trig = det[i].trig /\ det'[i].base = det[i].base
          /\ det'[i].rebaselining = det[i].rebaselining /\ det'[i].bucket = m
      BY <2>b, <3>1, <3>3 DEF Detector
    <3>5. YardstickIsMarked' /\ BaselineIsStored'
      BY <2>0, <3>2, <3>3, <3>4, Zenon DEF YardstickIsMarked, BaselineIsStored, TypeOK
    <3>6. RebaseliningLearns'
      BY <2>0, <3>2, <3>3, <3>4, Zenon DEF RebaseliningLearns
    <3>7. NothingMeasuredSince'
      BY <2>0, <2>b, <3>1, <3>2, <3>3, <3>4 DEF NothingMeasuredSince
    <3> QED  BY <3>5, <3>6, <3>7 DEF ClearInv
  <2>6. ASSUME NEW i \in Replica, NEW m \in now..(now + MaxStep), 0 < m, m <= MaxMinute,
               NEW bar \in BarInput, Seal(i, m, bar)
        PROVE  ClearInv'
    <3>1. m \in Nat /\ now <= m /\ det[i].bucket < m /\ det[i].bucket # 0
      BY <2>b, <2>6, TickType, DetectorAssumption DEF Seal
    <3> DEFINE d == [det[i] EXCEPT !.bucket = m]
               ts == det[i].bucket
               res == Update(d, bar, ts)
    <3>2. /\ d \in Detector /\ ts \in Nat /\ d.trig = det[i].trig /\ d.base = det[i].base
          /\ d.bucket = m
      BY <2>b, <3>1 DEF Detector
    <3>3. d.rebaselining = det[i].rebaselining
      BY <2>b DEF Detector
    <3>4. Detects(d, res, ts) /\ Reads(d, res, bar.z, ts)
      <4> HIDE DEF d, ts
      <4> QED  BY <3>2, UpdateDetects, UpdateReads
    <3>5. /\ det' = [det EXCEPT ![i] = res.det] /\ Exec(res, bar, ts)
          /\ leading' = leading /\ i \in leading /\ now' = m
          /\ overlaps' = overlaps /\ deposals' = deposals
      BY <2>6 DEF Seal, CloseBucket, budgets
    <3>6. det'[i] = res.det /\ \A j \in Replica : j # i => det'[j] = det[j]
      <4> HIDE DEF d, ts, res
      <4> QED  BY <3>5, PutAt
    <3>7. Marked(d.trig, d.base) /\ (deposals = 0 => (d.rebaselining => ~d.base.frozen))
      <4>1. Marked(d.trig, d.base)
        BY <2>0, <3>2 DEF YardstickIsMarked
      <4>2. deposals = 0 => (d.rebaselining => ~d.base.frozen)
        <5>1. deposals = 0 => (det[i].rebaselining => ~det[i].base.frozen)
          BY <2>0, Zenon DEF RebaseliningLearns
        <5> HIDE DEF d
        <5> QED  BY <3>2, <3>3, <5>1, Zenon
      <4> QED  BY <4>1, <4>2
    <3>t. ts = det[i].bucket
      OBVIOUS
    <3> HIDE DEF d, ts, res
    <3>8. /\ Marked(res.det.trig, res.det.base) /\ Marked(snap'.trig, snap'.base)
          /\ snap'.trig.unobserved = 0 /\ snap'.base = res.det.base
      BY <3>2, <3>4, <3>5, <3>7, ExecStores
    <3>9. YardstickIsMarked'
      BY <2>0, <3>6, <3>8 DEF YardstickIsMarked
    <3>10. BaselineIsStored'
      BY <2>0, <3>5, <3>6, <3>8 DEF BaselineIsStored, OneLeader
    <3>11. RebaseliningLearns'
      <4>1. deposals = 0 => (res.det.rebaselining => ~res.det.base.frozen)
        BY <3>4, <3>7, SealLearns
      <4> QED  BY <2>0, <3>5, <3>6, <4>1, Zenon DEF RebaseliningLearns
    <3>12. NothingMeasuredSince'
      <4>1. ASSUME deposals' = 0, overlaps' = 0
            PROVE  /\ measured' <= now'
                   /\ \A j \in Replica :
                        /\ j \notin leading' => det'[j].bucket = 0 /\ det'[j].trig.unobserved = 0
                        /\ det'[j].bucket # 0 => measured' <= det'[j].bucket
                        /\ det'[j].trig.unobserved # 0 => measured' <= det'[j].trig.unobserved
        <5>1. /\ measured <= ts /\ (d.trig.unobserved # 0 => measured <= d.trig.unobserved)
              /\ \A j \in Replica :
                   j \notin leading => det[j].bucket = 0 /\ det[j].trig.unobserved = 0
          BY <2>0, <3>1, <3>2, <3>5, <3>t, <4>1 DEF NothingMeasuredSince
        <5>2. /\ measured' <= ts
              /\ res.det.trig.unobserved # 0 => measured' <= res.det.trig.unobserved
          BY <2>b, <3>2, <3>4, <3>5, <5>1, ExecMeasures
        <5>3. measured' \in Nat
          BY <2>b, <3>2, <3>5 DEF Exec
        <5>4. res.det.bucket = m /\ measured' <= m
          BY <3>1, <3>2, <3>4, <3>t, <5>2, <5>3 DEF Reads
        <5>5. \A j \in Replica : j # i => j \notin leading
          BY <2>0, <3>5, <4>1 DEF OneLeader
        <5> QED  BY <3>5, <3>6, <5>1, <5>2, <5>4, <5>5
      <4> QED  BY <3>8, <4>1 DEF NothingMeasuredSince
    <3> QED  BY <3>9, <3>10, <3>11, <3>12 DEF ClearInv
  <2>7. ASSUME NEW i \in Replica, NEW m \in now..(now + MaxStep), 0 < m, m <= MaxMinute,
               NEW bar \in BarInput, SealFails(i, m, bar)
        PROVE  ClearInv'
    <3>1. m \in Nat /\ det[i].bucket < m /\ det[i].bucket # 0
      BY <2>b, <2>7, TickType DEF SealFails
    <3> DEFINE d == det[i]
               ts == d.bucket
               res == Update(d, bar, ts)
    <3>2. d \in Detector /\ ts \in Nat
      BY <2>b
    <3>3. Detects(d, res, ts) /\ Reads(d, res, bar.z, ts)
      BY <3>2, UpdateDetects, UpdateReads
    <3>4. /\ det' = [det EXCEPT ![i] = NewDetector] /\ Exec(res, bar, ts)
          /\ leading' = leading \ {i} /\ i \in leading /\ now' = m
          /\ overlaps' = overlaps /\ deposals' = deposals
      BY <2>7 DEF SealFails, Exit
    <3>5. det'[i] = NewDetector /\ \A j \in Replica : j # i => det'[j] = det[j]
      BY <3>4, PutAt
    <3>6. Marked(d.trig, d.base)
      BY <2>0 DEF YardstickIsMarked
    <3>t. ts = det[i].bucket /\ d = det[i]
      OBVIOUS
    <3> HIDE DEF d, ts, res
    <3>7. Marked(snap'.trig, snap'.base) /\ snap'.trig.unobserved = 0
      BY <3>2, <3>3, <3>4, <3>6, ExecStores
    <3>8. YardstickIsMarked'
      BY <2>0, <3>5, <3>7, FreshDetector DEF YardstickIsMarked
    <3>9. BaselineIsStored'
      BY <2>0, <3>4 DEF BaselineIsStored, OneLeader
    <3>10. RebaseliningLearns'
      BY <2>0, <3>4, <3>5, FreshDetector DEF RebaseliningLearns
    <3>11. NothingMeasuredSince'
      <4>1. ASSUME deposals' = 0, overlaps' = 0
            PROVE  /\ measured' <= now'
                   /\ \A j \in Replica :
                        /\ j \notin leading' => det'[j].bucket = 0 /\ det'[j].trig.unobserved = 0
                        /\ det'[j].bucket # 0 => measured' <= det'[j].bucket
                        /\ det'[j].trig.unobserved # 0 => measured' <= det'[j].trig.unobserved
        <5>1. /\ measured <= ts
              /\ \A j \in Replica :
                   j \notin leading => det[j].bucket = 0 /\ det[j].trig.unobserved = 0
          BY <2>0, <3>1, <3>4, <3>t, <4>1 DEF NothingMeasuredSince
        <5>2. measured' = ts \/ measured' = measured
          BY <3>4 DEF Exec
        <5>3. measured' <= m
          BY <2>b, <3>1, <3>t, <5>1, <5>2
        <5>4. \A j \in Replica : j # i => j \notin leading
          BY <2>0, <3>4, <4>1 DEF OneLeader
        <5> QED  BY <3>4, <3>5, <5>1, <5>3, <5>4, FreshDetector
      <4> QED  BY <3>7, <4>1 DEF NothingMeasuredSince
    <3> QED  BY <3>8, <3>9, <3>10, <3>11 DEF ClearInv
  <2> QED  BY <2>1, <2>2, <2>3, <2>4, <2>5, <2>6, <2>7 DEF Next
<1> QED  BY <1>1, <1>2, TypeCorrect, StoryHolds, PTL DEF Spec

(* Only a sealed bar of i changes the minute i sealed last, unless i dies. *)
LEMMA SealedBySeal ==
    ASSUME TypeOK, Next, NEW i \in Replica, det'[i].lastSealed # det[i].lastSealed,
           det'[i].contiguous > RearmBars
    PROVE  \E m \in now..(now + MaxStep), bar \in BarInput :
              0 < m /\ m <= MaxMinute /\ Seal(i, m, bar)
<1>1. RearmBars \in Nat /\ ~(NewDetector.contiguous > RearmBars)
  BY FreshDetector, DetectorAssumption
<1>2. det[i] \in Detector
  BY DEF TypeOK
<1>3. ASSUME NEW j \in Replica, NEW d, det' = [det EXCEPT ![j] = d]
      PROVE  j = i /\ det'[i] = d
  BY <1>3, PutAt
<1>4. ASSUME NEW j \in Replica, Exit(j) PROVE FALSE
  <2>1. det' = [det EXCEPT ![j] = NewDetector]
    BY <1>4 DEF Exit
  <2> QED  BY <1>1, <1>3, <2>1
<1>5. ASSUME NEW j \in Replica, Promote(j) PROVE FALSE
  <2>1. det' = [det EXCEPT ![j] = Restore(det[j])]
    BY <1>5 DEF Promote
  <2>2. det'[i] = Restore(det[i])
    BY <1>3, <2>1
  <2> QED  BY <1>2, <2>2 DEF Restore, Detector
<1>6. ASSUME NEW j \in Replica, StepDown(j) PROVE FALSE
  BY <1>6 DEF StepDown
<1>7. ASSUME NEW j \in Replica, NEW m, OpenBucket(j, m) PROVE FALSE
  <2>1. det' = [det EXCEPT ![j] = [det[j] EXCEPT !.bucket = m]]
    BY <1>7 DEF OpenBucket
  <2>2. det'[i] = [det[i] EXCEPT !.bucket = m]
    BY <1>3, <2>1
  <2> QED  BY <1>2, <2>2 DEF Detector
<1>8. ASSUME NEW j \in Replica, NEW m, NEW bar, Seal(j, m, bar) PROVE j = i
  <2>1. \E d : det' = [det EXCEPT ![j] = d]
    BY <1>8 DEF Seal, CloseBucket
  <2> QED  BY <1>3, <2>1
<1> QED  BY <1>4, <1>5, <1>6, <1>7, <1>8 DEF Next, Crash, SealFails

(* The freeze is bounded: update() of a bar thaw_after or more into the    *)
(* event leaves the baseline learning, whatever was restored before it.    *)
(* TriggerConfig does not refuse thaw_after = 0, with which the escalating *)
(* bar would itself be late; its default is hours, and the theorem is for  *)
(* any that is not 0.                                                      *)
THEOREM FreezeEnds ==
    ASSUME ThawAfter # 0
    PROVE  Spec => FreezeIsBounded
<1> DEFINE Thaws ==
      deposals = 0 =>
        \A i \in Replica :
            LET d == det'[i]
            IN d.lastSealed # det[i].lastSealed /\ d.contiguous > RearmBars
               /\ baseline_should_thaw(d.trig, d.lastSealed) => ~d.base.frozen
<1>1. TypeOK /\ ClearInv /\ [Next]_vars => [Thaws]_vars
  <2> SUFFICES ASSUME TypeOK, ClearInv, Next, deposals = 0, NEW i \in Replica,
                      det'[i].lastSealed # det[i].lastSealed,
                      det'[i].contiguous > RearmBars,
                      baseline_should_thaw(det'[i].trig, det'[i].lastSealed)
               PROVE  ~det'[i].base.frozen
    BY Zenon DEF Thaws
  <2>1. PICK m \in now..(now + MaxStep), bar \in BarInput :
          0 < m /\ m <= MaxMinute /\ Seal(i, m, bar)
    BY SealedBySeal
  <2>2. m \in Nat /\ det[i] \in Detector
    BY <2>1, TickType DEF TypeOK
  <2> DEFINE d == [det[i] EXCEPT !.bucket = m]
             ts == det[i].bucket
             res == Update(d, bar, ts)
  <2>3. d \in Detector /\ ts \in Nat /\ d.base = det[i].base
    BY <2>2 DEF Detector
  <2>4. d.rebaselining = det[i].rebaselining
    BY <2>2 DEF Detector
  <2>5. Detects(d, res, ts) /\ Reads(d, res, bar.z, ts)
    <3> HIDE DEF d, ts
    <3> QED  BY <2>3, UpdateDetects, UpdateReads
  <2>6. det' = [det EXCEPT ![i] = res.det]
    BY <2>1 DEF Seal, CloseBucket
  <2> HIDE DEF d, ts, res
  <2>7. det'[i] = res.det /\ res.det.lastSealed = ts
    BY <2>5, <2>6, PutAt DEF Reads
  <2>8. d.rebaselining => ~d.base.frozen
    <3>1. det[i].rebaselining => ~det[i].base.frozen
      BY Zenon DEF ClearInv, RebaseliningLearns
    <3> QED  BY <2>3, <2>4, <3>1, Zenon
  <2>9. res.det.contiguous > RearmBars /\ baseline_should_thaw(res.det.trig, ts)
    BY <2>7
  <2>10. ~res.det.base.frozen
    BY <2>3, <2>5, <2>8, <2>9, SealThaws
  <2> QED  BY <2>7, <2>10, Zenon
<1> QED  BY <1>1, TypeCorrect, ClearHolds, PTL DEF Spec, FreezeIsBounded, Thaws

(* The stream grows by the MULTI of a bar the leader had open.             *)
LEMMA LoggedBySeal ==
    ASSUME TypeOK, Next, Len(log') > Len(log)
    PROVE  \E i \in leading, d \in Detector, bar \in BarInput :
              LET ts == det[i].bucket  res == Update(d, bar, ts)
              IN /\ d.trig = det[i].trig /\ d.base = det[i].base /\ ts # 0
                 /\ Exec(res, bar, ts)
<1>1. leading \subseteq Replica /\ \A i \in Replica : det[i] \in Detector
  BY DEF TypeOK
<1>2. log' # log
  <2>1. Len(log) \in Nat
    BY LenProperties DEF TypeOK
  <2> QED  BY <2>1
<1>3. ASSUME NEW i \in Replica, Crash(i) \/ Promote(i) \/ StepDown(i) PROVE FALSE
  BY <1>2, <1>3 DEF Crash, Promote, StepDown, redis
<1>4. ASSUME NEW i \in Replica, NEW m, OpenBucket(i, m) PROVE FALSE
  BY <1>2, <1>4 DEF OpenBucket, redis
<1>5. ASSUME NEW i \in Replica, NEW m \in now..(now + MaxStep), 0 < m, m <= MaxMinute,
             NEW bar \in BarInput, Seal(i, m, bar)
      PROVE  \E d \in Detector :
                /\ i \in leading /\ d.trig = det[i].trig /\ d.base = det[i].base
                /\ det[i].bucket # 0 /\ Exec(Update(d, bar, det[i].bucket), bar, det[i].bucket)
  <2>1. m \in Nat
    BY <1>5, TickType
  <2>2. /\ i \in leading /\ det[i].bucket # 0
        /\ Exec(Update([det[i] EXCEPT !.bucket = m], bar, det[i].bucket), bar, det[i].bucket)
    BY <1>5 DEF Seal, CloseBucket
  <2> DEFINE d == [det[i] EXCEPT !.bucket = m]
  <2>3. d \in Detector /\ d.trig = det[i].trig /\ d.base = det[i].base
    BY <1>1, <2>1 DEF Detector
  <2>4. Exec(Update(d, bar, det[i].bucket), bar, det[i].bucket)
    BY <2>2
  <2> HIDE DEF d
  <2> QED  BY <2>2, <2>3, <2>4
<1>6. ASSUME NEW i \in Replica, NEW m, NEW bar \in BarInput, SealFails(i, m, bar)
      PROVE  /\ i \in leading /\ det[i].bucket # 0
             /\ Exec(Update(det[i], bar, det[i].bucket), bar, det[i].bucket)
  BY <1>6 DEF SealFails
<1>7. PICK i \in Replica, m \in now..(now + MaxStep), bar \in BarInput :
        0 < m /\ m <= MaxMinute /\ (Seal(i, m, bar) \/ SealFails(i, m, bar))
  BY <1>3, <1>4 DEF Next
<1>8. CASE Seal(i, m, bar)
  BY <1>5, <1>7, <1>8, Zenon
<1>9. CASE SealFails(i, m, bar)
  BY <1>1, <1>6, <1>9, Zenon
<1> QED  BY <1>7, <1>8, <1>9

(* The entry the MULTI of a bar appends.                                   *)
LEMMA ExecLogs ==
    ASSUME TypeOK, NEW d \in Detector, NEW res, NEW bar, NEW ts \in Nat,
           Detects(d, res, ts), Exec(res, bar, ts), Len(log') > Len(log)
    PROVE  /\ res.cause # "none"
           /\ log'[Len(log')].cause = res.cause
           /\ log'[Len(log')].new = res.det.trig.regime
           /\ log'[Len(log')].ts = ts
<1> DEFINE e == [seq |-> res.det.trig.seq, new |-> res.det.trig.regime,
                 cause |-> res.cause, ts |-> ts]
           Entry == [seq : Nat, new : Regime, cause : Cause, ts : Nat]
<1>1. log' = IF res.cause = "none" THEN log ELSE Append(log, e)
  BY DEF Exec
<1>2. log \in Seq(Entry) /\ Len(log) \in Nat
  BY LenProperties DEF TypeOK
<1>3. res.cause # "none"
  BY <1>1, <1>2
<1>4. e \in Entry
  BY <1>3 DEF Detects, Turned, Trigger
<1>5. e.cause = res.cause /\ e.new = res.det.trig.regime /\ e.ts = ts
  OBVIOUS
<1> HIDE DEF e, Entry
<1>6. log'[Len(log')] = e
  BY <1>1, <1>2, <1>3, <1>4, AppendProperties
<1> QED  BY <1>3, <1>5, <1>6

(* A clear tagged THRESHOLD was measured against a yardstick that had not  *)
(* moved since the escalation.                                             *)
THEOREM ThresholdIsTheMarket == Spec => ThresholdMeansMarketMoved
<1>1. TypeOK /\ (overlaps = 0 => StoryInv) /\ ClearInv /\ [Next]_vars
        => [Cleared("threshold") /\ overlaps = 0 => ~snap.base.relearned]_vars
  <2> SUFFICES ASSUME TypeOK, StoryInv, ClearInv, Next, Cleared("threshold"), overlaps = 0
               PROVE  ~snap.base.relearned
    OBVIOUS
  <2>1. PICK i \in leading, d \in Detector, bar \in BarInput :
          /\ d.trig = det[i].trig /\ d.base = det[i].base
          /\ Exec(Update(d, bar, det[i].bucket), bar, det[i].bucket)
    BY LoggedBySeal DEF Cleared
  <2>2. i \in Replica /\ det[i] \in Detector
    BY DEF TypeOK
  <2> DEFINE ts == det[i].bucket
             res == Update(d, bar, ts)
  <2>3. ts \in Nat
    BY <2>2 DEF Detector
  <2>4. Detects(d, res, ts) /\ Reads(d, res, bar.z, ts) /\ Exec(res, bar, ts)
    <3>1. Exec(res, bar, ts)
      BY <2>1
    <3> HIDE DEF ts
    <3> QED  BY <2>3, <3>1, UpdateDetects, UpdateReads
  <2> HIDE DEF ts, res
  <2>5. res.cause = "threshold" /\ res.det.trig.regime = "normal"
    BY <2>3, <2>4, ExecLogs DEF Cleared
  <2>6. Marked(d.trig, d.base)
    BY <2>1, <2>2 DEF ClearInv, YardstickIsMarked
  <2>7. ~d.base.relearned
    BY <2>3, <2>4, <2>5, <2>6, SealMeansThreshold
  <2>8. CASE snap.exists
    <3>1. det[i].base = snap.base
      BY <2>8 DEF ClearInv, BaselineIsStored
    <3> QED  BY <2>1, <2>7, <3>1, Zenon
  <2>9. CASE ~snap.exists
    <3>1. snap = NoSnap
      BY <2>9 DEF StoryInv, LeaderAgrees
    <3> QED  BY <3>1, FreshDetector, Zenon
  <2> QED  BY <2>8, <2>9
<1> QED  BY <1>1, TypeCorrect, StoryHolds, ClearHolds, PTL DEF Spec, ThresholdMeansMarketMoved

(* A clear tagged OBSERVATION_LOST ends observation_timeout minutes of     *)
(* which no leader has evaluated a bar.                                    *)
THEOREM LostIsBlind == Spec => ObservationLostMeansBlind
<1>1. TypeOK /\ ClearInv /\ [Next]_vars
        => [Cleared("observation_lost") /\ deposals = 0 /\ overlaps = 0
              => log'[Len(log')].ts - measured >= ObservationTimeout]_vars
  <2> SUFFICES ASSUME TypeOK, ClearInv, Next, Cleared("observation_lost"),
                      deposals = 0, overlaps = 0
               PROVE  log'[Len(log')].ts - measured >= ObservationTimeout
    OBVIOUS
  <2>1. PICK i \in leading, d \in Detector, bar \in BarInput :
          /\ d.trig = det[i].trig /\ det[i].bucket # 0
          /\ Exec(Update(d, bar, det[i].bucket), bar, det[i].bucket)
    BY LoggedBySeal DEF Cleared
  <2>2. i \in Replica /\ det[i] \in Detector
    BY DEF TypeOK
  <2> DEFINE ts == det[i].bucket
             res == Update(d, bar, ts)
  <2>3. ts \in Nat
    BY <2>2 DEF Detector
  <2>4. Detects(d, res, ts) /\ Reads(d, res, bar.z, ts) /\ Exec(res, bar, ts)
    <3>1. Exec(res, bar, ts)
      BY <2>1
    <3> HIDE DEF ts
    <3> QED  BY <2>3, <3>1, UpdateDetects, UpdateReads
  <2>5. measured <= ts /\ (d.trig.unobserved # 0 => measured <= d.trig.unobserved)
    BY <2>1, <2>2 DEF ClearInv, NothingMeasuredSince
  <2> HIDE DEF ts, res
  <2>6. res.cause = "observation_lost" /\ log'[Len(log')].ts = ts
    BY <2>3, <2>4, ExecLogs DEF Cleared
  <2>7. /\ res.det.trig.unobserved = (IF d.trig.unobserved = 0 THEN ts ELSE d.trig.unobserved)
        /\ ts - res.det.trig.unobserved >= ObservationTimeout
    BY <2>3, <2>4, <2>6, SealIsTimed
  <2>8. measured \in Nat /\ d.trig.unobserved \in Nat /\ ObservationTimeout \in Nat
    BY TriggerAssumption DEF TypeOK, Detector, Trigger
  <2> QED  BY <2>3, <2>5, <2>6, <2>7, <2>8
<1> QED  BY <1>1, TypeCorrect, ClearHolds, PTL DEF Spec, ObservationLostMeansBlind

============================================================================
