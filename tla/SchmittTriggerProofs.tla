------------------------ MODULE SchmittTriggerProofs ------------------------
(***************************************************************************)
(* The trigger's fields against the whole history it was fed, for any      *)
(* number of bars, any gaps between them, any failovers and any            *)
(* configuration TriggerConfig accepts.                                    *)
(***************************************************************************)
EXTENDS SchmittTrigger, SequenceTheorems, TLAPS

USE TriggerAssumption

---------------------------------------------------------------------------
(* What one update() does to the fields, case by case.                     *)

Sign(target) == IF target = "stressed" THEN "high" ELSE "low"

(* The samples and the beginning of the candidate a bar at ts makes.       *)
Fresh(t, ts)   == t.cand = "none" \/ ChainBroken(t, ts)
Samples(t, ts) == IF Fresh(t, ts) THEN 1 ELSE t.candSamples + 1
Since(t, ts)   == IF Fresh(t, ts) THEN ts ELSE t.candSince

WellFormed(t) ==
    /\ t \in Trigger
    /\ t.cand = "none" <=> t.candSamples = 0
    /\ t.cand # t.regime

NoCandidate(u) == u.cand = "none" /\ u.candSamples = 0

(* hold() without and with OBSERVATION_LOST.                               *)
HeldStep(t, u, z, ts) ==
    /\ z = "none" /\ NoCandidate(u)
    /\ u.lastEscalation = t.lastEscalation
    /\ u.unobserved = (IF t.unobserved = 0 THEN ts ELSE t.unobserved)

HeldQuietly(t, u, z, ts, cause) ==
    /\ HeldStep(t, u, z, ts)
    /\ cause = "none" /\ u.regime = t.regime
    /\ t.regime = "stressed" => ts - u.unobserved < ObservationTimeout

LostSight(t, u, z, ts, cause) ==
    /\ HeldStep(t, u, z, ts)
    /\ cause = "observation_lost" /\ t.regime = "stressed" /\ u.regime = "normal"
    /\ ts - u.unobserved >= ObservationTimeout

(* A score that speaks for the regime the trigger is in.                   *)
Confirming(t, u, z, ts, cause) ==
    /\ z \in Score /\ z # Sign(Other(t.regime))
    /\ cause = "none" /\ u.regime = t.regime /\ NoCandidate(u)
    /\ u.lastEscalation = t.lastEscalation /\ u.unobserved = 0

(* One that speaks for the other: counted, or enough.                      *)
Counted(t, u, z, ts, cause) ==
    /\ z = Sign(Other(t.regime))
    /\ cause = "none" /\ u.regime = t.regime /\ u.cand = Other(t.regime)
    /\ u.candSamples = Samples(t, ts) /\ u.candSince = Since(t, ts)
    /\ u.lastSample = ts
    /\ u.lastEscalation = t.lastEscalation /\ u.unobserved = 0
    /\ Confirmed(u, ts) => Cooling(u, u.cand, ts)

Committed(t, u, z, ts, cause) ==
    /\ z = Sign(Other(t.regime))
    /\ cause \in Cause \ {"observation_lost"}
    /\ u.regime = Other(t.regime) /\ NoCandidate(u)
    /\ Samples(t, ts) >= MinConfirmSamples /\ ts - Since(t, ts) >= ConfirmFor
    /\ u.lastEscalation = (IF u.regime = "stressed" THEN ts ELSE t.lastEscalation)
    /\ u.regime = "stressed" =>
          t.lastEscalation = 0 \/ ts - t.lastEscalation >= Cooldown
    /\ u.unobserved = 0

(* restore(): the regime and the last escalation, and nothing else.        *)
Restored(t, u, z, ts, cause) ==
    /\ z = "failover"
    /\ cause = "none" /\ u.regime = t.regime /\ NoCandidate(u)
    /\ u.lastEscalation = t.lastEscalation /\ u.unobserved = 0

Outcome(t, u, z, ts, cause) ==
    \/ HeldQuietly(t, u, z, ts, cause)
    \/ LostSight(t, u, z, ts, cause)
    \/ Confirming(t, u, z, ts, cause)
    \/ Counted(t, u, z, ts, cause)
    \/ Committed(t, u, z, ts, cause)
    \/ Restored(t, u, z, ts, cause)

(* reset_candidate touches the candidate only.                             *)
LEMMA ResetOnly ==
    ASSUME NEW t \in Trigger
    PROVE  /\ reset_candidate(t) \in Trigger
           /\ NoCandidate(reset_candidate(t))
           /\ reset_candidate(t).regime = t.regime
           /\ reset_candidate(t).lastSample = t.lastSample
           /\ reset_candidate(t).lastEscalation = t.lastEscalation
           /\ reset_candidate(t).unobserved = t.unobserved
BY DEF reset_candidate, Trigger, Regime, NoCandidate

(* commit changes regime, drops the candidate and notes an escalation.     *)
LEMMA CommitOnly ==
    ASSUME NEW t \in Trigger, NEW target \in Regime, NEW ts \in Nat
    PROVE  /\ commit(t, target, ts) \in Trigger
           /\ NoCandidate(commit(t, target, ts))
           /\ commit(t, target, ts).regime = target
           /\ commit(t, target, ts).lastEscalation =
                (IF target = "stressed" THEN ts ELSE t.lastEscalation)
           /\ commit(t, target, ts).unobserved = t.unobserved
<1> DEFINE r == reset_candidate(t)
           c == commit(t, target, ts)
<1>1. /\ r \in Trigger /\ NoCandidate(r) /\ r.lastSample = t.lastSample
      /\ r.lastEscalation = t.lastEscalation /\ r.unobserved = t.unobserved
  BY ResetOnly
<1>2. c = [r EXCEPT !.regime = target, !.seq = r.seq + 1, !.since = ts, !.thawed = FALSE,
                  !.lastEscalation = IF target = "stressed" THEN ts ELSE r.lastEscalation]
  BY DEF commit
<1> HIDE DEF r
<1>3. c = [regime |-> target, seq |-> r.seq + 1, since |-> ts,
           cand |-> r.cand, candSince |-> r.candSince, candSamples |-> r.candSamples,
           lastSample |-> r.lastSample,
           lastEscalation |-> IF target = "stressed" THEN ts ELSE r.lastEscalation,
           unobserved |-> r.unobserved, thawed |-> FALSE]
  BY <1>1, <1>2 DEF Trigger
<1>4. /\ r.seq \in Nat /\ r.cand \in Regime \cup {"none"} /\ r.candSince \in Nat
      /\ r.candSamples \in Nat /\ r.lastSample \in Nat /\ r.lastEscalation \in Nat
      /\ r.unobserved \in Nat
  BY <1>1 DEF Trigger
<1>5. c \in Trigger
  BY <1>3, <1>4 DEF Trigger
<1>6. /\ c.regime = target /\ c.cand = r.cand /\ c.candSamples = r.candSamples
      /\ c.lastEscalation = (IF target = "stressed" THEN ts ELSE r.lastEscalation)
      /\ c.unobserved = r.unobserved
  BY <1>3
<1> HIDE DEF c
<1>7. NoCandidate(c) /\ c.unobserved = t.unobserved
      /\ c.lastEscalation = (IF target = "stressed" THEN ts ELSE t.lastEscalation)
  BY <1>1, <1>6 DEF NoCandidate
<1> QED  BY <1>5, <1>6, <1>7 DEF c

(* A bar that cannot be evaluated.                                         *)
LEMMA HoldOutcome ==
    ASSUME NEW t, WellFormed(t), NEW ts \in Nat
    PROVE  /\ WellFormed(hold(t, ts).trig)
           /\ \/ HeldQuietly(t, hold(t, ts).trig, "none", ts, hold(t, ts).cause)
              \/ LostSight(t, hold(t, ts).trig, "none", ts, hold(t, ts).cause)
<1> DEFINE r == reset_candidate(t)
           first == IF r.unobserved = 0 THEN ts ELSE r.unobserved
           held == [r EXCEPT !.unobserved = first]
           lost == t.regime = "stressed" /\ ts - held.unobserved >= ObservationTimeout
           c == commit(held, "normal", ts)
<1>1. t \in Trigger
  BY DEF WellFormed
<1>2. r \in Trigger
  BY <1>1, ResetOnly
<1>3. /\ NoCandidate(r) /\ r.regime = t.regime
      /\ r.lastEscalation = t.lastEscalation /\ r.unobserved = t.unobserved
  BY <1>1, ResetOnly
<1>4. first \in Nat /\ first = (IF t.unobserved = 0 THEN ts ELSE t.unobserved)
  <2> HIDE DEF r
  <2> QED  BY <1>1, <1>3 DEF Trigger
<1>5. hold(t, ts) = IF lost THEN [trig |-> c, cause |-> "observation_lost"] ELSE Quiet(held)
  BY DEF hold
<1> HIDE DEF r, first
<1>6. held \in Trigger
  BY <1>2, <1>4 DEF Trigger
<1>7. /\ held.cand = "none" /\ held.candSamples = 0 /\ held.regime = t.regime
      /\ held.lastEscalation = t.lastEscalation /\ held.unobserved = first
  BY <1>2, <1>3 DEF Trigger, NoCandidate
<1> HIDE DEF held
<1>8. c \in Trigger /\ c.regime = "normal" /\ NoCandidate(c)
      /\ c.lastEscalation = held.lastEscalation /\ c.unobserved = held.unobserved
  BY <1>6, CommitOnly DEF Regime
<1>9. held.regime \in Regime
  BY <1>6 DEF Trigger
<1> HIDE DEF c
<1>10. CASE ~lost
  <2>1. hold(t, ts).trig = held /\ hold(t, ts).cause = "none"
    BY <1>5, <1>10 DEF Quiet
  <2>2. held.unobserved \in Nat /\ ObservationTimeout \in Nat
    BY <1>4, <1>7
  <2>3. t.regime = "stressed" => ts - held.unobserved < ObservationTimeout
    BY <1>10, <2>2
  <2>4. HeldStep(t, held, "none", ts)
    BY <1>7, <1>4 DEF HeldStep, NoCandidate
  <2>5. WellFormed(held)
    BY <1>6, <1>7, <1>9 DEF WellFormed, Regime
  <2> HIDE DEF lost
  <2> QED  BY <2>1, <2>3, <2>4, <2>5, <1>7 DEF HeldQuietly
<1>11. CASE lost
  <2>1. hold(t, ts).trig = c /\ hold(t, ts).cause = "observation_lost"
    BY <1>5, <1>11
  <2>4. HeldStep(t, c, "none", ts)
    BY <1>7, <1>8, <1>4 DEF HeldStep, NoCandidate
  <2>5. WellFormed(c)
    BY <1>8 DEF WellFormed, NoCandidate
  <2> QED  BY <2>1, <2>4, <2>5, <1>8, <1>11 DEF LostSight
<1> QED  BY <1>10, <1>11

(* A bar that is noted: seen now, and no longer unobserved.                *)
Noted(r, ts) == [r EXCEPT !.unobserved = 0, !.lastSample = ts]

(* The trigger once a score at ts was chained and noted.                   *)
Seen(t, ts) == Noted(IF ChainBroken(t, ts) THEN reset_candidate(t) ELSE t, ts)

(* Noting a bar touches those two fields only.                             *)
LEMMA NoteFields ==
    ASSUME NEW r \in Trigger, NEW ts \in Nat
    PROVE  LET s == Noted(r, ts)
           IN /\ s \in Trigger
              /\ s.regime = r.regime /\ s.lastEscalation = r.lastEscalation
              /\ s.unobserved = 0 /\ s.lastSample = ts
              /\ s.cand = r.cand /\ s.candSamples = r.candSamples
              /\ s.candSince = r.candSince
<1> DEFINE s == Noted(r, ts)
<1>1. s \in Trigger
  BY DEF Trigger, Noted
<1>2. /\ s.regime = r.regime /\ s.lastEscalation = r.lastEscalation
      /\ s.unobserved = 0 /\ s.lastSample = ts
      /\ s.cand = r.cand /\ s.candSamples = r.candSamples
      /\ s.candSince = r.candSince
  BY DEF Trigger, Noted
<1> QED  BY <1>1, <1>2

(* The trigger after the chain was checked and the bar was noted.          *)
LEMMA SeenFields ==
    ASSUME NEW t, WellFormed(t), NEW ts \in Nat, NEW seen, seen = Seen(t, ts)
    PROVE  /\ seen \in Trigger
           /\ seen.regime = t.regime /\ seen.lastEscalation = t.lastEscalation
           /\ seen.unobserved = 0 /\ seen.lastSample = ts
           /\ ChainBroken(t, ts) => NoCandidate(seen)
           /\ ~ChainBroken(t, ts) => /\ seen.cand = t.cand /\ seen.candSince = t.candSince
                                     /\ seen.candSamples = t.candSamples
<1> DEFINE r == reset_candidate(t)
<1>1. t \in Trigger
  BY DEF WellFormed
<1>2. CASE ChainBroken(t, ts)
  <2>1. /\ r \in Trigger /\ NoCandidate(r) /\ r.regime = t.regime
        /\ r.lastEscalation = t.lastEscalation
    BY <1>1, ResetOnly
  <2>2. seen = Noted(r, ts)
    BY <1>2 DEF Seen
  <2> HIDE DEF r
  <2>3. /\ seen \in Trigger
        /\ seen.regime = r.regime /\ seen.lastEscalation = r.lastEscalation
        /\ seen.unobserved = 0 /\ seen.lastSample = ts
        /\ seen.cand = r.cand /\ seen.candSamples = r.candSamples
    BY <2>1, <2>2, NoteFields
  <2> QED  BY <1>2, <2>1, <2>3 DEF NoCandidate
<1>3. CASE ~ChainBroken(t, ts)
  <2>2. seen = Noted(t, ts)
    BY <1>3 DEF Seen
  <2>3. /\ seen \in Trigger
        /\ seen.regime = t.regime /\ seen.lastEscalation = t.lastEscalation
        /\ seen.unobserved = 0 /\ seen.lastSample = ts
        /\ seen.cand = t.cand /\ seen.candSamples = t.candSamples
        /\ seen.candSince = t.candSince
    BY <1>1, <2>2, NoteFields
  <2> QED  BY <1>3, <2>3
<1> QED  BY <1>2, <1>3

(* A bar with a score.                                                     *)
LEMMA EvaluateOutcome ==
    ASSUME NEW t, WellFormed(t), NEW ts \in Nat, NEW z \in Score
    PROVE  /\ WellFormed(Evaluate(t, z, ts).trig)
           /\ \/ Confirming(t, Evaluate(t, z, ts).trig, z, ts, Evaluate(t, z, ts).cause)
              \/ Counted(t, Evaluate(t, z, ts).trig, z, ts, Evaluate(t, z, ts).cause)
              \/ Committed(t, Evaluate(t, z, ts).trig, z, ts, Evaluate(t, z, ts).cause)
<1> DEFINE seen == Seen(t, ts)
           target == target_regime(t, z)
           res == Evaluate(t, z, ts)
<1>1. t \in Trigger /\ t.regime \in Regime /\ t.cand \in Regime \cup {"none"}
      /\ t.candSamples \in Nat /\ t.candSince \in Nat
      /\ (t.cand = "none" \/ t.cand = Other(t.regime))
  BY DEF WellFormed, Trigger, Regime, Other
<1>2. /\ seen \in Trigger
      /\ seen.regime = t.regime /\ seen.lastEscalation = t.lastEscalation
      /\ seen.unobserved = 0 /\ seen.lastSample = ts
      /\ ChainBroken(t, ts) => NoCandidate(seen)
      /\ ~ChainBroken(t, ts) => /\ seen.cand = t.cand /\ seen.candSince = t.candSince
                                /\ seen.candSamples = t.candSamples
  BY SeenFields
<1>3. res = IF target = t.regime THEN Quiet(reset_candidate(seen))
                                 ELSE accumulate(seen, target, ts)
  BY DEF Evaluate, Seen, Noted
<1>4. /\ target \in Regime
      /\ target = t.regime <=> z # Sign(Other(t.regime))
      /\ target # t.regime => target = Other(t.regime)
  BY <1>1 DEF target_regime, Sign, Other, Regime, Score
<1> HIDE DEF seen, target, res
<1>5. CASE target = t.regime
  <2> DEFINE r == reset_candidate(seen)
  <2>1. /\ r \in Trigger /\ NoCandidate(r) /\ r.regime = seen.regime
        /\ r.lastEscalation = seen.lastEscalation /\ r.unobserved = seen.unobserved
    BY <1>2, ResetOnly
  <2>2. res.trig = r /\ res.cause = "none"
    BY <1>3, <1>5 DEF Quiet
  <2> HIDE DEF r
  <2>3. WellFormed(r)
    BY <1>1, <1>2, <2>1 DEF WellFormed, NoCandidate, Regime
  <2>4. Confirming(t, r, z, ts, "none")
    BY <1>2, <1>4, <1>5, <2>1 DEF Confirming
  <2> QED  BY <2>2, <2>3, <2>4 DEF res
<1>6. CASE target # t.regime
  <2> DEFINE first == [seen EXCEPT !.cand = target, !.candSince = ts, !.candSamples = 1]
             more  == [seen EXCEPT !.candSamples = seen.candSamples + 1]
             grown == IF seen.cand # target THEN first ELSE more
             quiet == ~Confirmed(grown, ts) \/ Cooling(seen, target, ts)
             cause == IF target = "normal" /\ seen.thawed THEN "baseline_thaw" ELSE "threshold"
             c     == commit(grown, target, ts)
  <2>1. seen.cand # target <=> Fresh(t, ts)
    BY <1>1, <1>2, <1>4, <1>6 DEF Fresh, NoCandidate, Regime
  <2>2. /\ first \in Trigger /\ first.cand = target /\ first.candSamples = 1
        /\ first.candSince = ts /\ first.regime = seen.regime
        /\ first.lastEscalation = seen.lastEscalation
        /\ first.unobserved = seen.unobserved /\ first.lastSample = seen.lastSample
    BY <1>2, <1>4 DEF Trigger
  <2>3. /\ more \in Trigger /\ more.cand = seen.cand /\ more.candSamples = seen.candSamples + 1
        /\ more.candSince = seen.candSince /\ more.regime = seen.regime
        /\ more.lastEscalation = seen.lastEscalation
        /\ more.unobserved = seen.unobserved /\ more.lastSample = seen.lastSample
    BY <1>2 DEF Trigger
  <2>4. res = IF quiet THEN Quiet(grown) ELSE [trig |-> c, cause |-> cause]
    BY <1>3, <1>6 DEF accumulate
  <2>5. ~Fresh(t, ts) => seen.candSince = t.candSince /\ seen.candSamples = t.candSamples
    BY <1>2 DEF Fresh
  <2> HIDE DEF first, more, quiet, cause, c
  <2>6. /\ grown \in Trigger /\ grown.cand = target
        /\ grown.candSamples = Samples(t, ts) /\ grown.candSince = Since(t, ts)
        /\ grown.regime = t.regime /\ grown.lastEscalation = t.lastEscalation
        /\ grown.unobserved = 0 /\ grown.lastSample = ts
    <3>1. CASE Fresh(t, ts)
      BY <1>2, <2>1, <2>2, <3>1 DEF Samples, Since
    <3>2. CASE ~Fresh(t, ts)
      BY <1>2, <2>1, <2>3, <2>5, <3>2 DEF Samples, Since
    <3> QED  BY <3>1, <3>2
  <2>7. Samples(t, ts) \in Nat /\ Samples(t, ts) # 0 /\ Since(t, ts) \in Nat
    BY <1>1 DEF Samples, Since
  <2>8. t.lastEscalation \in Nat
    BY <1>1 DEF Trigger
  <2> HIDE DEF grown
  <2>9. CASE quiet
    <3>1. res.trig = grown /\ res.cause = "none"
      BY <2>4, <2>9 DEF Quiet
    <3>2. WellFormed(grown)
      BY <1>4, <1>6, <2>6, <2>7 DEF WellFormed, Regime
    <3>3. Cooling(seen, target, ts) <=> Cooling(grown, target, ts)
      BY <1>2, <2>6 DEF Cooling
    <3>4. Confirmed(grown, ts) => Cooling(grown, grown.cand, ts)
      BY <2>9, <3>3, <2>6 DEF quiet
    <3>5. Counted(t, grown, z, ts, "none")
      BY <1>4, <1>6, <2>6, <3>4 DEF Counted
    <3> QED  BY <3>1, <3>2, <3>5 DEF res
  <2>10. CASE ~quiet
    <3>1. res.trig = c /\ res.cause = cause
      BY <2>4, <2>10
    <3>2. /\ c \in Trigger /\ NoCandidate(c) /\ c.regime = target
          /\ c.lastEscalation = (IF target = "stressed" THEN ts ELSE grown.lastEscalation)
          /\ c.unobserved = grown.unobserved
      BY <1>4, <2>6, CommitOnly DEF c
    <3>3. WellFormed(c)
      BY <1>4, <3>2 DEF WellFormed, NoCandidate, Regime
    <3>4. cause \in Cause \ {"observation_lost"}
      BY DEF cause, Cause
    <3>5. Confirmed(grown, ts) /\ ~Cooling(seen, target, ts)
      BY <2>10 DEF quiet
    <3>6. Samples(t, ts) >= MinConfirmSamples /\ ts - Since(t, ts) >= ConfirmFor
      BY <3>5, <2>6 DEF Confirmed
    <3>7. target = "stressed" => t.lastEscalation = 0 \/ ts - t.lastEscalation >= Cooldown
      BY <3>5, <1>2, <2>8 DEF Cooling
    <3>8. Committed(t, c, z, ts, cause)
      BY <1>4, <1>6, <2>6, <3>2, <3>4, <3>6, <3>7 DEF Committed
    <3> QED  BY <3>1, <3>3, <3>8 DEF res
  <2> QED  BY <2>9, <2>10
<1> QED  BY <1>5, <1>6

(* One update(), whatever the bar.                                         *)
LEMMA UpdateOutcome ==
    ASSUME NEW t, WellFormed(t), NEW ts \in Nat, NEW z \in Score \cup {"none"}
    PROVE  /\ WellFormed(TriggerUpdate(t, z, ts).trig)
           /\ Outcome(t, TriggerUpdate(t, z, ts).trig, z, ts, TriggerUpdate(t, z, ts).cause)
<1>1. CASE z = "none"
  BY <1>1, HoldOutcome DEF TriggerUpdate, Outcome
<1>2. CASE z \in Score
  <2>1. TriggerUpdate(t, z, ts) = Evaluate(t, z, ts)
    BY <1>2 DEF TriggerUpdate, Score
  <2> QED  BY <1>2, <2>1, EvaluateOutcome DEF Outcome
<1> QED  BY <1>1, <1>2

(* A failover keeps the regime and the last escalation.                    *)
LEMMA RestoreOutcome ==
    ASSUME NEW t, WellFormed(t), NEW ts
    PROVE  /\ WellFormed(RestoreTrigger(t))
           /\ Outcome(t, RestoreTrigger(t), "failover", ts, "none")
<1> DEFINE u == RestoreTrigger(t)
<1>1. t \in Trigger
  BY DEF WellFormed
<1>2. /\ u.regime = t.regime /\ u.cand = "none" /\ u.candSamples = 0
      /\ u.lastEscalation = t.lastEscalation /\ u.unobserved = 0
  BY DEF RestoreTrigger, NewTrigger
<1>3. u \in Trigger
  BY <1>1 DEF Trigger, RestoreTrigger, NewTrigger, Regime
<1>4. t.regime \in Regime
  BY <1>1 DEF Trigger
<1> HIDE DEF u
<1>5. WellFormed(u) /\ NoCandidate(u)
  BY <1>2, <1>3, <1>4 DEF WellFormed, NoCandidate, Regime
<1> QED  BY <1>2, <1>5 DEF u, Outcome, Restored

---------------------------------------------------------------------------
(* What a bar at the end of the history changes, and what it does not.     *)

Fed == [ts : Nat, z : Score \cup {"none", "failover"}]

(* The history after one more bar.                                         *)
LEMMA Appended ==
    ASSUME Timeline, NEW b \in Fed, bars' = Append(bars, b), NEW n, n = Len(bars)
    PROVE  /\ n \in Nat /\ bars' \in Seq(Fed) /\ Len(bars') = n + 1
           /\ DOMAIN bars = 1..n /\ DOMAIN bars' = 1..(n + 1)
           /\ \A i \in 1..n : bars'[i] = bars[i] /\ bars[i] \in Fed
           /\ bars'[n + 1] = b
           /\ Now' = b.ts
<1>1. bars \in Seq(Fed)
  BY DEF Timeline, Fed
<1>2. /\ n \in Nat /\ bars' \in Seq(Fed) /\ Len(bars') = n + 1
      /\ DOMAIN bars = 1..n /\ DOMAIN bars' = 1..(n + 1)
      /\ \A i \in 1..n : bars'[i] = bars[i] /\ bars[i] \in Fed
      /\ bars'[n + 1] = b
  BY <1>1
<1>3. bars' # <<>>
  BY <1>2
<1>4. Now' = b.ts
  BY <1>2, <1>3 DEF Now
<1> QED  BY <1>2, <1>4

(* The last minute.                                                        *)
LEMMA NowFacts ==
    ASSUME Timeline
    PROVE  /\ Now \in Nat
           /\ \A i \in DOMAIN bars : bars[i].ts <= Now
           /\ Len(bars) # 0 => Now = bars[Len(bars)].ts
<1>1. bars \in Seq(Fed)
  BY DEF Timeline, Fed
<1>2. CASE bars = <<>>
  BY <1>2 DEF Now
<1>3. CASE bars # <<>>
  <2>1. Len(bars) \in DOMAIN bars
    BY <1>1, <1>3
  <2>2. Now = bars[Len(bars)].ts
    BY <1>3 DEF Now
  <2>3. \A i \in DOMAIN bars : i <= Len(bars)
    BY <1>1
  <2>4. bars[Len(bars)] \in Fed
    BY <1>1, <2>1
  <2> QED  BY <2>1, <2>2, <2>3, <2>4 DEF Timeline, Fed
<1> QED  BY <1>2, <1>3

(* A bar no earlier than the last keeps the time line.                     *)
LEMMA TimelineGrows ==
    ASSUME Timeline, NEW b \in Fed, bars' = Append(bars, b),
           Now <= b.ts, b.z # "failover" => b.ts # 0
    PROVE  Timeline'
<1>1. PICK n : n = Len(bars)
  OBVIOUS
<1>2. /\ n \in Nat /\ bars' \in Seq(Fed) /\ Len(bars') = n + 1
      /\ DOMAIN bars = 1..n /\ DOMAIN bars' = 1..(n + 1)
      /\ \A i \in 1..n : bars'[i] = bars[i] /\ bars[i] \in Fed
      /\ bars'[n + 1] = b
  BY <1>1, Appended
<1>3. Now \in Nat /\ \A i \in DOMAIN bars : bars[i].ts <= Now
  BY NowFacts
<1>4. b.ts \in Nat /\ \A i \in 1..n : bars[i].ts \in Nat
  BY <1>2 DEF Fed
<1>5. \A i, j \in DOMAIN bars' : i <= j => bars'[i].ts <= bars'[j].ts
  <2> SUFFICES ASSUME NEW i \in 1..(n + 1), NEW j \in 1..(n + 1), i <= j
               PROVE  bars'[i].ts <= bars'[j].ts
    BY <1>2
  <2>1. CASE j \in 1..n
    BY <1>2, <2>1 DEF Timeline
  <2>2. CASE j = n + 1 /\ i \in 1..n
    BY <1>2, <1>3, <1>4, <2>2
  <2>3. CASE j = n + 1 /\ i = n + 1
    BY <1>2, <1>4, <2>3
  <2> QED  BY <1>2, <2>1, <2>2, <2>3
<1>6. \A i \in DOMAIN bars' : bars'[i].z # "failover" => bars'[i].ts # 0
  <2> SUFFICES ASSUME NEW i \in 1..(n + 1), bars'[i].z # "failover" PROVE bars'[i].ts # 0
    BY <1>2
  <2>1. CASE i \in 1..n
    BY <1>2, <2>1 DEF Timeline
  <2>2. CASE i = n + 1
    BY <1>2, <2>2
  <2> QED  BY <1>2, <2>1, <2>2
<1> QED  BY <1>2, <1>5, <1>6 DEF Timeline, Fed

(* What the references say of the past stays said.                         *)
LEMMA PastStays ==
    ASSUME Timeline, NEW b \in Fed, bars' = Append(bars, b),
           NEW k \in DOMAIN bars, NEW j \in 1..k, NEW target
    PROVE  /\ Run(target, j, k)' <=> Run(target, j, k)
           /\ Evidence(target, j, k)' <=> Evidence(target, j, k)
           /\ Silent(j, k)' <=> Silent(j, k)
           /\ Blind(j, k)' <=> Blind(j, k)
<1>1. PICK n : n = Len(bars)
  OBVIOUS
<1>2. n \in Nat /\ DOMAIN bars = 1..n /\ \A i \in 1..n : bars'[i] = bars[i]
  BY <1>1, Appended
<1>3. k \in 1..n /\ \A i \in j..k : i \in 1..n
  BY <1>2
<1>4. \A i \in (j + 1)..k : i \in 1..n /\ i - 1 \in 1..n
  BY <1>2
<1>5. Run(target, j, k)' <=> Run(target, j, k)
  BY <1>2, <1>3, <1>4 DEF Run
<1>6. Silent(j, k)' <=> Silent(j, k)
  BY <1>2, <1>3 DEF Silent
<1>7. bars'[j] = bars[j] /\ bars'[k] = bars[k]
  BY <1>2, <1>3
<1> QED  BY <1>5, <1>6, <1>7 DEF Evidence, Blind

(* The new bar extends the candidate's run or begins one, as accumulate    *)
(* counts; and no run that ends with the new bar is longer.                *)
LEMMA RunGrows ==
    ASSUME Timeline, WellFormed(trig), CandidateIsTheRun,
           NEW b \in Fed, bars' = Append(bars, b),
           NEW n, n = Len(bars), NEW target, target = Other(trig.regime),
           b.z = Sign(target),
           NEW f, f = n + 2 - Samples(trig, b.ts)
    PROVE  /\ f \in 1..(n + 1)
           /\ Run(target, f, n + 1)'
           /\ Since(trig, b.ts) = bars'[f].ts
           /\ \A j \in 1..(n + 1) : Run(target, j, n + 1)' => f <= j
<1>1. /\ n \in Nat /\ DOMAIN bars = 1..n
      /\ \A i \in 1..n : bars'[i] = bars[i] /\ bars[i] \in Fed
      /\ bars'[n + 1] = b
  BY Appended
<1>2. /\ trig.candSamples \in Nat /\ trig.lastSample \in Nat /\ trig.regime \in Regime
      /\ (trig.cand = "none" \/ trig.cand = target)
      /\ trig.cand # "none" => trig.candSamples # 0
  BY DEF WellFormed, Trigger, Regime, Other
<1>3. /\ Now \in Nat /\ b.ts \in Nat /\ SampleTimeout \in Nat
      /\ n # 0 => Now = bars[n].ts
  BY NowFacts DEF Fed
<1>4. \A j \in 1..n : Run(target, j, n + 1)' =>
         Run(target, j, n) /\ b.ts - bars[n].ts <= SampleTimeout
  <2> SUFFICES ASSUME NEW j \in 1..n, Run(target, j, n + 1)'
               PROVE  Run(target, j, n) /\ b.ts - bars[n].ts <= SampleTimeout
    OBVIOUS
  <2>1. /\ \A i \in j..(n + 1) : bars'[i].z = Sign(target)
        /\ \A i \in (j + 1)..(n + 1) : bars'[i].ts - bars'[i - 1].ts <= SampleTimeout
    BY DEF Run, Sign
  <2>2. \A i \in j..n : i \in j..(n + 1) /\ i \in 1..n
    BY <1>1
  <2>3. \A i \in (j + 1)..n : i \in (j + 1)..(n + 1) /\ i \in 1..n /\ i - 1 \in 1..n
    BY <1>1
  <2>4. \A i \in j..n : bars[i].z = Sign(target)
    BY <1>1, <2>1, <2>2
  <2>5. \A i \in (j + 1)..n : bars[i].ts - bars[i - 1].ts <= SampleTimeout
    BY <1>1, <2>1, <2>3
  <2>6. n + 1 \in (j + 1)..(n + 1) /\ (n + 1) - 1 = n /\ n \in 1..n
    BY <1>1
  <2>7. bars'[n + 1].ts - bars'[n].ts <= SampleTimeout
    BY <2>1, <2>6
  <2>8. b.ts - bars[n].ts <= SampleTimeout
    BY <1>1, <2>6, <2>7
  <2> QED  BY <2>4, <2>5, <2>8 DEF Run, Sign
<1>5. \A j \in 1..n : Run(target, j, n) => trig.cand # "none" /\ n - trig.candSamples + 1 <= j
  BY <1>1 DEF CandidateIsTheRun, First
<1>6. CASE Fresh(trig, b.ts)
  <2>1. f = n + 1 /\ Since(trig, b.ts) = b.ts
    BY <1>1, <1>6 DEF Samples, Since
  <2>2. Run(target, n + 1, n + 1)'
    <3>1. \A i \in (n + 1)..(n + 1) : bars'[i].z = Sign(target)
      BY <1>1
    <3>2. \A i \in ((n + 1) + 1)..(n + 1) : FALSE
      BY <1>1
    <3> QED  BY <3>1, <3>2 DEF Run, Sign
  <2>3. \A j \in 1..n : ~Run(target, j, n + 1)'
    <3> SUFFICES ASSUME NEW j \in 1..n, Run(target, j, n + 1)' PROVE FALSE
      OBVIOUS
    <3>1. Run(target, j, n) /\ b.ts - bars[n].ts <= SampleTimeout
      BY <1>4
    <3>2. trig.cand # "none"
      BY <1>5, <3>1
    <3>3. trig.lastSample = Now
      BY <3>2 DEF CandidateIsTheRun
    <3>4. ChainBroken(trig, b.ts)
      BY <1>6, <3>2 DEF Fresh
    <3>5. n # 0
      BY <1>1
    <3> QED  BY <1>3, <3>1, <3>3, <3>4, <3>5 DEF ChainBroken
  <2>4. \A j \in 1..(n + 1) : Run(target, j, n + 1)' => f <= j
    BY <1>1, <2>1, <2>3
  <2>5. f \in 1..(n + 1) /\ Since(trig, b.ts) = bars'[f].ts
    BY <1>1, <2>1
  <2> QED  BY <2>1, <2>2, <2>4, <2>5
<1>7. CASE ~Fresh(trig, b.ts)
  <2>1. /\ f = n - trig.candSamples + 1 /\ Since(trig, b.ts) = trig.candSince
        /\ trig.cand # "none" /\ trig.cand = target /\ ~ChainBroken(trig, b.ts)
    BY <1>1, <1>2, <1>7 DEF Samples, Since, Fresh
  <2>2. /\ f \in 1..n /\ Run(target, f, n) /\ trig.candSince = bars[f].ts
        /\ trig.lastSample = Now
    BY <1>1, <2>1 DEF CandidateIsTheRun, First
  <2>3. n \in f..n /\ n \in 1..n /\ n # 0
    BY <1>1, <2>2
  <2>4. bars[n].z = Sign(target)
    BY <2>2, <2>3 DEF Run, Sign
  <2>5. bars[n].ts # 0
    BY <1>1, <2>3, <2>4 DEF Timeline, Sign
  <2>6. b.ts - bars[n].ts <= SampleTimeout
    BY <1>3, <2>1, <2>2, <2>3, <2>5 DEF ChainBroken
  <2>7. \A i \in f..(n + 1) : bars'[i].z = Sign(target)
    <3> SUFFICES ASSUME NEW i \in f..(n + 1) PROVE bars'[i].z = Sign(target)
      OBVIOUS
    <3>1. i = n + 1 \/ (i \in f..n /\ i \in 1..n)
      BY <1>1, <2>2
    <3>2. \A m \in f..n : bars[m].z = Sign(target)
      BY <2>2 DEF Run, Sign
    <3> QED  BY <1>1, <3>1, <3>2
  <2>8. \A i \in (f + 1)..(n + 1) : bars'[i].ts - bars'[i - 1].ts <= SampleTimeout
    <3> SUFFICES ASSUME NEW i \in (f + 1)..(n + 1)
                 PROVE  bars'[i].ts - bars'[i - 1].ts <= SampleTimeout
      OBVIOUS
    <3>1. i = n + 1 \/ (i \in (f + 1)..n /\ i \in 1..n /\ i - 1 \in 1..n)
      BY <1>1, <2>2
    <3>2. CASE i = n + 1
      <4>1. i - 1 = n
        BY <1>1, <3>2
      <4>2. bars'[i] = b /\ bars'[i - 1] = bars[n]
        BY <1>1, <2>3, <3>2, <4>1
      <4> QED  BY <2>6, <4>2
    <3>3. CASE i \in (f + 1)..n /\ i \in 1..n /\ i - 1 \in 1..n
      <4>1. bars'[i] = bars[i] /\ bars'[i - 1] = bars[i - 1]
        BY <1>1, <3>3
      <4> QED  BY <2>2, <3>3, <4>1 DEF Run
    <3> QED  BY <3>1, <3>2, <3>3
  <2>9. Run(target, f, n + 1)'
    BY <2>7, <2>8 DEF Run, Sign
  <2>10. \A j \in 1..(n + 1) : Run(target, j, n + 1)' => f <= j
    <3> SUFFICES ASSUME NEW j \in 1..(n + 1), Run(target, j, n + 1)' PROVE f <= j
      OBVIOUS
    <3>1. CASE j \in 1..n
      BY <1>4, <1>5, <2>1, <3>1
    <3>2. CASE j = n + 1
      BY <1>1, <2>2, <3>2
    <3> QED  BY <1>1, <3>1, <3>2
  <2>11. f \in 1..(n + 1) /\ Since(trig, b.ts) = bars'[f].ts
    BY <1>1, <2>1, <2>2
  <2> QED  BY <2>9, <2>10, <2>11
<1> QED  BY <1>6, <1>7

---------------------------------------------------------------------------
(* A step of the specification: one bar or one failover, and its outcome.  *)
Stepped(b, n, cause) ==
    /\ b \in Fed /\ n = Len(bars) /\ bars' = Append(bars, b)
    /\ Now <= b.ts /\ (b.z # "failover" => b.ts # 0)
    /\ WellFormed(trig')
    /\ Outcome(trig, trig', b.z, b.ts, cause)
    /\ log' = IF cause = "none" THEN log
              ELSE Append(log, [at |-> n + 1, new |-> trig'.regime, cause |-> cause])

(* Every step is one.                                                      *)
LEMMA NextSteps ==
    ASSUME TypeOK, Timeline, Next
    PROVE  \E b, n, cause : Stepped(b, n, cause)
<1>1. WellFormed(trig) /\ Now \in Nat
  BY NowFacts DEF TypeOK, WellFormed
<1>2. PICK n : n = Len(bars)
  OBVIOUS
<1>3. ASSUME Failover PROVE \E b : Stepped(b, n, "none")
  <2>1. PICK b : b = [ts |-> Now, z |-> "failover"]
    OBVIOUS
  <2>2. b \in Fed /\ b.ts = Now /\ b.z = "failover"
    BY <1>1, <2>1 DEF Fed
  <2>3. WellFormed(trig') /\ Outcome(trig, trig', "failover", b.ts, "none")
    BY <1>1, <1>3, RestoreOutcome DEF Failover
  <2>4. bars' = Append(bars, b) /\ log' = log
    BY <1>3, <2>1 DEF Failover
  <2>5. Now <= b.ts
    BY <1>1, <2>2
  <2> QED  BY <1>2, <2>2, <2>3, <2>4, <2>5 DEF Stepped
<1>4. ASSUME NEW z \in Score \cup {"none"}, NEW gap \in Gaps, Bar(z, gap)
      PROVE  \E b, cause : Stepped(b, n, cause)
  <2>1. PICK ts : ts = Now + gap
    OBVIOUS
  <2>2. ts \in Nat /\ ts # 0 /\ Now <= ts
    BY <1>1, <2>1, BarsAssumption
  <2>3. PICK b : b = [ts |-> ts, z |-> z]
    OBVIOUS
  <2>4. b \in Fed /\ b.ts = ts /\ b.z = z
    BY <2>2, <2>3 DEF Fed
  <2>5. PICK cause : cause = TriggerUpdate(trig, z, ts).cause
    OBVIOUS
  <2>6. trig' = TriggerUpdate(trig, z, ts).trig /\ bars' = Append(bars, b)
    BY <1>4, <2>1, <2>3 DEF Bar
  <2>7. WellFormed(trig') /\ Outcome(trig, trig', z, ts, cause)
    BY <1>1, <2>2, <2>5, <2>6, UpdateOutcome
  <2>8. log' = IF cause = "none" THEN log
               ELSE Append(log, [at |-> n + 1, new |-> trig'.regime, cause |-> cause])
    BY <1>2, <1>4, <2>1, <2>5 DEF Bar
  <2> QED  BY <1>2, <2>2, <2>4, <2>6, <2>7, <2>8 DEF Stepped
<1> QED  BY <1>3, <1>4 DEF Next

(* A bar that does not speak for a regime ends every run for it.           *)
LEMMA NoRun ==
    ASSUME Timeline, NEW b \in Fed, NEW n, n = Len(bars), bars' = Append(bars, b),
           NEW target, b.z # Sign(target), NEW j \in 1..(n + 1)
    PROVE  ~Run(target, j, n + 1)'
<1>1. n \in Nat /\ bars'[n + 1] = b
  BY Appended
<1>2. n + 1 \in j..(n + 1)
  BY <1>1
<1> QED  BY <1>1, <1>2 DEF Run, Sign

(* And one with a score, or a failover, ends every silence.                *)
LEMMA NoSilence ==
    ASSUME Timeline, NEW b \in Fed, NEW n, n = Len(bars), bars' = Append(bars, b),
           b.z # "none", NEW j \in 1..(n + 1)
    PROVE  ~Silent(j, n + 1)'
<1>1. n \in Nat /\ bars'[n + 1] = b
  BY Appended
<1>2. n + 1 \in j..(n + 1)
  BY <1>1
<1> QED  BY <1>1, <1>2 DEF Silent

(* The candidate follows the run.                                          *)
LEMMA CandidateFollows ==
    ASSUME TypeOK, Timeline, CandidateIsTheRun, NEW b, NEW n, NEW cause, Stepped(b, n, cause)
    PROVE  CandidateIsTheRun'
<1>1. /\ b \in Fed /\ n = Len(bars) /\ bars' = Append(bars, b) /\ WellFormed(trig)
      /\ WellFormed(trig') /\ Outcome(trig, trig', b.z, b.ts, cause)
  BY DEF Stepped, TypeOK, WellFormed
<1>2. /\ n \in Nat /\ Len(bars') = n + 1 /\ DOMAIN bars' = 1..(n + 1)
      /\ bars'[n + 1] = b /\ Now' = b.ts
  BY <1>1, Appended
<1>3. trig.regime \in Regime /\ trig'.regime \in Regime
  BY <1>1 DEF WellFormed, Trigger
<1>4. PICK other : other = Other(trig'.regime)
  OBVIOUS
<1>5. CASE Counted(trig, trig', b.z, b.ts, cause)
  <2>1. /\ b.z = Sign(other) /\ other = Other(trig.regime) /\ trig'.cand = other
        /\ trig'.candSamples = Samples(trig, b.ts) /\ trig'.candSince = Since(trig, b.ts)
        /\ trig'.lastSample = b.ts
    BY <1>4, <1>5 DEF Counted
  <2>2. PICK f : f = n + 2 - Samples(trig, b.ts)
    OBVIOUS
  <2>3. /\ f \in 1..(n + 1) /\ Run(other, f, n + 1)' /\ Since(trig, b.ts) = bars'[f].ts
        /\ \A j \in 1..(n + 1) : Run(other, j, n + 1)' => f <= j
    BY <1>1, <2>1, <2>2, RunGrows
  <2>4. trig'.candSamples \in Nat
    BY <1>1 DEF WellFormed, Trigger
  <2>5. First' = f
    BY <1>2, <2>1, <2>2, <2>4 DEF First
  <2>6. trig'.cand # "none"
    BY <2>1, <1>3 DEF Other
  <2>7. Run(trig.cand, First, Len(bars))'
    BY <2>1, <2>3, <2>5, <1>2 DEF Run
  <2>8. \A j \in 1..(n + 1) : Run(Other(trig.regime), j, Len(bars))' => f <= j
    BY <1>2, <1>4, <2>3 DEF Run, Other
  <2> QED  BY <1>2, <2>1, <2>3, <2>5, <2>6, <2>7, <2>8 DEF CandidateIsTheRun
<1>6. CASE ~Counted(trig, trig', b.z, b.ts, cause)
  <2>1. NoCandidate(trig')
    BY <1>1, <1>6 DEF Outcome, HeldQuietly, LostSight, HeldStep, Confirming, Committed, Restored
  <2>2. b.z # Sign(other)
    BY <1>1, <1>3, <1>4, <1>6
       DEF Outcome, HeldQuietly, LostSight, HeldStep, Confirming, Committed, Restored,
           Sign, Other, Regime
  <2>3. \A j \in 1..(n + 1) : ~Run(other, j, n + 1)'
    BY <1>1, <2>2, NoRun
  <2>4. \A j \in 1..(n + 1) : ~Run(Other(trig.regime), j, Len(bars))'
    BY <1>2, <1>4, <2>3 DEF Run, Other
  <2> QED  BY <1>2, <2>1, <2>4 DEF CandidateIsTheRun, NoCandidate
<1> QED  BY <1>5, <1>6

(* A confirmed candidate is committed unless the cooldown says otherwise.  *)
LEMMA ConfirmedMovesOn ==
    ASSUME Timeline, NEW b, NEW n, NEW cause, Stepped(b, n, cause)
    PROVE  OnlyTheCooldownWaits'
<1>1. Outcome(trig, trig', b.z, b.ts, cause) /\ Now' = b.ts
  BY Appended DEF Stepped
<1>2. CASE Counted(trig, trig', b.z, b.ts, cause)
  BY <1>1, <1>2 DEF Counted, OnlyTheCooldownWaits, Confirmed, Cooling
<1>3. CASE ~Counted(trig, trig', b.z, b.ts, cause)
  <2>1. NoCandidate(trig')
    BY <1>1, <1>3 DEF Outcome, HeldQuietly, LostSight, HeldStep, Confirming, Committed, Restored
  <2> QED  BY <2>1 DEF OnlyTheCooldownWaits, NoCandidate
<1> QED  BY <1>2, <1>3

(* The silence is timed from its first bar.                                *)
LEMMA SilenceFollows ==
    ASSUME TypeOK, Timeline, SilenceIsTimed, NEW b, NEW n, NEW cause, Stepped(b, n, cause)
    PROVE  SilenceIsTimed'
<1>1. /\ b \in Fed /\ n = Len(bars) /\ bars' = Append(bars, b)
      /\ Now <= b.ts /\ (b.z # "failover" => b.ts # 0)
      /\ WellFormed(trig') /\ Outcome(trig, trig', b.z, b.ts, cause)
  BY DEF Stepped
<1>2. /\ n \in Nat /\ Len(bars') = n + 1 /\ DOMAIN bars' = 1..(n + 1) /\ DOMAIN bars = 1..n
      /\ \A i \in 1..n : bars'[i] = bars[i] /\ bars[i] \in Fed
      /\ bars'[n + 1] = b /\ Now' = b.ts
  BY <1>1, Appended
<1>3. /\ trig.unobserved \in Nat /\ b.ts \in Nat /\ Now \in Nat
      /\ \A i \in 1..n : bars[i].ts \in Nat /\ bars[i].ts <= Now
  BY <1>1, <1>2, NowFacts DEF TypeOK, Trigger, Fed
<1>4. CASE b.z # "none"
  <2>1. trig'.unobserved = 0
    BY <1>1, <1>4 DEF Outcome, HeldQuietly, LostSight, HeldStep, Confirming, Counted,
                      Committed, Restored
  <2>2. \A j \in 1..(n + 1) : ~Silent(j, n + 1)'
    BY <1>1, <1>4, NoSilence
  <2>3. \A j \in DOMAIN bars' : ~Silent(j, Len(bars))'
    BY <1>2, <2>2 DEF Silent
  <2> QED  BY <2>1, <2>3 DEF SilenceIsTimed
<1>5. CASE b.z = "none"
  <2>1. HeldStep(trig, trig', b.z, b.ts)
    BY <1>1, <1>5 DEF Outcome, HeldQuietly, LostSight, Confirming, Counted,
                      Committed, Restored, Score, Sign
  <2>2. trig'.unobserved = (IF trig.unobserved = 0 THEN b.ts ELSE trig.unobserved)
    BY <2>1 DEF HeldStep
  <2>3. b.ts # 0 /\ trig'.unobserved # 0
    BY <1>1, <1>5, <2>2
  <2>4. \A j \in 1..n : Silent(j, n + 1)' <=> Silent(j, n)
    <3> SUFFICES ASSUME NEW j \in 1..n PROVE Silent(j, n + 1)' <=> Silent(j, n)
      OBVIOUS
    <3>1. \A i \in j..n : i \in 1..n /\ i \in j..(n + 1)
      BY <1>2
    <3>2. \A i \in j..(n + 1) : i \in j..n \/ i = n + 1
      BY <1>2
    <3>3. Silent(j, n + 1)' => Silent(j, n)
      BY <1>2, <3>1 DEF Silent
    <3>4. Silent(j, n) => Silent(j, n + 1)'
      BY <1>2, <1>5, <3>1, <3>2 DEF Silent
    <3> QED  BY <3>3, <3>4
  <2>5. Silent(n + 1, n + 1)'
    <3>1. \A i \in (n + 1)..(n + 1) : i = n + 1
      BY <1>2
    <3> QED  BY <1>2, <1>5, <3>1 DEF Silent
  <2>6. \E j \in 1..(n + 1) : Silent(j, n + 1)' /\ bars'[j].ts = trig'.unobserved
    <3>1. CASE trig.unobserved = 0
      <4>1. n + 1 \in 1..(n + 1) /\ bars'[n + 1].ts = trig'.unobserved
        BY <1>2, <2>2, <3>1
      <4> QED  BY <2>5, <4>1
    <3>2. CASE trig.unobserved # 0
      <4>1. PICK j \in 1..n : Silent(j, n) /\ bars[j].ts = trig.unobserved
        BY <1>1, <1>2, <3>2 DEF SilenceIsTimed
      <4>2. j \in 1..(n + 1) /\ Silent(j, n + 1)' /\ bars'[j].ts = trig'.unobserved
        BY <1>2, <2>2, <2>4, <3>2, <4>1
      <4> QED  BY <4>2
    <3> QED  BY <3>1, <3>2
  <2>7. \A j \in 1..(n + 1) : Silent(j, n + 1)' => trig'.unobserved <= bars'[j].ts
    <3> SUFFICES ASSUME NEW j \in 1..(n + 1), Silent(j, n + 1)'
                 PROVE  trig'.unobserved <= bars'[j].ts
      OBVIOUS
    <3>1. CASE j = n + 1
      <4>1. CASE trig.unobserved = 0
        BY <1>2, <1>3, <2>2, <3>1, <4>1
      <4>2. CASE trig.unobserved # 0
        <5>1. PICK i \in 1..n : bars[i].ts = trig.unobserved
          BY <1>2, <4>2 DEF SilenceIsTimed
        <5>2. trig.unobserved <= b.ts
          BY <1>1, <1>3, <5>1
        <5> QED  BY <1>2, <2>2, <3>1, <4>2, <5>2
      <4> QED  BY <4>1, <4>2
    <3>2. CASE j \in 1..n
      <4>1. trig.unobserved # 0 /\ trig.unobserved <= bars[j].ts
        BY <1>1, <1>2, <2>4, <3>2 DEF SilenceIsTimed
      <4> QED  BY <1>2, <2>2, <3>2, <4>1
    <3> QED  BY <1>2, <3>1, <3>2
  <2>8. trig'.regime = "stressed" => b.ts - trig'.unobserved < ObservationTimeout
    BY <1>1, <1>5 DEF Outcome, HeldQuietly, LostSight, Confirming, Counted,
                      Committed, Restored, Score, Sign
  <2>9. \E j \in DOMAIN bars' : Silent(j, Len(bars))' /\ bars'[j].ts = trig'.unobserved
    BY <1>2, <2>6 DEF Silent
  <2>10. \A j \in DOMAIN bars' : Silent(j, Len(bars))' =>
            trig'.unobserved # 0 /\ trig'.unobserved <= bars'[j].ts
    BY <1>2, <2>3, <2>7 DEF Silent
  <2> QED  BY <1>2, <2>8, <2>9, <2>10 DEF SilenceIsTimed
<1> QED  BY <1>4, <1>5

---------------------------------------------------------------------------
(* What the log says, and what a step adds to it.                          *)

Entry == [at : Nat, new : Regime, cause : Cause]

(* A step returns nothing, or one transition for the bar it was fed.       *)
LEMMA LogGrows ==
    ASSUME LogOK, Timeline, NEW b, NEW n, NEW cause, Stepped(b, n, cause),
           NEW m, m = Len(log)
    PROVE  /\ m \in Nat /\ DOMAIN log = 1..m /\ log' \in Seq(Entry)
           /\ \A k \in 1..m : /\ log'[k] = log[k] /\ log[k] \in Entry
                              /\ log[k].at \in DOMAIN bars /\ bars'[log[k].at] = bars[log[k].at]
           /\ \/ cause = "none" /\ DOMAIN log' = 1..m
              \/ /\ cause \in Cause /\ DOMAIN log' = 1..(m + 1)
                 /\ log'[m + 1].at = n + 1 /\ log'[m + 1].new = trig'.regime
                 /\ log'[m + 1].cause = cause
<1>1. log \in Seq(Entry) /\ \A k \in DOMAIN log : log[k].at \in DOMAIN bars
  BY DEF LogOK, Entry
<1>2. /\ b \in Fed /\ n = Len(bars) /\ bars' = Append(bars, b)
      /\ trig' \in Trigger /\ Outcome(trig, trig', b.z, b.ts, cause)
  BY DEF Stepped, WellFormed
<1>3. n \in Nat /\ DOMAIN bars = 1..n /\ \A i \in 1..n : bars'[i] = bars[i]
  BY <1>2, Appended
<1>4. m \in Nat /\ DOMAIN log = 1..m /\ \A k \in 1..m : log[k] \in Entry
  BY <1>1
<1>5. trig'.regime \in Regime
  BY <1>2 DEF Trigger
<1>6. cause \in Cause \cup {"none"}
  BY <1>2 DEF Outcome, HeldQuietly, LostSight, Confirming, Counted, Committed, Restored, Cause
<1>7. \A k \in 1..m : log[k].at \in DOMAIN bars /\ bars'[log[k].at] = bars[log[k].at]
  BY <1>1, <1>3, <1>4
<1>8. CASE cause = "none"
  <2>1. log' = log
    BY <1>8 DEF Stepped
  <2> QED  BY <1>1, <1>4, <1>7, <1>8, <2>1
<1>9. CASE cause # "none"
  <2>1. PICK e : e = [at |-> n + 1, new |-> trig'.regime, cause |-> cause]
    OBVIOUS
  <2>2. e \in Entry /\ e.at = n + 1 /\ e.new = trig'.regime /\ e.cause = cause
    BY <1>3, <1>5, <1>6, <1>9, <2>1 DEF Entry
  <2>3. log' = Append(log, e)
    BY <1>9, <2>1 DEF Stepped
  <2>4. /\ log' \in Seq(Entry) /\ DOMAIN log' = 1..(m + 1) /\ log'[m + 1] = e
        /\ \A k \in 1..m : log'[k] = log[k]
    BY <1>1, <1>4, <2>2, <2>3
  <2> QED  BY <1>4, <1>6, <1>7, <1>9, <2>2, <2>4
<1> QED  BY <1>8, <1>9

(* The log stays a log.                                                    *)
LEMMA LogStays ==
    ASSUME LogOK, Timeline, NEW b, NEW n, NEW cause, Stepped(b, n, cause)
    PROVE  LogOK' /\ \A k \in DOMAIN log' : log'[k].cause \in Cause /\ log'[k].new \in Regime
<1>1. PICK m : m = Len(log)
  OBVIOUS
<1>2. /\ m \in Nat /\ log' \in Seq(Entry)
      /\ \A k \in 1..m : log'[k] = log[k] /\ log[k].at \in DOMAIN bars
      /\ \/ DOMAIN log' = 1..m
         \/ DOMAIN log' = 1..(m + 1) /\ log'[m + 1].at = n + 1
  BY <1>1, LogGrows
<1>3. n \in Nat /\ DOMAIN bars = 1..n /\ DOMAIN bars' = 1..(n + 1)
  BY Appended DEF Stepped
<1>4. \A k \in DOMAIN log' : log'[k].at \in DOMAIN bars'
  <2> SUFFICES ASSUME NEW k \in DOMAIN log' PROVE log'[k].at \in DOMAIN bars'
    OBVIOUS
  <2>1. CASE k \in 1..m
    BY <1>2, <1>3, <2>1
  <2>2. CASE k \notin 1..m
    <3>1. k = m + 1 /\ log'[m + 1].at = n + 1
      BY <1>2, <2>2
    <3> QED  BY <1>3, <3>1
  <2> QED  BY <2>1, <2>2
<1>5. \A k \in DOMAIN log' : log'[k] \in Entry
  BY <1>2
<1> QED  BY <1>2, <1>4, <1>5 DEF LogOK, Entry

(* last_escalation follows the log.                                        *)
LEMMA EscalationFollows ==
    ASSUME TypeOK, LogOK, Timeline, EscalationIsKept,
           NEW b, NEW n, NEW cause, Stepped(b, n, cause)
    PROVE  EscalationIsKept'
<1>1. PICK m : m = Len(log)
  OBVIOUS
<1>2. /\ m \in Nat /\ DOMAIN log = 1..m
      /\ \A k \in 1..m : /\ log'[k] = log[k]
                         /\ log[k].at \in DOMAIN bars /\ bars'[log[k].at] = bars[log[k].at]
      /\ \/ cause = "none" /\ DOMAIN log' = 1..m
         \/ /\ cause \in Cause /\ DOMAIN log' = 1..(m + 1)
            /\ log'[m + 1].at = n + 1 /\ log'[m + 1].new = trig'.regime
            /\ log'[m + 1].cause = cause
  BY <1>1, LogGrows
<1>3. /\ b \in Fed /\ n = Len(bars) /\ bars' = Append(bars, b)
      /\ Now <= b.ts /\ (b.z # "failover" => b.ts # 0)
      /\ Outcome(trig, trig', b.z, b.ts, cause)
  BY DEF Stepped
<1>4. /\ n \in Nat /\ DOMAIN bars = 1..n /\ bars'[n + 1] = b
      /\ \A i \in 1..n : bars[i] \in Fed
  BY <1>3, Appended
<1>5. /\ b.ts \in Nat /\ Now \in Nat /\ \A i \in DOMAIN bars : bars[i].ts \in Nat /\ bars[i].ts <= Now
  BY <1>3, <1>4, NowFacts DEF Fed
<1>6. CASE trig'.regime = "stressed" /\ cause # "none"
  <2>1. Committed(trig, trig', b.z, b.ts, cause)
    BY <1>3, <1>6 DEF Outcome, HeldQuietly, LostSight, Confirming, Counted, Restored
  <2>2. trig'.lastEscalation = b.ts /\ b.z # "failover"
    BY <1>6, <2>1 DEF Committed, Sign
  <2>3. b.ts # 0
    BY <1>3, <2>2
  <2>4. m + 1 \in Escalations' /\ bars'[log'[m + 1].at].ts = b.ts
    BY <1>2, <1>4, <1>6 DEF Escalations
  <2>5. \A e \in Escalations' : bars'[log'[e].at].ts <= b.ts
    <3> SUFFICES ASSUME NEW e \in Escalations' PROVE bars'[log'[e].at].ts <= b.ts
      OBVIOUS
    <3>1. e \in 1..m \/ e = m + 1
      BY <1>2 DEF Escalations
    <3>2. CASE e \in 1..m
      BY <1>2, <1>3, <1>5, <3>2
    <3>3. CASE e = m + 1
      BY <2>4, <1>5, <3>3
    <3> QED  BY <3>1, <3>2, <3>3
  <2> QED  BY <2>2, <2>3, <2>4, <2>5 DEF EscalationIsKept
<1>7. CASE trig'.regime # "stressed" \/ cause = "none"
  <2>1. trig'.lastEscalation = trig.lastEscalation
    BY <1>3, <1>7 DEF Outcome, HeldQuietly, LostSight, HeldStep, Confirming, Counted,
                      Committed, Restored, Cause
  <2>2. Escalations' = Escalations
    <3>1. CASE DOMAIN log' = 1..m
      BY <1>2, <3>1 DEF Escalations
    <3>2. CASE DOMAIN log' = 1..(m + 1) /\ log'[m + 1].new # "stressed"
      <4>1. \A e : e \in Escalations' <=> e \in 1..m /\ log'[e].new = "stressed"
        BY <1>2, <3>2 DEF Escalations
      <4>2. \A e : e \in Escalations <=> e \in 1..m /\ log[e].new = "stressed"
        BY <1>2 DEF Escalations
      <4>3. \A e : e \in Escalations' <=> e \in Escalations
        BY <1>2, <4>1, <4>2
      <4>4. Escalations' \subseteq DOMAIN log' /\ Escalations \subseteq DOMAIN log
        BY DEF Escalations
      <4> QED  BY <4>3, <4>4
    <3>3. "none" \notin Cause
      BY DEF Cause
    <3> QED  BY <1>2, <1>7, <3>1, <3>2, <3>3
  <2>3. \A e \in Escalations : bars'[log'[e].at].ts = bars[log[e].at].ts
    BY <1>2 DEF Escalations
  <2> QED  BY <2>1, <2>2, <2>3 DEF EscalationIsKept
<1> QED  BY <1>6, <1>7

---------------------------------------------------------------------------
(* The evidence of the transition a step returns.                          *)
LEMMA NewIsJustified ==
    ASSUME TypeOK, Timeline, CandidateIsTheRun, SilenceIsTimed,
           NEW b, NEW n, NEW cause, Stepped(b, n, cause), cause # "none"
    PROVE  \E j \in 1..(n + 1) :
              IF cause = "observation_lost" THEN Blind(j, n + 1)'
              ELSE Evidence(trig.regime, j, n + 1)'
<1>1. /\ b \in Fed /\ n = Len(bars) /\ bars' = Append(bars, b) /\ WellFormed(trig)
      /\ (b.z # "failover" => b.ts # 0)
      /\ WellFormed(trig') /\ Outcome(trig, trig', b.z, b.ts, cause)
  BY DEF Stepped, TypeOK, WellFormed
<1>2. /\ n \in Nat /\ Len(bars') = n + 1 /\ DOMAIN bars' = 1..(n + 1)
      /\ bars'[n + 1] = b /\ b.ts \in Nat
  BY <1>1, Appended DEF Fed
<1>3. CASE cause = "observation_lost"
  <2>1. LostSight(trig, trig', b.z, b.ts, cause)
    BY <1>1, <1>3 DEF Outcome, HeldQuietly, Confirming, Counted, Committed, Restored
  <2>2. /\ b.ts - trig'.unobserved >= ObservationTimeout
        /\ b.z = "none" /\ trig'.unobserved = (IF trig.unobserved = 0 THEN b.ts ELSE trig.unobserved)
    BY <2>1 DEF LostSight, HeldStep
  <2>3. trig'.unobserved # 0
    BY <1>1, <2>2
  <2>4. SilenceIsTimed'
    BY SilenceFollows
  <2>5. PICK j \in 1..(n + 1) : Silent(j, n + 1)' /\ bars'[j].ts = trig'.unobserved
    BY <1>2, <2>3, <2>4 DEF SilenceIsTimed, Silent
  <2>6. Blind(j, n + 1)'
    BY <1>2, <2>2, <2>5 DEF Blind
  <2> QED  BY <1>3, <2>6
<1>4. CASE cause # "observation_lost"
  <2>1. Committed(trig, trig', b.z, b.ts, cause)
    BY <1>1, <1>4 DEF Outcome, HeldQuietly, LostSight, Confirming, Counted, Restored
  <2>2. PICK target : target = Other(trig.regime)
    OBVIOUS
  <2>3. /\ b.z = Sign(target) /\ trig'.regime = target
        /\ Samples(trig, b.ts) >= MinConfirmSamples /\ b.ts - Since(trig, b.ts) >= ConfirmFor
    BY <2>1, <2>2 DEF Committed
  <2>4. PICK f : f = n + 2 - Samples(trig, b.ts)
    OBVIOUS
  <2>5. f \in 1..(n + 1) /\ Run(target, f, n + 1)' /\ Since(trig, b.ts) = bars'[f].ts
    BY <1>1, <2>2, <2>3, <2>4, RunGrows
  <2>6. Samples(trig, b.ts) \in Nat
    BY <1>1 DEF Samples, WellFormed, Trigger
  <2>7. (n + 1) - f + 1 >= MinConfirmSamples
    BY <1>2, <2>3, <2>4, <2>6
  <2>8. bars'[n + 1].ts - bars'[f].ts >= ConfirmFor
    BY <1>2, <2>3, <2>5
  <2>9. Run(trig.regime, f, n + 1)'
    BY <2>3, <2>5 DEF Run
  <2>10. Evidence(trig.regime, f, n + 1)'
    BY <2>7, <2>8, <2>9 DEF Evidence
  <2> QED  BY <1>4, <2>5, <2>10
<1> QED  BY <1>3, <1>4

(* A step keeps every transition justified.                                *)
LEMMA JustificationStays ==
    ASSUME TypeOK, Timeline, LogOK, CandidateIsTheRun, SilenceIsTimed, EscalationIsKept,
           TransitionsAreJustified, NEW b, NEW n, NEW cause, Stepped(b, n, cause)
    PROVE  TransitionsAreJustified'
<1>1. PICK m : m = Len(log)
  OBVIOUS
<1>2. /\ m \in Nat /\ DOMAIN log = 1..m
      /\ \A k \in 1..m : /\ log'[k] = log[k]
                         /\ log[k].at \in DOMAIN bars /\ bars'[log[k].at] = bars[log[k].at]
      /\ \/ cause = "none" /\ DOMAIN log' = 1..m
         \/ /\ cause \in Cause /\ DOMAIN log' = 1..(m + 1)
            /\ log'[m + 1].at = n + 1 /\ log'[m + 1].new = trig'.regime
            /\ log'[m + 1].cause = cause
  BY <1>1, LogGrows
<1>3. /\ b \in Fed /\ n = Len(bars) /\ bars' = Append(bars, b)
      /\ Outcome(trig, trig', b.z, b.ts, cause)
  BY DEF Stepped
<1>4. /\ n \in Nat /\ DOMAIN bars = 1..n /\ bars'[n + 1] = b /\ b.ts \in Nat
      /\ \A i \in 1..n : bars[i].ts \in Nat
  BY <1>3, Appended DEF Fed
<1>5. ASSUME NEW k \in DOMAIN log'
      PROVE  \E j \in 1..log'[k].at :
                IF log'[k].cause = "observation_lost" THEN Blind(j, log[k].at)'
                ELSE Evidence(log[k].new, j, log[k].at)'
  <2>1. CASE k \in 1..m
    <3>1. PICK last, new, why : last = log[k].at /\ new = log[k].new /\ why = log[k].cause
      OBVIOUS
    <3>2. last \in DOMAIN bars /\ log'[k].at = last /\ log'[k].new = new /\ log'[k].cause = why
      BY <1>2, <2>1, <3>1
    <3>3. PICK j \in 1..last : IF why = "observation_lost" THEN Blind(j, last)
                               ELSE Evidence(new, j, last)
      BY <1>2, <2>1, <3>1 DEF TransitionsAreJustified
    <3>4. (Evidence(new, j, last)' <=> Evidence(new, j, last)) /\ (Blind(j, last)' <=> Blind(j, last))
      BY <1>3, <3>2, PastStays
    <3>5. IF why = "observation_lost" THEN Blind(j, last)' ELSE Evidence(new, j, last)'
      BY <3>3, <3>4
    <3>6. IF log'[k].cause = "observation_lost" THEN Blind(j, log[k].at)'
                ELSE Evidence(log[k].new, j, log[k].at)'
      BY <3>2, <3>5 DEF Blind, Evidence, Silent, Run
    <3> QED  BY <3>2, <3>6
  <2>2. CASE k \notin 1..m
    <3>1. /\ k = m + 1 /\ cause \in Cause /\ log'[k].at = n + 1
          /\ log'[k].new = trig'.regime /\ log'[k].cause = cause
      BY <1>2, <2>2
    <3>2. cause # "none"
      BY <3>1 DEF Cause
    <3>3. PICK j \in 1..(n + 1) : IF cause = "observation_lost" THEN Blind(j, n + 1)'
                                  ELSE Evidence(trig.regime, j, n + 1)'
      BY <3>2, NewIsJustified
    <3>4. IF log'[k].cause = "observation_lost" THEN Blind(j, log[k].at)'
                ELSE Evidence(log[k].new, j, log[k].at)'
      BY <3>1, <3>3 DEF Blind, Evidence, Silent, Run
    <3> QED  BY <3>1, <3>3, <3>4
  <2> QED  BY <2>1, <2>2
<1>6. ASSUME NEW d \in Escalations', NEW e \in Escalations', d < e
      PROVE  bars'[log'[e].at].ts - bars'[log'[d].at].ts >= Cooldown
  <2>1. d \in 1..m \cup {m + 1} /\ e \in 1..m \cup {m + 1}
        /\ d \in DOMAIN log' /\ e \in DOMAIN log'
        /\ log'[d].new = "stressed" /\ log'[e].new = "stressed"
    BY <1>2 DEF Escalations
  <2>2. d \in 1..m
    BY <1>2, <1>6, <2>1
  <2>3. d \in Escalations /\ bars'[log'[d].at] = bars[log[d].at] /\ log[d].at \in DOMAIN bars
    BY <1>2, <2>1, <2>2 DEF Escalations
  <2>4. CASE e \in 1..m
    <3>1. e \in Escalations /\ bars'[log'[e].at] = bars[log[e].at]
      BY <1>2, <2>1, <2>4 DEF Escalations
    <3> QED  BY <1>6, <2>3, <3>1 DEF TransitionsAreJustified
  <2>5. CASE e = m + 1
    <3>1. /\ cause \in Cause /\ log'[e].at = n + 1 /\ trig'.regime = "stressed"
      BY <1>2, <2>1, <2>5
    <3>2. Committed(trig, trig', b.z, b.ts, cause)
      BY <1>3, <3>1 DEF Outcome, HeldQuietly, LostSight, Confirming, Counted, Restored, Cause
    <3>3. trig.lastEscalation = 0 \/ b.ts - trig.lastEscalation >= Cooldown
      BY <3>1, <3>2 DEF Committed
    <3>4. trig.lastEscalation # 0 /\ bars[log[d].at].ts <= trig.lastEscalation
      BY <2>3 DEF EscalationIsKept
    <3>5. trig.lastEscalation \in Nat /\ bars[log[d].at].ts \in Nat
      BY <1>4, <2>3 DEF TypeOK, Trigger
    <3>6. b.ts - bars[log[d].at].ts >= Cooldown
      BY <1>4, <3>3, <3>4, <3>5
    <3> QED  BY <1>4, <2>3, <3>1, <3>6
  <2> QED  BY <2>1, <2>4, <2>5
<1> QED  BY <1>5, <1>6 DEF TransitionsAreJustified

(* What the fields say of the history is enough: nothing was missed.       *)
LEMMA NothingIsMissed ==
    ASSUME TypeOK, HistoryInv
    PROVE  NoTransitionIsMissed
<1> DEFINE k == Len(bars)
<1>1. /\ Timeline /\ CandidateIsTheRun /\ OnlyTheCooldownWaits /\ SilenceIsTimed
      /\ EscalationIsKept
  BY DEF HistoryInv
<1>2. k \in Nat /\ DOMAIN bars = 1..k /\ \A i \in 1..k : bars[i].ts \in Nat
  <2>1. bars \in Seq(Fed)
    BY <1>1 DEF Timeline, Fed
  <2>2. k \in Nat /\ DOMAIN bars = 1..k /\ \A i \in 1..k : bars[i] \in Fed
    BY <2>1
  <2> QED  BY <2>2 DEF Fed
<1>3. /\ trig.regime \in Regime /\ trig.candSamples \in Nat /\ trig.candSince \in Nat
      /\ trig.lastEscalation \in Nat /\ trig.unobserved \in Nat
      /\ (trig.cand = "none" \/ trig.cand = Other(trig.regime))
  BY DEF TypeOK, Trigger, Regime, Other
<1>4. \A j \in 1..k : Evidence(Other(trig.regime), j, k) =>
         /\ trig.regime = "normal"
         /\ \E e \in Escalations : Now - bars[log[e].at].ts < Cooldown
  <2> SUFFICES ASSUME NEW j \in 1..k, Evidence(Other(trig.regime), j, k)
               PROVE  /\ trig.regime = "normal"
                      /\ \E e \in Escalations : Now - bars[log[e].at].ts < Cooldown
    OBVIOUS
  <2>1. /\ Run(Other(trig.regime), j, k) /\ k - j + 1 >= MinConfirmSamples
        /\ bars[k].ts - bars[j].ts >= ConfirmFor
    BY DEF Evidence
  <2>2. trig.cand # "none" /\ First <= j
    BY <1>1, <1>2, <2>1 DEF CandidateIsTheRun
  <2>3. First \in 1..k /\ trig.candSince = bars[First].ts
    BY <1>1, <1>2, <2>2 DEF CandidateIsTheRun
  <2>4. Now = bars[k].ts
    BY <1>1, <1>2, NowFacts
  <2>5. trig.candSamples >= MinConfirmSamples
    BY <1>2, <1>3, <2>1, <2>2 DEF First
  <2>6. bars[First].ts <= bars[j].ts
    BY <1>1, <1>2, <2>2, <2>3 DEF Timeline
  <2>7. Now - trig.candSince >= ConfirmFor
    <3>1. k \in 1..k /\ j \in 1..k
      BY <1>2
    <3>2. bars[k].ts \in Nat /\ bars[j].ts \in Nat /\ bars[First].ts \in Nat
      BY <1>2, <2>3, <3>1
    <3>3. \A x, y, s, c \in Nat : x - y >= c /\ s <= y => x - s >= c
      OBVIOUS
    <3>4. bars[k].ts - bars[First].ts >= ConfirmFor
      BY <2>1, <2>6, <3>2, <3>3
    <3> QED  BY <2>3, <2>4, <3>4
  <2>8. Cooling(trig, trig.cand, Now)
    BY <1>1, <2>2, <2>5, <2>7 DEF OnlyTheCooldownWaits, Confirmed
  <2>9. trig.cand = "stressed" /\ trig.lastEscalation # 0 /\ Now - trig.lastEscalation < Cooldown
    BY <2>8 DEF Cooling
  <2>10. trig.regime = "normal"
    BY <1>3, <2>9 DEF Other, Regime
  <2>11. PICK e \in Escalations : bars[log[e].at].ts = trig.lastEscalation
    BY <1>1, <2>9 DEF EscalationIsKept
  <2> QED  BY <2>9, <2>10, <2>11
<1>5. \A j \in 1..k : Blind(j, k) => trig.regime = "normal"
  <2> SUFFICES ASSUME NEW j \in 1..k, Blind(j, k), trig.regime # "normal" PROVE FALSE
    OBVIOUS
  <2>1. Silent(j, k) /\ bars[k].ts - bars[j].ts >= ObservationTimeout
    BY DEF Blind
  <2>2. trig.unobserved # 0 /\ trig.unobserved <= bars[j].ts
    BY <1>1, <1>2, <2>1 DEF SilenceIsTimed
  <2>3. trig.regime = "stressed"
    BY <1>3 DEF Regime
  <2>4. Now - trig.unobserved < ObservationTimeout
    BY <1>1, <2>2, <2>3 DEF SilenceIsTimed
  <2>5. Now = bars[k].ts
    BY <1>1, <1>2, NowFacts
  <2>6. k \in 1..k
    BY <1>2
  <2>7. bars[k].ts \in Nat /\ bars[j].ts \in Nat
    BY <1>2, <2>6
  <2> QED  BY <1>3, <2>1, <2>2, <2>4, <2>5, <2>7
<1>6. trig.regime = "normal" \/ trig.regime = "stressed"
  BY <1>3 DEF Regime
<1> QED  BY <1>4, <1>5, <1>6 DEF NoTransitionIsMissed, Other

(* The invariant is inductive.                                             *)
LEMMA HistoryHolds ==
    Spec => [](TypeOK /\ HistoryInv /\ TransitionsAreJustified)
<1> DEFINE Inv == TypeOK /\ HistoryInv /\ TransitionsAreJustified
<1>1. Init => Inv
  <2> SUFFICES ASSUME Init PROVE Inv
    OBVIOUS
  <2>1. trig = NewTrigger /\ bars = <<>> /\ log = <<>>
    BY DEF Init
  <2>2. TypeOK
    BY <2>1 DEF TypeOK, NewTrigger, Trigger, Regime
  <2>3. DOMAIN bars = {} /\ Len(bars) = 0 /\ DOMAIN log = {}
    BY <2>1
  <2>4. /\ trig.cand = "none" /\ trig.unobserved = 0 /\ trig.lastEscalation = 0
    BY <2>1 DEF NewTrigger
  <2>5. Timeline /\ LogOK
    BY <2>1, <2>3 DEF Timeline, LogOK
  <2>6. Escalations = {}
    BY <2>3 DEF Escalations
  <2> QED  BY <2>2, <2>3, <2>4, <2>5, <2>6
              DEF HistoryInv, CandidateIsTheRun, OnlyTheCooldownWaits, SilenceIsTimed,
                  EscalationIsKept, TransitionsAreJustified
<1>2. Inv /\ [Next]_vars => Inv'
  <2> SUFFICES ASSUME Inv, [Next]_vars PROVE Inv'
    OBVIOUS
  <2>1. /\ TypeOK /\ Timeline /\ LogOK /\ CandidateIsTheRun /\ OnlyTheCooldownWaits
        /\ SilenceIsTimed /\ EscalationIsKept /\ TransitionsAreJustified
    BY DEF HistoryInv
  <2>2. ASSUME Next PROVE Inv'
    <3>1. PICK b, n, cause : Stepped(b, n, cause)
      BY <2>1, <2>2, NextSteps
    <3>2. Timeline'
      BY <2>1, <3>1, TimelineGrows DEF Stepped
    <3>3. LogOK' /\ \A k \in DOMAIN log' : log'[k].cause \in Cause /\ log'[k].new \in Regime
      BY <2>1, <3>1, LogStays
    <3>4. TypeOK'
      BY <3>1, <3>3 DEF TypeOK, Stepped, WellFormed
    <3>5. CandidateIsTheRun' /\ OnlyTheCooldownWaits' /\ SilenceIsTimed'
      BY <2>1, <3>1, CandidateFollows, ConfirmedMovesOn, SilenceFollows
    <3>6. EscalationIsKept' /\ TransitionsAreJustified'
      BY <2>1, <3>1, EscalationFollows, JustificationStays
    <3> QED  BY <3>2, <3>3, <3>4, <3>5, <3>6 DEF HistoryInv
  <2>3. CASE UNCHANGED vars
    BY <2>1, <2>3 DEF vars, HistoryInv, TypeOK, Timeline, LogOK, CandidateIsTheRun, First, Now,
          OnlyTheCooldownWaits, SilenceIsTimed, EscalationIsKept, TransitionsAreJustified,
          Run, Silent, Blind, Evidence, Escalations, Confirmed, Cooling
  <2> QED  BY <2>2, <2>3
<1> QED  BY <1>1, <1>2, PTL DEF Spec

(* TransitionsAreJustified for any history: no confirmation is made of     *)
(* evidence from both sides of an outage, a gate or a failover, a lost     *)
(* observation is a real silence, and escalations keep the cooldown.       *)
THEOREM EvidenceBeforeTransition == Spec => []TransitionsAreJustified
BY HistoryHolds, PTL

(* TriggerInv for any history: the counters of the trigger miss nothing    *)
(* that the bars taken together show, unless the cooldown holds it back.   *)
THEOREM EvidenceBringsTransition == Spec => []TriggerInv
<1>1. TypeOK /\ HistoryInv => TriggerInv
  BY NothingIsMissed DEF TriggerInv
<1> QED  BY <1>1, HistoryHolds, PTL

============================================================================
