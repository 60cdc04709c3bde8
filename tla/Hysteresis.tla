----------------------------- MODULE Hysteresis -----------------------------
(***************************************************************************)
(* SchmittTrigger of packages/core/fx_core/alerts/hysteresis.py as         *)
(* operators on a record, one per method.  Time is the minute of the bar   *)
(* (1, 2, ...); 0 stands for a timestamp that is None.                     *)
(*                                                                         *)
(* A z-score is what the thresholds make of it: "high" (z >= enter_z),     *)
(* "low" (z <= exit_z), "band" (between; exit_z < enter_z keeps the three  *)
(* apart) or "none" (no score, or a gate says do not evaluate).            *)
(***************************************************************************)
EXTENDS Integers

CONSTANTS MinConfirmSamples,   \* min_confirm_samples
          ConfirmFor,          \* confirm_for
          SampleTimeout,       \* sample_timeout
          Cooldown,            \* cooldown
          ThawAfter,           \* thaw_after
          ObservationTimeout   \* observation_timeout

(* TriggerConfig.__post_init__.                                            *)
ASSUME TriggerAssumption ==
    /\ MinConfirmSamples \in Nat \ {0}
    /\ ConfirmFor \in Nat /\ SampleTimeout \in Nat
    /\ SampleTimeout > ConfirmFor
    /\ Cooldown \in Nat /\ ThawAfter \in Nat /\ ObservationTimeout \in Nat

Regime == {"normal", "stressed"}
Score  == {"high", "band", "low"}
Cause  == {"threshold", "baseline_thaw", "observation_lost"}

Trigger == [regime : Regime, seq : Nat, since : Nat,
            cand : Regime \cup {"none"}, candSince : Nat, candSamples : Nat,
            lastSample : Nat, lastEscalation : Nat, unobserved : Nat,
            thawed : BOOLEAN]

(* SchmittTrigger(symbol).                                                 *)
NewTrigger == [regime |-> "normal", seq |-> 0, since |-> 0,
               cand |-> "none", candSince |-> 0, candSamples |-> 0,
               lastSample |-> 0, lastEscalation |-> 0, unobserved |-> 0,
               thawed |-> FALSE]

---------------------------------------------------------------------------
(* Mutated forms of the definitions that follow.                           *)

(* The confirmation completed across an outage.                            *)
ChainNeverBreaks(t, ts) == FALSE

(* A thaw that is not remembered.                                          *)
ThawUnmarked(t) == t

(* A snapshot without last_escalation.                                     *)
RestoreForgetsEscalation(t) ==
    [NewTrigger EXCEPT !.regime = t.regime, !.seq = t.seq, !.since = t.since,
                       !.thawed = t.thawed]

(* hold counts the silence from the beginning of the event.               *)
HoldFromEvent(t, ts) ==
    LET held == [t EXCEPT !.cand = "none", !.candSince = 0, !.candSamples = 0,
                          !.unobserved = IF @ = 0 THEN ts ELSE @]
    IN IF t.regime = "stressed" /\ ts - t.since >= ObservationTimeout
       THEN [trig  |-> [held EXCEPT !.regime = "normal", !.seq = @ + 1, !.since = ts,
                                    !.thawed = FALSE],
             cause |-> "observation_lost"]
       ELSE [trig |-> held, cause |-> "none"]

(* held_for <= confirm_for instead of <.                                   *)
ConfirmedLate(t, ts) ==
    t.candSamples >= MinConfirmSamples /\ ts - t.candSince > ConfirmFor

---------------------------------------------------------------------------
reset_candidate(t) ==
    [t EXCEPT !.cand = "none", !.candSince = 0, !.candSamples = 0]

target_regime(t, z) ==
    IF t.regime = "normal"
    THEN IF z = "high" THEN "stressed" ELSE "normal"
    ELSE IF z = "low" THEN "normal" ELSE "stressed"

commit(t, target, ts) ==
    [reset_candidate(t) EXCEPT
        !.regime = target, !.seq = @ + 1, !.since = ts, !.thawed = FALSE,
        !.lastEscalation = IF target = "stressed" THEN ts ELSE @]

(* What update() leaves behind and what it returns: the cause of the       *)
(* transition it committed, or "none".                                     *)
Quiet(t) == [trig |-> t, cause |-> "none"]

(* Enough samples and enough time behind the candidate.                    *)
Confirmed(t, ts) ==
    t.candSamples >= MinConfirmSamples /\ ts - t.candSince >= ConfirmFor

(* The rate limit, on escalations only.                                    *)
Cooling(t, target, ts) ==
    target = "stressed" /\ t.lastEscalation # 0 /\ ts - t.lastEscalation < Cooldown

accumulate(t, target, ts) ==
    LET grown == IF t.cand # target
                 THEN [t EXCEPT !.cand = target, !.candSince = ts, !.candSamples = 1]
                 ELSE [t EXCEPT !.candSamples = @ + 1]
    IN IF ~Confirmed(grown, ts) \/ Cooling(t, target, ts)
       THEN Quiet(grown)
       ELSE [trig  |-> commit(grown, target, ts),
             cause |-> IF target = "normal" /\ t.thawed THEN "baseline_thaw"
                                                        ELSE "threshold"]

hold(t, ts) ==
    LET held == [reset_candidate(t) EXCEPT
                    !.unobserved = IF @ = 0 THEN ts ELSE @]
    IN IF t.regime = "stressed" /\ ts - held.unobserved >= ObservationTimeout
       THEN [trig |-> commit(held, "normal", ts), cause |-> "observation_lost"]
       ELSE Quiet(held)

(* A gap that breaks the chain of consecutive observations.                *)
ChainBroken(t, ts) == t.lastSample # 0 /\ ts - t.lastSample > SampleTimeout

(* update() with a score.                                                  *)
Evaluate(t, z, ts) ==
    LET chained == IF ChainBroken(t, ts) THEN reset_candidate(t) ELSE t
        seen    == [chained EXCEPT !.unobserved = 0, !.lastSample = ts]
        target  == target_regime(t, z)
    IN IF target = t.regime THEN Quiet(reset_candidate(seen))
       ELSE accumulate(seen, target, ts)

TriggerUpdate(t, z, ts) == IF z = "none" THEN hold(t, ts) ELSE Evaluate(t, z, ts)

baseline_should_thaw(t, now) ==
    t.regime = "stressed" /\ t.since # 0 /\ now - t.since >= ThawAfter

mark_thawed(t) == [t EXCEPT !.thawed = TRUE]

(* snapshot() then restore(): the candidate, the last sample and the length*)
(* of a silence are not carried across a failover.                         *)
RestoreTrigger(t) ==
    [NewTrigger EXCEPT !.regime = t.regime, !.seq = t.seq, !.since = t.since,
                       !.lastEscalation = t.lastEscalation, !.thawed = t.thawed]

============================================================================
