--------------------------- MODULE SchmittTrigger ---------------------------
(***************************************************************************)
(* One SchmittTrigger fed bar after bar, against a reference that looks at *)
(* the whole history instead of at candidate counters.                     *)
(***************************************************************************)
EXTENDS Hysteresis, Sequences

CONSTANTS MaxBars,    \* bound: bars and failovers in one behaviour
          Gaps        \* minutes that may lie between two bars

ASSUME BarsAssumption == MaxBars \in Nat /\ Gaps \subseteq Nat \ {0}

VARIABLES trig,       \* the trigger of the current leader
          bars,       \* history: what it was fed, failovers included
          log         \* the transitions it returned

vars == <<trig, bars, log>>

Now == IF bars = <<>> THEN 0 ELSE bars[Len(bars)].ts

Init == trig = NewTrigger /\ bars = <<>> /\ log = <<>>

(* update(): a bar gap minutes after the last one.                         *)
Bar(z, gap) ==
    /\ Len(bars) < MaxBars
    /\ LET ts  == Now + gap
           res == TriggerUpdate(trig, z, ts)
       IN /\ trig' = res.trig
          /\ bars' = Append(bars, [ts |-> ts, z |-> z])
          /\ log' = IF res.cause = "none" THEN log
                    ELSE Append(log, [at |-> Len(bars) + 1, new |-> res.trig.regime,
                                      cause |-> res.cause])

(* The snapshot is restored by another process, in no time.                *)
Failover ==
    /\ Len(bars) < MaxBars
    /\ trig' = RestoreTrigger(trig)
    /\ bars' = Append(bars, [ts |-> Now, z |-> "failover"])
    /\ UNCHANGED log

Next == Failover \/ \E z \in Score \cup {"none"}, gap \in Gaps : Bar(z, gap)

Spec == Init /\ [][Next]_vars

---------------------------------------------------------------------------
(* A candidate is counted exactly while there is one.                      *)
TypeOK ==
    /\ trig \in Trigger
    /\ trig.cand = "none" <=> trig.candSamples = 0
    /\ trig.cand # trig.regime
    /\ \A k \in DOMAIN log : log[k].cause \in Cause /\ log[k].new \in Regime

(* Reference: bars j..k show `target` and follow each other closely.       *)
Run(target, j, k) ==
    /\ \A i \in j..k : bars[i].z = (IF target = "stressed" THEN "high" ELSE "low")
    /\ \A i \in (j + 1)..k : bars[i].ts - bars[i - 1].ts <= SampleTimeout

(* Reference: bars j..k show `target` without a hole, for long enough.     *)
Evidence(target, j, k) ==
    /\ Run(target, j, k)
    /\ k - j + 1 >= MinConfirmSamples
    /\ bars[k].ts - bars[j].ts >= ConfirmFor

(* Reference: no bar of j..k could be evaluated.                           *)
Silent(j, k) == \A i \in j..k : bars[i].z = "none"

(* ... for too long.                                                       *)
Blind(j, k) == Silent(j, k) /\ bars[k].ts - bars[j].ts >= ObservationTimeout

Escalations == {k \in DOMAIN log : log[k].new = "stressed"}

(* Every transition has its evidence in the history: "commit on evidence   *)
(* that is partly from before" an outage, a gate or a failover never       *)
(* happens, OBSERVATION_LOST is said only after a real silence, and two    *)
(* escalations lie at least the cooldown apart, also across failovers.     *)
TransitionsAreJustified ==
    /\ \A k \in DOMAIN log :
         LET last == log[k].at
         IN \E j \in 1..last :
               IF log[k].cause = "observation_lost" THEN Blind(j, last)
               ELSE Evidence(log[k].new, j, last)
    /\ \A d, e \in Escalations :
         d < e => bars[log[e].at].ts - bars[log[d].at].ts >= Cooldown

(* And nothing with evidence goes unreported: when the history supports the*)
(* other regime, or has been blind for too long while stressed, the trigger*)
(* is already there, unless the cooldown holds an escalation back.         *)
NoTransitionIsMissed ==
    LET k == Len(bars)
    IN \A j \in 1..k :
        /\ Evidence("normal", j, k) => trig.regime = "normal"
        /\ Blind(j, k) => trig.regime = "normal"
        /\ Evidence("stressed", j, k) =>
              \/ trig.regime = "stressed"
              \/ \E e \in Escalations : Now - bars[log[e].at].ts < Cooldown

(* The trigger is well formed, with no candidate left over, and up to date.*)
TriggerInv == TypeOK /\ NoTransitionIsMissed

---------------------------------------------------------------------------
(* What the two properties above rest on: how the fields of the trigger    *)
(* stand to the history it was fed.                                        *)

(* Time does not go back; a bar has a minute, and a failover takes none.   *)
Timeline ==
    /\ bars \in Seq([ts : Nat, z : Score \cup {"none", "failover"}])
    /\ \A i, j \in DOMAIN bars : i <= j => bars[i].ts <= bars[j].ts
    /\ \A i \in DOMAIN bars : bars[i].z # "failover" => bars[i].ts # 0

(* A transition was returned for some bar of the history.                  *)
LogOK ==
    /\ log \in Seq([at : Nat, new : Regime, cause : Cause])
    /\ \A k \in DOMAIN log : log[k].at \in DOMAIN bars

(* The bar a candidate was counted from.                                   *)
First == Len(bars) - trig.candSamples + 1

Other(regime) == IF regime = "normal" THEN "stressed" ELSE "normal"

(* A candidate is the run of bars that ends with the last one, and no run  *)
(* for the other regime is longer.                                         *)
CandidateIsTheRun ==
    /\ trig.cand # "none" =>
          /\ First \in DOMAIN bars
          /\ Run(trig.cand, First, Len(bars))
          /\ trig.candSince = bars[First].ts
          /\ trig.lastSample = Now
    /\ \A j \in DOMAIN bars :
          Run(Other(trig.regime), j, Len(bars)) => trig.cand # "none" /\ First <= j

(* A confirmed candidate that is still one waits for the cooldown.         *)
OnlyTheCooldownWaits ==
    trig.cand # "none" /\ Confirmed(trig, Now) => Cooling(trig, trig.cand, Now)

(* unobserved is the minute the current silence began, and a stressed      *)
(* trigger has not been silent for too long.                               *)
SilenceIsTimed ==
    /\ trig.unobserved # 0 =>
          /\ \E j \in DOMAIN bars : Silent(j, Len(bars)) /\ bars[j].ts = trig.unobserved
          /\ trig.regime = "stressed" => Now - trig.unobserved < ObservationTimeout
    /\ \A j \in DOMAIN bars : Silent(j, Len(bars)) =>
          trig.unobserved # 0 /\ trig.unobserved <= bars[j].ts

(* last_escalation is the minute of the latest escalation, failovers       *)
(* included.                                                               *)
EscalationIsKept ==
    /\ \A e \in Escalations :
          trig.lastEscalation # 0 /\ bars[log[e].at].ts <= trig.lastEscalation
    /\ trig.lastEscalation # 0 =>
          \E e \in Escalations : bars[log[e].at].ts = trig.lastEscalation

HistoryInv ==
    /\ Timeline
    /\ LogOK
    /\ CandidateIsTheRun
    /\ OnlyTheCooldownWaits
    /\ SilenceIsTimed
    /\ EscalationIsKept

============================================================================
