------------------------- MODULE LeaderLeaseProofs -------------------------
(***************************************************************************)
(* What the lease of LeaderLease guarantees for every set of replicas and  *)
(* every timing: type correctness, the compare-and-set discipline, and,    *)
(* when the timing is Timely, mutual exclusion of the bodies.              *)
(***************************************************************************)
EXTENDS LeaderLease, TLAPS

USE LeaseAssumption

(* Every step of the lease keeps its state well formed.                    *)
THEOREM TypeCorrect == Spec => []TypeOK
<1>1. Init => TypeOK
  BY DEF Init, TypeOK, Owners, Steps
<1>2. TypeOK /\ [Next]_vars => TypeOK'
  <2> SUFFICES ASSUME TypeOK, [Next]_vars
               PROVE  TypeOK'
    OBVIOUS
  <2> USE DEF TypeOK, Owners, Steps, Goto
  <2>1. CASE Tick
    BY <2>1 DEF Tick
  <2>2. ASSUME NEW i \in Replica, Step(i)
        PROVE  TypeOK'
    <3>1. CASE Acquire(i)
      BY <3>1 DEF Acquire
    <3>2. CASE AcquireReplyLost(i)
      BY <3>2 DEF AcquireReplyLost
    <3>3. CASE Enter(i)
      BY <3>3 DEF Enter
    <3>4. CASE Renew(i)
      BY <3>4 DEF Renew
    <3>5. CASE RenewError(i)
      BY <3>5 DEF RenewError
    <3>6. CASE KeepLeading(i)
      BY <3>6 DEF KeepLeading
    <3>7. CASE Depose(i)
      BY <3>7 DEF Depose
    <3>8. CASE LeaveBody(i)
      BY <3>8 DEF LeaveBody
    <3>9. CASE Release(i)
      BY <3>9 DEF Release
    <3>10. CASE ReleaseError(i)
      BY <3>10 DEF ReleaseError
    <3>11. CASE Crash(i)
      BY <3>11 DEF Crash
    <3>12. CASE Restart(i)
      BY <3>12 DEF Restart
    <3>13. QED
      BY <2>2, <3>1, <3>2, <3>3, <3>4, <3>5, <3>6, <3>7, <3>8, <3>9, <3>10,
         <3>11, <3>12 DEF Step
  <2>3. CASE UNCHANGED vars
    BY <2>3 DEF vars
  <2>4. QED
    BY <2>1, <2>2, <2>3 DEF Next
<1>3. QED
  BY <1>1, <1>2, PTL DEF Spec

(* The inductive heart of the lease: a replica past its SET NX owns the    *)
(* key, and the time it has left covers the longest path to its exit.      *)
LEMMA LeaseInvStep ==
  ASSUME TypeOK, LeaseInv, [Next]_vars
  PROVE  LeaseInv'
<1>0. delay' = delay
  BY DEF Next, vars, Tick, Step, Goto, Acquire, AcquireReplyLost, Enter, Renew,
         RenewError, KeepLeading, Depose, LeaveBody, Release, ReleaseError,
         Crash, Restart
<1> SUFFICES ASSUME Timely
             PROVE  \A k \in Replica : Covered(k)'
  BY <1>0 DEF LeaseInv, Timely
<1> USE DEF LeaseInv, Covered, TypeOK, Timed, Body, Limit, Spent, Timely, Goto
<1>1. CASE Tick
  <2> SUFFICES ASSUME NEW k \in Replica
               PROVE  Covered(k)'
    OBVIOUS
  <2>1. CASE pc[k] \in Timed
    <3>1. age[k] < Limit(pc[k]) /\ owner = k
      BY <1>1, <2>1 DEF Tick
    <3>2. pc' = pc /\ age'[k] = age[k] + 1
      BY <1>1, <2>1 DEF Tick
    <3>3. ttl > 1
      BY <2>1, <3>1 DEF Steps
    <3>4. ttl' = ttl - 1 /\ owner' = owner
      BY <1>1, <3>3 DEF Tick
    <3>5. QED
      BY <1>0, <2>1, <3>1, <3>2, <3>3, <3>4 DEF Steps
  <2>2. CASE pc[k] \notin Timed
    BY <1>1, <2>2 DEF Tick
  <2>3. QED
    BY <2>1, <2>2
<1>2. ASSUME NEW i \in Replica, Step(i)
      PROVE  \A k \in Replica : Covered(k)'
  <2> USE DEF RenewLuaMatches, ReleaseLuaMatches, SetNxSucceeds, Steps
  <2>1. CASE Acquire(i)
    BY <2>1 DEF Acquire
  <2>2. CASE AcquireReplyLost(i)
    BY <2>2 DEF AcquireReplyLost
  <2>3. CASE Enter(i)
    BY <2>3 DEF Enter
  <2>4. CASE Renew(i)
    BY <2>4 DEF Renew
  <2>5. CASE RenewError(i)
    BY <2>5 DEF RenewError
  <2>6. CASE KeepLeading(i)
    BY <2>6 DEF KeepLeading
  <2>7. CASE Depose(i)
    BY <2>7 DEF Depose
  <2>8. CASE LeaveBody(i)
    BY <2>8 DEF LeaveBody
  <2>9. CASE Release(i)
    BY <2>9 DEF Release
  <2>10. CASE ReleaseError(i)
    BY <2>10 DEF ReleaseError
  <2>11. CASE Crash(i)
    BY <2>11 DEF Crash
  <2>12. CASE Restart(i)
    BY <2>12 DEF Restart
  <2>13. QED
    BY <1>2, <2>1, <2>2, <2>3, <2>4, <2>5, <2>6, <2>7, <2>8, <2>9, <2>10,
       <2>11, <2>12 DEF Step
<1>3. CASE UNCHANGED vars
  BY <1>3 DEF vars
<1>4. QED
  BY <1>1, <1>2, <1>3 DEF Next

(* Under a timely scheduler a replica past its SET owns the key, with more *)
(* of the TTL left than it can still need before its next PEXPIRE.         *)
THEOREM LeaseIsCovered == Spec => []LeaseInv
<1>1. Init => LeaseInv
  BY DEF Init, LeaseInv, Covered, Timed, Body
<1>2. TypeOK /\ LeaseInv /\ [Next]_vars => LeaseInv'
  BY LeaseInvStep
<1>3. QED
  BY <1>1, <1>2, TypeCorrect, PTL DEF Spec

(* With a timely scheduler the lease never lets two replicas run their     *)
(* bodies at once, whatever errors Redis raises and whoever crashes.       *)
THEOREM TimelyLeaseExcludes == Spec => []MutualExclusion
<1>1. LeaseInv => MutualExclusion
  BY DEF LeaseInv, Covered, MutualExclusion, Timed
<1>2. QED
  BY <1>1, LeaseIsCovered, PTL

(* For every timing, also when pauses outlive the TTL: nobody but its      *)
(* owner, the clock and the owner's death changes a key.                   *)
THEOREM KeyIsFenced == Spec => OnlyTheOwnerTouchesTheKey
<1> DEFINE Fenced(j) ==
      owner = j =>
        /\ owner' # j => \/ ttl = 1 /\ pc' = pc
                         \/ pc[j] = "releasing" /\ pc'[j] = "standby"
                         \/ pc'[j] = "down"
        /\ ttl' > ttl => pc[j] = "sleeping" /\ pc'[j] \in {"renewed", "refused"}
<1> DEFINE KeyLives == \A j \in Replica : owner = j => ttl > 0
<1>1. Init => KeyLives
  BY DEF Init
<1>2. TypeOK /\ KeyLives /\ [Next]_vars => KeyLives'
  <2> SUFFICES ASSUME TypeOK, KeyLives, [Next]_vars
               PROVE  KeyLives'
    OBVIOUS
  <2> USE DEF TypeOK, Goto
  <2>1. CASE Tick
    BY <2>1 DEF Tick
  <2>2. ASSUME NEW i \in Replica, Step(i)
        PROVE  KeyLives'
    BY <2>2 DEF Step, Acquire, AcquireReplyLost, Enter, Renew, RenewError,
                KeepLeading, Depose, LeaveBody, Release, ReleaseError, Crash,
                Restart, RenewLuaMatches, ReleaseLuaMatches, SetNxSucceeds
  <2>3. CASE UNCHANGED vars
    BY <2>3 DEF vars
  <2>4. QED
    BY <2>1, <2>2, <2>3 DEF Next
<1>3. TypeOK /\ KeyLives /\ [Next]_vars => [\A j \in Replica : Fenced(j)]_vars
  <2> SUFFICES ASSUME TypeOK, KeyLives, Next, NEW j \in Replica, owner = j
               PROVE  Fenced(j)
    BY DEF vars
  <2> USE DEF TypeOK, Goto, Steps
  <2>1. CASE Tick
    BY <2>1 DEF Tick
  <2>2. ASSUME NEW i \in Replica, Step(i)
        PROVE  Fenced(j)
    <3> USE DEF RenewLuaMatches, ReleaseLuaMatches, SetNxSucceeds
    <3>1. CASE Acquire(i)
      BY <3>1 DEF Acquire
    <3>2. CASE AcquireReplyLost(i)
      BY <3>2 DEF AcquireReplyLost
    <3>3. CASE Enter(i)
      BY <3>3 DEF Enter
    <3>4. CASE Renew(i)
      BY <3>4 DEF Renew
    <3>5. CASE RenewError(i)
      BY <3>5 DEF RenewError
    <3>6. CASE KeepLeading(i)
      BY <3>6 DEF KeepLeading
    <3>7. CASE Depose(i)
      BY <3>7 DEF Depose
    <3>8. CASE LeaveBody(i)
      BY <3>8 DEF LeaveBody
    <3>9. CASE Release(i)
      BY <3>9 DEF Release
    <3>10. CASE ReleaseError(i)
      BY <3>10 DEF ReleaseError
    <3>11. CASE Crash(i)
      BY <3>11 DEF Crash
    <3>12. CASE Restart(i)
      BY <3>12 DEF Restart
    <3>13. QED
      BY <2>2, <3>1, <3>2, <3>3, <3>4, <3>5, <3>6, <3>7, <3>8, <3>9, <3>10,
         <3>11, <3>12 DEF Step
  <2>3. QED
    BY <2>1, <2>2 DEF Next
<1>4. QED
  BY <1>1, <1>2, <1>3, TypeCorrect, PTL DEF Spec, OnlyTheOwnerTouchesTheKey

============================================================================
