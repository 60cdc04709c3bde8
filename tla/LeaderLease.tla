---------------------------- MODULE LeaderLease ----------------------------
(***************************************************************************)
(* The Redis lease of packages/platform/fx_platform/leader.py that elects  *)
(* the one ingestor and the one bar persister.                             *)
(*                                                                         *)
(* The key is a pair: who owns it and how many milliseconds it has left.   *)
(* Every replica is one LeaderLease object.  Time is discrete; `age` counts*)
(* the milliseconds a replica has spent in its present step, and Limit     *)
(* bounds that time: `delay` is the longest a scheduled step (a wake-up, a *)
(* request reaching Redis, a reply reaching the process) may be late, a    *)
(* parameter of the behaviour, fixed by Init; Grace the longest the body of*)
(* hold() runs on after `lost` is set.  A garbage-collection pause is a    *)
(* large delay.                                                            *)
(*                                                                         *)
(* Redis runs a command in one step and the process sees its result in a   *)
(* later one: "won", "renewed" and "refused" are replies still on the wire.*)
(***************************************************************************)
EXTENDS Integers, FiniteSets

CONSTANTS Replica,     \* LeaderLease objects, one per process
          NoOne,       \* the key does not exist
          Ghost,       \* the key holds the uuid of a process that has died
          TtlMs,       \* ttl_ms
          RenewMs,     \* renew_ms
          Delays,      \* how late a due step may be: one for each behaviour
          Grace,       \* the longest the body outlives `lost`
          MaxCrashes   \* bound: process deaths in one behaviour

(* LeaderLease.__init__ refuses renew_ms >= ttl_ms / 2.                    *)
ASSUME LeaseAssumption ==
    /\ TtlMs \in Nat /\ RenewMs \in Nat /\ Delays \subseteq Nat /\ Grace \in Nat
    /\ RenewMs > 0
    /\ 2 * RenewMs < TtlMs
    /\ MaxCrashes \in Nat
    /\ NoOne \notin Replica /\ Ghost \notin Replica /\ NoOne # Ghost

VARIABLES owner,       \* the key's value in Redis
          ttl,         \* the key's PTTL
          pc,          \* where each replica is in hold() and _renew_loop()
          age,         \* milliseconds spent there
          isLeader,    \* _is_leader
          lost,        \* _lost.is_set()
          crashes,
          delay        \* the latest a due step happens in this behaviour

vars == <<owner, ttl, pc, age, isLeader, lost, crashes, delay>>

Owners == Replica \cup {NoOne, Ghost}

(* standby   polling _acquire once a second                                *)
(* won       SET NX succeeded, its reply is on the wire                    *)
(* sleeping  in the body; _renew_loop sleeps, then its EVAL travels        *)
(* renewed   the EVAL returned 1, refused: it returned 0 or raised         *)
(* deposed   `lost` is set, the body has not unwound yet                   *)
(* releasing hold()'s finally: _release() is on its way                    *)
Steps == {"down", "standby", "won", "sleeping", "renewed", "refused",
          "deposed", "releasing"}

(* The block under `async with lease.hold()` is running.                   *)
Body == {"sleeping", "renewed", "refused", "deposed"}

(* The steps whose duration is bounded; the others may take any time.      *)
Timed == Body \cup {"won"}

Limit(step) == IF step = "sleeping" THEN RenewMs + delay
               ELSE IF step = "deposed" THEN Grace ELSE delay

Init ==
    /\ owner = NoOne
    /\ ttl = 0
    /\ pc = [i \in Replica |-> "standby"]
    /\ age = [i \in Replica |-> 0]
    /\ isLeader = [i \in Replica |-> FALSE]
    /\ lost = [i \in Replica |-> FALSE]
    /\ crashes = 0
    /\ delay \in Delays

Goto(i, step) ==
    /\ pc' = [pc EXCEPT ![i] = step]
    /\ age' = [age EXCEPT ![i] = 0]
    /\ UNCHANGED delay

---------------------------------------------------------------------------
(* Mutated forms of the definitions that follow.                           *)

(* GET-then-PEXPIRE without the comparison.                                *)
RenewLuaUnchecked(i) == owner # NoOne

(* DEL without the comparison.                                             *)
ReleaseLuaUnchecked(i) == owner # NoOne

(* SET without NX.                                                         *)
SetNxUnchecked == TRUE

(* SET without PX: the key never expires.                                  *)
TickWithoutPx ==
    /\ \A i \in Replica : pc[i] \in Timed => age[i] < Limit(pc[i])
    /\ age' = [i \in Replica |-> IF pc[i] \in Timed THEN age[i] + 1 ELSE age[i]]
    /\ UNCHANGED <<owner, ttl, pc, isLeader, lost, crashes, delay>>

---------------------------------------------------------------------------
(* The three commands, as Redis evaluates them.                            *)

SetNxSucceeds == owner = NoOne

RenewLuaMatches(i) == owner = i

ReleaseLuaMatches(i) == owner = i

---------------------------------------------------------------------------
(* SET key id NX PX ttl.  A refused poll sleeps a second and changes       *)
(* nothing.                                                                *)
Acquire(i) ==
    /\ pc[i] = "standby"
    /\ SetNxSucceeds
    /\ owner' = i
    /\ ttl' = TtlMs
    /\ Goto(i, "won")
    /\ UNCHANGED <<isLeader, lost, crashes>>

(* The SET was executed and its reply was lost: RedisError leaves hold()   *)
(* before the try block, so nothing releases the key.                      *)
AcquireReplyLost(i) ==
    /\ pc[i] = "won"
    /\ Goto(i, "standby")
    /\ UNCHANGED <<owner, ttl, isLeader, lost, crashes>>

(* hold() sees the SET's reply, clears `lost`, starts the renewer, yields. *)
Enter(i) ==
    /\ pc[i] = "won"
    /\ isLeader' = [isLeader EXCEPT ![i] = TRUE]
    /\ lost' = [lost EXCEPT ![i] = FALSE]
    /\ Goto(i, "sleeping")
    /\ UNCHANGED <<owner, ttl, crashes>>

(* The EVAL of _renew reaches Redis.                                       *)
Renew(i) ==
    /\ pc[i] = "sleeping"
    /\ age[i] >= RenewMs
    /\ \/ /\ RenewLuaMatches(i)
          /\ ttl' = TtlMs
          /\ Goto(i, "renewed")
       \/ /\ ~RenewLuaMatches(i)
          /\ UNCHANGED ttl
          /\ Goto(i, "refused")
    /\ UNCHANGED <<owner, isLeader, lost, crashes>>

(* RedisError out of _renew: the EVAL did not run, or ran unheard.         *)
RenewError(i) ==
    /\ pc[i] = "sleeping"
    /\ age[i] >= RenewMs
    /\ ttl' \in {ttl, IF RenewLuaMatches(i) THEN TtlMs ELSE ttl}
    /\ Goto(i, "refused")
    /\ UNCHANGED <<owner, isLeader, lost, crashes>>

(* The renewer hears 1 and sleeps again.                                   *)
KeepLeading(i) ==
    /\ pc[i] = "renewed"
    /\ Goto(i, "sleeping")
    /\ UNCHANGED <<owner, ttl, isLeader, lost, crashes>>

(* The renewer hears 0 or an error and returns; the body is told by `lost`.*)
Depose(i) ==
    /\ pc[i] = "refused"
    /\ isLeader' = [isLeader EXCEPT ![i] = FALSE]
    /\ lost' = [lost EXCEPT ![i] = TRUE]
    /\ Goto(i, "deposed")
    /\ UNCHANGED <<owner, ttl, crashes>>

(* The body ends, by itself, by an exception or because of `lost`: the     *)
(* renewer is cancelled and is_leader cleared before _release.             *)
LeaveBody(i) ==
    /\ pc[i] \in Body
    /\ isLeader' = [isLeader EXCEPT ![i] = FALSE]
    /\ Goto(i, "releasing")
    /\ UNCHANGED <<owner, ttl, lost, crashes>>

(* The EVAL of _release reaches Redis, however late.                       *)
Release(i) ==
    /\ pc[i] = "releasing"
    /\ IF ReleaseLuaMatches(i)
       THEN owner' = NoOne /\ ttl' = 0
       ELSE UNCHANGED <<owner, ttl>>
    /\ Goto(i, "standby")
    /\ UNCHANGED <<isLeader, lost, crashes>>

(* RedisError out of _release is suppressed: the key is left to expire.    *)
ReleaseError(i) ==
    /\ pc[i] = "releasing"
    /\ Goto(i, "standby")
    /\ UNCHANGED <<owner, ttl, isLeader, lost, crashes>>

(* The process dies.  Its key lives on under a uuid nobody has any more.   *)
Crash(i) ==
    /\ pc[i] # "down"
    /\ crashes < MaxCrashes
    /\ crashes' = crashes + 1
    /\ owner' = IF owner = i THEN Ghost ELSE owner
    /\ isLeader' = [isLeader EXCEPT ![i] = FALSE]
    /\ lost' = [lost EXCEPT ![i] = FALSE]
    /\ Goto(i, "down")
    /\ UNCHANGED ttl

(* The orchestrator starts it again, with a new uuid.                      *)
Restart(i) ==
    /\ pc[i] = "down"
    /\ Goto(i, "standby")
    /\ UNCHANGED <<owner, ttl, isLeader, lost, crashes>>

(* One millisecond passes, unless some step is at its limit.               *)
Tick ==
    /\ \A i \in Replica : pc[i] \in Timed => age[i] < Limit(pc[i])
    /\ age' = [i \in Replica |-> IF pc[i] \in Timed THEN age[i] + 1 ELSE age[i]]
    /\ ttl' = IF ttl = 0 THEN 0 ELSE ttl - 1
    /\ owner' = IF ttl <= 1 THEN NoOne ELSE owner
    /\ UNCHANGED <<pc, isLeader, lost, crashes, delay>>

Step(i) ==
    \/ Acquire(i) \/ AcquireReplyLost(i) \/ Enter(i)
    \/ Renew(i) \/ RenewError(i) \/ KeepLeading(i) \/ Depose(i)
    \/ LeaveBody(i) \/ Release(i) \/ ReleaseError(i)
    \/ Crash(i) \/ Restart(i)

Next == Tick \/ \E i \in Replica : Step(i)

Spec == Init /\ [][Next]_vars

(* Fairness: the clock runs; a live process takes its due steps (asyncio   *)
(* runs every ready task) and the orchestrator restarts a dead one.  Errors*)
(* and crashes are never owed.  Enter is strongly fair: the network does   *)
(* not lose the reply of every SET that ever succeeds.                     *)
Fairness ==
    /\ WF_vars(Tick)
    /\ \A i \in Replica :
        /\ WF_vars(Acquire(i)) /\ SF_vars(Enter(i)) /\ WF_vars(Renew(i))
        /\ WF_vars(KeepLeading(i)) /\ WF_vars(Depose(i))
        /\ WF_vars(pc[i] = "deposed" /\ LeaveBody(i))
        /\ WF_vars(Release(i)) /\ WF_vars(Restart(i))

FairSpec == Spec /\ Fairness

---------------------------------------------------------------------------
TypeOK ==
    /\ owner \in Owners
    /\ ttl \in 0..TtlMs
    /\ pc \in [Replica -> Steps]
    /\ age \in [Replica -> Nat]
    /\ isLeader \in [Replica -> BOOLEAN]
    /\ lost \in [Replica -> BOOLEAN]
    /\ crashes \in 0..MaxCrashes
    /\ delay \in Delays

(* The timing under which the lease excludes: the worst path from one      *)
(* PEXPIRE to the end of the body (reply, sleep, failed renewal, its reply,*)
(* unwinding) is shorter than the TTL.                                     *)
Timely == RenewMs + 3 * delay + Grace < TtlMs

(* What a replica's step costs at most since its last PEXPIRE.             *)
Spent(step) == (IF step \in {"sleeping", "refused", "deposed"} THEN delay ELSE 0)
             + (IF step \in {"refused", "deposed"} THEN RenewMs + delay ELSE 0)
             + (IF step = "deposed" THEN delay ELSE 0)

(* A replica past its SET NX owns the key, with enough of it left.         *)
Covered(i) ==
    pc[i] \in Timed =>
        /\ owner = i
        /\ age[i] <= Limit(pc[i])
        /\ ttl + age[i] + Spent(pc[i]) >= TtlMs

(* The inductive invariant of the timely lease.                            *)
LeaseInv == Timely => \A i \in Replica : Covered(i)

(* Under Timely no two replicas run the body of hold() at once, not even   *)
(* while a deposed one is still unwinding: one upstream socket, one        *)
(* persister (leader.py: "exactly one replica holds the lease").           *)
MutualExclusion ==
    Timely => \A i, j \in Replica : pc[i] \in Body /\ pc[j] \in Body => i = j

(* A step of replica i never takes the key from another live owner and     *)
(* never prolongs it: only expiry, the owner's own renewal and release,    *)
(* and the owner's death change it (the compare-and-set of the Lua scripts:*)
(* "never DEL a lease you no longer own").                                 *)
OnlyTheOwnerTouchesTheKey ==
    [][\A j \in Replica : owner = j =>
        /\ owner' # j => \/ ttl = 1 /\ pc' = pc
                         \/ pc[j] = "releasing" /\ pc'[j] = "standby"
                         \/ pc'[j] = "down"
        /\ ttl' > ttl => pc[j] = "sleeping" /\ pc'[j] \in {"renewed", "refused"}]_vars

(* Failover: the lease of a dead process passes on, "within ttl_ms if the  *)
(* leader dies", to some replica that enters its body.                     *)
DeadLeaderIsReplaced ==
    owner = Ghost ~> \E i \in Replica : isLeader[i]

(* A replica whose key is gone finds out and unwinds, so an overlap of two *)
(* bodies, which a pause longer than the TTL allows, always ends.          *)
OverlapEnds ==
    \A i \in Replica : (pc[i] \in Body /\ owner # i) ~> (pc[i] \notin Body)

(* What leader.py says of renew_ms < ttl_ms / 2: "One dropped packet and   *)
(* you lose leadership while perfectly healthy" is what it prevents.  A    *)
(* replica is deposed only once its key is no longer its own.              *)
DeposedOnlyWithoutTheKey ==
    [][\A i \in Replica : isLeader[i] /\ lost'[i] /\ ~lost[i] => owner # i]_vars

============================================================================
