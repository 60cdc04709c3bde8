------------------------ MODULE FeedSupervisorProofs ------------------------
(***************************************************************************)
(* The breaker leaves a failing provider alone, for every threshold, rest, *)
(* ladder and timeout and any number of faults and lost leases.            *)
(***************************************************************************)
EXTENDS FeedSupervisor, TLAPS

Fields == {"pc", "lost", "shutdown", "raised", "breaker", "attempt", "age", "idle",
           "quoted", "wait", "stale", "last", "body", "beat", "failAge"}

(* The process is a record with these fields; what the breaker's promise   *)
(* needs of their values is in Rested.                                     *)
IsProcess(s) == s = [x \in Fields |-> s[x]]

(* A process that ends when it leaves the leader's loop.                   *)
Ending(s) ==
    s.pc = "exiting" \/ (s.pc = "leaving" /\ (s.shutdown = TRUE \/ s.raised # "no"))

(* The breaker's side of it: fewer failures than the threshold while it is *)
(* closed, as long open as the last failure is old, half open only for the *)
(* attempt it let through or in a process that ends.                       *)
Rested(s) ==
    /\ IsProcess(s)
    /\ s.breaker \in Breaker /\ s.failAge \in 0..ResetAfter
    /\ s.breaker.state = "closed" => s.breaker.failures < FailThreshold
    /\ s.breaker.state # "closed" => s.breaker.failures = FailThreshold
    /\ s.breaker.state = "open" => s.failAge = s.breaker.age /\ s.pc \notin Session
    /\ s.breaker.state = "half_open" => s.pc \in Session \/ Ending(s)

LEMMA Parameters ==
    /\ FailThreshold \in Nat \ {0} /\ ResetAfter \in Nat \ {0}
BY SupervisorAssumption

LEMMA OneField ==
    ASSUME NEW s, IsProcess(s), NEW x \in Fields, NEW v
    PROVE  IsProcess([s EXCEPT ![x] = v])
BY DEF IsProcess

(* What a failure leaves of a breaker that let the attempt through.        *)
LEMMA Failure ==
    ASSUME NEW b \in Breaker, b.state # "open",
           b.state = "closed" => b.failures < FailThreshold,
           b.state = "half_open" => b.failures = FailThreshold
    PROVE  LET r == record_failure(b)
           IN /\ r \in Breaker
              /\ \/ r.state = "open" /\ r.failures = FailThreshold /\ r.age = 0
                 \/ r.state = "closed" /\ r.failures < FailThreshold
BY Parameters DEF record_failure, Breaker, Least

LEMMA Fresh == NewBreaker \in Breaker /\ NewBreaker.state = "closed" /\ NewBreaker.failures = 0
BY Parameters DEF NewBreaker, Breaker

LEMMA NewProcessRested == Rested(NewProcess) /\ Rested(Gone)
                          /\ \A why : Rested([Gone EXCEPT !.raised = why])
<1>1. IsProcess(NewProcess) /\ IsProcess(Gone) /\ \A why : IsProcess([Gone EXCEPT !.raised = why])
  BY DEF NewProcess, Gone, IsProcess, Fields
<1>2. /\ NewProcess.breaker = NewBreaker /\ NewProcess.failAge = ResetAfter
      /\ Gone.breaker = NewBreaker /\ Gone.failAge = ResetAfter
      /\ \A why : [Gone EXCEPT !.raised = why].breaker = NewBreaker
                  /\ [Gone EXCEPT !.raised = why].failAge = ResetAfter
  BY DEF NewProcess, Gone
<1> QED  BY <1>1, <1>2, Fresh, Parameters DEF Rested

(* A process with the breaker, its age and its place in the loop as they   *)
(* were, or moved on without an attempt under way.                         *)
LEMMA SameBreaker ==
    ASSUME NEW s, Rested(s), NEW t, IsProcess(t),
           t.breaker = s.breaker, t.failAge = s.failAge,
           s.pc \notin Session => t.pc \notin Session,
           s.pc \in Session => t.pc \in Session \/ Ending(t),
           Ending(s) => Ending(t)
    PROVE  Rested(t)
BY DEF Rested

(* The end of a session: its outcome is in the breaker.                    *)
LEMMA NoSessionFields ==
    ASSUME NEW s, IsProcess(s)
    PROVE  /\ IsProcess(NoSession(s))
           /\ \A x \in Fields \ {"age", "idle", "quoted", "wait"} : NoSession(s)[x] = s[x]
BY DEF NoSession, IsProcess, Fields

LEMMA ReturnedRests ==
    ASSUME NEW s, Rested(s), s.pc \in Session, NEW t, IsProcess(t),
           t.breaker = Returned(s).breaker, t.failAge = Returned(s).failAge,
           t.pc \notin Session
    PROVE  Rested(t)
<1> DEFINE h == s.age >= MinHealthy
<1>1. IsProcess(NoSession(s)) /\ NoSession(s).breaker = s.breaker /\ NoSession(s).failAge = s.failAge
  BY NoSessionFields DEF Rested, Fields
<1>2. /\ t.breaker = (IF h THEN NewBreaker ELSE record_failure(s.breaker))
      /\ t.failAge = (IF h THEN s.failAge ELSE 0)
  BY <1>1 DEF Returned, record_success, IsProcess, Fields
<1>3. s.breaker \in Breaker /\ s.breaker.state # "open" /\ s.failAge \in 0..ResetAfter
      /\ (s.breaker.state = "closed" => s.breaker.failures < FailThreshold)
      /\ (s.breaker.state = "half_open" => s.breaker.failures = FailThreshold)
  BY DEF Rested
<1>4. CASE h
  BY <1>2, <1>3, <1>4, Fresh, Parameters DEF Rested
<1>5. CASE ~h
  <2> DEFINE r == record_failure(s.breaker)
  <2>1. /\ r \in Breaker
        /\ \/ r.state = "open" /\ r.failures = FailThreshold /\ r.age = 0
           \/ r.state = "closed" /\ r.failures < FailThreshold
    BY <1>3, Failure
  <2>2. t.breaker = r /\ t.failAge = 0
    BY <1>2, <1>5
  <2> HIDE DEF r
  <2> QED  BY <2>1, <2>2, Parameters DEF Rested
<1> QED  BY <1>4, <1>5

(* A drop after a session that worked counts against a fresh breaker.      *)
LEMMA DropRests ==
    ASSUME NEW s, Rested(s), s.pc \in Session, NEW t, IsProcess(t),
           t.breaker = record_failure(IF s.age >= MinHealthy THEN record_success(s.breaker)
                                      ELSE s.breaker),
           t.failAge = 0, t.pc \notin Session
    PROVE  Rested(t)
<1> DEFINE b == IF s.age >= MinHealthy THEN record_success(s.breaker) ELSE s.breaker
           r == record_failure(b)
<1>1. /\ b \in Breaker /\ b.state # "open"
      /\ b.state = "closed" => b.failures < FailThreshold
      /\ b.state = "half_open" => b.failures = FailThreshold
  BY Fresh, Parameters DEF Rested, record_success
<1> HIDE DEF b
<1>2. /\ r \in Breaker
      /\ \/ r.state = "open" /\ r.failures = FailThreshold /\ r.age = 0
         \/ r.state = "closed" /\ r.failures < FailThreshold
  BY <1>1, Failure
<1>3. t.breaker = r
  BY DEF b
<1> HIDE DEF r
<1> QED  BY <1>2, <1>3, Parameters DEF Rested

LEMMA Probe ==
    ASSUME NEW b \in Breaker
    PROVE  LET r == [state |-> "half_open", failures |-> b.failures, age |-> 0]
           IN r \in Breaker /\ r.state = "half_open" /\ r.failures = b.failures
BY Parameters DEF Breaker

(* The breaker lets an attempt through.                                    *)
LEMMA AttemptRests ==
    ASSUME NEW s, Rested(s), s.pc = "deciding", allows_attempt(s.breaker).ok,
           NEW t, IsProcess(t), t.pc \in Session,
           t.breaker = allows_attempt(s.breaker).breaker, t.failAge = s.failAge
    PROVE  /\ Rested(t)
           /\ s.breaker.failures >= FailThreshold => s.failAge >= ResetAfter
<1>1. /\ s.breaker \in Breaker /\ s.failAge \in 0..ResetAfter
      /\ s.breaker.state \in {"closed", "open"}
      /\ s.breaker.state = "closed" => s.breaker.failures < FailThreshold
      /\ s.breaker.state = "open" => s.breaker.failures = FailThreshold
                                     /\ s.failAge = s.breaker.age
  BY DEF Rested, Session, Ending, Breaker
<1>2. CASE s.breaker.state = "closed"
  <2>1. t.breaker = s.breaker
    BY <1>2 DEF allows_attempt
  <2> QED  BY <1>1, <1>2, <2>1, Parameters DEF Rested, Breaker
<1>3. CASE s.breaker.state = "open"
  <2> DEFINE probing == s.breaker.state = "open" /\ s.breaker.age >= ResetAfter
  <2>0. s.breaker.state # "open" \/ probing
    BY Zenon DEF allows_attempt
  <2>1. s.breaker.age >= ResetAfter
    BY <1>3, <2>0
  <2>2. t.breaker = [state |-> "half_open", failures |-> s.breaker.failures, age |-> 0]
    BY <1>3, <2>1 DEF allows_attempt
  <2>3. t.breaker \in Breaker /\ t.breaker.state = "half_open"
        /\ t.breaker.failures = FailThreshold
    BY <1>1, <1>3, <2>2, Probe
  <2> QED  BY <1>1, <1>3, <2>1, <2>3 DEF Rested
<1> QED  BY <1>1, <1>2, <1>3

(* A unit of time ages the breaker and the last failure alike.             *)
LEMMA AgedRests ==
    ASSUME NEW s, Rested(s)
    PROVE  Rested(Aged(s)) /\ Aged(s).pc = s.pc /\ Aged(s).stale = s.stale
<1>1. CASE s.pc = "down"
  BY <1>1 DEF Aged
<1>2. CASE s.pc # "down"
  <2> DEFINE t == Aged(s)
             b == s.breaker
  <2>1. IsProcess(s) /\ b \in Breaker /\ s.failAge \in 0..ResetAfter
    BY DEF Rested
  <2>2. /\ IsProcess(t) /\ t.pc = s.pc /\ t.shutdown = s.shutdown /\ t.raised = s.raised
        /\ t.stale = s.stale
        /\ t.breaker = [b EXCEPT !.age = IF b.state = "open" THEN Least(b.age + 1, ResetAfter)
                                         ELSE 0]
        /\ t.failAge = IF b.failures < FailThreshold THEN ResetAfter
                       ELSE Least(s.failAge + 1, ResetAfter)
    <3> DEFINE A == IF s.pc \in Session THEN Least(s.age + 1, MinHealthy) ELSE s.age
               I == IF s.pc = "streaming" /\ market
                    THEN Least(s.idle + 1, StalenessTimeout + 1) ELSE 0
               W == IF s.wait > 0 THEN s.wait - 1 ELSE 0
               N == [b EXCEPT !.age = IF b.state = "open" THEN Least(b.age + 1, ResetAfter)
                                      ELSE 0]
               F == IF b.failures < FailThreshold THEN ResetAfter
                    ELSE Least(s.failAge + 1, ResetAfter)
               H == s.pc \notin Leading
               u == [s EXCEPT !.age = A, !.idle = I, !.wait = W, !.breaker = N,
                              !.failAge = F, !.beat = H]
    <3>1. t = u
      BY <1>2, Zenon DEF Aged
    <3> HIDE DEF A, I, W, N, F, H
    <3>2. IsProcess(u)
      BY <2>1, OneField, Zenon DEF Fields
    <3>3. /\ u.pc = s.pc /\ u.shutdown = s.shutdown /\ u.raised = s.raised
          /\ u.breaker = N /\ u.failAge = F /\ u.stale = s.stale
      BY <2>1 DEF IsProcess, Fields
    <3> HIDE DEF t, u
    <3> QED  BY <3>1, <3>2, <3>3 DEF N, F
  <2>3. /\ t.breaker \in Breaker /\ t.failAge \in 0..ResetAfter
        /\ t.breaker.state = b.state /\ t.breaker.failures = b.failures
        /\ b.state = "open" => t.breaker.age = Least(b.age + 1, ResetAfter)
    BY <2>1, <2>2, Parameters DEF Breaker, Least
  <2> HIDE DEF t
  <2>4. Ending(s) => Ending(t)
    BY <2>2 DEF Ending
  <2>5. t.breaker.state = "open" => t.failAge = t.breaker.age
    BY <2>2, <2>3, Parameters DEF Rested
  <2>6. Rested(t)
    BY <2>2, <2>3, <2>4, <2>5 DEF Rested
  <2> QED  BY <2>2, <2>6 DEF t
<1> QED  BY <1>1, <1>2

(* A step that moves the process on and leaves its breaker alone.          *)
Moves(s, t) ==
    /\ IsProcess(t) /\ t.breaker = s.breaker /\ t.failAge = s.failAge
    /\ s.pc \notin Session => t.pc \notin Session
    /\ s.pc \in Session => t.pc \in Session \/ Ending(t)
    /\ Ending(s) => Ending(t)

LEMMA MovesRest == ASSUME NEW s, Rested(s), NEW t, Moves(s, t) PROVE Rested(t)
BY SameBreaker DEF Moves

(* The steps in which the breaker is neither asked nor told.               *)
Plain ==
    \/ Acquire \/ Rehydrate \/ RedisFails \/ Connected \/ Trip \/ AuthFails
    \/ Wake \/ Stop \/ Leave \/ Beat \/ BeatLands \/ LosesKey \/ Notice
    \/ OtherLeads \/ OtherWrites

LEMMA PlainMoves ==
    ASSUME IsProcess(me), Plain
    PROVE  Moves(me, me')
<1> USE DEF Become, Publish
<1>1. CASE Acquire
  BY <1>1 DEF Acquire, Moves, Ending, Session, IsProcess, Fields
<1>2. CASE Rehydrate
  BY <1>2 DEF Rehydrate, Moves, Ending, Session, IsProcess, Fields
<1>3. CASE RedisFails
  BY <1>3 DEF RedisFails, Moves, Ending, Session, Raise, NoSession, IsProcess, Fields
<1>4. CASE Connected
  BY <1>4 DEF Connected, Moves, Ending, Session, IsProcess, Fields
<1>5. CASE Trip
  BY <1>5 DEF Trip, Moves, Ending, Session, IsProcess, Fields
<1>6. CASE AuthFails
  BY <1>6 DEF AuthFails, Moves, Ending, Session, Raise, NoSession, IsProcess, Fields
<1>7. CASE Wake
  BY <1>7 DEF Wake, Moves, Ending, Session, IsProcess, Fields
<1>8. CASE Stop
  BY <1>8 DEF Stop, Moves, Ending, Session, NoSession, IsProcess, Fields
<1>9. CASE Leave
  BY <1>9 DEF Leave, Moves, Ending, Session, IsProcess, Fields
<1>10. CASE Beat \/ BeatLands
  BY <1>10 DEF Beat, BeatLands, Moves, Ending, IsProcess, Fields
<1>11. CASE LosesKey \/ OtherLeads \/ OtherWrites
  BY <1>11 DEF LosesKey, OtherLeads, OtherWrites, Moves, budgets
<1>12. CASE Notice
  BY <1>12 DEF Notice, Moves, Ending, IsProcess, Fields
<1> QED  BY <1>1, <1>2, <1>3, <1>4, <1>5, <1>6, <1>7, <1>8, <1>9, <1>10, <1>11, <1>12
         DEF Plain

LEMMA DecideRests ==
    ASSUME Rested(me), Decide
    PROVE  /\ Rested(me')
           /\ me'.pc = "connecting" /\ me.breaker.failures >= FailThreshold
                => me.failAge >= ResetAfter
<1>1. IsProcess(me) /\ me.pc = "deciding"
  BY DEF Rested, Decide
<1>2. CASE me.lost /\ Become([me EXCEPT !.pc = "leaving"])
  <2>1. Moves(me, me') /\ me'.pc = "leaving"
    BY <1>1, <1>2 DEF Become, Moves, Ending, Session, IsProcess, Fields
  <2> QED  BY <2>1, MovesRest
<1>3. CASE Publish([me EXCEPT !.pc = "sleeping", !.wait = 1], "degraded")
  <2>1. Moves(me, me') /\ me'.pc = "sleeping"
    BY <1>1, <1>3 DEF Publish, Moves, Ending, Session, IsProcess, Fields
  <2> QED  BY <2>1, MovesRest
<1>4. CASE /\ allows_attempt(me.breaker).ok
           /\ Become([me EXCEPT !.pc = "connecting", !.wait = ConnectTime,
                                !.breaker = allows_attempt(me.breaker).breaker])
  <2> DEFINE b == allows_attempt(me.breaker).breaker
  <2>1. me' = [me EXCEPT !.pc = "connecting", !.wait = ConnectTime, !.breaker = b]
    BY <1>4 DEF Become
  <2> HIDE DEF b
  <2>2. IsProcess(me') /\ me'.pc \in Session /\ me'.breaker = b /\ me'.failAge = me.failAge
    BY <1>1, <2>1 DEF Session, IsProcess, Fields
  <2> QED  BY <1>1, <1>4, <2>2, AttemptRests DEF b
<1> QED  BY <1>2, <1>3, <1>4 DEF Decide

(* What Returned leaves of the process besides the breaker.                *)
LEMMA ReturnedFields ==
    ASSUME NEW s, IsProcess(s)
    PROVE  IsProcess(Returned(s)) /\ Returned(s).pc = s.pc
<1>1. /\ IsProcess(NoSession(s)) /\ NoSession(s).pc = s.pc
  BY NoSessionFields DEF Fields
<1> QED  BY <1>1 DEF Returned, IsProcess, Fields

LEMMA QuoteRests ==
    ASSUME Rested(me), Quote
    PROVE  Rested(me')
<1> DEFINE fed  == [me EXCEPT !.idle = 0, !.quoted = TRUE]
           back == [Returned(fed) EXCEPT !.pc = "deciding"]
           out  == IF me.lost THEN back ELSE fed
<1>1. IsProcess(me) /\ me.pc \in Session
  BY DEF Rested, Quote, Session
<1>2. Moves(me, fed) /\ fed.pc = me.pc
  BY <1>1 DEF Moves, Ending, IsProcess, Fields
<1>3. Rested(fed) /\ IsProcess(fed) /\ fed.pc \in Session
  BY <1>1, <1>2, MovesRest DEF Moves
<1>4. \/ me' = out
      \/ me' = [out EXCEPT !.last = "healthy"]
  BY DEF Quote, Become, Publish
<1> HIDE DEF fed
<1>5. Rested(back) /\ IsProcess(back) /\ back.pc = "deciding"
  <2>1. IsProcess(Returned(fed))
    BY <1>3, ReturnedFields
  <2>2. /\ IsProcess(back) /\ back.breaker = Returned(fed).breaker
        /\ back.failAge = Returned(fed).failAge /\ back.pc = "deciding"
    BY <2>1 DEF IsProcess, Fields
  <2> HIDE DEF back
  <2> QED  BY <1>3, <2>2, ReturnedRests DEF Session
<1> HIDE DEF back
<1>6. Rested(out) /\ IsProcess(out)
  BY <1>3, <1>5
<1> HIDE DEF out
<1>7. Moves(out, [out EXCEPT !.last = "healthy"])
  BY <1>6 DEF Moves, Ending, IsProcess, Fields
<1> QED  BY <1>4, <1>6, <1>7, MovesRest

LEMMA HangUpRests ==
    ASSUME Rested(me), HangUp
    PROVE  Rested(me')
<1> DEFINE out == Returned(me)
<1>1. IsProcess(me) /\ me.pc \in Session
  BY DEF Rested, HangUp, Session
<1>2. IsProcess(out)
  BY <1>1, ReturnedFields
<1>3. \/ me' = [out EXCEPT !.pc = "deciding"]
      \/ me' = Raise(out, "error")
      \/ \E d, n : me' = [out EXCEPT !.pc = "sleeping", !.wait = d, !.attempt = n]
  BY Zenon DEF HangUp, Become
<1> HIDE DEF out
<1>4. CASE me' = [out EXCEPT !.pc = "deciding"]
  <2>1. IsProcess(me') /\ me'.breaker = out.breaker /\ me'.failAge = out.failAge
        /\ me'.pc = "deciding"
    BY <1>2, <1>4 DEF IsProcess, Fields
  <2> QED  BY <1>1, <2>1, ReturnedRests DEF Session, out
<1>5. CASE me' = Raise(out, "error")
  <2>1. IsProcess(me') /\ me'.breaker = out.breaker /\ me'.failAge = out.failAge
        /\ me'.pc = "leaving"
    BY <1>2, <1>5 DEF Raise, NoSession, IsProcess, Fields
  <2> QED  BY <1>1, <2>1, ReturnedRests DEF Session, out
<1>6. CASE \E d, n : me' = [out EXCEPT !.pc = "sleeping", !.wait = d, !.attempt = n]
  <2>1. PICK d, n : me' = [out EXCEPT !.pc = "sleeping", !.wait = d, !.attempt = n]
    BY <1>6
  <2>2. IsProcess(me') /\ me'.breaker = out.breaker /\ me'.failAge = out.failAge
        /\ me'.pc = "sleeping"
    BY <1>2, <2>1 DEF IsProcess, Fields
  <2> QED  BY <1>1, <2>2, ReturnedRests DEF Session, out
<1> QED  BY <1>3, <1>4, <1>5, <1>6

LEMMA DropKeepsRest ==
    ASSUME Rested(me), Drop
    PROVE  Rested(me') /\ me'.pc \in {"leaving", "sleeping"}
<1> DEFINE n0 == IF me.age >= MinHealthy THEN 0 ELSE me.attempt
           rested == NoSession(me)
           r == record_failure(IF me.age >= MinHealthy THEN record_success(rested.breaker)
                               ELSE rested.breaker)
           failed == [rested EXCEPT !.breaker = r, !.failAge = 0, !.stale = TRUE,
                                    !.attempt = n0]
<1>1. IsProcess(me) /\ me.pc \in Session
  BY DEF Rested, Drop
<1>2. IsProcess(rested) /\ rested.breaker = me.breaker
  BY <1>1, NoSessionFields DEF Fields
<1>3. \/ me' = [Raise(failed, "error") EXCEPT !.last = "degraded"]
      \/ \E d, n : me' = [[failed EXCEPT !.pc = "sleeping", !.wait = d, !.attempt = n]
                            EXCEPT !.last = "degraded"]
  BY Zenon DEF Drop, Publish
<1>4. r = record_failure(IF me.age >= MinHealthy THEN record_success(me.breaker)
                         ELSE me.breaker)
  BY <1>2
<1> HIDE DEF n0, r, rested
<1>5. IsProcess(failed) /\ failed.breaker = r /\ failed.failAge = 0
  BY <1>2 DEF IsProcess, Fields
<1> HIDE DEF failed
<1>6. IsProcess(me') /\ me'.breaker = r /\ me'.failAge = 0
      /\ me'.pc \in {"leaving", "sleeping"}
  <2>1. CASE me' = [Raise(failed, "error") EXCEPT !.last = "degraded"]
    BY <1>5, <2>1 DEF Raise, NoSession, Session, IsProcess, Fields
  <2>2. CASE \E d, n : me' = [[failed EXCEPT !.pc = "sleeping", !.wait = d, !.attempt = n]
                               EXCEPT !.last = "degraded"]
    BY <1>5, <2>2 DEF Session, IsProcess, Fields
  <2> QED  BY <1>3, <2>1, <2>2
<1> QED  BY <1>1, <1>4, <1>6, DropRests DEF Session

(* A process that ends, dies or is started.                                *)
LEMMA NewPlace ==
    ASSUME Exit \/ Crash \/ Restart
    PROVE  Rested(me') /\ me'.pc \in {"down", "standby"}
<1>1. \/ me' = Gone \/ me' = NewProcess \/ me' = [Gone EXCEPT !.raised = me.raised]
  BY DEF Exit, Crash, Restart, Become
<1>2. Rested(me')
  BY <1>1, NewProcessRested, Zenon
<1>3. NewProcess.pc = "standby" /\ Gone.pc = "down"
      /\ \A why : [Gone EXCEPT !.raised = why].pc = "down"
  BY DEF Gone, NewProcess
<1> QED  BY <1>1, <1>2, <1>3

(* Every step leaves the breaker rested, and an attempt is made only when  *)
(* it is.                                                                  *)
LEMMA StepRests ==
    ASSUME Rested(me), [Next]_vars
    PROVE  /\ Rested(me')
           /\ me.pc = "deciding" /\ me'.pc = "connecting"
              /\ me.breaker.failures >= FailThreshold => me.failAge >= ResetAfter
<1>0. IsProcess(me)
  BY DEF Rested
<1>1. CASE Plain
  <2>1. Moves(me, me')
    BY <1>0, <1>1, PlainMoves
  <2> QED  BY <2>1, MovesRest DEF Moves, Session
<1>2. CASE Decide
  BY <1>2, DecideRests
<1>3. CASE Quote
  BY <1>3, QuoteRests DEF Quote
<1>4. CASE HangUp
  BY <1>4, HangUpRests DEF HangUp
<1>5. CASE Drop
  BY <1>5, DropKeepsRest DEF Drop, Session
<1>6. CASE Exit \/ Crash \/ Restart
  BY <1>6, NewPlace
<1>7. CASE Clock
  <2>1. me' = Aged(me) /\ me.pc # "deciding"
    BY <1>7 DEF Clock, Due
  <2> QED  BY <2>1, AgedRests, Zenon
<1>8. CASE UNCHANGED vars
  BY <1>8 DEF vars
<1> QED  BY <1>1, <1>2, <1>3, <1>4, <1>5, <1>6, <1>7, <1>8 DEF Next, Plain

(* The breaker of supervisor.py never stays closed past its threshold,     *)
(* never waits less than it is open, and is half open only for one attempt.*)
THEOREM BreakerRests == Spec => []Rested(me)
<1>1. Init => Rested(me)
  BY NewProcessRested DEF Init
<1>2. Rested(me) /\ [Next]_vars => Rested(me)'
  BY StepRests
<1> QED  BY <1>1, <1>2, PTL DEF Spec

(* For every threshold, rest and timeout, and however often the process    *)
(* stops, crashes, loses the lease or regains it: after FailThreshold short*)
(* sessions in a row no attempt within ResetAfter of the last failure.     *)
THEOREM ProviderIsLeftAlone == Spec => NoHammering
<1>1. Rested(me) /\ [Next]_vars
      => [me.pc = "deciding" /\ me'.pc = "connecting"
          /\ me.breaker.failures >= FailThreshold => me.failAge >= ResetAfter]_vars
  BY StepRests
<1> QED  BY <1>1, BreakerRests, PTL DEF Spec, NoHammering

(* A step after which no socket is open, or the same one as before under   *)
(* the same flag.                                                          *)
KeepsFlag(s, t) ==
    t.pc \in {"streaming", "closing"} => t.pc = s.pc /\ t.stale = s.stale

LEMMA FlagFollows ==
    ASSUME Rested(me), StaleFollowsTheSession, [Next]_vars
    PROVE  StaleFollowsTheSession'
<1> USE DEF Become, Publish
<1>0. IsProcess(me)
  BY DEF Rested
<1>1. CASE Connected \/ Trip
  BY <1>0, <1>1 DEF Connected, Trip, StaleFollowsTheSession, IsProcess, Fields
<1>2. CASE Acquire \/ Rehydrate \/ Wake \/ Leave
  <2>1. KeepsFlag(me, me')
    BY <1>0, <1>2 DEF Acquire, Rehydrate, Wake, Leave, KeepsFlag, IsProcess, Fields
  <2> QED  BY <2>1 DEF KeepsFlag, StaleFollowsTheSession
<1>3. CASE RedisFails \/ AuthFails \/ Stop
  <2>1. KeepsFlag(me, me')
    BY <1>0, <1>3 DEF RedisFails, AuthFails, Stop, Raise, NoSession, KeepsFlag, IsProcess, Fields
  <2> QED  BY <2>1 DEF KeepsFlag, StaleFollowsTheSession
<1>4. CASE Beat \/ BeatLands \/ Notice
  <2>1. KeepsFlag(me, me')
    BY <1>0, <1>4 DEF Beat, BeatLands, Notice, KeepsFlag, IsProcess, Fields
  <2> QED  BY <2>1 DEF KeepsFlag, StaleFollowsTheSession
<1>5. CASE LosesKey \/ OtherLeads \/ OtherWrites \/ UNCHANGED vars
  BY <1>5 DEF LosesKey, OtherLeads, OtherWrites, vars, StaleFollowsTheSession
<1>6. CASE Decide
  <2>1. me'.pc \in {"leaving", "sleeping", "connecting"}
    <3> DEFINE b == allows_attempt(me.breaker).breaker
    <3>1. \/ me' = [me EXCEPT !.pc = "leaving"]
          \/ me' = [[me EXCEPT !.pc = "sleeping", !.wait = 1] EXCEPT !.last = "degraded"]
          \/ me' = [me EXCEPT !.pc = "connecting", !.wait = ConnectTime, !.breaker = b]
      BY <1>6, Zenon DEF Decide
    <3> HIDE DEF b
    <3> QED  BY <1>0, <3>1 DEF IsProcess, Fields
  <2> QED  BY <2>1 DEF StaleFollowsTheSession
<1>7. CASE Quote
  <2> DEFINE fed  == [me EXCEPT !.idle = 0, !.quoted = TRUE]
             back == [Returned(fed) EXCEPT !.pc = "deciding"]
             out  == IF me.lost THEN back ELSE fed
  <2>1. IsProcess(fed) /\ fed.pc = me.pc /\ fed.stale = me.stale
    BY <1>0 DEF IsProcess, Fields
  <2>2. me' = out \/ me' = [out EXCEPT !.last = "healthy"]
    BY <1>7, Zenon DEF Quote
  <2> HIDE DEF fed
  <2>3. IsProcess(back) /\ back.pc = "deciding"
    BY <2>1, ReturnedFields DEF IsProcess, Fields
  <2> HIDE DEF back
  <2>4. IsProcess(out) /\ KeepsFlag(me, out)
    BY <2>1, <2>3 DEF KeepsFlag
  <2> HIDE DEF out
  <2>5. KeepsFlag(me, me')
    BY <2>2, <2>4 DEF KeepsFlag, IsProcess, Fields
  <2> QED  BY <2>5 DEF KeepsFlag, StaleFollowsTheSession
<1>8. CASE HangUp \/ Drop
  <2>1. CASE HangUp
    <3> DEFINE out == Returned(me)
    <3>1. IsProcess(out)
      BY <1>0, ReturnedFields
    <3>2. \/ me' = [out EXCEPT !.pc = "deciding"]
          \/ me' = Raise(out, "error")
          \/ \E d, n : me' = [out EXCEPT !.pc = "sleeping", !.wait = d, !.attempt = n]
      BY <2>1, Zenon DEF HangUp
    <3> HIDE DEF out
    <3>3. me'.pc \in {"deciding", "leaving", "sleeping"}
      BY <3>1, <3>2 DEF Raise, NoSession, IsProcess, Fields
    <3> QED  BY <3>3 DEF StaleFollowsTheSession
  <2>2. CASE Drop
    <3>1. me'.pc \in {"leaving", "sleeping"}
      BY <2>2, DropKeepsRest
    <3> QED  BY <3>1 DEF StaleFollowsTheSession
  <2> QED  BY <1>8, <2>1, <2>2
<1>9. CASE Exit \/ Crash \/ Restart
  <2>1. me'.pc \in {"down", "standby"}
    BY <1>9, NewPlace
  <2> QED  BY <2>1 DEF StaleFollowsTheSession
<1>10. CASE Clock
  <2>1. me' = Aged(me)
    BY <1>10 DEF Clock
  <2>2. me'.pc = me.pc /\ me'.stale = me.stale
    BY <2>1, AgedRests
  <2> QED  BY <2>2 DEF StaleFollowsTheSession
<1> QED  BY <1>1, <1>2, <1>3, <1>4, <1>5, <1>6, <1>7, <1>8, <1>9, <1>10 DEF Next

(* For every timeout and however the sockets end: the flag that gates the  *)
(* detectors is down on every open socket and up on every one the watchdog *)
(* has given up.                                                           *)
THEOREM FlagFollowsTheSession == Spec => []StaleFollowsTheSession
<1>1. Init => StaleFollowsTheSession
  BY DEF Init, NewProcess, StaleFollowsTheSession
<1>2. Rested(me) /\ StaleFollowsTheSession /\ [Next]_vars => StaleFollowsTheSession'
  BY FlagFollows
<1> QED  BY <1>1, <1>2, BreakerRests, PTL DEF Spec

(* The constants are numbers.                                              *)
LEMMA Limits ==
    /\ BackoffCap \in Nat /\ MaxExponent \in Nat \ {0} /\ MinHealthy \in Nat
    /\ StalenessTimeout \in Nat /\ StatusTtl \in Nat \ {0} /\ ConnectTime \in Nat
    /\ CloseTime \in Nat /\ MaxFaults \in Nat /\ MaxDeposals \in Nat
    /\ FailThreshold \in Nat /\ ResetAfter \in Nat /\ FreshFor \in Nat
BY SupervisorAssumption DEF FreshFor

(* The process, field by field.                                            *)
Typed(s) ==
    /\ IsProcess(s)
    /\ s.pc \in Steps /\ s.lost \in BOOLEAN /\ s.shutdown \in BOOLEAN
    /\ s.raised \in {"no", "auth", "error"} /\ s.breaker \in Breaker
    /\ s.attempt \in 0..MaxExponent /\ s.age \in 0..MinHealthy
    /\ s.idle \in 0..(StalenessTimeout + 1) /\ s.quoted \in BOOLEAN /\ s.wait \in Nat
    /\ s.stale \in BOOLEAN /\ s.last \in FeedState /\ s.body \in FeedState \cup {"none"}
    /\ s.beat \in BOOLEAN /\ s.failAge \in 0..ResetAfter

LEMMA TypedIsProcess ==
    ASSUME NEW s
    PROVE  Typed(s) <=> s \in Process
<1>1. ASSUME Typed(s)
      PROVE  s \in Process
  <2>1. s = [pc |-> s.pc, lost |-> s.lost, shutdown |-> s.shutdown, raised |-> s.raised,
             breaker |-> s.breaker, attempt |-> s.attempt, age |-> s.age, idle |-> s.idle,
             quoted |-> s.quoted, wait |-> s.wait, stale |-> s.stale, last |-> s.last,
             body |-> s.body, beat |-> s.beat, failAge |-> s.failAge]
    BY <1>1 DEF Typed, IsProcess, Fields
  <2> QED  BY <1>1, <2>1 DEF Typed, Process
<1>2. ASSUME s \in Process
      PROVE  Typed(s)
  BY <1>2 DEF Typed, Process, IsProcess, Fields
<1> QED  BY <1>1, <1>2

LEMMA NewTyped ==
    Typed(NewProcess) /\ Typed(Gone) /\ \A why \in {"no", "auth", "error"} :
                                           Typed([Gone EXCEPT !.raised = why])
<1>1. Typed(NewProcess)
  BY NewProcessRested, Limits DEF Rested, Typed, NewProcess, Steps, FeedState
<1>2. IsProcess(NewProcess)
  BY <1>1 DEF Typed
<1>3. Typed(Gone)
  BY <1>1, <1>2 DEF Typed, Gone, Steps, IsProcess, Fields
<1>4. \A why \in {"no", "auth", "error"} : Typed([Gone EXCEPT !.raised = why])
  BY <1>3 DEF Typed, IsProcess, Fields
<1> QED  BY <1>1, <1>3, <1>4

(* The end of a session.                                                   *)
LEMMA NoSessionTyped ==
    ASSUME NEW s, Typed(s)
    PROVE  Typed(NoSession(s))
<1> DEFINE r == NoSession(s)
<1>1. IsProcess(s)
  BY DEF Typed
<1>2. r.age = 0 /\ r.idle = 0 /\ r.quoted \in BOOLEAN /\ r.wait = 0
  BY <1>1 DEF NoSession, IsProcess, Fields
<1>3. IsProcess(r) /\ \A x \in Fields \ {"age", "idle", "quoted", "wait"} : r[x] = s[x]
  BY <1>1, NoSessionFields
<1> HIDE DEF r
<1>4. /\ r.pc = s.pc /\ r.lost = s.lost /\ r.shutdown = s.shutdown /\ r.raised = s.raised
      /\ r.breaker = s.breaker /\ r.attempt = s.attempt /\ r.stale = s.stale
      /\ r.last = s.last /\ r.body = s.body /\ r.beat = s.beat /\ r.failAge = s.failAge
  BY <1>3 DEF Fields
<1>5. 0 \in 0..MinHealthy /\ 0 \in 0..(StalenessTimeout + 1) /\ 0 \in Nat
  BY Limits
<1>6. Typed(r)
  BY <1>2, <1>3, <1>4, <1>5, Zenon DEF Typed
<1> QED  BY <1>6 DEF r

LEMMA RaiseTyped ==
    ASSUME NEW s, Typed(s), NEW why \in {"auth", "error"}
    PROVE  Typed(Raise(s, why)) /\ Raise(s, why).pc = "leaving"
           /\ Raise(s, why).last = s.last /\ Raise(s, why).body = s.body
           /\ Raise(s, why).lost = s.lost
<1> DEFINE r == NoSession(s)
<1>1. Typed(r) /\ r.last = s.last /\ r.body = s.body /\ r.lost = s.lost
  <2>1. IsProcess(s)
    BY DEF Typed
  <2> QED  BY <2>1, NoSessionTyped, NoSessionFields DEF Fields
<1> HIDE DEF r
<1>2. Raise(s, why) = [r EXCEPT !.pc = "leaving", !.raised = why]
  BY DEF Raise, r
<1> QED  BY <1>1, <1>2 DEF Typed, Steps, Leading, IsProcess, Fields

(* What a breaker makes of an outcome is a breaker.                        *)
LEMMA FailureTyped ==
    ASSUME NEW b \in Breaker
    PROVE  record_failure(b) \in Breaker
BY Parameters DEF record_failure, Breaker, Least

LEMMA ReturnedTyped ==
    ASSUME NEW s, Typed(s)
    PROVE  /\ Typed(Returned(s)) /\ Returned(s).last = s.last /\ Returned(s).body = s.body
           /\ Returned(s).lost = s.lost /\ Returned(s).attempt \in {0, s.attempt}
<1> DEFINE r == NoSession(s)
           b == IF s.age >= MinHealthy THEN record_success(r.breaker) ELSE record_failure(r.breaker)
           f == IF s.age >= MinHealthy THEN r.failAge ELSE 0
           a == IF s.age >= MinHealthy THEN 0 ELSE r.attempt
<1>1. Typed(r) /\ r.last = s.last /\ r.body = s.body /\ r.lost = s.lost /\ r.attempt = s.attempt
  <2>1. IsProcess(s)
    BY DEF Typed
  <2> QED  BY <2>1, NoSessionTyped, NoSessionFields DEF Fields
<1>2. Returned(s) = [r EXCEPT !.breaker = b, !.failAge = f, !.attempt = a]
  BY Zenon DEF Returned, r
<1> HIDE DEF r
<1>3. b \in Breaker /\ f \in 0..ResetAfter /\ a \in {0, s.attempt} /\ a \in 0..MaxExponent
  BY <1>1, FailureTyped, Fresh, Limits DEF Typed, record_success
<1> HIDE DEF b, f, a
<1> QED  BY <1>1, <1>2, <1>3 DEF Typed, IsProcess, Fields

(* A unit of time.                                                         *)
LEMMA AgedTyped ==
    ASSUME NEW s, Typed(s), s.pc # "down"
    PROVE  /\ Typed(Aged(s)) /\ Aged(s).pc = s.pc /\ Aged(s).last = s.last
           /\ Aged(s).body = s.body /\ Aged(s).lost = s.lost
           /\ Aged(s).wait = IF s.wait > 0 THEN s.wait - 1 ELSE 0
           /\ Aged(s).idle = IF s.pc = "streaming" /\ market
                             THEN Least(s.idle + 1, StalenessTimeout + 1) ELSE 0
<1> DEFINE A == IF s.pc \in Session THEN Least(s.age + 1, MinHealthy) ELSE s.age
           I == IF s.pc = "streaming" /\ market
                THEN Least(s.idle + 1, StalenessTimeout + 1) ELSE 0
           W == IF s.wait > 0 THEN s.wait - 1 ELSE 0
           N == [s.breaker EXCEPT !.age = IF s.breaker.state = "open"
                                          THEN Least(s.breaker.age + 1, ResetAfter) ELSE 0]
           F == IF s.breaker.failures < FailThreshold THEN ResetAfter
                ELSE Least(s.failAge + 1, ResetAfter)
           H == s.pc \notin Leading
<1>1. Aged(s) = [s EXCEPT !.age = A, !.idle = I, !.wait = W, !.breaker = N, !.failAge = F,
                          !.beat = H]
  BY Zenon DEF Aged
<1>2. A \in 0..MinHealthy /\ I \in 0..(StalenessTimeout + 1) /\ W \in Nat
      /\ F \in 0..ResetAfter /\ H \in BOOLEAN
  BY Limits DEF Typed, Least
<1>3. N \in Breaker
  BY Limits DEF Typed, Breaker, Least
<1> HIDE DEF A, I, W, N, F, H
<1>4. /\ Typed(Aged(s)) /\ Aged(s).pc = s.pc /\ Aged(s).last = s.last
      /\ Aged(s).body = s.body /\ Aged(s).lost = s.lost
      /\ Aged(s).wait = W /\ Aged(s).idle = I
  BY <1>1, <1>2, <1>3 DEF Typed, IsProcess, Fields
<1> QED  BY <1>4 DEF W, I

(* What the key may hold.                                                  *)
StatusOK ==
    status = Unknown \/ status \in [state : FeedState, by : {Me, Other}, ttl : 1..StatusTtl]

(* SET EX writes one status for its whole TTL, or an error leaves the old  *)
(* one: a key stays fresh that is written no later than LiveFor.           *)
LEMMA WriteKeeps ==
    ASSUME StatusOK, faults \in 0..MaxFaults, NEW state \in FeedState, Write(state)
    PROVE  StatusOK' /\ faults' \in 0..MaxFaults
<1>1. CASE UNCHANGED status /\ Fault
  BY <1>1, Limits DEF StatusOK, Fault
<1>2. CASE UNCHANGED faults /\ status' = [state |-> state, by |-> Me, ttl |-> StatusTtl]
  BY <1>2, Limits DEF StatusOK
<1> QED  BY <1>1, <1>2 DEF Write

LEMMA KeyKept ==
    ASSUME StatusOK, KeyIsFresh, quiet \in Nat, quiet' \in {0, quiet}, UNCHANGED status
    PROVE  KeyIsFresh'
<1>1. LiveFor \in Nat /\ StatusTtl \in Nat
  BY Limits DEF LiveFor, NoticedBy
<1>2. CASE status = Unknown
  BY <1>2 DEF KeyIsFresh, Ready, Unknown
<1>3. CASE status \in [state : FeedState, by : {Me, Other}, ttl : 1..StatusTtl]
  <2>1. status.ttl \in Nat
    BY <1>1, <1>3
  <2> QED  BY <1>1, <2>1 DEF KeyIsFresh, Ready
<1> QED  BY <1>2, <1>3 DEF StatusOK

LEMMA KeyStaysFresh ==
    ASSUME StatusOK, KeyIsFresh, quiet \in Nat, quiet' \in {0, quiet}, NEW state, Write(state),
           state = "healthy" => quiet' <= LiveFor
    PROVE  KeyIsFresh'
<1>1. LiveFor \in Nat /\ StatusTtl \in Nat
  BY Limits DEF LiveFor, NoticedBy
<1>2. CASE UNCHANGED status
  BY <1>2, KeyKept
<1>3. CASE status' = [state |-> state, by |-> Me, ttl |-> StatusTtl]
  <2>1. status'.state = state /\ status'.ttl = StatusTtl
    BY <1>3
  <2>2. quiet' \in Nat
    OBVIOUS
  <2>3. ASSUME status'.state = "healthy"
        PROVE  quiet' + status'.ttl <= LiveFor + StatusTtl
    <3>1. quiet' <= LiveFor
      BY <2>1, <2>3
    <3>2. \A a, b, c \in Nat : a <= b => a + c <= b + c
      OBVIOUS
    <3>3. quiet' + StatusTtl <= LiveFor + StatusTtl
      BY <1>1, <2>2, <3>1, <3>2, Zenon
    <3> QED  BY <2>1, <3>3, Zenon
  <2> QED  BY <2>3 DEF KeyIsFresh, Ready
<1> QED  BY <1>2, <1>3 DEF Write

(* The process's own side of freshness.                                    *)
ProcessFresh ==
    /\ me.pc = "closing" => me.wait <= CloseTime
    /\ deposals = 0 => Undeposed /\ LastIsFresh /\ BodyIsFresh

(* While the last word is "healthy" the silence is shorter than LiveFor.   *)
LEMMA LastWithinLive ==
    ASSUME Typed(me), LastIsFresh, quiet \in Nat, me.last = "healthy"
    PROVE  quiet <= LiveFor
<1>1. me.idle \in 0..(StalenessTimeout + 1) /\ me.wait \in Nat
  BY DEF Typed
<1> QED  BY <1>1, Limits DEF LastIsFresh, LiveFor, NoticedBy

(* A step that leaves the loop, whatever it says last.                     *)
LEMMA LeavesFresh ==
    ASSUME Typed(me), ProcessFresh, quiet \in Nat, UNCHANGED <<owner, quiet, deposals>>,
           me.pc \in Leading, me'.pc = "leaving", me'.lost = me.lost, me'.body = me.body,
           me'.last \in {me.last, "degraded", "fatal"}
    PROVE  ProcessFresh'
<1>1. ASSUME deposals = 0
      PROVE  (Undeposed /\ LastIsFresh /\ BodyIsFresh)'
  <2>1. Undeposed /\ LastIsFresh /\ BodyIsFresh
    BY <1>1 DEF ProcessFresh
  <2>2. me.last = "healthy" => quiet <= LiveFor
    BY <2>1, LastWithinLive
  <2> QED  BY <2>1, <2>2 DEF Undeposed, LastIsFresh, BodyIsFresh, LiveFor, NoticedBy
<1> QED  BY <1>1 DEF ProcessFresh

(* A step that says something else than "healthy" last.                    *)
LEMMA OtherWordFresh ==
    ASSUME ProcessFresh, UNCHANGED <<quiet, deposals>>, me'.last # "healthy",
           me'.lost = me.lost, me'.body \in {me.body, "none"},
           me'.pc \in Leading => (me.pc \in Leading /\ owner' = owner) \/ owner' = Me,
           me'.pc # "closing"
    PROVE  ProcessFresh'
BY DEF ProcessFresh, Undeposed, LastIsFresh, BodyIsFresh, LiveFor, NoticedBy

(* The leader's loop: acquiring, rehydrating, asking the breaker, waking.  *)
LEMMA LoopFresh ==
    ASSUME Typed(me), ProcessFresh, quiet \in Nat, Acquire \/ Rehydrate \/ Decide \/ Wake
    PROVE  Typed(me') /\ ProcessFresh'
<1> USE DEF Become, Publish
<1>0. IsProcess(me) /\ UNCHANGED <<quiet, deposals>>
  BY DEF Typed, Acquire, Rehydrate, Decide, Wake, rest
<1>1. CASE Acquire
  <2>1. /\ me' = [me EXCEPT !.pc = "rehydrating", !.lost = FALSE]
        /\ me.pc = "standby" /\ owner' = Me
    BY <1>1 DEF Acquire
  <2>2. Typed(me')
    BY <2>1 DEF Typed, Steps, Leading, IsProcess, Fields
  <2>3. me'.pc = "rehydrating" /\ me'.lost = FALSE /\ me'.last = me.last /\ me'.body = me.body
    BY <1>0, <2>1 DEF IsProcess, Fields
  <2>4. ASSUME deposals = 0
        PROVE  (Undeposed /\ LastIsFresh /\ BodyIsFresh)'
    <3>1. Undeposed /\ LastIsFresh /\ BodyIsFresh
      BY <2>4 DEF ProcessFresh
    <3>2. me.last # "healthy"
      BY <2>1, <3>1 DEF LastIsFresh
    <3> QED  BY <1>0, <2>1, <2>3, <3>1, <3>2 DEF Undeposed, LastIsFresh, BodyIsFresh
  <2> QED  BY <1>0, <2>2, <2>3, <2>4 DEF ProcessFresh
<1>2. CASE Rehydrate
  <2>1. me' = [me EXCEPT !.pc = "deciding", !.attempt = 0] /\ me.pc = "rehydrating"
        /\ owner' = owner
    BY <1>2 DEF Rehydrate, rest
  <2>0. 0 \in 0..MaxExponent
    BY Limits
  <2>2. Typed(me')
    BY <2>0, <2>1 DEF Typed, Steps, Leading, IsProcess, Fields
  <2>3. me'.pc = "deciding" /\ me'.lost = me.lost /\ me'.last = me.last /\ me'.body = me.body
    BY <1>0, <2>1 DEF IsProcess, Fields
  <2>4. ASSUME deposals = 0
        PROVE  (Undeposed /\ LastIsFresh /\ BodyIsFresh)'
    <3>1. Undeposed /\ LastIsFresh /\ BodyIsFresh
      BY <2>4 DEF ProcessFresh
    <3>2. me.last # "healthy"
      BY <2>1, <3>1 DEF LastIsFresh
    <3> QED  BY <1>0, <2>1, <2>3, <3>1, <3>2 DEF Undeposed, LastIsFresh, BodyIsFresh, Leading
  <2> QED  BY <1>0, <2>2, <2>3, <2>4 DEF ProcessFresh
<1>3. CASE Wake
  <2>1. me' = [me EXCEPT !.pc = "deciding"] /\ me.pc = "sleeping" /\ me.wait = 0
        /\ owner' = owner
    BY <1>3 DEF Wake, rest
  <2>2. Typed(me')
    BY <2>1 DEF Typed, Steps, Leading, IsProcess, Fields
  <2>3. me'.pc = "deciding" /\ me'.lost = me.lost /\ me'.last = me.last /\ me'.body = me.body
    BY <1>0, <2>1 DEF IsProcess, Fields
  <2>4. ASSUME deposals = 0
        PROVE  (Undeposed /\ LastIsFresh /\ BodyIsFresh)'
    <3>1. Undeposed /\ LastIsFresh /\ BodyIsFresh
      BY <2>4 DEF ProcessFresh
    <3>2. me.last = "healthy" => quiet <= NoticedBy + CloseTime + BackoffCap
      BY <2>1, <3>1, Limits DEF LastIsFresh, NoticedBy
    <3> QED  BY <1>0, <2>1, <2>3, <3>1, <3>2
             DEF Undeposed, LastIsFresh, BodyIsFresh, Leading, NoticedBy, LiveFor
  <2> QED  BY <1>0, <2>2, <2>3, <2>4 DEF ProcessFresh
<1>4. CASE Decide
  <2> DEFINE b == allows_attempt(me.breaker).breaker
  <2>1. me.pc = "deciding" /\ owner' = owner /\ me.breaker \in Breaker
    BY <1>4 DEF Decide, Typed, rest
  <2>2. b \in Breaker
    BY <2>1, Probe DEF allows_attempt
  <2>3. \/ me' = [me EXCEPT !.pc = "leaving"]
        \/ me' = [[me EXCEPT !.pc = "sleeping", !.wait = 1] EXCEPT !.last = "degraded"]
        \/ me' = [me EXCEPT !.pc = "connecting", !.wait = ConnectTime, !.breaker = b]
    BY <1>4, Zenon DEF Decide
  <2> HIDE DEF b
  <2>4. CASE me' = [me EXCEPT !.pc = "leaving"]
    <3>1. Typed(me')
      BY <2>4 DEF Typed, Steps, Leading, IsProcess, Fields
    <3>2. me'.pc = "leaving" /\ me'.lost = me.lost /\ me'.last = me.last /\ me'.body = me.body
      BY <1>0, <2>4 DEF IsProcess, Fields
    <3>3. me.pc \in Leading
      BY <2>1 DEF Leading
    <3> QED  BY <1>0, <2>1, <3>1, <3>2, <3>3, LeavesFresh
  <2>5. CASE me' = [[me EXCEPT !.pc = "sleeping", !.wait = 1] EXCEPT !.last = "degraded"]
    <3>1. Typed(me')
      BY <2>5 DEF Typed, Steps, Leading, FeedState, IsProcess, Fields
    <3>2. me'.pc = "sleeping" /\ me'.lost = me.lost /\ me'.last = "degraded" /\ me'.body = me.body
      BY <1>0, <2>5 DEF IsProcess, Fields
    <3> QED  BY <1>0, <2>1, <3>1, <3>2, OtherWordFresh DEF Leading
  <2>6. CASE me' = [me EXCEPT !.pc = "connecting", !.wait = ConnectTime, !.breaker = b]
    <3>1. Typed(me')
      BY <2>2, <2>6, Limits DEF Typed, Steps, Leading, Session, IsProcess, Fields
    <3>2. /\ me'.pc = "connecting" /\ me'.lost = me.lost /\ me'.last = me.last
          /\ me'.body = me.body /\ me'.wait = ConnectTime
      BY <1>0, <2>6 DEF IsProcess, Fields
    <3>3. ASSUME deposals = 0
          PROVE  (Undeposed /\ LastIsFresh /\ BodyIsFresh)'
      <4>1. Undeposed /\ LastIsFresh /\ BodyIsFresh
        BY <3>3 DEF ProcessFresh
      <4>2. me.last = "healthy" => quiet + ConnectTime <= LiveFor
        BY <2>1, <4>1, Limits DEF LastIsFresh, NoticedBy, LiveFor
      <4> QED  BY <1>0, <2>1, <3>2, <4>1, <4>2
               DEF Undeposed, LastIsFresh, BodyIsFresh, Leading, LiveFor, NoticedBy
    <3> QED  BY <1>0, <3>1, <3>2, <3>3 DEF ProcessFresh
  <2> QED  BY <2>3, <2>4, <2>5, <2>6
<1> QED  BY <1>1, <1>2, <1>3, <1>4

(* A socket: it is opened, falls silent, or is given up.                   *)
LEMMA SocketFresh ==
    ASSUME Typed(me), ProcessFresh, quiet \in Nat, Connected \/ Trip
    PROVE  Typed(me') /\ ProcessFresh'
<1> USE DEF Become, Publish
<1>0. IsProcess(me) /\ UNCHANGED <<owner, quiet, deposals>>
  BY DEF Typed, Connected, Trip, rest
<1>1. CASE Connected
  <2>1. /\ me' = [[me EXCEPT !.pc = "streaming", !.stale = FALSE, !.wait = 0]
                    EXCEPT !.last = "connecting"]
        /\ me.pc = "connecting"
    BY <1>1 DEF Connected
  <2>2. Typed(me')
    BY <2>1 DEF Typed, Steps, Leading, Session, FeedState, IsProcess, Fields
  <2>3. me'.pc = "streaming" /\ me'.lost = me.lost /\ me'.last = "connecting"
        /\ me'.body = me.body
    BY <1>0, <2>1 DEF IsProcess, Fields
  <2>4. me.pc \in Leading
    BY <2>1 DEF Leading, Session
  <2> QED  BY <1>0, <2>2, <2>3, <2>4, OtherWordFresh
<1>2. CASE Trip
  <2>1. /\ me' = [me EXCEPT !.pc = "closing", !.idle = 0, !.stale = TRUE, !.wait = CloseTime]
        /\ me.pc = "streaming"
    BY <1>2 DEF Trip
  <2>2. 0 \in 0..(StalenessTimeout + 1) /\ CloseTime \in Nat
    BY Limits
  <2>3. Typed(me')
    BY <2>1, <2>2 DEF Typed, Steps, Leading, Session, IsProcess, Fields
  <2>4. /\ me'.pc = "closing" /\ me'.lost = me.lost /\ me'.last = me.last
        /\ me'.body = me.body /\ me'.wait = CloseTime
    BY <1>0, <2>1 DEF IsProcess, Fields
  <2>5. ASSUME deposals = 0
        PROVE  (Undeposed /\ LastIsFresh /\ BodyIsFresh)'
    <3>1. Undeposed /\ LastIsFresh /\ BodyIsFresh
      BY <2>5 DEF ProcessFresh
    <3>2. me.idle \in 0..(StalenessTimeout + 1)
      BY DEF Typed
    <3>3. me.last = "healthy" => quiet + CloseTime <= NoticedBy + CloseTime
      BY <2>1, <3>1, <3>2, Limits DEF LastIsFresh, NoticedBy
    <3> QED  BY <1>0, <2>1, <2>4, <3>1, <3>3
             DEF Undeposed, LastIsFresh, BodyIsFresh, Leading, Session, NoticedBy, LiveFor
  <2> QED  BY <1>0, <2>2, <2>3, <2>4, <2>5 DEF ProcessFresh
<1> QED  BY <1>1, <1>2

(* The ways out of the leader's loop.                                      *)
LEMMA WaysOutFresh ==
    ASSUME Typed(me), ProcessFresh, quiet \in Nat, RedisFails \/ AuthFails \/ Stop \/ Leave
    PROVE  Typed(me') /\ ProcessFresh'
<1> USE DEF Become, Publish
<1>0. IsProcess(me) /\ UNCHANGED <<quiet, deposals>>
  BY DEF Typed, RedisFails, AuthFails, Stop, Leave, rest
<1>1. CASE RedisFails
  <2>1. me' = Raise(me, "error") /\ me.pc \in Leading /\ owner' = owner
    BY <1>1 DEF RedisFails, rest, Leading, Session
  <2>2. /\ Typed(Raise(me, "error")) /\ Raise(me, "error").pc = "leaving"
        /\ Raise(me, "error").last = me.last /\ Raise(me, "error").body = me.body
        /\ Raise(me, "error").lost = me.lost
    BY RaiseTyped
  <2> QED  BY <1>0, <2>1, <2>2, LeavesFresh
<1>2. CASE AuthFails
  <2> DEFINE r == Raise(me, "auth")
  <2>1. me' = [[r EXCEPT !.shutdown = TRUE] EXCEPT !.last = "fatal"] /\ owner' = owner
        /\ me.pc \in Leading
    BY <1>2 DEF AuthFails, rest, Leading, Session
  <2>2. Typed(r) /\ r.pc = "leaving" /\ r.body = me.body /\ r.lost = me.lost
    BY RaiseTyped
  <2> HIDE DEF r
  <2>3. Typed(me')
    BY <2>1, <2>2 DEF Typed, FeedState, IsProcess, Fields
  <2>4. me'.pc = "leaving" /\ me'.last = "fatal" /\ me'.body = me.body /\ me'.lost = me.lost
    BY <2>1, <2>2 DEF Typed, IsProcess, Fields
  <2> QED  BY <1>0, <2>1, <2>3, <2>4, LeavesFresh
<1>3. CASE Stop
  <2> DEFINE r == NoSession(me)
             w == IF me.pc = "standby" THEN "exiting" ELSE "leaving"
  <2>1. me' = [r EXCEPT !.shutdown = TRUE, !.pc = w] /\ owner' = owner
        /\ me.pc \in Leading \cup {"standby"}
    BY <1>3 DEF Stop, rest
  <2>2. Typed(r) /\ r.last = me.last /\ r.body = me.body /\ r.lost = me.lost
    BY <1>0, NoSessionTyped, NoSessionFields DEF Fields
  <2> HIDE DEF r
  <2>3. w \in {"exiting", "leaving"}
    OBVIOUS
  <2> HIDE DEF w
  <2>4. Typed(me')
    BY <2>1, <2>2, <2>3 DEF Typed, Steps, Leading, IsProcess, Fields
  <2>5. me'.pc = w /\ me'.last = me.last /\ me'.body = me.body /\ me'.lost = me.lost
    BY <2>1, <2>2 DEF Typed, IsProcess, Fields
  <2>6. CASE me.pc = "standby"
    <3>1. me'.pc = "exiting"
      BY <2>5, <2>6 DEF w
    <3>2. ASSUME deposals = 0
          PROVE  (Undeposed /\ LastIsFresh /\ BodyIsFresh)'
      <4>1. Undeposed /\ LastIsFresh /\ BodyIsFresh
        BY <3>2 DEF ProcessFresh
      <4>2. me.last # "healthy"
        BY <2>6, <4>1 DEF LastIsFresh
      <4> QED  BY <1>0, <2>5, <3>1, <4>1, <4>2
               DEF Undeposed, LastIsFresh, BodyIsFresh, Leading, Session
    <3> QED  BY <1>0, <2>4, <3>1, <3>2 DEF ProcessFresh
  <2>7. CASE me.pc # "standby"
    <3>1. me'.pc = "leaving" /\ me.pc \in Leading
      BY <2>1, <2>5, <2>7 DEF w
    <3> QED  BY <1>0, <2>1, <2>4, <2>5, <3>1, LeavesFresh
  <2> QED  BY <2>6, <2>7
<1>4. CASE Leave
  <2> DEFINE w == IF me.shutdown \/ me.raised # "no" THEN "exiting" ELSE "standby"
             out == [me EXCEPT !.pc = w]
  <2>1. w \in {"exiting", "standby"}
    OBVIOUS
  <2>2. \/ me.lost /\ me' = out
        \/ ~me.lost /\ me' = [out EXCEPT !.last = "stopped"]
    BY <1>4 DEF Leave
  <2> HIDE DEF w
  <2>3. Typed(out) /\ out.pc = w /\ out.body = me.body /\ out.lost = me.lost
    BY <1>0, <2>1 DEF Typed, Steps, Leading, IsProcess, Fields
  <2> HIDE DEF out
  <2>4. Typed(me')
    BY <2>2, <2>3 DEF Typed, FeedState, IsProcess, Fields
  <2>5. me'.pc = w /\ me'.body = me.body /\ me'.lost = me.lost
        /\ (~me.lost => me'.last = "stopped")
    BY <2>2, <2>3 DEF Typed, IsProcess, Fields
  <2>6. me'.pc \notin Leading /\ me'.pc # "closing"
    BY <2>1, <2>5 DEF Leading, Session
  <2>7. ASSUME deposals = 0
        PROVE  (Undeposed /\ LastIsFresh /\ BodyIsFresh)'
    <3>1. Undeposed /\ LastIsFresh /\ BodyIsFresh
      BY <2>7 DEF ProcessFresh
    <3> QED  BY <1>0, <2>5, <2>6, <3>1 DEF Undeposed, LastIsFresh, BodyIsFresh
  <2> QED  BY <1>0, <2>4, <2>6, <2>7 DEF ProcessFresh
<1> QED  BY <1>1, <1>2, <1>3, <1>4

(* A process that ends, dies or is started says nothing yet.               *)
LEMMA NewPlaceFresh ==
    ASSUME Typed(me), ProcessFresh, Exit \/ Crash \/ Restart
    PROVE  Typed(me') /\ ProcessFresh'
<1>1. UNCHANGED <<quiet, deposals>> /\ me.raised \in {"no", "auth", "error"}
  BY DEF Exit, Crash, Restart, rest, Typed
<1>2. me' = Gone \/ me' = NewProcess \/ me' = [Gone EXCEPT !.raised = me.raised]
  BY DEF Exit, Crash, Restart, Become
<1>3. Typed(me')
  BY <1>1, <1>2, NewTyped, Zenon
<1>4. /\ me'.pc \in {"down", "standby"} /\ me'.last = "starting" /\ me'.body = "none"
      /\ ~me'.lost
  <2> DEFINE Silent(s) == /\ s.pc \in {"down", "standby"} /\ s.last = "starting"
                          /\ s.body = "none" /\ ~s.lost
  <2>1. Silent(NewProcess) /\ Silent(Gone) /\ \A why : Silent([Gone EXCEPT !.raised = why])
    BY DEF Gone, NewProcess
  <2>2. Silent(me')
    <3> HIDE DEF Silent
    <3> QED  BY <1>2, <2>1, Zenon
  <2> QED  BY <2>2
<1> QED  BY <1>1, <1>3, <1>4 DEF ProcessFresh, Undeposed, LastIsFresh, BodyIsFresh, Leading, Session

(* The heartbeat repeats the last word, and it lands.                      *)
LEMMA BeatFresh ==
    ASSUME Typed(me), ProcessFresh, quiet \in Nat, Beat \/ BeatLands
    PROVE  Typed(me') /\ ProcessFresh'
<1>0. IsProcess(me) /\ UNCHANGED <<owner, quiet, deposals>>
  BY DEF Typed, Beat, BeatLands, rest
<1>1. /\ Typed(me') /\ me'.pc = me.pc /\ me'.last = me.last /\ me'.lost = me.lost
      /\ me'.wait = me.wait /\ me'.idle = me.idle /\ me'.body \in {"none", me.last}
  <2>1. CASE Beat
    <3> DEFINE b == IF me.lost THEN "none" ELSE me.last
    <3>1. me' = [me EXCEPT !.beat = TRUE, !.body = b]
      BY <2>1 DEF Beat, Become
    <3>2. b \in {"none", me.last} /\ b \in FeedState \cup {"none"}
      BY DEF Typed
    <3> HIDE DEF b
    <3> QED  BY <1>0, <3>1, <3>2 DEF Typed, IsProcess, Fields
  <2>2. CASE BeatLands
    <3>1. me' = [me EXCEPT !.body = "none"]
      BY <2>2 DEF BeatLands
    <3> QED  BY <1>0, <3>1 DEF Typed, IsProcess, Fields
  <2> QED  BY <2>1, <2>2
<1>2. ASSUME deposals = 0
      PROVE  (Undeposed /\ LastIsFresh /\ BodyIsFresh)'
  <2>1. Undeposed /\ LastIsFresh /\ BodyIsFresh
    BY <1>2 DEF ProcessFresh
  <2>2. me.last = "healthy" => quiet <= LiveFor
    BY <2>1, LastWithinLive
  <2> QED  BY <1>0, <1>1, <2>1, <2>2 DEF Undeposed, LastIsFresh, BodyIsFresh, NoticedBy, LiveFor
<1> QED  BY <1>0, <1>1, <1>2 DEF ProcessFresh

(* A quote starts the count again.                                         *)
LEMMA QuoteFresh ==
    ASSUME Typed(me), ProcessFresh, Quote
    PROVE  Typed(me') /\ ProcessFresh'
<1> DEFINE fed  == [me EXCEPT !.idle = 0, !.quoted = TRUE]
           back == [Returned(fed) EXCEPT !.pc = "deciding"]
           out  == IF me.lost THEN back ELSE fed
<1>0. IsProcess(me) /\ quiet' = 0 /\ UNCHANGED <<owner, deposals>>
      /\ me.pc \in {"streaming", "closing"} /\ me.wait \in Nat
  BY DEF Typed, Quote
<1>1. 0 \in 0..(StalenessTimeout + 1)
  BY Limits
<1>2. /\ Typed(fed) /\ fed.pc = me.pc /\ fed.wait = me.wait /\ fed.idle = 0
      /\ fed.body = me.body /\ fed.lost = me.lost
  BY <1>0, <1>1 DEF Typed, IsProcess, Fields
<1>3. me' = out \/ me' = [out EXCEPT !.last = "healthy"]
  BY Zenon DEF Quote, Become, Publish
<1> HIDE DEF fed
<1>4. Typed(back) /\ back.pc = "deciding" /\ back.body = me.body /\ back.lost = me.lost
  <2> DEFINE r == Returned(fed)
  <2>1. Typed(r) /\ r.body = fed.body /\ r.lost = fed.lost
    BY <1>2, ReturnedTyped
  <2>2. back = [r EXCEPT !.pc = "deciding"]
    OBVIOUS
  <2> HIDE DEF r, back
  <2> QED  BY <1>2, <2>1, <2>2 DEF Typed, Steps, Leading, IsProcess, Fields
<1> HIDE DEF back
<1>5. /\ Typed(out) /\ out.body = me.body /\ out.lost = me.lost
      /\ out.pc = "deciding" \/ (out.pc = me.pc /\ out.wait = me.wait /\ out.idle = 0)
  BY <1>2, <1>4, Zenon
<1> HIDE DEF out
<1>6. Typed(me')
  BY <1>3, <1>5 DEF Typed, FeedState, IsProcess, Fields
<1>7. /\ me'.body = me.body /\ me'.lost = me.lost
      /\ me'.pc = "deciding" \/ (me'.pc = me.pc /\ me'.wait = me.wait /\ me'.idle = 0)
  BY <1>3, <1>5 DEF Typed, IsProcess, Fields
<1>8. me'.pc = "closing" => me'.wait <= CloseTime
  BY <1>7 DEF ProcessFresh
<1>9. ASSUME deposals = 0
      PROVE  (Undeposed /\ LastIsFresh /\ BodyIsFresh)'
  <2>1. Undeposed /\ LastIsFresh /\ BodyIsFresh
    BY <1>9 DEF ProcessFresh
  <2>2. LastIsFresh'
    BY <1>0, <1>7, <1>8, Limits DEF LastIsFresh, NoticedBy, LiveFor
  <2>3. BodyIsFresh' /\ Undeposed'
    BY <1>0, <1>7, <2>1, Limits DEF BodyIsFresh, Undeposed, NoticedBy, LiveFor, Leading, Session
  <2> QED  BY <2>1, <2>2, <2>3
<1> QED  BY <1>0, <1>6, <1>8, <1>9 DEF ProcessFresh

(* A dropped socket is not called healthy any more.                        *)
LEMMA DropFresh ==
    ASSUME Typed(me), ProcessFresh, quiet \in Nat, Drop
    PROVE  Typed(me') /\ ProcessFresh'
<1> DEFINE n0 == IF me.age >= MinHealthy THEN 0 ELSE me.attempt
           rested == NoSession(me)
           r == record_failure(IF me.age >= MinHealthy THEN record_success(rested.breaker)
                               ELSE rested.breaker)
           failed == [rested EXCEPT !.breaker = r, !.failAge = 0, !.stale = TRUE,
                                    !.attempt = n0]
<1>0. IsProcess(me) /\ me.pc \in Session /\ UNCHANGED <<owner, quiet, deposals>>
  BY DEF Typed, Drop, rest
<1>1. Typed(rested) /\ rested.body = me.body /\ rested.lost = me.lost
  BY <1>0, NoSessionTyped, NoSessionFields DEF Fields
<1>2. \/ me' = [Raise(failed, "error") EXCEPT !.last = "degraded"]
      \/ /\ ~Overflows(n0)
         /\ \E d \in Delays(n0) : me' = [[failed EXCEPT !.pc = "sleeping", !.wait = d,
                                           !.attempt = n0 + 1] EXCEPT !.last = "degraded"]
  BY Zenon DEF Drop, Publish
<1> HIDE DEF rested
<1>3. r \in Breaker /\ n0 \in 0..MaxExponent /\ 0 \in 0..ResetAfter
  <2>1. rested.breaker \in Breaker /\ me.attempt \in 0..MaxExponent
    BY <1>1 DEF Typed
  <2>2. r \in Breaker
    BY <2>1, FailureTyped, Fresh DEF record_success
  <2> QED  BY <2>1, <2>2, Limits
<1> HIDE DEF n0, r
<1>4. Typed(failed) /\ failed.body = me.body /\ failed.lost = me.lost
  BY <1>1, <1>3 DEF Typed, IsProcess, Fields
<1> HIDE DEF failed
<1>5. /\ Typed(me') /\ me'.body = me.body /\ me'.lost = me.lost /\ me'.last = "degraded"
      /\ me'.pc \in {"leaving", "sleeping"}
  <2>1. CASE me' = [Raise(failed, "error") EXCEPT !.last = "degraded"]
    <3> DEFINE x == Raise(failed, "error")
    <3>1. Typed(x) /\ x.pc = "leaving" /\ x.body = me.body /\ x.lost = me.lost
      BY <1>4, RaiseTyped
    <3>2. me' = [x EXCEPT !.last = "degraded"]
      BY <2>1
    <3> HIDE DEF x
    <3> QED  BY <3>1, <3>2 DEF Typed, FeedState, IsProcess, Fields
  <2>2. CASE /\ ~Overflows(n0)
             /\ \E d \in Delays(n0) : me' = [[failed EXCEPT !.pc = "sleeping", !.wait = d,
                                               !.attempt = n0 + 1] EXCEPT !.last = "degraded"]
    <3>1. PICK d \in Delays(n0) : me' = [[failed EXCEPT !.pc = "sleeping", !.wait = d,
                                           !.attempt = n0 + 1] EXCEPT !.last = "degraded"]
      BY <2>2
    <3> DEFINE n == n0 + 1
    <3>2. d \in Nat /\ n \in 0..MaxExponent
      BY <1>3, <2>2, Limits DEF Delays, Overflows
    <3>3. me' = [[failed EXCEPT !.pc = "sleeping", !.wait = d, !.attempt = n]
                   EXCEPT !.last = "degraded"]
      BY <3>1
    <3> HIDE DEF n
    <3> QED  BY <1>4, <3>2, <3>3 DEF Typed, Steps, Leading, FeedState, IsProcess, Fields
  <2> QED  BY <1>2, <2>1, <2>2
<1>6. me.pc \in Leading /\ me'.pc # "closing" /\ me'.last # "healthy"
  BY <1>0, <1>5 DEF Leading
<1> QED  BY <1>0, <1>5, <1>6, OtherWordFresh

(* A socket that just ends leaves the last word standing, but for no longer*)
(* than the sleep before the next try.                                     *)
LEMMA HangUpFresh ==
    ASSUME Typed(me), ProcessFresh, quiet \in Nat, HangUp
    PROVE  Typed(me') /\ ProcessFresh'
<1> DEFINE out == Returned(me)
           n == IF me.age >= MinHealthy THEN 0 ELSE out.attempt + 1
<1>0. /\ IsProcess(me) /\ me.pc \in {"streaming", "closing"} /\ me.wait \in Nat
      /\ UNCHANGED <<owner, quiet, deposals>>
  BY DEF Typed, HangUp, rest
<1>1. /\ Typed(out) /\ out.last = me.last /\ out.body = me.body /\ out.lost = me.lost
      /\ out.attempt \in 0..MaxExponent
  <2>1. Typed(out) /\ out.last = me.last /\ out.body = me.body /\ out.lost = me.lost
    BY ReturnedTyped
  <2> QED  BY <2>1 DEF Typed
<1>2. \/ me' = [out EXCEPT !.pc = "deciding"]
      \/ me' = Raise(out, "error")
      \/ /\ ~Overflows(out.attempt)
         /\ \E d \in Delays(out.attempt) :
               me' = [out EXCEPT !.pc = "sleeping", !.wait = d, !.attempt = n]
  BY Zenon DEF HangUp, Become
<1> HIDE DEF out
<1>3. me.pc \in Leading
  BY <1>0 DEF Leading, Session
<1>4. ASSUME deposals = 0, me.last = "healthy"
      PROVE  quiet <= NoticedBy + CloseTime
  <2>1. LastIsFresh /\ me.idle \in 0..(StalenessTimeout + 1)
    BY <1>4 DEF ProcessFresh, Typed
  <2> QED  BY <1>0, <1>4, <2>1, Limits DEF LastIsFresh, NoticedBy
<1>5. CASE me' = Raise(out, "error")
  <2>1. /\ Typed(me') /\ me'.pc = "leaving" /\ me'.last = me.last /\ me'.body = me.body
        /\ me'.lost = me.lost
    BY <1>1, <1>5, RaiseTyped
  <2> QED  BY <1>0, <1>3, <2>1, LeavesFresh
<1>6. CASE me' = [out EXCEPT !.pc = "deciding"]
  <2>1. Typed(me')
    BY <1>1, <1>6 DEF Typed, Steps, Leading, IsProcess, Fields
  <2>2. me'.pc = "deciding" /\ me'.last = me.last /\ me'.body = me.body /\ me'.lost = me.lost
    BY <1>1, <1>6 DEF Typed, IsProcess, Fields
  <2>3. ASSUME deposals = 0
        PROVE  (Undeposed /\ LastIsFresh /\ BodyIsFresh)'
    <3>1. Undeposed /\ LastIsFresh /\ BodyIsFresh
      BY <2>3 DEF ProcessFresh
    <3>2. me.last = "healthy" => quiet <= NoticedBy + CloseTime + BackoffCap
      BY <1>4, <2>3, Limits DEF NoticedBy
    <3> QED  BY <1>0, <1>3, <2>2, <3>1, <3>2
             DEF Undeposed, LastIsFresh, BodyIsFresh, NoticedBy, LiveFor
  <2> QED  BY <1>0, <2>1, <2>2, <2>3 DEF ProcessFresh
<1>7. CASE /\ ~Overflows(out.attempt)
           /\ \E d \in Delays(out.attempt) :
                 me' = [out EXCEPT !.pc = "sleeping", !.wait = d, !.attempt = n]
  <2>1. PICK d \in Delays(out.attempt) :
          me' = [out EXCEPT !.pc = "sleeping", !.wait = d, !.attempt = n]
    BY <1>7
  <2>2. d \in 0..BackoffCap /\ d \in Nat /\ n \in 0..MaxExponent
    BY <1>1, <1>7, Limits DEF Delays, Overflows
  <2> HIDE DEF n
  <2>3. Typed(me')
    BY <1>1, <2>1, <2>2 DEF Typed, Steps, Leading, IsProcess, Fields
  <2>4. /\ me'.pc = "sleeping" /\ me'.last = me.last /\ me'.body = me.body
        /\ me'.lost = me.lost /\ me'.wait = d
    BY <1>1, <2>1 DEF Typed, IsProcess, Fields
  <2>5. ASSUME deposals = 0
        PROVE  (Undeposed /\ LastIsFresh /\ BodyIsFresh)'
    <3>1. Undeposed /\ LastIsFresh /\ BodyIsFresh
      BY <2>5 DEF ProcessFresh
    <3>2. me.last = "healthy" => quiet + d <= NoticedBy + CloseTime + BackoffCap
      BY <1>4, <2>2, <2>5, Limits DEF NoticedBy
    <3> QED  BY <1>0, <1>3, <2>4, <3>1, <3>2
             DEF Undeposed, LastIsFresh, BodyIsFresh, NoticedBy, LiveFor
  <2> QED  BY <1>0, <2>3, <2>4, <2>5 DEF ProcessFresh
<1> QED  BY <1>2, <1>5, <1>6, <1>7

(* What happens to the lease, and the other replicas.                      *)
LEMMA LeaseFresh ==
    ASSUME Typed(me), ProcessFresh, deposals \in Nat,
           LosesKey \/ Notice \/ OtherLeads \/ OtherWrites
    PROVE  Typed(me') /\ ProcessFresh'
<1>1. CASE LosesKey
  BY <1>1 DEF LosesKey, ProcessFresh
<1>2. CASE OtherLeads
  <2>1. UNCHANGED <<me, quiet, deposals>> /\ owner # Me
    BY <1>2, SupervisorAssumption DEF OtherLeads, budgets
  <2> QED  BY <2>1 DEF ProcessFresh, Undeposed, LastIsFresh, BodyIsFresh
<1>3. CASE OtherWrites
  BY <1>3 DEF OtherWrites, ProcessFresh, Undeposed, LastIsFresh, BodyIsFresh
<1>4. CASE Notice
  <2>1. me' = [me EXCEPT !.lost = TRUE] /\ UNCHANGED <<quiet, deposals, owner>>
        /\ me.pc \in Leading /\ owner # Me
    BY <1>4 DEF Notice, Become, rest
  <2>2. Typed(me')
    BY <2>1 DEF Typed, IsProcess, Fields
  <2>3. me'.pc = me.pc /\ me'.wait = me.wait
    BY <2>1 DEF Typed, IsProcess, Fields
  <2>4. deposals # 0
    BY <2>1 DEF ProcessFresh, Undeposed
  <2> QED  BY <2>1, <2>2, <2>3, <2>4 DEF ProcessFresh
<1> QED  BY <1>1, <1>2, <1>3, <1>4

(* A unit of time: each stage's timer pays for the silence it adds.        *)
LEMMA ClockFresh ==
    ASSUME Typed(me), ProcessFresh, quiet \in Nat, market \in BOOLEAN, Clock
    PROVE  Typed(me') /\ ProcessFresh'
<1>0. /\ me' = Aged(me) /\ ~Due(me) /\ UNCHANGED <<owner, deposals>>
      /\ quiet' \in Nat /\ quiet' <= quiet + 1 /\ (~market => quiet' = 0)
  BY Limits DEF Clock, budgets, Least
<1>1. CASE me.pc = "down"
  <2>1. me' = me
    BY <1>0, <1>1 DEF Aged
  <2>2. me.body = "none"
    BY <1>0 DEF Due
  <2>3. deposals = 0 => Undeposed /\ me.last # "healthy"
    BY <1>1 DEF ProcessFresh, LastIsFresh
  <2>4. deposals = 0 => Undeposed' /\ LastIsFresh' /\ BodyIsFresh'
    BY <1>0, <2>1, <2>2, <2>3 DEF Undeposed, LastIsFresh, BodyIsFresh
  <2> QED  BY <1>0, <1>1, <2>1, <2>4 DEF ProcessFresh
<1>2. CASE me.pc # "down"
  <2>1. /\ Typed(me') /\ me'.pc = me.pc /\ me'.last = me.last /\ me'.body = me.body
        /\ me'.lost = me.lost
        /\ me'.wait = IF me.wait > 0 THEN me.wait - 1 ELSE 0
        /\ me'.idle = IF me.pc = "streaming" /\ market
                      THEN Least(me.idle + 1, StalenessTimeout + 1) ELSE 0
    BY <1>0, <1>2, AgedTyped
  <2>2. me.wait \in Nat /\ me.idle \in 0..(StalenessTimeout + 1) /\ me.body = "none"
    BY <1>0 DEF Typed, Due
  <2>3. me'.pc = "closing" => me'.wait <= CloseTime
    BY <2>1, <2>2, Limits DEF ProcessFresh
  <2>4. ASSUME deposals = 0
        PROVE  (Undeposed /\ LastIsFresh /\ BodyIsFresh)'
    <3>1. Undeposed /\ LastIsFresh
      BY <2>4 DEF ProcessFresh
    <3>2. Undeposed' /\ BodyIsFresh'
      BY <1>0, <2>1, <2>2, <3>1 DEF Undeposed, BodyIsFresh
    <3>3. LastIsFresh'
      <4> SUFFICES ASSUME me.last = "healthy"
                   PROVE  LastIsFresh'
        BY <2>1 DEF LastIsFresh
      <4>1. CASE me.pc = "streaming"
        <5>1. market => me.idle <= StalenessTimeout
          BY <1>0, <2>2, <4>1, Limits DEF Due
        <5>2. quiet <= me.idle
          BY <3>1, <4>1 DEF LastIsFresh
        <5>3. quiet' <= me'.idle
          BY <1>0, <2>1, <2>2, <4>1, <5>1, <5>2, Limits DEF Least
        <5> QED  BY <2>1, <4>1, <5>3 DEF LastIsFresh
      <4>2. CASE me.pc \in {"closing", "sleeping", "connecting"}
        <5>1. me.wait # 0
          BY <1>0, <4>2 DEF Due
        <5>2. quiet' + me'.wait <= quiet + me.wait
          BY <1>0, <2>1, <2>2, <5>1
        <5>3. me'.wait \in Nat
          BY <2>1 DEF Typed
        <5> QED  BY <1>0, <2>1, <2>2, <3>1, <4>2, <5>2, <5>3, Limits
                 DEF LastIsFresh, NoticedBy, LiveFor
      <4>3. me.pc \notin {"deciding", "leaving"}
        BY <1>0 DEF Due
      <4> QED  BY <3>1, <4>1, <4>2, <4>3 DEF LastIsFresh
    <3> QED  BY <3>2, <3>3
  <2> QED  BY <1>0, <2>1, <2>3, <2>4 DEF ProcessFresh
<1> QED  BY <1>1, <1>2

(* And takes the same from the TTL of the key.                             *)
LEMMA ClockAgesKey ==
    ASSUME StatusOK, quiet \in Nat, Clock
    PROVE  StatusOK' /\ (KeyIsFresh => KeyIsFresh')
<1>1. quiet' \in Nat /\ quiet' <= quiet + 1 /\ status' = AgedStatus
  BY Limits DEF Clock, Least
<1>2. CASE status = Unknown \/ status.ttl <= 1
  <2>1. status' = Unknown
    BY <1>1, <1>2 DEF AgedStatus, Unknown
  <2> QED  BY <2>1 DEF StatusOK, KeyIsFresh, Ready, Unknown
<1>3. CASE status # Unknown /\ ~(status.ttl <= 1)
  <2>1. status \in [state : FeedState, by : {Me, Other}, ttl : 1..StatusTtl]
    BY <1>3 DEF StatusOK
  <2>2. status' = [status EXCEPT !.ttl = status.ttl - 1]
    BY <1>1, <1>3 DEF AgedStatus
  <2>3. status.ttl \in 1..StatusTtl /\ status.ttl - 1 \in 1..StatusTtl
    BY <1>3, <2>1, Limits
  <2>4. /\ status' \in [state : FeedState, by : {Me, Other}, ttl : 1..StatusTtl]
        /\ status'.ttl = status.ttl - 1 /\ status'.state = status.state
        /\ status'.by = status.by
    BY <2>1, <2>2, <2>3
  <2>5. LiveFor \in Nat
    BY Limits DEF LiveFor, NoticedBy
  <2>6. KeyIsFresh => KeyIsFresh'
    BY <1>1, <2>3, <2>4, <2>5, Limits DEF KeyIsFresh, Ready
  <2> QED  BY <2>4, <2>6 DEF StatusOK
<1> QED  BY <1>2, <1>3

(* What every step but the clock's and the other replicas' does to the key:*)
(* nothing, or it writes a word of its process that is fresh enough.       *)
LEMMA OwnWords ==
    ASSUME TypeOK, FreshInv, [Next]_vars, ~Clock, ~OtherWrites
    PROVE  /\ quiet' \in {0, quiet}
           /\ \/ UNCHANGED status /\ (UNCHANGED faults \/ Fault)
              \/ \E state \in FeedState :
                    Write(state) /\ (deposals = 0 /\ state = "healthy" => quiet' <= LiveFor)
<1>0. me.body \in FeedState \cup {"none"} /\ LiveFor \in Nat
  <2>1. Typed(me)
    BY TypedIsProcess DEF TypeOK
  <2> QED  BY <2>1, Limits DEF Typed, LiveFor, NoticedBy
<1> USE DEF Become, Publish, FeedState
<1>1. CASE Acquire \/ Rehydrate \/ RedisFails \/ Trip \/ HangUp \/ Wake \/ Stop \/ Exit \/ Crash
           \/ Restart \/ Beat \/ LosesKey \/ Notice \/ OtherLeads \/ UNCHANGED vars
  BY <1>1 DEF Acquire, Rehydrate, RedisFails, Trip, HangUp, Wake, Stop, Exit, Crash, Restart,
              Beat, LosesKey, Notice, OtherLeads, rest, budgets, vars
<1>2. CASE Decide
  <2>1. quiet' = quiet /\ (UNCHANGED <<status, faults>> \/ Write("degraded"))
    BY <1>2, Zenon DEF Decide, rest
  <2> QED  BY <2>1
<1>3. CASE Connected
  <2>1. quiet' = quiet /\ Write("connecting")
    BY <1>3 DEF Connected, rest
  <2> QED  BY <2>1
<1>4. CASE Quote
  <2>1. quiet' = 0 /\ (UNCHANGED <<status, faults>> \/ Write("healthy"))
    BY <1>4, Zenon DEF Quote
  <2> QED  BY <1>0, <2>1
<1>5. CASE Drop
  <2>1. quiet' = quiet /\ Write("degraded")
    BY <1>5, Zenon DEF Drop, rest
  <2> QED  BY <2>1
<1>6. CASE AuthFails
  <2>1. quiet' = quiet /\ Write("fatal")
    BY <1>6 DEF AuthFails, rest
  <2> QED  BY <2>1
<1>7. CASE Leave
  <2>1. quiet' = quiet /\ (UNCHANGED <<status, faults>> \/ Write("stopped"))
    BY <1>7, Zenon DEF Leave
  <2> QED  BY <2>1
<1>8. CASE BeatLands
  <2>1. quiet' = quiet /\ Write(me.body) /\ me.body \in FeedState
    BY <1>0, <1>8 DEF BeatLands, rest
  <2>2. deposals = 0 /\ me.body = "healthy" => quiet <= LiveFor
    BY DEF FreshInv, BodyIsFresh
  <2> QED  BY <2>1, <2>2
<1> QED  BY <1>1, <1>2, <1>3, <1>4, <1>5, <1>6, <1>7, <1>8 DEF Next

LEMMA KeyStep ==
    ASSUME TypeOK, FreshInv, [Next]_vars
    PROVE  /\ StatusOK' /\ faults' \in 0..MaxFaults
           /\ deposals = 0 => KeyIsFresh'
<1>0. StatusOK /\ quiet \in Nat /\ faults \in 0..MaxFaults
  BY Limits DEF TypeOK, StatusOK
<1>1. deposals = 0 => KeyIsFresh
  BY DEF FreshInv
<1>2. CASE Clock
  <2>1. faults' = faults
    BY <1>2 DEF Clock, budgets
  <2> QED  BY <1>0, <1>1, <1>2, <2>1, ClockAgesKey
<1>3. CASE OtherWrites
  <2>1. status' = [state |-> "healthy", by |-> Other, ttl |-> StatusTtl] /\ faults' = faults
    BY <1>3 DEF OtherWrites
  <2>2. StatusOK' /\ status'.by # Me
    BY <2>1, Limits, SupervisorAssumption DEF StatusOK, FeedState
  <2> QED  BY <1>0, <2>1, <2>2 DEF KeyIsFresh
<1>4. CASE ~Clock /\ ~OtherWrites
  <2>1. /\ quiet' \in {0, quiet}
        /\ \/ UNCHANGED status /\ (UNCHANGED faults \/ Fault)
           \/ \E state \in FeedState :
                 Write(state) /\ (deposals = 0 /\ state = "healthy" => quiet' <= LiveFor)
    BY <1>4, OwnWords
  <2>2. CASE UNCHANGED status /\ (UNCHANGED faults \/ Fault)
    <3>1. StatusOK' /\ faults' \in 0..MaxFaults
      BY <1>0, <2>2, Limits DEF StatusOK, Fault
    <3> QED  BY <1>0, <1>1, <2>1, <2>2, <3>1, KeyKept
  <2>3. CASE \E state \in FeedState :
                Write(state) /\ (deposals = 0 /\ state = "healthy" => quiet' <= LiveFor)
    <3>1. PICK state \in FeedState :
            Write(state) /\ (deposals = 0 /\ state = "healthy" => quiet' <= LiveFor)
      BY <2>3
    <3>2. StatusOK' /\ faults' \in 0..MaxFaults
      BY <1>0, <3>1, WriteKeeps
    <3>3. ASSUME deposals = 0
          PROVE  KeyIsFresh'
      <4>1. KeyIsFresh /\ Write(state) /\ (state = "healthy" => quiet' <= LiveFor)
        BY <1>1, <3>1, <3>3
      <4> QED  BY <1>0, <2>1, <4>1, KeyStaysFresh
    <3> QED  BY <3>2, <3>3
  <2> QED  BY <2>1, <2>2, <2>3
<1> QED  BY <1>2, <1>3, <1>4

(* Every step keeps the process in its type and its word fresh.            *)
LEMMA ProcessStep ==
    ASSUME TypeOK, FreshInv, [Next]_vars
    PROVE  Typed(me') /\ ProcessFresh'
<1>1. Typed(me) /\ ProcessFresh /\ quiet \in Nat /\ market \in BOOLEAN /\ deposals \in Nat
  BY TypedIsProcess, Limits DEF TypeOK, FreshInv, ProcessFresh
<1>2. CASE UNCHANGED vars
  BY <1>1, <1>2 DEF vars, budgets, ProcessFresh, Undeposed, LastIsFresh, BodyIsFresh
<1> QED  BY <1>1, <1>2, LoopFresh, SocketFresh, WaysOutFresh, NewPlaceFresh, BeatFresh,
            QuoteFresh, DropFresh, HangUpFresh, LeaseFresh, ClockFresh DEF Next

(* The owner, the market, the count of silence and the bounds.             *)
LEMMA FrameStep ==
    ASSUME TypeOK, [Next]_vars
    PROVE  /\ owner' \in {Me, Other, NoOne} /\ market' \in BOOLEAN
           /\ quiet' \in 0..(FreshFor + 1) /\ deposals' \in 0..MaxDeposals
           /\ deposals' = 0 => deposals = 0
<1>0. /\ owner \in {Me, Other, NoOne} /\ market \in BOOLEAN /\ quiet \in 0..(FreshFor + 1)
      /\ deposals \in 0..MaxDeposals
  BY DEF TypeOK
<1>1. CASE Clock
  BY <1>0, <1>1, Limits DEF Clock, budgets, Least
<1>2. CASE LosesKey
  BY <1>0, <1>2, Limits DEF LosesKey
<1>3. CASE Quote
  BY <1>0, <1>3, Limits DEF Quote
<1>4. CASE Acquire \/ Leave \/ Crash \/ OtherLeads \/ OtherWrites \/ UNCHANGED vars
  BY <1>0, <1>4 DEF Acquire, Leave, Crash, OtherLeads, OtherWrites, vars, budgets
<1>5. CASE UNCHANGED rest
  BY <1>0, <1>5 DEF rest
<1>6. Rehydrate \/ RedisFails \/ Decide \/ Connected \/ Trip \/ Drop \/ HangUp \/ AuthFails
      \/ Wake \/ Stop \/ Exit \/ Restart \/ Beat \/ BeatLands \/ Notice => UNCHANGED rest
  BY DEF Rehydrate, RedisFails, Decide, Connected, Trip, Drop, HangUp, AuthFails, Wake, Stop,
         Exit, Restart, Beat, BeatLands, Notice
<1> QED  BY <1>1, <1>2, <1>3, <1>4, <1>5, <1>6 DEF Next

(* The inductive invariant: no word, heartbeat or key says "healthy" longer*)
(* than the timers it waits on allow.                                      *)
LEMMA FreshHolds == Spec => [](TypeOK /\ FreshInv)
<1>1. Init => TypeOK /\ FreshInv
  <2> SUFFICES ASSUME Init
               PROVE  TypeOK /\ FreshInv
    OBVIOUS
  <2>1. NewProcess \in Process
    BY NewTyped, TypedIsProcess
  <2>2. /\ NewProcess.pc = "standby" /\ ~NewProcess.lost /\ NewProcess.last = "starting"
        /\ NewProcess.body = "none"
    BY DEF NewProcess
  <2>3. TypeOK
    BY <2>1, Limits DEF Init, TypeOK
  <2>4. me.pc = "standby" /\ ~me.lost /\ me.last = "starting" /\ me.body = "none"
    BY <2>2 DEF Init
  <2>5. ~Ready
    BY DEF Init, Ready, Unknown
  <2>6. FreshInv
    BY <2>4, <2>5 DEF FreshInv, Undeposed, LastIsFresh, BodyIsFresh, KeyIsFresh, Leading, Session
  <2> QED  BY <2>3, <2>6
<1>2. TypeOK /\ FreshInv /\ [Next]_vars => (TypeOK /\ FreshInv)'
  <2> SUFFICES ASSUME TypeOK, FreshInv, [Next]_vars
               PROVE  (TypeOK /\ FreshInv)'
    OBVIOUS
  <2>1. Typed(me') /\ ProcessFresh'
    BY ProcessStep
  <2>2. StatusOK' /\ faults' \in 0..MaxFaults /\ (deposals = 0 => KeyIsFresh')
    BY KeyStep
  <2>3. /\ owner' \in {Me, Other, NoOne} /\ market' \in BOOLEAN
        /\ quiet' \in 0..(FreshFor + 1) /\ deposals' \in 0..MaxDeposals
        /\ deposals' = 0 => deposals = 0
    BY FrameStep
  <2>4. me' \in Process
    BY <2>1, TypedIsProcess
  <2>5. TypeOK'
    BY <2>2, <2>3, <2>4 DEF TypeOK, StatusOK
  <2>6. FreshInv'
    BY <2>1, <2>2, <2>3 DEF FreshInv, ProcessFresh
  <2> QED  BY <2>5, <2>6
<1> QED  BY <1>1, <1>2, PTL DEF Spec

(* For every timeout, ladder, TTL and number of faults: the process keeps  *)
(* within its bounds, and in an open market feed:status says "healthy" of  *)
(* this replica only within FreshFor of its last quote (supervisor.py).    *)
THEOREM HealthyMeansFresh == Spec => []FeedInv
<1>1. TypeOK /\ FreshInv => FeedInv
  <2> SUFFICES ASSUME TypeOK, FreshInv, Ready, status.by = Me, deposals = 0
               PROVE  quiet <= FreshFor
    BY DEF FeedInv, ReadyMeansFresh
  <2>1. quiet + status.ttl <= LiveFor + StatusTtl
    BY DEF FreshInv, KeyIsFresh
  <2>2. status.ttl \in 1..StatusTtl /\ quiet \in Nat
    BY Limits DEF TypeOK, Ready, Unknown
  <2> QED  BY <2>1, <2>2, Limits DEF LiveFor, NoticedBy, FreshFor
<1> QED  BY <1>1, FreshHolds, PTL

============================================================================
