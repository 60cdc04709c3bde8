------------------------ MODULE AlertPersisterProofs ------------------------
(***************************************************************************)
(* Proofs about AlertPersister: for every number of workers and entries,   *)
(* every batch size and every crash and fault budget.                      *)
(***************************************************************************)
EXTENDS AlertPersister, WellFoundedInduction, FiniteSetTheorems, TLAPS

USE AlertAssumption

(* A page is made of the entries it is taken from.                         *)
LEMMA PageSubset ==
  ASSUME NEW S, NEW n
  PROVE  Page(S, n) \subseteq S
BY DEF Page

(* A non-empty set of numbers has a least one.                             *)
LEMMA LeastExists ==
  ASSUME NEW T \in SUBSET Nat, T # {}
  PROVE  \E x \in T : \A y \in T : x <= y
<1> DEFINE Below == {p \in Nat \X Nat : p[1] < p[2]}
<1>1. IsWellFoundedOn(Below, Nat)
  BY NatLessThanWellFounded DEF OpToRel
<1>2. PICK x \in T : \A y \in T : ~(<<y, x>> \in Below)
  <2> HIDE DEF Below
  <2> QED  BY <1>1, WFMin, Zenon
<1>3. \A y \in T : x <= y
  <2> SUFFICES ASSUME NEW y \in T PROVE x <= y
    OBVIOUS
  <2>1. x \in Nat /\ y \in Nat
    OBVIOUS
  <2>2. ~(y < x)
    BY <1>2, <2>1
  <2> QED  BY <2>1, <2>2
<1> QED  BY <1>3

(* A non-empty set of stream ids has an oldest one.                        *)
LEMMA OldestIsOldest ==
  ASSUME NEW N \in Nat, NEW S \in SUBSET (1..N), S # {}
  PROVE  Oldest(S) \in S /\ \A f \in S : Oldest(S) <= f
<1>1. S \in SUBSET Nat
  OBVIOUS
<1>2. \E e \in S : \A f \in S : e <= f
  BY <1>1, LeastExists
<1> QED  BY <1>2 DEF Oldest

(* A non-empty set of stream ids has a newest one.                         *)
LEMMA NewestIsNewest ==
  ASSUME NEW N \in Nat, NEW S \in SUBSET (1..N), S # {}
  PROVE  Newest(S) \in S /\ \A f \in S : f <= Newest(S)
<1> DEFINE T == {N - e : e \in S}
<1>1. \A e \in S : e \in 1..N
  OBVIOUS
<1>2. T \in SUBSET Nat /\ T # {}
  <2>1. \A e \in S : N - e \in Nat
    BY <1>1
  <2> QED  BY <2>1
<1>3. PICK x \in T : \A y \in T : x <= y
  <2> HIDE DEF T
  <2> QED  BY <1>2, LeastExists
<1>4. PICK e \in S : x = N - e
  OBVIOUS
<1>5. \A f \in S : f <= e
  <2> SUFFICES ASSUME NEW f \in S PROVE f <= e
    OBVIOUS
  <2>1. x <= N - f
    BY <1>3
  <2> QED  BY <1>1, <1>4, <2>1
<1> QED  BY <1>5 DEF Newest

(* A page is an initial segment of what it is taken from.                  *)
LEMMA PageInitial ==
  ASSUME NEW N \in Nat, NEW n \in Nat, NEW S \in SUBSET (1..N), NEW d \in Page(S, n), NEW e \in S, e <= d
  PROVE  e \in Page(S, n)
<1> DEFINE Upto(x) == {f \in S : f <= x}
<1>1. \A x \in 1..N : IsFiniteSet(Upto(x))
  <2>1. IsFiniteSet(1..N)
    BY FS_Interval
  <2>2. \A x \in 1..N : Upto(x) \in SUBSET (1..N)
    OBVIOUS
  <2>3. QED
    BY <2>1, <2>2, FS_Subset
<1>2. d \in 1..N /\ e \in 1..N
  BY DEF Page
<1>3. Upto(e) \in SUBSET Upto(d)
  <2>1. \A f \in S : f \in Int
    OBVIOUS
  <2>2. d \in Int /\ e \in Int
    BY <1>2
  <2>3. \A f \in S : f <= e => f <= d
    BY <2>1, <2>2
  <2>4. QED
    BY <2>3
<1>4. /\ Cardinality(Upto(e)) \in Nat /\ Cardinality(Upto(d)) \in Nat
      /\ Cardinality(Upto(e)) <= Cardinality(Upto(d))
  <2> HIDE DEF Upto
  <2>1. QED
    BY <1>1, <1>2, <1>3, FS_Subset, FS_CardinalityType
<1>5. Cardinality(Upto(d)) <= n
  BY DEF Page
<1>6. QED
  BY <1>4, <1>5 DEF Page

(* The parsed rows of a batch are entries of the stream.                   *)
LEMMA ParsedIds ==
  ASSUME TypeOK, NEW w \in Worker, NEW k
  PROVE  /\ Parsed(w) \subseteq Ids /\ Parsed(w) \subseteq batch[w]
         /\ OfKey(Parsed(w), k) \in SUBSET (1..MaxId)
         /\ OfKey(Parsed(w), k) \subseteq Parsed(w)
BY DEF TypeOK, Parsed, OfKey, Ids

(* INSERT ... DO NOTHING keeps every row there is, and leaves a row, taken *)
(* from an entry, under every key of the batch.                            *)
LEMMA StoredRows ==
  ASSUME TypeOK, NEW w \in Worker, NEW k \in Key
  PROVE  /\ Stored(w)[k] \in Nat
         /\ rows[k] # 0 => Stored(w)[k] = rows[k]
         /\ OfKey(Parsed(w), k) # {} => Stored(w)[k] # 0
         /\ Stored(w)[k] # rows[k] =>
               \E e \in Ids : KeyOf[e] = k /\ Stored(w)[k] = TsOf[e]
<1> DEFINE S == OfKey(Parsed(w), k)
<1>1. S \in SUBSET (1..MaxId)
  BY ParsedIds
<1>2. S # {} => Oldest(S) \in S
  <2> HIDE DEF S
  <2> QED  BY <1>1, OldestIsOldest
<1>3. S # {} => Oldest(S) \in Ids /\ KeyOf[Oldest(S)] = k /\ TsOf[Oldest(S)] \in Nat \ {0}
  BY <1>1, <1>2 DEF OfKey, Ids
<1>4. Stored(w)[k] = IF rows[k] # 0 \/ S = {} THEN rows[k] ELSE TsOf[Oldest(S)]
  BY DEF Stored
<1>5. rows[k] \in Nat
  BY DEF TypeOK
<1> HIDE DEF S
<1>6. /\ Stored(w)[k] \in Nat
      /\ rows[k] # 0 => Stored(w)[k] = rows[k]
      /\ S # {} => Stored(w)[k] # 0
      /\ Stored(w)[k] # rows[k] =>
            \E e \in Ids : KeyOf[e] = k /\ Stored(w)[k] = TsOf[e]
  BY <1>3, <1>4, <1>5
<1> QED  BY <1>6 DEF S

(* Stored is a table.                                                      *)
LEMMA StoredType ==
  ASSUME TypeOK, NEW w \in Worker
  PROVE  Stored(w) \in [Key -> Nat]
<1>1. \A k \in Key : Stored(w)[k] \in Nat
  BY StoredRows
<1>2. Stored(w) = [k \in Key |-> Stored(w)[k]]
  BY DEF Stored
<1> QED  BY <1>1, <1>2

(* The pages of the three kinds of read.                                   *)
LEMMA Pages ==
  ASSUME TypeOK, NEW w \in Worker
  PROVE  /\ FirstPage({e \in Ids : pel[e] = w}) \subseteq Ids
         /\ Scanned(w) \subseteq stale /\ Scanned(w) \subseteq Ids
         /\ NewPage \subseteq {e \in Ids : e > delivered /\ e <= added}
BY PageSubset DEF FirstPage, Scanned, NewPage, TypeOK, Pending

(* Nothing between two positions of the group is skipped.                  *)
LEMMA DeliverSkipsNothing ==
  ASSUME TypeOK, NEW w \in Worker, Deliver(w), NEW e \in Ids,
         e <= delivered', e > delivered
  PROVE  e \in NewPage
<1> DEFINE S == {f \in Ids : f > delivered /\ f <= added}
<1>1. NewPage # {}
  BY DEF Deliver, TypeOK, Ids
<1>2. delivered' \in NewPage
  BY <1>1 DEF Deliver
<1>3. delivered' <= added
  BY <1>2, Pages
<1>4. e \in S
  BY <1>3 DEF TypeOK, Ids, Deliver
<1>5. S \in SUBSET (1..MaxId) /\ NewPage = Page(S, BatchSize)
  BY DEF NewPage, FirstPage, Ids
<1> HIDE DEF S
<1> QED  BY <1>2, <1>4, <1>5, PageInitial

(* What each command of Redis does to the group.                           *)
LEMMA GroupType ==
  ASSUME TypeOK, NEW w \in Worker
  PROVE  /\ Adopt(w) => pel' \in [Ids -> Worker \cup {NoOne}] /\ stale' \subseteq Pending'
         /\ Xack(w) => pel' \in [Ids -> Worker \cup {NoOne}] /\ stale' \subseteq Pending'
         /\ Deliver(w) => /\ pel' \in [Ids -> Worker \cup {NoOne}] /\ stale' \subseteq Pending'
                          /\ delivered' \in 0..MaxId /\ delivered' <= added
<1>1. Adopt(w) => pel' \in [Ids -> Worker \cup {NoOne}] /\ stale' \subseteq Pending'
  BY DEF Adopt, TypeOK, Pending
<1>2. Xack(w) => pel' \in [Ids -> Worker \cup {NoOne}] /\ stale' \subseteq Pending'
  BY DEF Xack, TypeOK, Pending
<1>3. Deliver(w) => pel' \in [Ids -> Worker \cup {NoOne}] /\ stale' \subseteq Pending'
  BY DEF Deliver, TypeOK, Pending
<1>4. Deliver(w) => delivered' \in 0..MaxId /\ delivered' <= added
  BY Pages DEF Deliver, TypeOK
<1> QED  BY <1>1, <1>2, <1>3, <1>4

(* The types of one worker's state and of the rest.                        *)
WorkerOK ==
  /\ pc \in [Worker -> Steps]
  /\ phase \in [Worker -> Loops]
  /\ batch \in [Worker -> SUBSET Ids]
  /\ landed \in [Worker -> SUBSET Key]
  /\ next \in [Worker -> 0..MaxId]

RestOK ==
  /\ added \in 0..MaxId /\ delivered \in 0..MaxId /\ delivered <= added
  /\ pel \in [Ids -> Worker \cup {NoOne}]
  /\ stale \subseteq Pending
  /\ rows \in [Key -> Nat]
  /\ alarmed \subseteq Ids
  /\ crashes \in 0..MaxCrashes /\ faults \in 0..MaxFaults

(* Every step keeps the types of the worker's locals.                      *)
LEMMA WorkerStep ==
  ASSUME TypeOK, Next
  PROVE  WorkerOK'
<1> USE DEF Steps, Loops
<1>1. WorkerOK
  BY DEF TypeOK, WorkerOK
<1>2. ASSUME NEW w \in Worker, NEW page \in SUBSET Ids, NEW caller \in Loops,
             Consume(w, page, caller), next' \in [Worker -> 0..MaxId]
      PROVE  WorkerOK'
  BY <1>1, <1>2 DEF Consume, Goto, WorkerOK
<1>3. ASSUME NEW w \in Worker, NEW step \in Steps, Abandon(w, step)
      PROVE  WorkerOK'
  BY <1>1, <1>3 DEF Abandon, Forget, Goto, WorkerOK
<1>4. ASSUME NEW w \in Worker, NEW step \in Steps, Goto(w, step),
             UNCHANGED <<phase, batch, landed>>, next' \in [Worker -> 0..MaxId]
      PROVE  WorkerOK'
  BY <1>1, <1>4 DEF Goto, WorkerOK
<1>5. CASE Add \/ Age
  BY <1>1, <1>5 DEF Add, Age, worker, WorkerOK
<1>6. ASSUME NEW w \in Worker, Drain(w)
      PROVE  WorkerOK'
  <2>1. FirstPage({e \in Ids : pel[e] = w}) \in SUBSET Ids /\ next' \in [Worker -> 0..MaxId]
    BY <1>1, <1>6, Pages DEF Drain, WorkerOK
  <2> QED  BY <1>2, <1>4, <1>6, <2>1 DEF Drain
<1>7. ASSUME NEW w \in Worker, Claim(w) \/ Sweep(w)
      PROVE  WorkerOK'
  <2>1. Scanned(w) \in SUBSET Ids /\ pc[w] \in Loops
    BY <1>7, Pages DEF Claim, Sweep
  <2>2. next' \in [Worker -> 0..MaxId]
    BY <1>1, <1>7 DEF Claim, Sweep, ClaimPage, WorkerOK
  <2> QED  BY <1>2, <1>4, <1>7, <2>1, <2>2 DEF Claim, Sweep, ClaimPage
<1>8. ASSUME NEW w \in Worker, SkipSweep(w) \/ Retry(w) \/ Restart(w)
      PROVE  WorkerOK'
  BY <1>1, <1>8 DEF SkipSweep, Retry, Restart, Goto, WorkerOK
<1>9. ASSUME NEW w \in Worker, ReadNew(w)
      PROVE  WorkerOK'
  <2>1. NewPage \in SUBSET Ids /\ next' \in [Worker -> 0..MaxId]
    BY <1>1, <1>9, Pages DEF ReadNew, WorkerOK
  <2> QED  BY <1>2, <1>4, <1>9, <2>1 DEF ReadNew
<1>10. ASSUME NEW w \in Worker, Insert(w)
       PROVE  WorkerOK'
  <2>1. Landed(w) \in SUBSET Key
    BY DEF Landed
  <2> QED  BY <1>1, <1>10, <2>1 DEF Insert, Goto, WorkerOK
<1>11. ASSUME NEW w \in Worker, Classify(w)
       PROVE  WorkerOK'
  BY <1>1, <1>11 DEF Classify, Goto, WorkerOK
<1>12. ASSUME NEW w \in Worker, Ack(w)
       PROVE  WorkerOK'
  <2>1. Resume(w) \in Steps
    BY <1>1 DEF Resume, WorkerOK
  <2> QED  BY <1>1, <1>12, <2>1 DEF Ack, Forget, Goto, WorkerOK
<1>13. ASSUME NEW w \in Worker,
              ReadFails(w) \/ InsertFails(w) \/ ClassifyFails(w) \/ AckFails(w) \/ Crash(w)
       PROVE  WorkerOK'
  BY <1>3, <1>13 DEF ReadFails, InsertFails, ClassifyFails, AckFails, Crash, AfterRedisError
<1> QED  BY <1>5, <1>6, <1>7, <1>8, <1>9, <1>10, <1>11, <1>12, <1>13
         DEF Next, Work, Failure

(* A reported collision is a parsed entry of the batch whose row differs.  *)
LEMMA CollisionsParsed ==
  ASSUME TypeOK, NEW w \in Worker, NEW e \in Collisions(w)
  PROVE  e \in Parsed(w) /\ e \in Ids /\ rows[KeyOf[e]] # TsOf[e]
<1>1. PICK c \in Conflicted(w) : e = Newest(OfKey(Parsed(w), KeyOf[c]))
  BY DEF Collisions
<1> DEFINE S == OfKey(Parsed(w), KeyOf[c])
<1>2. S \in SUBSET (1..MaxId) /\ S \subseteq Parsed(w) /\ Parsed(w) \subseteq Ids
  BY ParsedIds
<1>3. c \in S
  BY DEF Conflicted, OfKey
<1>4. e \in S
  <2>1. e = Newest(S)
    BY <1>1
  <2> HIDE DEF S
  <2> QED  BY <1>2, <1>3, <2>1, NewestIsNewest
<1> QED  BY <1>2, <1>4 DEF Collisions

(* Every step keeps the types of the stream, the group, the table and the  *)
(* budgets.                                                                *)
LEMMA RestStep ==
  ASSUME TypeOK, Next
  PROVE  RestOK'
<1>1. RestOK
  BY DEF TypeOK, RestOK
<1>2. ASSUME Fault PROVE faults' \in 0..MaxFaults
  BY <1>1, <1>2 DEF Fault, RestOK
<1>3. CASE Add \/ Age
  BY <1>1, <1>3 DEF Add, Age, group, budgets, RestOK, Pending
<1>4. ASSUME NEW w \in Worker, Drain(w)
      PROVE  RestOK'
  BY <1>1, <1>4 DEF Drain, budgets, RestOK, Pending
<1>5. ASSUME NEW w \in Worker, Claim(w) \/ Sweep(w)
      PROVE  RestOK'
  BY <1>1, <1>5, GroupType DEF Claim, Sweep, ClaimPage, budgets, RestOK
<1>6. ASSUME NEW w \in Worker, SkipSweep(w) \/ Retry(w) \/ Restart(w)
      PROVE  RestOK'
  BY <1>1, <1>6 DEF SkipSweep, Retry, Restart, group, budgets, RestOK, Pending
<1>7. ASSUME NEW w \in Worker, ReadNew(w)
      PROVE  RestOK'
  BY <1>1, <1>7, GroupType DEF ReadNew, budgets, RestOK
<1>8. ASSUME NEW w \in Worker, Insert(w)
      PROVE  RestOK'
  BY <1>1, <1>8, StoredType DEF Insert, group, budgets, RestOK, Pending
<1>9. ASSUME NEW w \in Worker, Classify(w)
      PROVE  RestOK'
  BY <1>1, <1>9, CollisionsParsed DEF Classify, group, budgets, RestOK, Pending
<1>10. ASSUME NEW w \in Worker, Ack(w)
       PROVE  RestOK'
  BY <1>1, <1>10, GroupType DEF Ack, budgets, RestOK
<1>11. ASSUME NEW w \in Worker, ReadFails(w)
       PROVE  RestOK'
  <2>1. /\ delivered' \in 0..MaxId /\ delivered' <= added
        /\ pel' \in [Ids -> Worker \cup {NoOne}] /\ stale' \subseteq Pending'
    BY <1>1, <1>11, GroupType DEF ReadFails, group, RestOK, Pending
  <2> QED  BY <1>1, <1>2, <1>11, <2>1 DEF ReadFails, RestOK
<1>12. ASSUME NEW w \in Worker, InsertFails(w)
       PROVE  RestOK'
  BY <1>1, <1>2, <1>12, StoredType DEF InsertFails, group, RestOK, Pending
<1>13. ASSUME NEW w \in Worker, ClassifyFails(w)
       PROVE  RestOK'
  BY <1>1, <1>2, <1>13, CollisionsParsed DEF ClassifyFails, group, RestOK, Pending
<1>14. ASSUME NEW w \in Worker, AckFails(w)
       PROVE  RestOK'
  <2>1. pel' \in [Ids -> Worker \cup {NoOne}] /\ stale' \subseteq Pending'
    BY <1>1, <1>14, GroupType DEF AckFails, RestOK, Pending
  <2> QED  BY <1>1, <1>2, <1>14, <2>1 DEF AckFails, RestOK
<1>15. ASSUME NEW w \in Worker, Crash(w)
       PROVE  RestOK'
  BY <1>1, <1>15 DEF Crash, group, RestOK, Pending
<1> QED  BY <1>3, <1>4, <1>5, <1>6, <1>7, <1>8, <1>9, <1>10, <1>11, <1>12, <1>13,
            <1>14, <1>15 DEF Next, Work, Failure

(* Type correctness, for any workers, streams, batch sizes and failures.   *)
THEOREM TypeCorrect == Spec => []TypeOK
<1>1. Init => TypeOK
  BY DEF Init, TypeOK, Steps, Loops, Pending
<1>2. TypeOK /\ [Next]_vars => TypeOK'
  <2> SUFFICES ASSUME TypeOK, [Next]_vars PROVE TypeOK'
    OBVIOUS
  <2>1. CASE Next
    BY <2>1, WorkerStep, RestStep DEF TypeOK, WorkerOK, RestOK
  <2>2. CASE UNCHANGED vars
    BY <2>2 DEF vars, group, worker, budgets, TypeOK, Pending
  <2> QED  BY <2>1, <2>2
<1> QED  BY <1>1, <1>2, PTL DEF Spec

---------------------------------------------------------------------------
(* What a step may do to the rows, to a batch past its insert, and to what *)
(* is settled.                                                             *)
RowsKept ==
  \A k \in Key :
    /\ rows[k] # 0 => rows'[k] = rows[k]
    /\ rows'[k] # rows[k] => \E e \in Ids : KeyOf[e] = k /\ rows'[k] = TsOf[e]

BatchKept ==
  \A v \in Worker :
    pc'[v] \in {"classify", "ack"} =>
      /\ batch'[v] = batch[v]
      /\ \/ pc[v] \in {"classify", "ack"}
         \/ \A e \in batch[v] : Parses(e) => rows'[KeyOf[e]] # 0

SettledByAck ==
  \A e \in Ids :
    Settled(e)' => Settled(e) \/ \E v \in Worker : pc[v] = "ack" /\ e \in batch[v]

(* Rows are only added, by Insert and InsertFails.                         *)
LEMMA RowsStep ==
  ASSUME TypeOK, Next
  PROVE  RowsKept
<1>1. ASSUME NEW w \in Worker, rows' = Stored(w) PROVE RowsKept
  BY <1>1, StoredRows DEF RowsKept
<1>2. ASSUME rows' = rows PROVE RowsKept
  BY <1>2 DEF RowsKept
<1>3. rows' = rows \/ \E w \in Worker : rows' = Stored(w)
  BY DEF Next, Work, Failure, Add, Age, Drain, Claim, Sweep, ClaimPage, SkipSweep, ReadNew,
         Insert, Classify, Ack, Retry, ReadFails, InsertFails, ClassifyFails, AckFails,
         Crash, Restart
<1> QED  BY <1>1, <1>2, <1>3

(* Only Insert leads past the insert.                                      *)
LEMMA BatchStep ==
  ASSUME TypeOK, Next
  PROVE  BatchKept
<1>1. pc \in [Worker -> Steps] /\ batch \in [Worker -> SUBSET Ids]
  BY DEF TypeOK
<1>2. ASSUME NEW w \in Worker, NEW step \in Steps \ {"classify", "ack"}, Goto(w, step),
             \A v \in Worker \ {w} : batch'[v] = batch[v]
      PROVE  BatchKept
  BY <1>1, <1>2 DEF Goto, BatchKept
<1>3. ASSUME UNCHANGED <<pc, batch>> PROVE BatchKept
  BY <1>3 DEF BatchKept
<1>4. ASSUME NEW w \in Worker, Insert(w) PROVE BatchKept
  <2>1. \A e \in batch[w] : Parses(e) => rows'[KeyOf[e]] # 0
    <3> SUFFICES ASSUME NEW e \in batch[w], Parses(e) PROVE rows'[KeyOf[e]] # 0
      OBVIOUS
    <3>1. e \in OfKey(Parsed(w), KeyOf[e]) /\ KeyOf[e] \in Key
      BY <1>1 DEF OfKey, Parsed, Ids
    <3> QED  BY <1>4, <3>1, StoredRows DEF Insert
  <2> QED  BY <1>1, <1>4, <2>1 DEF Insert, Goto, BatchKept
<1>5. ASSUME NEW w \in Worker, Classify(w) PROVE BatchKept
  BY <1>1, <1>5 DEF Classify, Goto, BatchKept
<1>6. ASSUME NEW w \in Worker, Drain(w) \/ Claim(w) \/ Sweep(w) \/ ReadNew(w)
      PROVE  BatchKept
  <2>1. \A v \in Worker \ {w} : batch'[v] = batch[v]
    BY <1>1, <1>6 DEF Drain, Claim, Sweep, ClaimPage, ReadNew, Consume
  <2>2. \E step \in Steps \ {"classify", "ack"} : Goto(w, step)
    BY <1>6 DEF Drain, Claim, Sweep, ClaimPage, ReadNew, Consume, Steps, Loops
  <2> QED  BY <1>2, <2>1, <2>2
<1>7. ASSUME NEW w \in Worker, SkipSweep(w) \/ Retry(w) \/ Restart(w)
      PROVE  BatchKept
  BY <1>2, <1>7 DEF SkipSweep, Retry, Restart, Steps, Loops
<1>8. ASSUME NEW w \in Worker, Ack(w) PROVE BatchKept
  <2>1. Resume(w) \in Steps \ {"classify", "ack"}
    BY DEF Resume, TypeOK, Steps, Loops
  <2> QED  BY <1>1, <1>2, <1>8, <2>1 DEF Ack, Forget
<1>9. ASSUME NEW w \in Worker,
             ReadFails(w) \/ InsertFails(w) \/ ClassifyFails(w) \/ AckFails(w) \/ Crash(w)
      PROVE  BatchKept
  <2>1. \E step \in Steps \ {"classify", "ack"} : Abandon(w, step)
    BY <1>9 DEF ReadFails, InsertFails, ClassifyFails, AckFails, Crash, AfterRedisError,
                Steps, Loops
  <2> QED  BY <1>1, <1>2, <2>1 DEF Abandon, Forget
<1>10. CASE Add \/ Age
  BY <1>3, <1>10 DEF Add, Age, worker
<1> QED  BY <1>4, <1>5, <1>6, <1>7, <1>8, <1>9, <1>10 DEF Next, Work, Failure

(* Only XACK settles: a claim keeps an entry pending, and a read makes what*)
(* it passes over pending.                                                 *)
LEMMA SettledStep ==
  ASSUME TypeOK, Next
  PROVE  SettledByAck
<1>1. ASSUME UNCHANGED <<delivered, pel>> PROVE SettledByAck
  BY <1>1 DEF SettledByAck, Settled
<1>2. ASSUME NEW w \in Worker, Adopt(w), UNCHANGED delivered PROVE SettledByAck
  BY <1>2 DEF SettledByAck, Settled, Adopt
<1>3. ASSUME NEW w \in Worker, Xack(w), UNCHANGED delivered, pc[w] = "ack"
      PROVE  SettledByAck
  BY <1>3 DEF SettledByAck, Settled, Xack
<1>4. ASSUME NEW w \in Worker, Deliver(w) PROVE SettledByAck
  <2> SUFFICES ASSUME NEW e \in Ids, Settled(e)' PROVE Settled(e)
    BY DEF SettledByAck
  <2>1. e \notin NewPage
    BY <1>4 DEF Deliver, Settled
  <2>2. e <= delivered'
    BY DEF Settled
  <2>3. ~(e > delivered)
    BY <1>4, <2>1, <2>2, DeliverSkipsNothing
  <2>4. pel[e] = NoOne
    BY <1>4, <2>1 DEF Deliver, Settled
  <2> QED  BY <2>3, <2>4 DEF Settled, TypeOK, Ids
<1>5. \/ UNCHANGED <<delivered, pel>>
      \/ \E w \in Worker : \/ Adopt(w) /\ UNCHANGED delivered
                           \/ Xack(w) /\ UNCHANGED delivered /\ pc[w] = "ack"
                           \/ Deliver(w)
  BY DEF Next, Work, Failure, Add, Age, Drain, Claim, Sweep, ClaimPage, SkipSweep, ReadNew,
         Insert, Classify, Ack, Retry, ReadFails, InsertFails, ClassifyFails, AckFails,
         Crash, Restart, group
<1> QED  BY <1>1, <1>2, <1>3, <1>4, <1>5

(* The inductive invariant.                                                *)
LEMMA AlertInvStep ==
  ASSUME TypeOK, AlertInv, Next
  PROVE  AlertInv'
<1>1. RowsKept /\ BatchKept /\ SettledByAck
  BY RowsStep, BatchStep, SettledStep
<1>2. \A e \in Ids : KeyOf[e] \in Key
  OBVIOUS
<1>3. batch \in [Worker -> SUBSET Ids]
  BY DEF TypeOK
<1>4. RowsAreTransitions'
  BY <1>1 DEF AlertInv, RowsAreTransitions, RowsKept
<1>5. InsertedBeforeAck'
  <2> SUFFICES ASSUME NEW v \in Worker, pc'[v] \in {"classify", "ack"},
                      NEW e \in batch'[v], Parses(e)
               PROVE  rows'[KeyOf[e]] # 0
    BY DEF InsertedBeforeAck, Parses
  <2>1. e \in batch[v] /\ e \in Ids
    BY <1>1, <1>3 DEF BatchKept
  <2> QED  BY <1>1, <1>2, <2>1 DEF AlertInv, InsertedBeforeAck, BatchKept, RowsKept
<1>6. OnlyBatched'
  <2> SUFFICES ASSUME NEW e \in Ids, Settled(e)', Parses(e)
               PROVE  rows'[KeyOf[e]] # 0
    BY DEF OnlyBatched, Parses
  <2>1. rows[KeyOf[e]] # 0
    BY <1>1 DEF SettledByAck, AlertInv, OnlyBatched, InsertedBeforeAck
  <2> QED  BY <1>1, <1>2, <2>1 DEF RowsKept
<1> QED  BY <1>4, <1>5, <1>6 DEF AlertInv

(* The invariant holds throughout.                                         *)
LEMMA AlertInvHolds == Spec => []AlertInv
<1>1. Init => AlertInv
  BY DEF Init, AlertInv, RowsAreTransitions, InsertedBeforeAck, OnlyBatched, Settled, Ids
<1>2. TypeOK /\ AlertInv /\ [Next]_vars => AlertInv'
  <2> SUFFICES ASSUME TypeOK, AlertInv, [Next]_vars PROVE AlertInv'
    OBVIOUS
  <2>1. CASE UNCHANGED vars
    BY <2>1 DEF vars, group, worker, AlertInv, RowsAreTransitions, InsertedBeforeAck,
                OnlyBatched, Settled, Parses
  <2> QED  BY <2>1, AlertInvStep
<1> QED  BY <1>1, <1>2, TypeCorrect, PTL DEF Spec

(* Acknowledged implies stored: while every (symbol, seq) is one transition*)
(* no alert is lost, however the workers crash, fail and compete.          *)
THEOREM AckedIsStored ==
  ASSUME KeysAreUnique
  PROVE  Spec => []NoAlertIsLost
<1>1. AlertInv => NoAlertIsLost
  BY DEF AlertInv, RowsAreTransitions, OnlyBatched, NoAlertIsLost, KeysAreUnique
<1> QED  BY <1>1, AlertInvHolds, PTL

(* And _classify_conflicts never cries wolf: a redelivery, a re-emission or*)
(* two workers racing on one entry are not reported as a reused seq.       *)
THEOREM AlarmsAreReal ==
  ASSUME KeysAreUnique
  PROVE  Spec => []NoFalseAlarm
<1>1. Init => NoFalseAlarm
  BY DEF Init, NoFalseAlarm
<1>2. TypeOK /\ AlertInv /\ NoFalseAlarm /\ [Next]_vars => NoFalseAlarm'
  <2> SUFFICES ASSUME TypeOK, AlertInv, NoFalseAlarm, [Next]_vars PROVE NoFalseAlarm'
    OBVIOUS
  <2>1. ASSUME NEW w \in Worker, pc[w] = "classify" PROVE Collisions(w) = {}
    <3> SUFFICES ASSUME NEW e \in Collisions(w) PROVE FALSE
      OBVIOUS
    <3>1. e \in batch[w] /\ Parses(e) /\ e \in Ids /\ rows[KeyOf[e]] # TsOf[e]
      BY CollisionsParsed DEF Parsed
    <3>2. rows[KeyOf[e]] # 0 /\ KeyOf[e] \in Key
      BY <2>1, <3>1 DEF AlertInv, InsertedBeforeAck
    <3>3. PICK f \in Ids : KeyOf[f] = KeyOf[e] /\ rows[KeyOf[e]] = TsOf[f]
      BY <3>2 DEF AlertInv, RowsAreTransitions
    <3> QED  BY <3>1, <3>3 DEF KeysAreUnique
  <2>2. ASSUME NEW w \in Worker, Classify(w) \/ ClassifyFails(w) PROVE NoFalseAlarm'
    BY <2>1, <2>2 DEF Classify, ClassifyFails, NoFalseAlarm
  <2>3. CASE UNCHANGED alarmed
    BY <2>3 DEF NoFalseAlarm
  <2>4. UNCHANGED alarmed \/ \E w \in Worker : Classify(w) \/ ClassifyFails(w)
    BY DEF vars, Next, Work, Failure, Add, Age, Drain, Claim, Sweep, ClaimPage, SkipSweep,
           ReadNew, Insert, Ack, Retry, ReadFails, InsertFails, AckFails, Crash, Restart
  <2> QED  BY <2>2, <2>3, <2>4
<1> QED  BY <1>1, <1>2, TypeCorrect, AlertInvHolds, PTL DEF Spec

============================================================================
