------------------------- MODULE BarPersisterProofs -------------------------
(***************************************************************************)
(* Proofs about BarPersister: for every number of workers, ticks and rows, *)
(* and every fault, crash and pause budget.                                *)
(***************************************************************************)
EXTENDS BarPersister, WellFoundedInduction, FiniteSetTheorems, TLAPS

USE PersisterAssumption

(* A page is made of the entries it is taken from.                         *)
LEMMA PageSubset ==
  ASSUME NEW S, NEW n
  PROVE  Page(S, n) \subseteq S
BY DEF Page

(* A non-empty set of numbers has a least one.                             *)
LEMMA LeastExists ==
  ASSUME NEW T \in SUBSET Nat, T # {}
  PROVE  \E x \in T : \A y \in T : x <= y
<1> DEFINE Below == {p \in Nat \X Nat : p[1] < p[2]}
<1>1. IsWellFoundedOn(Below, Nat)
  BY NatLessThanWellFounded DEF OpToRel
<1>2. PICK x \in T : \A y \in T : ~(<<y, x>> \in Below)
  <2> HIDE DEF Below
  <2> QED  BY <1>1, WFMin, Zenon
<1>3. \A y \in T : x <= y
  <2> SUFFICES ASSUME NEW y \in T PROVE x <= y
    OBVIOUS
  <2>1. x \in Nat /\ y \in Nat
    OBVIOUS
  <2>2. ~(y < x)
    BY <1>2, <2>1
  <2> QED  BY <2>1, <2>2
<1> QED  BY <1>3

(* A non-empty set of stream ids has a newest one.                         *)
LEMMA NewestIsNewest ==
  ASSUME NEW N \in Nat, NEW S \in SUBSET (1..N), S # {}
  PROVE  Newest(S) \in S /\ \A f \in S : f <= Newest(S)
<1> DEFINE T == {N - e : e \in S}
<1>1. \A e \in S : e \in 1..N
  OBVIOUS
<1>2. T \in SUBSET Nat /\ T # {}
  <2>1. \A e \in S : N - e \in Nat
    BY <1>1
  <2> QED  BY <2>1
<1>3. PICK x \in T : \A y \in T : x <= y
  <2> HIDE DEF T
  <2> QED  BY <1>2, LeastExists
<1>4. PICK e \in S : x = N - e
  OBVIOUS
<1>5. \A f \in S : f <= e
  <2> SUFFICES ASSUME NEW f \in S PROVE f <= e
    OBVIOUS
  <2>1. x <= N - f
    BY <1>3
  <2> QED  BY <1>1, <1>4, <2>1
<1> QED  BY <1>5 DEF Newest

(* A page is an initial segment of what it is taken from.                  *)
LEMMA PageInitial ==
  ASSUME NEW N \in Nat, NEW n \in Nat, NEW S \in SUBSET (1..N), NEW d \in Page(S, n), NEW e \in S, e <= d
  PROVE  e \in Page(S, n)
<1> DEFINE Upto(x) == {f \in S : f <= x}
<1>1. \A x \in 1..N : IsFiniteSet(Upto(x))
  <2>1. IsFiniteSet(1..N)
    BY FS_Interval
  <2>2. \A x \in 1..N : Upto(x) \in SUBSET (1..N)
    OBVIOUS
  <2>3. QED
    BY <2>1, <2>2, FS_Subset
<1>2. d \in 1..N /\ e \in 1..N
  BY DEF Page
<1>3. Upto(e) \in SUBSET Upto(d)
  <2>1. \A f \in S : f \in Int
    OBVIOUS
  <2>2. d \in Int /\ e \in Int
    BY <1>2
  <2>3. \A f \in S : f <= e => f <= d
    BY <2>1, <2>2
  <2>4. QED
    BY <2>3
<1>4. /\ Cardinality(Upto(e)) \in Nat /\ Cardinality(Upto(d)) \in Nat
      /\ Cardinality(Upto(e)) <= Cardinality(Upto(d))
  <2> HIDE DEF Upto
  <2>1. QED
    BY <1>1, <1>2, <1>3, FS_Subset, FS_CardinalityType
<1>5. Cardinality(Upto(d)) <= n
  BY DEF Page
<1>6. QED
  BY <1>4, <1>5 DEF Page

(* A page is made of the entries it is taken from.                         *)
LEMMA FirstPageSubset ==
  ASSUME NEW S
  PROVE  FirstPage(S) \subseteq S
BY PageSubset DEF FirstPage

(* What Ingest makes of a page of stream ids.                              *)
LEMMA IngestType ==
  ASSUME WorkerOK, NEW w \in Worker, NEW page \in SUBSET Ids, Ingest(w, page)
  PROVE  mem' \in [Worker -> [Ids -> Nat]] /\ unacked' \in [Worker -> SUBSET Ids]
<1>1. [e \in Ids |-> mem[w][e] + (IF e \in page /\ Parses(e) THEN 1 ELSE 0)] \in [Ids -> Nat]
  BY DEF WorkerOK
<1>2. QED
  BY <1>1 DEF WorkerOK, Ingest

(* upsert_bars writes counts and ids.                                      *)
LEMMA UpsertType ==
  ASSUME TableOK, WorkerOK, NEW w \in Worker, Upsert(w)
  PROVE  TableOK'
<1>1. merged' \in [Ids -> Nat]
  BY DEF Upsert, TableOK, WorkerOK
<1>2. \A r \in Row : Applies(w, r) => Newest(Batch(w, r)) \in 0..MaxId
  <2> SUFFICES ASSUME NEW r \in Row, Applies(w, r)
               PROVE  Newest(Batch(w, r)) \in 0..MaxId
    OBVIOUS
  <2>1. Batch(w, r) \in SUBSET Ids /\ Batch(w, r) # {}
    BY DEF Applies, Batch
  <2>2. Newest(Batch(w, r)) \in Batch(w, r)
    BY <2>1, NewestIsNewest DEF Ids
  <2>3. QED
    BY <2>1, <2>2 DEF Ids
<1>3. QED
  BY <1>1, <1>2 DEF Upsert, TableOK

(* XAUTOCLAIM hands pending entries over, and forgets trimmed ones.        *)
LEMMA AdoptType ==
  ASSUME GroupOK, NEW w \in Worker, NEW scan, Adopt(w, scan)
  PROVE  GroupOK'
BY DEF GroupOK, Adopt, Pending

(* XACK only removes from the pending list.                                *)
LEMMA XackType ==
  ASSUME GroupOK, NEW w \in Worker, Xack(w)
  PROVE  GroupOK'
BY DEF GroupOK, Xack, Pending

(* The new entries handed out are in the stream.                           *)
LEMMA NewPageIds ==
  NewPage \subseteq {e \in Ids : e > delivered /\ e > trimmed /\ e <= added}
BY FirstPageSubset DEF NewPage

(* XREADGROUP moves the group along the stream, never past its end.        *)
LEMMA DeliverType ==
  ASSUME GroupOK, StreamOK, NEW w \in Worker, Deliver(w), UNCHANGED stream
  PROVE  GroupOK' /\ StreamOK'
<1>1. GroupOK'
  BY DEF GroupOK, Deliver, Pending
<1>2. delivered' \in Nat /\ delivered' <= added
  BY NewPageIds DEF Deliver, StreamOK
<1>3. QED
  BY <1>1, <1>2 DEF StreamOK, stream

(* One page of claim_abandoned keeps every type it touches.                *)
LEMMA ClaimPageType ==
  ASSUME TypeOK, NEW w \in Worker, NEW idle, NEW caller \in Phases,
         ClaimPage(w, idle, caller)
  PROVE  TypeOK'
<1> DEFINE scan == Scanned(w, idle)
           page == {e \in scan : e > trimmed}
<1>1. scan \subseteq Ids
  BY FirstPageSubset DEF Scanned, Pending
<1>2. GroupOK'
  BY AdoptType DEF ClaimPage, TypeOK
<1>3. WorkerOK'
  <2>1. CASE page = {}
    <3>1. /\ next' = [next EXCEPT ![w] = 0] /\ pc' = [pc EXCEPT ![w] = "top"]
          /\ UNCHANGED <<phase, mem, unacked, lost>>
      BY <2>1 DEF ClaimPage, Goto
    <3>2. QED
      BY <3>1 DEF TypeOK, WorkerOK, Body
  <2>2. CASE page # {}
    <3>1. page \in SUBSET Ids /\ Ingest(w, page)
      BY <1>1, <2>2 DEF ClaimPage
    <3>2. mem' \in [Worker -> [Ids -> Nat]] /\ unacked' \in [Worker -> SUBSET Ids]
      BY <3>1, IngestType DEF TypeOK
    <3>3. /\ \E c \in 0..MaxId : next' = [next EXCEPT ![w] = c]
          /\ pc' = [pc EXCEPT ![w] = "flush"] /\ phase' = [phase EXCEPT ![w] = caller]
          /\ UNCHANGED lost
      BY <2>2 DEF ClaimPage, Flush, Goto
    <3>4. QED
      BY <3>2, <3>3 DEF TypeOK, WorkerOK, Body
  <2>3. QED
    BY <2>1, <2>2
<1>4. QED
  BY <1>2, <1>3 DEF ClaimPage, TypeOK, StreamOK, TableOK, BudgetsOK, stream, table, budgets

(* Every step keeps the state well formed.                                 *)
THEOREM TypeCorrect == Spec => []TypeOK
<1>1. Init => TypeOK
  BY DEF Init, TypeOK, StreamOK, GroupOK, TableOK, WorkerOK, BudgetsOK, Idle, Body,
         Phases, Pending, Empty
<1>2. TypeOK /\ [Next]_vars => TypeOK'
  <2> SUFFICES ASSUME TypeOK, [Next]_vars
               PROVE  TypeOK'
    OBVIOUS
  <2>1. /\ UNCHANGED <<stream, delivered>> => StreamOK'
        /\ UNCHANGED <<pel, stale>> => GroupOK'
        /\ UNCHANGED table => TableOK'
        /\ UNCHANGED worker => WorkerOK'
        /\ UNCHANGED budgets => BudgetsOK'
    BY DEF TypeOK, StreamOK, GroupOK, TableOK, WorkerOK, BudgetsOK, Pending,
           stream, table, worker, budgets
  <2>2. ASSUME Fault, UNCHANGED <<crashes, stalls, trims>>
        PROVE  BudgetsOK'
    BY <2>2 DEF Fault, TypeOK, BudgetsOK
  <2> USE DEF TypeOK, group
  <2>3. CASE Add
    BY <2>1, <2>3 DEF Add, StreamOK
  <2>4. CASE Trim
    BY <2>1, <2>4 DEF Trim, StreamOK, BudgetsOK
  <2>5. CASE Age
    BY <2>1, <2>5 DEF Age, GroupOK, Pending
  <2>6. CASE LeaseExpires
    BY <2>1, <2>6 DEF LeaseExpires
  <2>7. ASSUME NEW w \in Worker, Acquire(w) \/ Leave(w) \/ Restart(w) \/ RenewRefused(w)
        PROVE  TypeOK'
    <3>1. CASE Acquire(w)
      BY <2>1, <3>1 DEF Acquire, Goto, Body, Empty, WorkerOK
    <3>2. CASE Leave(w)
      BY <2>1, <3>2 DEF Leave, Goto, Idle, WorkerOK
    <3>3. CASE Restart(w)
      BY <2>1, <3>3 DEF Restart, Goto, Idle, WorkerOK
    <3>4. CASE RenewRefused(w)
      BY <2>1, <3>4 DEF RenewRefused, WorkerOK
    <3>5. QED
      BY <2>7, <3>1, <3>2, <3>3, <3>4
  <2>8. ASSUME NEW w \in Worker, Work(w)
        PROVE  TypeOK'
    <3>1. CASE Drain(w)
      <4> DEFINE page == FirstPage({e \in Ids : pel[e] = w})
      <4>1. page \in SUBSET Ids
        BY FirstPageSubset
      <4>2. GroupOK'
        BY <3>1 DEF Drain, GroupOK, Pending
      <4>3. WorkerOK'
        <5>1. CASE page = {}
          BY <3>1, <5>1 DEF Drain, WorkerOK, Goto, Body
        <5>2. CASE page # {}
          <6>1. mem' \in [Worker -> [Ids -> Nat]] /\ unacked' \in [Worker -> SUBSET Ids]
            BY <3>1, <4>1, <5>2, IngestType DEF Drain
          <6>2. QED
            BY <3>1, <5>2, <6>1 DEF Drain, Flush, Goto, WorkerOK, Body, Phases
        <5>3. QED
          BY <5>1, <5>2
      <4>4. QED
        BY <2>1, <3>1, <4>2, <4>3 DEF Drain
    <3>2. CASE Claim(w)
      BY <3>2, ClaimPageType DEF Claim, Phases
    <3>3. CASE Top(w)
      BY <2>1, <3>3 DEF Top, Goto, Idle, Body, WorkerOK
    <3>4. CASE ReadNew(w)
      <4>1. GroupOK' /\ StreamOK'
        BY <3>4, DeliverType DEF ReadNew
      <4>2. NewPage \in SUBSET Ids
        BY NewPageIds
      <4>3. mem' \in [Worker -> [Ids -> Nat]] /\ unacked' \in [Worker -> SUBSET Ids]
        BY <3>4, <4>2, IngestType DEF ReadNew
      <4>4. WorkerOK'
        BY <3>4, <4>3 DEF ReadNew, WorkerOK, Goto, Body
      <4>5. QED
        BY <2>1, <3>4, <4>1, <4>4 DEF ReadNew
    <3>5. CASE TurnFlush(w)
      BY <2>1, <3>5 DEF TurnFlush, Flush, Goto, Body, Phases, WorkerOK
    <3>6. CASE TurnNoFlush(w)
      BY <2>1, <3>6 DEF TurnNoFlush, Goto, Body, WorkerOK
    <3>7. CASE Sweep(w)
      BY <3>7, ClaimPageType DEF Sweep, Phases
    <3>8. CASE SkipSweep(w)
      BY <2>1, <3>8 DEF SkipSweep, Goto, Body, WorkerOK
    <3>9. CASE FlushNothing(w)
      BY <2>1, <3>9 DEF FlushNothing, Resume, Goto, Idle, Body, Phases, WorkerOK
    <3>10. CASE Commit(w)
      BY <2>1, <3>10, UpsertType DEF Commit, Goto, Body, WorkerOK
    <3>11. CASE Ack(w)
      BY <2>1, <3>11, XackType DEF Ack, Resume, Goto, Idle, Body, Phases, Empty, WorkerOK
    <3>12. QED
      BY <2>8, <3>1, <3>2, <3>3, <3>4, <3>5, <3>6, <3>7, <3>8, <3>9, <3>10, <3>11 DEF Work
  <2>9. ASSUME NEW w \in Worker, Failure(w)
        PROVE  TypeOK'
    <3>1. CASE ReadFails(w)
      <4>1. GroupOK' /\ StreamOK'
        BY <2>1, <3>1, DeliverType, AdoptType DEF ReadFails
      <4>2. QED
        BY <2>1, <2>2, <3>1, <4>1 DEF ReadFails, Goto, Idle, WorkerOK
    <3>2. CASE SweepFails(w)
      BY <2>1, <3>2, <2>2, AdoptType DEF SweepFails, Goto, Body, WorkerOK
    <3>3. CASE CommitFails(w)
      BY <2>1, <3>3, <2>2, UpsertType DEF CommitFails, Goto, Idle, WorkerOK
    <3>4. CASE AckFails(w)
      BY <2>1, <3>4, <2>2, XackType DEF AckFails, Goto, Idle, Body, WorkerOK
    <3>5. CASE Crash(w)
      BY <2>1, <3>5 DEF Crash, Goto, Idle, Empty, BudgetsOK, WorkerOK
    <3>6. CASE Stop(w)
      BY <2>1, <3>6 DEF Stop, Flush, Goto, Body, Phases, BudgetsOK, WorkerOK
    <3>7. CASE Stall(w)
      BY <2>1, <3>7 DEF Stall, BudgetsOK
    <3>8. CASE RenewError(w)
      BY <2>1, <3>8, <2>2 DEF RenewError, WorkerOK
    <3>9. QED
      BY <2>9, <3>1, <3>2, <3>3, <3>4, <3>5, <3>6, <3>7, <3>8 DEF Failure
  <2>10. CASE UNCHANGED vars
    BY <2>1, <2>10 DEF vars
  <2>11. QED
    BY <2>3, <2>4, <2>5, <2>6, <2>7, <2>8, <2>9, <2>10 DEF Next
<1>3. QED
  BY <1>1, <1>2, PTL DEF Spec

(* A page is an initial segment of what it is taken from.                  *)
LEMMA FirstPageInitial ==
  ASSUME NEW S \in SUBSET Ids, NEW d \in FirstPage(S), NEW e \in S, e <= d
  PROVE  e \in FirstPage(S)
BY PageInitial DEF FirstPage, Ids

(* Between two deliveries nothing readable is skipped.                     *)
LEMMA DeliverSkipsNothing ==
  ASSUME TypeOK, NEW w \in Worker, Deliver(w), NEW e \in Ids,
         e <= delivered', e > delivered, e > trimmed
  PROVE  e \in NewPage
<1> DEFINE S == {f \in Ids : f > delivered /\ f > trimmed /\ f <= added}
<1>1. NewPage # {}
  BY DEF Deliver, TypeOK, StreamOK, Ids
<1>2. delivered' \in NewPage
  BY <1>1 DEF Deliver
<1>3. delivered' <= added
  BY <1>2, NewPageIds
<1>4. e \in S
  BY <1>3 DEF TypeOK, StreamOK, Ids, Deliver
<1>5. QED
  BY <1>2, <1>4, FirstPageInitial DEF NewPage

(* The merge moves a watermark up or leaves it, and past its whole batch.  *)
LEMMA UpsertCovers ==
  ASSUME TypeOK, NEW w \in Worker, Upsert(w)
  PROVE  /\ \A r \in Row : wm'[r] >= wm[r]
         /\ \A e \in Ids : mem[w][e] > 0 => e <= wm'[RowOf[e]]
<1>1. \A r \in Row : Batch(w, r) # {} =>
        Newest(Batch(w, r)) \in Batch(w, r) /\ \A f \in Batch(w, r) : f <= Newest(Batch(w, r))
  BY NewestIsNewest DEF Batch, Ids
<1>2. \A r \in Row : Batch(w, r) \subseteq Ids /\ wm[r] \in Nat
  BY DEF Batch, TypeOK, TableOK
<1>3. ASSUME NEW r \in Row
      PROVE  wm'[r] >= wm[r] /\ \A e \in Batch(w, r) : e <= wm'[r]
  <2>1. wm'[r] = IF Applies(w, r) THEN Newest(Batch(w, r)) ELSE wm[r]
    BY DEF Upsert
  <2>2. CASE Applies(w, r)
    <3>1. PICK f \in Batch(w, r) : f > wm[r]
      BY <2>2 DEF Applies
    <3>2. f <= Newest(Batch(w, r)) /\ Newest(Batch(w, r)) \in Ids /\ f \in Ids
      BY <1>1, <1>2, <3>1
    <3>3. QED
      BY <1>1, <1>2, <2>1, <2>2, <3>1, <3>2 DEF Ids
  <2>3. CASE ~Applies(w, r)
    BY <1>2, <2>1, <2>3 DEF Applies, Ids
  <2>4. QED
    BY <2>2, <2>3
<1>4. \A e \in Ids : mem[w][e] > 0 => e \in Batch(w, RowOf[e]) /\ RowOf[e] \in Row
  BY DEF Batch
<1>5. QED
  BY <1>3, <1>4

(* A row's watermark only grows, for every interleaving of committers.     *)
THEOREM WatermarksGrow == Spec => WatermarkNeverRetreats
<1>1. TypeOK /\ [Next]_vars => [\A r \in Row : wm'[r] >= wm[r]]_vars
  <2> SUFFICES ASSUME TypeOK, Next
               PROVE  \A r \in Row : wm'[r] >= wm[r]
    BY DEF vars, table
  <2>1. CASE UNCHANGED wm
    BY <2>1 DEF TypeOK, TableOK
  <2>2. CASE \E w \in Worker : Upsert(w)
    BY <2>2, UpsertCovers
  <2>3. Add \/ Trim \/ Age \/ LeaseExpires => UNCHANGED wm
    BY DEF Add, Trim, Age, LeaseExpires, table
  <2>4. ASSUME NEW w \in Worker,
               Acquire(w) \/ Leave(w) \/ Restart(w) \/ RenewRefused(w)
        PROVE  UNCHANGED wm
    BY <2>4 DEF Acquire, Leave, Restart, RenewRefused, table
  <2>5. ASSUME NEW w \in Worker, Work(w)
        PROVE  UNCHANGED wm \/ Upsert(w)
    BY <2>5 DEF Work, Drain, Claim, Top, ReadNew, TurnFlush, TurnNoFlush, Sweep,
                SkipSweep, FlushNothing, Commit, Ack, ClaimPage, table
  <2>6. ASSUME NEW w \in Worker, Failure(w)
        PROVE  UNCHANGED wm \/ Upsert(w)
    BY <2>6 DEF Failure, ReadFails, SweepFails, CommitFails, AckFails, Crash, Stop,
                Stall, RenewError, table
  <2>7. QED
    BY <2>1, <2>2, <2>3, <2>4, <2>5, <2>6 DEF Next
<1>2. QED
  BY <1>1, TypeCorrect, PTL DEF Spec, WatermarkNeverRetreats

(* A step that leaves the group and the table alone, and a worker's memory *)
(* too, or empties it, keeps the cover.                                    *)
LEMMA QuietKeepsCover ==
  ASSUME TypeOK, CoverInv, UNCHANGED <<trimmed, delivered, pel, wm>>,
         \A v \in Worker :
            \/ /\ mem'[v] = mem[v] /\ unacked'[v] = unacked[v]
               /\ pc'[v] = "ack" => pc[v] = "ack"
            \/ mem'[v] = Empty /\ unacked'[v] = {}
  PROVE  CoverInv'
<1>1. AckedIsCovered'
  BY DEF CoverInv, AckedIsCovered, Settled, Parses
<1>2. FoldedWhenParsed'
  BY DEF CoverInv, FoldedWhenParsed, Parses
<1>3. CommittedWhenAcking'
  BY DEF CoverInv, CommittedWhenAcking, Empty
<1>4. QED
  BY <1>1, <1>2, <1>3 DEF CoverInv

(* Folding a page keeps every parsed unacknowledged tick in memory.        *)
LEMMA IngestKeepsFolded ==
  ASSUME TypeOK, FoldedWhenParsed, NEW w \in Worker, NEW page \in SUBSET Ids,
         Ingest(w, page), UNCHANGED trimmed
  PROVE  FoldedWhenParsed'
<1> SUFFICES ASSUME NEW v \in Worker, NEW e \in Ids, e \in unacked'[v], Parses(e)
             PROVE  mem'[v][e] > 0
  BY DEF FoldedWhenParsed, Parses
<1>1. CASE v = w
  <2>1. mem'[w][e] = mem[w][e] + (IF e \in page THEN 1 ELSE 0)
    BY DEF Ingest, TypeOK, WorkerOK
  <2>2. e \in page \/ mem[w][e] > 0
    BY <1>1 DEF Ingest, TypeOK, WorkerOK, FoldedWhenParsed
  <2>3. mem[w][e] \in Nat
    BY DEF TypeOK, WorkerOK
  <2>4. QED
    BY <1>1, <2>1, <2>2, <2>3
<1>2. CASE v # w
  BY <1>2 DEF Ingest, TypeOK, WorkerOK, FoldedWhenParsed
<1>3. QED
  BY <1>1, <1>2

(* Adopted entries stay pending, save the trimmed ones.                    *)
LEMMA AdoptKeepsCover ==
  ASSUME TypeOK, AckedIsCovered, NEW w \in Worker, NEW scan, Adopt(w, scan),
         UNCHANGED <<trimmed, delivered, wm>>
  PROVE  AckedIsCovered'
<1> SUFFICES ASSUME NEW e \in Ids, Settled(e)', Parses(e)
             PROVE  e <= wm[RowOf[e]]
  BY DEF AckedIsCovered, Parses
<1>1. pel'[e] = NoOne /\ e > trimmed /\ w # NoOne
  BY DEF Settled, Parses
<1>2. pel[e] = NoOne
  BY <1>1 DEF Adopt
<1>3. QED
  BY <1>2 DEF AckedIsCovered, Settled

(* Delivered entries become pending; the ones skipped are trimmed.         *)
LEMMA DeliverKeepsCover ==
  ASSUME TypeOK, AckedIsCovered, NEW w \in Worker, Deliver(w), UNCHANGED <<trimmed, wm>>
  PROVE  AckedIsCovered'
<1> SUFFICES ASSUME NEW e \in Ids, Settled(e)', Parses(e)
             PROVE  e <= wm[RowOf[e]]
  BY DEF AckedIsCovered, Parses
<1>1. pel'[e] = NoOne /\ e <= delivered' /\ e > trimmed
  BY DEF Settled, Parses
<1>2. e \notin NewPage
  BY <1>1 DEF Deliver
<1>3. ~(e > delivered)
  BY <1>1, <1>2, DeliverSkipsNothing
<1>4. pel[e] = NoOne /\ e <= delivered
  BY <1>1, <1>2, <1>3 DEF Deliver, TypeOK, StreamOK, Ids
<1>5. QED
  BY <1>4 DEF AckedIsCovered, Settled

(* What XACK takes out of the PEL has been committed.                      *)
LEMMA XackKeepsCover ==
  ASSUME TypeOK, CoverInv, NEW w \in Worker, pc[w] = "ack", Xack(w),
         UNCHANGED <<trimmed, delivered, wm>>
  PROVE  AckedIsCovered'
<1> SUFFICES ASSUME NEW e \in Ids, Settled(e)', Parses(e)
             PROVE  e <= wm[RowOf[e]]
  BY DEF AckedIsCovered, Parses
<1>1. CASE e \in unacked[w]
  BY <1>1 DEF CoverInv, FoldedWhenParsed, CommittedWhenAcking
<1>2. CASE e \notin unacked[w]
  BY <1>2 DEF Xack, Settled, CoverInv, AckedIsCovered
<1>3. QED
  BY <1>1, <1>2

(* A commit raises watermarks past the batch, which is what Ack relies on. *)
LEMMA UpsertKeepsCover ==
  ASSUME TypeOK, TypeOK', CoverInv, NEW w \in Worker, Upsert(w),
         UNCHANGED <<trimmed, delivered, pel, mem, unacked>>,
         \A v \in Worker : v # w => pc'[v] = pc[v]
  PROVE  CoverInv'
<1>1. /\ \A r \in Row : wm[r] \in Nat /\ wm'[r] \in Nat /\ wm[r] <= wm'[r]
      /\ \A e \in Ids : RowOf[e] \in Row /\ e \in Nat
  <2>1. \A r \in Row : wm[r] \in Nat /\ wm'[r] \in Nat
    BY DEF TypeOK, TableOK
  <2>2. \A r \in Row : wm'[r] >= wm[r]
    BY UpsertCovers
  <2>3. \A e \in Ids : RowOf[e] \in Row
    OBVIOUS
  <2>4. \A e \in Ids : e \in Nat
    BY DEF Ids
  <2>5. QED
    BY <2>1, <2>2, <2>3, <2>4
<1>2. AckedIsCovered'
  BY <1>1 DEF CoverInv, AckedIsCovered, Settled, Parses
<1>3. FoldedWhenParsed'
  BY DEF CoverInv, FoldedWhenParsed, Parses
<1>4. CommittedWhenAcking'
  <2> SUFFICES ASSUME NEW v \in Worker, NEW e \in Ids, pc'[v] = "ack", mem[v][e] > 0
               PROVE  e <= wm'[RowOf[e]]
    BY DEF CommittedWhenAcking
  <2>1. CASE v = w
    BY <2>1, UpsertCovers
  <2>2. CASE v # w
    <3>1. e <= wm[RowOf[e]]
      BY <2>2 DEF CoverInv, CommittedWhenAcking
    <3>2. QED
      BY <1>1, <3>1
  <2>3. QED
    BY <2>1, <2>2
<1>5. QED
  BY <1>2, <1>3, <1>4 DEF CoverInv

(* A claimed page adds to memory and to the unacknowledged together.       *)
LEMMA ClaimPageKeepsCover ==
  ASSUME TypeOK, CoverInv, NEW w \in Worker, NEW idle, NEW caller \in Phases,
         pc[w] # "ack", ClaimPage(w, idle, caller)
  PROVE  CoverInv'
<1> DEFINE scan == Scanned(w, idle)
           page == {e \in scan : e > trimmed}
<1>1. /\ Adopt(w, scan) /\ UNCHANGED <<trimmed, delivered, wm>>
      /\ UNCHANGED <<mem, unacked>> \/ Ingest(w, page)
      /\ \E step \in {"top", "flush"} : pc' = [pc EXCEPT ![w] = step]
  BY DEF ClaimPage, stream, table, Flush, Goto
<1>2. page \in SUBSET Ids
  BY FirstPageSubset DEF Scanned, Pending
<1>3. AckedIsCovered'
  BY <1>1, AdoptKeepsCover DEF CoverInv
<1>4. FoldedWhenParsed'
  <2>1. CASE UNCHANGED <<mem, unacked>>
    BY <1>1, <2>1 DEF CoverInv, FoldedWhenParsed, Parses
  <2>2. CASE Ingest(w, page)
    BY <1>1, <1>2, <2>2, IngestKeepsFolded DEF CoverInv
  <2>3. QED
    BY <1>1, <2>1, <2>2
<1>5. CommittedWhenAcking'
  <2> SUFFICES ASSUME NEW v \in Worker, NEW e \in Ids, pc'[v] = "ack", mem'[v][e] > 0
               PROVE  e <= wm[RowOf[e]]
    BY <1>1 DEF CommittedWhenAcking
  <2>1. v # w /\ pc[v] = "ack"
    BY <1>1 DEF TypeOK, WorkerOK
  <2>2. mem'[v] = mem[v]
    BY <1>1, <2>1 DEF Ingest, TypeOK, WorkerOK
  <2>3. QED
    BY <2>1, <2>2 DEF CoverInv, CommittedWhenAcking
<1>6. QED
  BY <1>3, <1>4, <1>5 DEF CoverInv

(* The guarantee the ack ordering gives, for every number of workers and   *)
(* every schedule of faults, crashes, pauses, trims and malformed entries. *)
THEOREM AckOrderingCovers == Spec => []AckedIsCovered
<1>1. Init => CoverInv
  BY DEF Init, CoverInv, AckedIsCovered, FoldedWhenParsed, CommittedWhenAcking,
         Settled, Ids, Empty
<1>2. TypeOK /\ TypeOK' /\ CoverInv /\ [Next]_vars => CoverInv'
  <2> SUFFICES ASSUME TypeOK, TypeOK', CoverInv, [Next]_vars
               PROVE  CoverInv'
    OBVIOUS
  <2>1. UNCHANGED <<trimmed, delivered, pel, wm, mem, unacked, pc>> => CoverInv'
    BY QuietKeepsCover
  <2>2. CASE Add \/ Age \/ LeaseExpires \/ UNCHANGED vars
    BY <2>1, <2>2 DEF Add, Age, LeaseExpires, vars, stream, group, table, worker
  <2>3. CASE Trim
    <3>1. trimmed' > trimmed /\ UNCHANGED <<delivered, pel, wm, mem, unacked, pc>>
      BY <2>3 DEF Trim, group, table, worker, TypeOK, StreamOK
    <3>2. \A e \in Ids : Parses(e)' => Parses(e)
      BY <3>1 DEF Parses, TypeOK, StreamOK, Ids
    <3>3. QED
      BY <3>1, <3>2 DEF CoverInv, AckedIsCovered, FoldedWhenParsed,
                        CommittedWhenAcking, Settled
  <2>4. ASSUME NEW w \in Worker, Acquire(w) \/ Leave(w) \/ Restart(w) \/ RenewRefused(w)
        PROVE  CoverInv'
    <3>1. UNCHANGED <<trimmed, delivered, pel, wm>>
      BY <2>4 DEF Acquire, Leave, Restart, RenewRefused, stream, group, table
    <3>2. ASSUME NEW v \in Worker
          PROVE  \/ /\ mem'[v] = mem[v] /\ unacked'[v] = unacked[v]
                    /\ pc'[v] = "ack" => pc[v] = "ack"
                 \/ mem'[v] = Empty /\ unacked'[v] = {}
      BY <2>4 DEF Acquire, Leave, Restart, RenewRefused, Goto, TypeOK, WorkerOK
    <3>3. QED
      BY <3>1, <3>2, QuietKeepsCover
  <2>5. ASSUME NEW w \in Worker, Work(w)
        PROVE  CoverInv'
    <3>1. CASE Drain(w)
      <4> DEFINE page == FirstPage({e \in Ids : pel[e] = w})
      <4>1. page \in SUBSET Ids
        BY FirstPageSubset
      <4>2. /\ UNCHANGED <<trimmed, delivered, pel, wm>>
            /\ UNCHANGED <<mem, unacked>> \/ Ingest(w, page)
            /\ \E step \in {"claim", "flush"} : pc' = [pc EXCEPT ![w] = step]
        BY <3>1 DEF Drain, Flush, Goto, stream, table
      <4>3. CASE UNCHANGED <<mem, unacked>>
        BY <4>2, <4>3, QuietKeepsCover DEF TypeOK, WorkerOK
      <4>4. CASE Ingest(w, page)
        <5>1. AckedIsCovered'
          BY <4>2 DEF CoverInv, AckedIsCovered, Settled, Parses
        <5>2. FoldedWhenParsed'
          BY <4>1, <4>2, <4>4, IngestKeepsFolded DEF CoverInv
        <5>3. \A v \in Worker : pc'[v] = "ack" => pc[v] = "ack" /\ mem'[v] = mem[v]
          BY <4>2, <4>4 DEF Ingest, TypeOK, WorkerOK
        <5>4. CommittedWhenAcking'
          BY <4>2, <5>3 DEF CoverInv, CommittedWhenAcking
        <5>5. QED
          BY <5>1, <5>2, <5>4 DEF CoverInv
      <4>5. QED
        BY <4>2, <4>3, <4>4
    <3>2. CASE Claim(w) \/ Sweep(w)
      BY <3>2, ClaimPageKeepsCover DEF Claim, Sweep, Phases
    <3>3. CASE ReadNew(w)
      <4>1. /\ Deliver(w) /\ Ingest(w, NewPage) /\ UNCHANGED <<trimmed, wm>>
            /\ pc' = [pc EXCEPT ![w] = "turn"]
        BY <3>3 DEF ReadNew, Goto, stream, table
      <4>2. AckedIsCovered'
        BY <4>1, DeliverKeepsCover DEF CoverInv
      <4>3. FoldedWhenParsed'
        BY <4>1, NewPageIds, IngestKeepsFolded DEF CoverInv
      <4>4. \A v \in Worker : pc'[v] = "ack" => pc[v] = "ack" /\ mem'[v] = mem[v]
        BY <4>1 DEF Ingest, TypeOK, WorkerOK
      <4>5. CommittedWhenAcking'
        BY <4>1, <4>4 DEF CoverInv, CommittedWhenAcking
      <4>6. QED
        BY <4>2, <4>3, <4>5 DEF CoverInv
    <3>4. CASE Top(w) \/ TurnFlush(w) \/ TurnNoFlush(w) \/ SkipSweep(w) \/ FlushNothing(w)
      <4>1. UNCHANGED <<trimmed, delivered, pel, wm, mem, unacked>>
        BY <3>4 DEF Top, TurnFlush, TurnNoFlush, SkipSweep, FlushNothing,
                    stream, group, table
      <4>2. \A v \in Worker : pc'[v] = "ack" => pc[v] = "ack"
        BY <3>4 DEF Top, TurnFlush, TurnNoFlush, SkipSweep, FlushNothing, Flush,
                    Goto, Resume, Phases, TypeOK, WorkerOK
      <4>3. QED
        BY <4>1, <4>2, QuietKeepsCover
    <3>5. CASE Commit(w)
      <4>1. Upsert(w) /\ UNCHANGED <<trimmed, delivered, pel, mem, unacked>>
        BY <3>5 DEF Commit, stream, group
      <4>2. \A v \in Worker : v # w => pc'[v] = pc[v]
        BY <3>5 DEF Commit, Goto, TypeOK, WorkerOK
      <4>3. QED
        BY <4>1, <4>2, UpsertKeepsCover
    <3>6. CASE Ack(w)
      <4>1. /\ pc[w] = "ack" /\ Xack(w) /\ UNCHANGED <<trimmed, delivered, wm>>
            /\ mem' = [mem EXCEPT ![w] = Empty] /\ unacked' = [unacked EXCEPT ![w] = {}]
        BY <3>6 DEF Ack, stream, table
      <4>2. AckedIsCovered'
        BY <4>1, XackKeepsCover
      <4>3. \A v \in Worker : v # w =>
              mem'[v] = mem[v] /\ unacked'[v] = unacked[v] /\ pc'[v] = pc[v]
        BY <3>6, <4>1 DEF Ack, Goto, TypeOK, WorkerOK
      <4>4. mem'[w] = Empty /\ unacked'[w] = {}
        BY <4>1 DEF TypeOK, WorkerOK
      <4>5. FoldedWhenParsed' /\ CommittedWhenAcking'
        BY <4>1, <4>3, <4>4 DEF CoverInv, FoldedWhenParsed, CommittedWhenAcking,
                                Parses, Empty
      <4>6. QED
        BY <4>2, <4>5 DEF CoverInv
    <3>7. QED
      BY <2>5, <3>1, <3>2, <3>3, <3>4, <3>5, <3>6 DEF Work
  <2>6. ASSUME NEW w \in Worker, Failure(w)
        PROVE  CoverInv'
    <3>1. CASE ReadFails(w) \/ SweepFails(w)
      <4>1. /\ UNCHANGED <<trimmed, wm, mem, unacked>>
            /\ \E step \in {"leaving", "top"} : pc' = [pc EXCEPT ![w] = step]
            /\ \/ UNCHANGED <<delivered, pel>>
               \/ Deliver(w)
               \/ UNCHANGED delivered /\ \E scan : Adopt(w, scan)
        BY <3>1 DEF ReadFails, SweepFails, Goto, stream, group, table
      <4>2. AckedIsCovered'
        <5>1. CASE UNCHANGED <<delivered, pel>>
          BY <4>1, <5>1 DEF CoverInv, AckedIsCovered, Settled, Parses
        <5>2. CASE Deliver(w)
          BY <4>1, <5>2, DeliverKeepsCover DEF CoverInv
        <5>3. CASE UNCHANGED delivered /\ \E scan : Adopt(w, scan)
          BY <4>1, <5>3, AdoptKeepsCover DEF CoverInv
        <5>4. QED
          BY <4>1, <5>1, <5>2, <5>3
      <4>3. FoldedWhenParsed'
        BY <4>1 DEF CoverInv, FoldedWhenParsed, Parses
      <4>4. CommittedWhenAcking'
        BY <4>1 DEF CoverInv, CommittedWhenAcking, TypeOK, WorkerOK
      <4>5. QED
        BY <4>2, <4>3, <4>4 DEF CoverInv
    <3>2. CASE CommitFails(w)
      <4>1. /\ Upsert(w) \/ UNCHANGED wm
            /\ UNCHANGED <<trimmed, delivered, pel, mem, unacked>>
            /\ pc' = [pc EXCEPT ![w] = "leaving"]
        BY <3>2 DEF CommitFails, Goto, stream, group, table
      <4>2. \A v \in Worker : pc'[v] = IF v = w THEN "leaving" ELSE pc[v]
        BY <4>1 DEF TypeOK, WorkerOK
      <4>3. CASE Upsert(w)
        BY <4>1, <4>2, <4>3, UpsertKeepsCover
      <4>4. CASE UNCHANGED wm
        BY <4>1, <4>2, <4>4, QuietKeepsCover
      <4>5. QED
        BY <4>1, <4>3, <4>4
    <3>3. CASE AckFails(w)
      <4>1. /\ pc[w] = "ack" /\ UNCHANGED <<trimmed, delivered, wm, mem, unacked>>
            /\ Xack(w) \/ UNCHANGED pel
            /\ \E step \in {"leaving", "top"} : pc' = [pc EXCEPT ![w] = step]
        BY <3>3 DEF AckFails, Goto, stream, table
      <4>2. AckedIsCovered'
        <5>1. CASE Xack(w)
          BY <4>1, <5>1, XackKeepsCover
        <5>2. CASE UNCHANGED pel
          BY <4>1, <5>2 DEF CoverInv, AckedIsCovered, Settled, Parses
        <5>3. QED
          BY <4>1, <5>1, <5>2
      <4>3. FoldedWhenParsed'
        BY <4>1 DEF CoverInv, FoldedWhenParsed, Parses
      <4>4. CommittedWhenAcking'
        BY <4>1 DEF CoverInv, CommittedWhenAcking, TypeOK, WorkerOK
      <4>5. QED
        BY <4>2, <4>3, <4>4 DEF CoverInv
    <3>4. CASE Crash(w) \/ Stop(w) \/ Stall(w) \/ RenewError(w)
      <4>1. UNCHANGED <<trimmed, delivered, pel, wm>>
        BY <3>4 DEF Crash, Stop, Stall, RenewError, stream, group, table
      <4>2. ASSUME NEW v \in Worker
            PROVE  \/ /\ mem'[v] = mem[v] /\ unacked'[v] = unacked[v]
                      /\ pc'[v] = "ack" => pc[v] = "ack"
                   \/ mem'[v] = Empty /\ unacked'[v] = {}
        BY <3>4 DEF Crash, Stop, Stall, RenewError, Flush, Goto, worker, TypeOK, WorkerOK
      <4>3. QED
        BY <4>1, <4>2, QuietKeepsCover
    <3>5. QED
      BY <2>6, <3>1, <3>2, <3>3, <3>4 DEF Failure
  <2>7. QED
    BY <2>2, <2>3, <2>4, <2>5, <2>6 DEF Next
<1>3. QED
  BY <1>1, <1>2, TypeCorrect, PTL DEF Spec, CoverInv

---------------------------------------------------------------------------
(* The ledger: while Calm holds, BarPersister implements TickLedger.       *)

(* What does not depend on where a worker is.                              *)
BatchInv == WatermarkCounts /\ NothingAhead /\ OneBatch

(* And what is said of one worker.                                         *)
HeldBy(w) ==
    /\ InBody(w) => next[w] = 0
    /\ pc[w] \in {"drain", "claim"} => mem[w] = Empty /\ unacked[w] = {}
    /\ pc[w] \in {"top", "read", "turn", "sweep"} =>
          Holds(w) /\ \A e \in Pending : ~Covered(e)
    /\ pc[w] = "flush" => Holds(w) /\ phase[w] # "sweep"
    /\ pc[w] = "ack" =>
          Holds(w) /\ phase[w] # "sweep" /\ \A e \in Pending : Covered(e)

LEMMA ExactParts ==
  /\ ExactInv <=> OneBody /\ BatchInv /\ \A w \in Worker : HeldBy(w)
  /\ ExactInv' <=> OneBody' /\ BatchInv' /\ \A w \in Worker : HeldBy(w)'
BY DEF ExactInv, BatchInv, BatchIsHeld, HeldBy

(* Entries that fit one page are read together.                            *)
LEMMA PageIsAll ==
  ASSUME TypeOK, Calm, NEW S \in SUBSET Pending
  PROVE  FirstPage(S) = S
<1> DEFINE Upto(x) == {f \in S : f <= x}
<1>1. IsFiniteSet(Pending)
  <2>1. IsFiniteSet(Ids)
    BY FS_Interval DEF Ids
  <2>2. Pending \in SUBSET Ids
    BY DEF Pending
  <2> QED  BY <2>1, <2>2, FS_Subset
<1>2. \A x \in S : Upto(x) \in SUBSET Pending
  OBVIOUS
<1>3. ASSUME NEW x \in S PROVE Cardinality(Upto(x)) <= PageSize
  <2> DEFINE U == Upto(x)
  <2>0. U \in SUBSET Pending
    BY <1>2
  <2> HIDE DEF U
  <2>1. /\ IsFiniteSet(U) /\ Cardinality(U) <= Cardinality(Pending)
        /\ Cardinality(U) \in Nat /\ Cardinality(Pending) \in Nat
    BY <1>1, <2>0, FS_Subset, FS_CardinalityType
  <2>2. Cardinality(Pending) <= PageSize
    BY DEF Calm
  <2>3. Cardinality(U) <= PageSize
    BY <2>1, <2>2
  <2> QED  BY <2>3 DEF U
<1> QED  BY <1>3 DEF FirstPage, Page

(* A step that leaves the group and the table alone.                       *)
LEMMA QuietKeepsBatch ==
  ASSUME BatchInv, UNCHANGED <<trimmed, delivered, pel, merged, wm>>
  PROVE  BatchInv'
BY DEF BatchInv, WatermarkCounts, NothingAhead, OneBatch, Pending, Covered

(* XAUTOCLAIM of everything pending gathers the batch under one name.      *)
LEMMA AdoptKeepsBatch ==
  ASSUME TypeOK, BatchInv, NEW w \in Worker, Adopt(w, Pending),
         UNCHANGED <<trimmed, delivered, merged, wm>>
  PROVE  /\ BatchInv' /\ Pending' = Pending /\ stale' = {}
         /\ \A e \in Pending' : pel'[e] = w
         /\ \A e \in Ids : pel'[e] = NoOne <=> pel[e] = NoOne
<1>1. trimmed = 0 /\ \A e \in Ids : e > trimmed
  BY DEF BatchInv, NothingAhead, Ids
<1>2. \A e \in Ids : pel'[e] = IF pel[e] = NoOne THEN NoOne ELSE w
  BY <1>1 DEF Adopt, Pending
<1>3. \A e \in Ids : pel'[e] = NoOne <=> pel[e] = NoOne
  BY <1>2
<1>4. Pending' = Pending
  BY <1>3 DEF Pending
<1>5. stale' = {}
  BY DEF Adopt, TypeOK, GroupOK
<1>6. \A e \in Pending : pel'[e] = w
  BY <1>2 DEF Pending
<1>7. WatermarkCounts' /\ NothingAhead'
  BY <1>4 DEF BatchInv, WatermarkCounts, NothingAhead, Covered
<1>8. OneBatch'
  BY <1>4, <1>6 DEF BatchInv, OneBatch, Covered
<1> QED  BY <1>3, <1>4, <1>5, <1>6, <1>7, <1>8 DEF BatchInv

(* XREADGROUP > adds to a batch that is not committed.                     *)
LEMMA DeliverKeepsBatch ==
  ASSUME TypeOK, TypeOK', BatchInv, NEW w \in Worker, Deliver(w),
         UNCHANGED <<trimmed, merged, wm>>, stale = {},
         \A e \in Pending : pel[e] = w, \A e \in Pending : ~Covered(e)
  PROVE  /\ BatchInv' /\ Pending' = Pending \cup NewPage /\ stale' = {}
         /\ NewPage \cap Pending = {}
         /\ \A e \in Pending' : pel'[e] = w
         /\ \A e \in Pending' : ~Covered(e)'
<1>1. /\ delivered \in Nat /\ delivered' \in Nat
      /\ \A r \in Row : wm[r] \in Nat /\ wm[r] <= delivered
      /\ \A e \in Pending : e <= delivered
      /\ \A e \in Ids : e \in Nat /\ RowOf[e] \in Row
  BY DEF TypeOK, StreamOK, TableOK, BatchInv, NothingAhead, Ids
<1>2. NewPage \subseteq Ids /\ \A e \in NewPage : e > delivered /\ e \in Nat
  BY NewPageIds DEF Ids
<1>3. \A e \in Ids : pel'[e] = IF e \in NewPage THEN w ELSE pel[e]
  BY DEF Deliver
<1>4. Pending' = Pending \cup NewPage
  BY <1>2, <1>3 DEF Pending
<1>5. NewPage \cap Pending = {}
  BY <1>1, <1>2
<1>6. stale' = {}
  BY DEF Deliver
<1>7. \A e \in Pending' : pel'[e] = w
  BY <1>3, <1>4 DEF Pending
<1>8. \A e \in NewPage : ~(e <= wm[RowOf[e]])
  BY <1>1, <1>2
<1>9. \A e \in Pending' : ~Covered(e)'
  BY <1>4, <1>8 DEF Covered
<1>10. delivered <= delivered' /\ \A e \in NewPage : e <= delivered'
  <2>1. CASE NewPage = {}
    BY <1>1, <2>1 DEF Deliver
  <2>2. CASE NewPage # {}
    <3>1. delivered' \in NewPage /\ \A e \in NewPage : e <= delivered'
      BY <2>2 DEF Deliver
    <3> QED  BY <1>1, <1>2, <3>1
  <2> QED  BY <2>1, <2>2
<1>11. NothingAhead'
  <2>1. \A r \in Row : wm'[r] <= delivered'
    BY <1>1, <1>10
  <2>2. \A e \in Pending' : e <= delivered'
    <3>1. \A e \in Pending : e \in Nat
      BY <1>1 DEF Pending
    <3> QED  BY <1>1, <1>4, <1>10, <3>1
  <2>3. trimmed' = 0
    BY DEF BatchInv, NothingAhead
  <2> QED  BY <2>1, <2>2, <2>3 DEF NothingAhead
<1>12. WatermarkCounts'
  BY DEF BatchInv, WatermarkCounts, Covered
<1>13. OneBatch'
  BY <1>7, <1>9 DEF OneBatch
<1> QED  BY <1>4, <1>5, <1>6, <1>7, <1>9, <1>11, <1>12, <1>13 DEF BatchInv

(* XACK of the whole batch leaves nothing pending.                         *)
LEMMA XackKeepsBatch ==
  ASSUME TypeOK, BatchInv, NEW w \in Worker, Xack(w), unacked[w] = Pending, stale = {},
         UNCHANGED <<trimmed, delivered, merged, wm>>
  PROVE  BatchInv' /\ Pending' = {} /\ stale' = {} /\ \A e \in Ids : pel'[e] = NoOne
<1>1. \A e \in Ids : pel'[e] = NoOne
  BY DEF Xack, Pending
<1>2. Pending' = {} /\ stale' = {}
  BY <1>1 DEF Pending, Xack
<1> QED  BY <1>1, <1>2 DEF BatchInv, WatermarkCounts, NothingAhead, OneBatch, Covered

(* Everything that was settled is covered: the ack ordering.               *)
SettledIsCovered == \A e \in Ids : Settled(e) => Covered(e)

LEMMA CalmCovers ==
  ASSUME AckedIsCovered, Calm, BatchInv
  PROVE  SettledIsCovered
<1>1. \A e \in Ids : Parses(e)
  BY DEF Calm, BatchInv, NothingAhead, Parses, Ids
<1> QED  BY <1>1 DEF AckedIsCovered, SettledIsCovered, Covered

(* A commit of the whole batch counts what is not yet counted, each tick   *)
(* once, or nothing at all.                                                *)
LEMMA UpsertKeepsBatch ==
  ASSUME TypeOK, TypeOK', BatchInv, SettledIsCovered, NEW w \in Worker, Upsert(w),
         mem[w] = [e \in Ids |-> IF pel[e] = NoOne THEN 0 ELSE 1],
         UNCHANGED <<trimmed, delivered, pel>>
  PROVE  /\ BatchInv' /\ \A e \in Pending' : Covered(e)'
         /\ \A e \in Ids : merged'[e] = IF e \in Pending THEN 1 ELSE merged[e]
         /\ (\A e \in Pending : merged[e] = 0) \/ merged' = merged
<1>1. /\ delivered \in Nat /\ merged \in [Ids -> Nat] /\ merged' \in [Ids -> Nat]
      /\ \A r \in Row : wm[r] \in Nat /\ wm'[r] \in Nat /\ wm[r] <= delivered
      /\ \A e \in Ids : e \in Nat /\ RowOf[e] \in Row
      /\ \A e \in Pending : e <= delivered /\ e \in Ids
  BY DEF TypeOK, StreamOK, TableOK, BatchInv, NothingAhead, Ids, Pending
<1>2. \A e \in Ids : mem[w][e] = IF e \in Pending THEN 1 ELSE 0
  BY DEF Pending
<1>3. \A r \in Row : Batch(w, r) = {e \in Pending : RowOf[e] = r}
  BY <1>1, <1>2 DEF Batch
<1>4. /\ \A r \in Row : wm'[r] >= wm[r]
      /\ \A e \in Pending : e <= wm'[RowOf[e]]
  BY <1>1, <1>2, UpsertCovers
<1>5. \A e \in Ids : merged'[e] = IF Applies(w, RowOf[e]) THEN merged[e] + mem[w][e]
                                                         ELSE merged[e]
  BY DEF Upsert
<1>6. \A e \in Ids : merged[e] = IF Covered(e) THEN 1 ELSE 0
  BY DEF BatchInv, WatermarkCounts
<1>7. \A e \in Pending' : Covered(e)'
  BY <1>4 DEF Covered, Pending
<1>8. Pending' = Pending
  BY DEF Pending
<1>9. /\ \A e \in Ids : merged'[e] = IF e \in Pending THEN 1 ELSE merged[e]
      /\ (\A e \in Pending : merged[e] = 0) \/ merged' = merged
  <2>1. CASE \A e \in Pending : Covered(e)
    <3>1. \A r \in Row : ~Applies(w, r)
      BY <1>1, <1>3, <2>1 DEF Applies, Covered
    <3>2. \A e \in Ids : merged'[e] = merged[e]
      BY <1>1, <1>5, <3>1
    <3>3. \A e \in Pending : merged[e] = 1
      BY <1>1, <1>6, <2>1
    <3> QED  BY <1>1, <3>2, <3>3
  <2>2. CASE \A e \in Pending : ~Covered(e)
    <3>1. \A e \in Pending : Applies(w, RowOf[e])
      BY <1>1, <1>3, <2>2 DEF Applies, Covered
    <3>2. \A e \in Pending : merged[e] = 0
      BY <1>1, <1>6, <2>2
    <3>3. \A e \in Pending : merged'[e] = 1
      BY <1>1, <1>2, <1>5, <3>1, <3>2
    <3>4. \A e \in Ids : e \notin Pending => merged'[e] = merged[e]
      BY <1>1, <1>2, <1>5
    <3> QED  BY <3>2, <3>3, <3>4
  <2> QED  BY <2>1, <2>2 DEF BatchInv, OneBatch
<1>10. ASSUME NEW r \in Row PROVE wm'[r] = wm[r] \/ wm'[r] <= delivered
  <2>1. wm'[r] = IF Applies(w, r) THEN Newest(Batch(w, r)) ELSE wm[r]
    BY DEF Upsert
  <2>2. CASE Applies(w, r)
    <3>1. Batch(w, r) \in SUBSET Ids /\ Batch(w, r) # {}
      BY <2>2 DEF Applies, Batch
    <3>2. Newest(Batch(w, r)) \in Batch(w, r)
      BY <3>1, NewestIsNewest DEF Ids
    <3>3. Newest(Batch(w, r)) \in Pending
      BY <1>3, <3>2
    <3> QED  BY <1>1, <2>1, <2>2, <3>3
  <2>3. CASE ~Applies(w, r)
    BY <2>1, <2>3
  <2> QED  BY <2>2, <2>3
<1>11. NothingAhead'
  <2>1. \A r \in Row : wm'[r] <= delivered
    BY <1>1, <1>10
  <2>2. trimmed' = 0
    BY DEF BatchInv, NothingAhead
  <2> QED  BY <1>1, <1>8, <2>1, <2>2 DEF NothingAhead
<1>12. ASSUME NEW e \in Ids, e \notin Pending PROVE Covered(e)' <=> Covered(e)
  <2>1. RowOf[e] \in Row /\ e \in Nat
    BY <1>1
  <2>2. wm[RowOf[e]] \in Nat /\ wm'[RowOf[e]] \in Nat /\ wm[RowOf[e]] <= wm'[RowOf[e]]
    BY <1>1, <1>4, <2>1
  <2>3. Covered(e) => Covered(e)'
    BY <2>1, <2>2 DEF Covered
  <2>4. ASSUME Covered(e)', ~Covered(e) PROVE FALSE
    <3>1. e <= wm'[RowOf[e]] /\ ~(e <= wm[RowOf[e]])
      BY <2>4 DEF Covered
    <3>2. wm'[RowOf[e]] <= delivered
      BY <1>10, <2>1, <3>1
    <3>3. e <= delivered /\ pel[e] = NoOne
      BY <1>1, <1>12, <2>1, <2>2, <3>1, <3>2 DEF Pending
    <3> QED  BY <2>4, <3>3 DEF SettledIsCovered, Settled
  <2> QED  BY <2>3, <2>4
<1>13. WatermarkCounts'
  <2> SUFFICES ASSUME NEW e \in Ids PROVE merged'[e] = IF Covered(e)' THEN 1 ELSE 0
    BY DEF WatermarkCounts
  <2>1. CASE e \in Pending
    BY <1>7, <1>8, <1>9, <2>1
  <2>2. CASE e \notin Pending
    BY <1>6, <1>9, <1>12, <2>2
  <2> QED  BY <2>1, <2>2
<1>14. OneBatch'
  <2>1. \A e, f \in Pending' : pel'[e] = pel'[f]
    BY <1>8 DEF BatchInv, OneBatch
  <2> QED  BY <1>7, <2>1 DEF OneBatch
<1> QED  BY <1>7, <1>9, <1>11, <1>13, <1>14 DEF BatchInv

---------------------------------------------------------------------------
(* Each of these is a step of the ledger, or none.                         *)

LedgerStep == [Ledger!Next]_(Ledger!ledger)

LEMMA LedgerQuiet ==
  ASSUME UNCHANGED <<merged, delivered>>,
         \A e \in Ids : pel'[e] = NoOne <=> pel[e] = NoOne
  PROVE  LedgerStep
<1>1. {e \in Ids : Settled(e)}' = {e \in Ids : Settled(e)}
  BY DEF Settled
<1> QED  BY <1>1 DEF LedgerStep, Ledger!ledger

LEMMA LedgerDelivers ==
  ASSUME TypeOK, TypeOK', trimmed = 0, NEW w \in Worker, Deliver(w), merged' = merged
  PROVE  LedgerStep
<1>1. /\ delivered \in Nat /\ delivered' \in Nat /\ w # NoOne
      /\ \A e \in Ids : e \in Nat /\ e > trimmed
  BY DEF TypeOK, StreamOK, Ids
<1>2. \A e \in Ids : pel'[e] = IF e \in NewPage THEN w ELSE pel[e]
  BY DEF Deliver
<1>3. delivered <= delivered' /\ \A e \in NewPage : e > delivered
  <2>1. \A e \in NewPage : e \in Ids /\ e > delivered
    BY NewPageIds
  <2>2. delivered' = delivered \/ delivered' \in NewPage
    BY DEF Deliver
  <2> QED  BY <1>1, <2>1, <2>2
<1>4. ASSUME NEW e \in Ids PROVE Settled(e)' <=> Settled(e)
  <2>1. CASE e \in NewPage
    BY <1>1, <1>2, <1>3, <2>1 DEF Settled
  <2>2. CASE e \notin NewPage
    <3>1. pel'[e] = pel[e]
      BY <1>2, <2>2
    <3>2. ~(e <= delivered' /\ e > delivered)
      BY <1>1, <2>2, DeliverSkipsNothing
    <3>3. e <= delivered' <=> e <= delivered
      BY <1>1, <1>3, <3>2
    <3> QED  BY <3>1, <3>3 DEF Settled
  <2> QED  BY <2>1, <2>2
<1>5. {e \in Ids : Settled(e)}' = {e \in Ids : Settled(e)}
  BY <1>4
<1> QED  BY <1>5 DEF LedgerStep, Ledger!ledger

LEMMA LedgerCounts ==
  ASSUME TypeOK, TypeOK', UNCHANGED <<pel, delivered>>,
         \A e \in Ids : merged'[e] = IF e \in Pending THEN 1 ELSE merged[e],
         (\A e \in Pending : merged[e] = 0) \/ merged' = merged
  PROVE  LedgerStep
<1>1. {e \in Ids : Settled(e)}' = {e \in Ids : Settled(e)}
  BY DEF Settled
<1>2. CASE merged' = merged
  BY <1>1, <1>2 DEF LedgerStep, Ledger!ledger
<1>3. CASE \A e \in Pending : merged[e] = 0
  <2>1. merged' = [e \in Ids |-> IF e \in Pending THEN 1 ELSE merged[e]]
    BY DEF TypeOK, TableOK
  <2>2. Pending \in SUBSET Ids
    BY DEF Pending
  <2>3. Ledger!Count(Pending)
    BY <1>1, <1>3, <2>1 DEF Ledger!Count
  <2> QED  BY <2>2, <2>3 DEF LedgerStep, Ledger!Next
<1> QED  BY <1>2, <1>3

LEMMA LedgerSettles ==
  ASSUME TypeOK, BatchInv, UNCHANGED <<merged, delivered>>, Pending' = {},
         \A e \in Pending : Covered(e)
  PROVE  LedgerStep
<1>1. {e \in Ids : Settled(e)}' = {e \in Ids : Settled(e)} \cup Pending
  <2>1. \A e \in Ids : pel'[e] = NoOne
    BY DEF Pending
  <2>2. \A e \in Ids : e \in Pending => e <= delivered
    BY DEF BatchInv, NothingAhead
  <2>3. \A e \in Ids : Settled(e)' <=> Settled(e) \/ e \in Pending
    BY <2>1, <2>2 DEF Settled, Pending
  <2> QED  BY <2>3 DEF Pending
<1>2. Pending \in SUBSET Ids /\ \A e \in Pending : merged[e] = 1
  BY DEF Pending, BatchInv, WatermarkCounts
<1>3. Ledger!Settle(Pending)
  BY <1>1, <1>2 DEF Ledger!Settle
<1> QED  BY <1>2, <1>3 DEF LedgerStep, Ledger!Next

---------------------------------------------------------------------------
(* The invariant, step by step.                                            *)

(* A step that touches none of its variables.                              *)
LEMMA QuietKeepsExact ==
  ASSUME ExactInv, UNCHANGED <<trimmed, delivered, pel, stale, merged, wm, owner>>,
         UNCHANGED <<pc, phase, mem, unacked, next>>
  PROVE  ExactInv' /\ LedgerStep
<1>1. LedgerStep
  BY LedgerQuiet
<1>2. OneBody' /\ BatchInv'
  BY ExactParts, QuietKeepsBatch DEF OneBody, InBody
<1>3. \A w \in Worker : HeldBy(w)'
  BY ExactParts DEF HeldBy, InBody, Holds, Pending, Covered
<1> QED  BY <1>1, <1>2, <1>3, ExactParts

(* A step of the worker in the body leaves the key and all others alone.   *)
LEMMA BodyStep ==
  ASSUME TypeOK, ExactInv, NEW w \in Worker, InBody(w), NEW step,
         pc' = [pc EXCEPT ![w] = step], owner' = owner
  PROVE  /\ OneBody' /\ pc'[w] = step
         /\ \A v \in Worker : v # w => HeldBy(v)'
<1>1. owner = w /\ OneBody
  BY DEF ExactInv, OneBody
<1>2. \A v \in Worker : v # w => pc[v] \notin Body /\ pc'[v] = pc[v]
  BY <1>1 DEF OneBody, InBody, TypeOK, WorkerOK
<1>3. pc'[w] = step
  BY DEF TypeOK, WorkerOK
<1>4. OneBody'
  BY <1>1, <1>2 DEF OneBody, InBody
<1>5. \A v \in Worker : v # w => HeldBy(v)'
  BY <1>2 DEF HeldBy, InBody, Body
<1> QED  BY <1>3, <1>4, <1>5

(* So it is enough to look at the batch and at that worker.                *)
LEMMA BodyKeepsExact ==
  ASSUME TypeOK, ExactInv, NEW w \in Worker, InBody(w), NEW step,
         pc' = [pc EXCEPT ![w] = step], owner' = owner,
         BatchInv', step \in Body => HeldBy(w)'
  PROVE  ExactInv'
<1>1. OneBody' /\ pc'[w] = step /\ \A v \in Worker : v # w => HeldBy(v)'
  BY BodyStep
<1>2. HeldBy(w)'
  BY <1>1 DEF HeldBy, InBody, Body
<1> QED  BY <1>1, <1>2, ExactParts

(* The turns of the loop carry the batch along.                            *)
LEMMA TurnKeepsExact ==
  ASSUME TypeOK, ExactInv, NEW w \in Worker, pc[w] \in {"top", "read", "turn", "sweep"},
         NEW step \in {"top", "read", "turn", "sweep", "flush", "leaving"},
         pc' = [pc EXCEPT ![w] = step], owner' = owner,
         UNCHANGED <<trimmed, delivered, pel, stale, merged, wm, mem, unacked>>,
         next'[w] = 0, step = "flush" => phase'[w] # "sweep"
  PROVE  ExactInv' /\ LedgerStep
<1>1. BatchInv' /\ LedgerStep
  BY ExactParts, QuietKeepsBatch, LedgerQuiet
<1>2. HeldBy(w) /\ InBody(w)
  BY ExactParts DEF InBody, Body
<1>3. pc'[w] = step
  BY <1>2, BodyStep
<1>4. HeldBy(w)'
  BY <1>2, <1>3 DEF HeldBy, InBody, Holds, Pending, Covered
<1> QED  BY <1>1, <1>2, <1>4, BodyKeepsExact

(* Time, the key, and processes that come and go.                          *)
LEMMA AgeKeepsExact ==
  ASSUME TypeOK, ExactInv, Age
  PROVE  ExactInv' /\ LedgerStep
<1>1. /\ UNCHANGED <<trimmed, delivered, pel, merged, wm, owner>>
      /\ UNCHANGED <<pc, phase, mem, unacked, next>> /\ stale' = Pending
      /\ \A w \in Worker : owner = w /\ InBody(w) => mem[w] = Empty
  BY DEF Age, stream, table, worker
<1>2. BatchInv' /\ OneBody' /\ LedgerStep
  BY <1>1, ExactParts, QuietKeepsBatch, LedgerQuiet DEF OneBody, InBody
<1>3. ASSUME NEW w \in Worker PROVE HeldBy(w)'
  <2>1. HeldBy(w) /\ (InBody(w) => mem[w] = Empty)
    BY <1>1, ExactParts DEF OneBody
  <2>2. ASSUME InBody(w), Holds(w) PROVE Holds(w)'
    <3>1. \A e \in Ids : (IF pel[e] = NoOne THEN 0 ELSE 1) = 0
      BY <2>1, <2>2 DEF Holds, Empty
    <3>2. Pending = {}
      BY <3>1 DEF Pending
    <3> QED  BY <1>1, <2>2, <3>2 DEF Holds, Pending
  <2> QED  BY <1>1, <2>1, <2>2 DEF HeldBy, InBody, Body, Pending, Covered
<1> QED  BY <1>2, <1>3, ExactParts

LEMMA KeyKeepsExact ==
  ASSUME TypeOK, ExactInv,
         LeaseExpires \/ \E w \in Worker : Acquire(w) \/ Leave(w) \/ Restart(w) \/ Crash(w)
  PROVE  ExactInv' /\ LedgerStep
<1>1. UNCHANGED <<trimmed, delivered, pel, stale, merged, wm, phase>>
  BY DEF LeaseExpires, Acquire, Leave, Restart, Crash, stream, group, table, worker
<1>2. BatchInv' /\ LedgerStep
  BY <1>1, ExactParts, QuietKeepsBatch, LedgerQuiet
<1>3. OneBody /\ \A v \in Worker : HeldBy(v)
  BY ExactParts
<1>4. ASSUME NEW v \in Worker, HeldBy(v), pc'[v] = pc[v] \/ pc'[v] \notin Body,
             pc'[v] = pc[v] => mem'[v] = mem[v] /\ unacked'[v] = unacked[v] /\ next'[v] = next[v]
      PROVE  HeldBy(v)'
  <2>1. CASE pc'[v] \notin Body
    BY <2>1 DEF HeldBy, InBody, Body
  <2>2. CASE pc'[v] = pc[v]
    BY <1>1, <1>4, <2>2 DEF HeldBy, InBody, Holds, Pending, Covered
  <2> QED  BY <1>4, <2>1, <2>2
<1>5. CASE LeaseExpires
  <2>1. UNCHANGED <<pc, mem, unacked, next>>
    BY <1>5 DEF LeaseExpires, worker
  <2>2. \A v \in Worker : ~InBody(v)
    BY <1>3, <1>5 DEF LeaseExpires, OneBody, InBody, Idle, Body
  <2>3. OneBody'
    BY <2>1, <2>2 DEF OneBody, InBody
  <2>4. \A v \in Worker : HeldBy(v)'
    BY <1>3, <1>4, <2>1
  <2> QED  BY <1>2, <2>3, <2>4, ExactParts
<1>6. ASSUME NEW w \in Worker, Acquire(w) PROVE ExactInv'
  <2>1. /\ owner = NoOne /\ owner' = w
        /\ pc' = [pc EXCEPT ![w] = "drain"] /\ mem' = [mem EXCEPT ![w] = Empty]
        /\ unacked' = [unacked EXCEPT ![w] = {}] /\ next' = [next EXCEPT ![w] = 0]
    BY <1>6 DEF Acquire, Goto
  <2>2. \A v \in Worker : pc[v] \notin Body
    BY <1>3, <2>1 DEF OneBody, InBody
  <2>3. /\ pc'[w] = "drain" /\ mem'[w] = Empty /\ unacked'[w] = {} /\ next'[w] = 0
        /\ \A v \in Worker : v # w => pc'[v] = pc[v]
    BY <2>1 DEF TypeOK, WorkerOK
  <2>4. OneBody'
    BY <2>1, <2>2, <2>3 DEF OneBody, InBody
  <2>5. \A v \in Worker : v # w => HeldBy(v)'
    BY <2>2, <2>3 DEF HeldBy, InBody, Body
  <2>6. HeldBy(w)'
    BY <2>3 DEF HeldBy, InBody, Body, Empty
  <2> QED  BY <1>2, <2>4, <2>5, <2>6, ExactParts
<1>7. ASSUME NEW w \in Worker, Leave(w) \/ Restart(w) \/ Crash(w) PROVE ExactInv'
  <2>1. /\ pc'[w] \notin Body
        /\ \A v \in Worker : v # w => /\ pc'[v] = pc[v] /\ mem'[v] = mem[v]
                                      /\ unacked'[v] = unacked[v] /\ next'[v] = next[v]
    BY <1>7 DEF Leave, Restart, Crash, Goto, Body, TypeOK, WorkerOK
  <2>2. owner' = owner \/ owner = w
    BY <1>7 DEF Leave, Restart, Crash
  <2>3. OneBody'
    BY <1>3, <2>1, <2>2 DEF OneBody, InBody
  <2>4. ASSUME NEW v \in Worker PROVE HeldBy(v)'
    <3>1. CASE v = w
      BY <2>1, <3>1 DEF HeldBy, InBody, Body
    <3>2. CASE v # w
      BY <1>3, <1>4, <2>1, <3>2
    <3> QED  BY <3>1, <3>2
  <2> QED  BY <1>2, <2>3, <2>4, ExactParts
<1> QED  BY <1>2, <1>5, <1>6, <1>7

(* Folding the batch, and only it, into an empty memory.                   *)
LEMMA IngestHolds ==
  ASSUME TypeOK, TypeOK', Calm, BatchInv, NEW w \in Worker, NEW page \in SUBSET Ids,
         Ingest(w, page), stale' = {}, \A e \in Pending' : pel'[e] = w,
         \A e \in Ids : mem[w][e] = (IF e \in unacked[w] THEN 1 ELSE 0),
         unacked[w] \cap page = {}, Pending' = unacked[w] \cup page
  PROVE  Holds(w)'
<1>1. \A e \in Ids : Parses(e)
  BY DEF Calm, BatchInv, NothingAhead, Parses, Ids
<1>2. unacked'[w] = Pending'
  BY DEF Ingest, TypeOK, WorkerOK
<1>3. \A e \in Ids : mem'[w][e] = mem[w][e] + (IF e \in page THEN 1 ELSE 0)
  BY <1>1 DEF Ingest, TypeOK, WorkerOK
<1>4. \A e \in Ids : mem'[w][e] = IF pel'[e] = NoOne THEN 0 ELSE 1
  <2> SUFFICES ASSUME NEW e \in Ids PROVE mem'[w][e] = IF pel'[e] = NoOne THEN 0 ELSE 1
    OBVIOUS
  <2>1. pel'[e] = NoOne <=> e \notin unacked[w] \cup page
    BY DEF Pending
  <2>2. CASE e \in unacked[w]
    BY <1>3, <2>1, <2>2
  <2>3. CASE e \notin unacked[w]
    BY <1>3, <2>1, <2>3
  <2> QED  BY <2>2, <2>3
<1>5. mem'[w] \in [Ids -> Nat]
  BY DEF TypeOK, WorkerOK
<1>6. mem'[w] = [e \in Ids |-> IF pel'[e] = NoOne THEN 0 ELSE 1]
  BY <1>4, <1>5
<1> QED  BY <1>2, <1>6 DEF Holds

(* drain_own_pending reads the batch, or finds that it is another's.       *)
LEMMA DrainKeepsExact ==
  ASSUME TypeOK, TypeOK', Calm, ExactInv, NEW w \in Worker, Drain(w)
  PROVE  ExactInv' /\ LedgerStep
<1> DEFINE page == {e \in Ids : pel[e] = w}
<1>0. pc[w] = "drain" /\ InBody(w) /\ HeldBy(w) /\ BatchInv
  BY ExactParts DEF Drain, InBody, Body
<1>1. FirstPage(page) = page
  <2>1. page \in SUBSET Pending
    BY DEF Pending
  <2> HIDE DEF page
  <2> QED  BY <2>1, PageIsAll
<1>2. /\ UNCHANGED <<trimmed, delivered, pel, merged, wm, owner, next>>
      /\ stale' = stale \ page
      /\ \/ page = {} /\ pc' = [pc EXCEPT ![w] = "claim"] /\ UNCHANGED <<mem, unacked>>
         \/ /\ page # {} /\ Ingest(w, page) /\ pc' = [pc EXCEPT ![w] = "flush"]
            /\ phase' = [phase EXCEPT ![w] = "drain"]
  BY <1>1 DEF Drain, Flush, Goto, stream, table
<1>3. BatchInv' /\ LedgerStep
  BY <1>0, <1>2, QuietKeepsBatch, LedgerQuiet
<1>4. mem[w] = Empty /\ unacked[w] = {} /\ next[w] = 0
  BY <1>0 DEF HeldBy
<1>5. CASE page = {} /\ pc' = [pc EXCEPT ![w] = "claim"] /\ UNCHANGED <<mem, unacked>>
  <2>1. pc'[w] = "claim"
    BY <1>5 DEF TypeOK, WorkerOK
  <2>2. HeldBy(w)'
    BY <1>2, <1>4, <1>5, <2>1 DEF HeldBy, InBody, Empty
  <2> QED  BY <1>0, <1>2, <1>3, <1>5, <2>2, BodyKeepsExact
<1>6. CASE /\ page # {} /\ Ingest(w, page) /\ pc' = [pc EXCEPT ![w] = "flush"]
           /\ phase' = [phase EXCEPT ![w] = "drain"]
  <2>1. pc'[w] = "flush" /\ phase'[w] = "drain"
    BY <1>6 DEF TypeOK, WorkerOK
  <2>2. Pending = page
    <3>1. PICK f \in page : TRUE
      BY <1>6
    <3>2. f \in Pending /\ pel[f] = w
      BY <3>1 DEF Pending
    <3>3. \A e \in Pending : pel[e] = w
      BY <1>0, <3>2 DEF BatchInv, OneBatch
    <3> QED  BY <3>3 DEF Pending
  <2>3. Pending' = page /\ stale' = {} /\ \A e \in Pending' : pel'[e] = w
    BY <1>2, <2>2 DEF Pending, TypeOK, GroupOK
  <2>4. page \in SUBSET Ids
    OBVIOUS
  <2>5. \A e \in Ids : mem[w][e] = (IF e \in unacked[w] THEN 1 ELSE 0)
    BY <1>4 DEF Empty
  <2>6. Holds(w)'
    <3> HIDE DEF page
    <3> QED  BY <1>0, <1>4, <1>6, <2>3, <2>4, <2>5, IngestHolds
  <2>7. HeldBy(w)'
    BY <1>2, <1>4, <2>1, <2>6 DEF HeldBy, InBody
  <2> QED  BY <1>0, <1>2, <1>3, <1>6, <2>7, BodyKeepsExact
<1> QED  BY <1>2, <1>5, <1>6

(* The startup claim takes the whole batch, whoever it was pending for.    *)
LEMMA ClaimKeepsExact ==
  ASSUME TypeOK, TypeOK', Calm, ExactInv, NEW w \in Worker, Claim(w)
  PROVE  ExactInv' /\ LedgerStep
<1>0. /\ pc[w] = "claim" /\ InBody(w) /\ HeldBy(w) /\ BatchInv /\ ClaimPage(w, Ids, "claim")
  BY ExactParts DEF Claim, InBody, Body
<1>1. mem[w] = Empty /\ unacked[w] = {} /\ next[w] = 0 /\ trimmed = 0
  BY <1>0 DEF HeldBy, BatchInv, NothingAhead
<1>2. Scanned(w, Ids) = Pending
  <2>1. {e \in Pending \cap Ids : e >= next[w]} = Pending
    BY <1>1 DEF Pending, Ids
  <2>2. FirstPage(Pending) = Pending
    BY PageIsAll
  <2> QED  BY <2>1, <2>2 DEF Scanned
<1>3. {e \in Pending : e > trimmed} = Pending
  BY <1>1 DEF Pending, Ids
<1>4. /\ Adopt(w, Pending) /\ UNCHANGED <<trimmed, delivered, merged, wm, owner>>
      /\ \/ /\ Pending = {} /\ next' = [next EXCEPT ![w] = 0]
            /\ pc' = [pc EXCEPT ![w] = "top"] /\ UNCHANGED <<mem, unacked>>
         \/ /\ Pending # {}
            /\ \E c \in 0..MaxId : Cursor(Pending, c) /\ next' = [next EXCEPT ![w] = c]
            /\ Ingest(w, Pending) /\ pc' = [pc EXCEPT ![w] = "flush"]
            /\ phase' = [phase EXCEPT ![w] = "claim"]
  BY <1>0, <1>2, <1>3 DEF ClaimPage, Flush, Goto, stream, table
<1>5. /\ BatchInv' /\ Pending' = Pending /\ stale' = {}
      /\ \A e \in Pending' : pel'[e] = w
      /\ \A e \in Ids : pel'[e] = NoOne <=> pel[e] = NoOne
  BY <1>0, <1>4, AdoptKeepsBatch
<1>6. LedgerStep
  BY <1>4, <1>5, LedgerQuiet
<1>7. CASE /\ Pending = {} /\ next' = [next EXCEPT ![w] = 0]
           /\ pc' = [pc EXCEPT ![w] = "top"] /\ UNCHANGED <<mem, unacked>>
  <2>1. pc'[w] = "top" /\ next'[w] = 0
    BY <1>7 DEF TypeOK, WorkerOK
  <2>2. \A e \in Ids : pel'[e] = NoOne
    BY <1>5, <1>7 DEF Pending
  <2>3. mem'[w] = [e \in Ids |-> IF pel'[e] = NoOne THEN 0 ELSE 1]
    BY <1>1, <1>7, <2>2 DEF Empty
  <2>4. Holds(w)'
    BY <1>1, <1>5, <1>7, <2>3 DEF Holds
  <2>5. HeldBy(w)'
    BY <1>5, <1>7, <2>1, <2>4 DEF HeldBy, InBody
  <2> QED  BY <1>0, <1>4, <1>5, <1>6, <1>7, <2>5, BodyKeepsExact
<1>8. CASE /\ Pending # {}
           /\ \E c \in 0..MaxId : Cursor(Pending, c) /\ next' = [next EXCEPT ![w] = c]
           /\ Ingest(w, Pending) /\ pc' = [pc EXCEPT ![w] = "flush"]
           /\ phase' = [phase EXCEPT ![w] = "claim"]
  <2>1. pc'[w] = "flush" /\ phase'[w] = "claim"
    BY <1>8 DEF TypeOK, WorkerOK
  <2>2. next'[w] = 0
    <3>1. PICK c \in 0..MaxId : Cursor(Pending, c) /\ next' = [next EXCEPT ![w] = c]
      BY <1>8
    <3>2. {e \in Pending : \A f \in Pending : f < e} = {}
      BY DEF Pending, Ids
    <3>3. c = 0
      BY <3>1, <3>2 DEF Cursor
    <3> QED  BY <3>1, <3>3 DEF TypeOK, WorkerOK
  <2>3. Pending \in SUBSET Ids
    BY DEF Pending
  <2>4. \A e \in Ids : mem[w][e] = (IF e \in unacked[w] THEN 1 ELSE 0)
    BY <1>1 DEF Empty
  <2>5. Pending' = unacked[w] \cup Pending /\ unacked[w] \cap Pending = {}
    BY <1>1, <1>5
  <2>6. Holds(w)'
    BY <1>0, <1>5, <1>8, <2>3, <2>4, <2>5, IngestHolds
  <2>7. HeldBy(w)'
    BY <2>1, <2>2, <2>6 DEF HeldBy, InBody
  <2> QED  BY <1>0, <1>4, <1>5, <1>6, <1>8, <2>7, BodyKeepsExact
<1> QED  BY <1>4, <1>7, <1>8

(* The sweep finds nothing: what is pending is young and in memory.        *)
LEMMA SweepKeepsExact ==
  ASSUME TypeOK, ExactInv, NEW w \in Worker, Sweep(w) \/ SweepFails(w)
  PROVE  ExactInv' /\ LedgerStep
<1>0. pc[w] = "sweep" /\ HeldBy(w)
  BY ExactParts DEF Sweep, SweepFails
<1>1. stale = {}
  BY <1>0 DEF HeldBy, Holds
<1>2. Scanned(w, stale) = {}
  BY <1>1, FirstPageSubset DEF Scanned
<1>3. Adopt(w, {}) => UNCHANGED <<pel, stale>>
  BY DEF Adopt, TypeOK, GroupOK
<1>4. /\ UNCHANGED <<pel, stale, trimmed, delivered, merged, wm, owner, mem, unacked>>
      /\ pc' = [pc EXCEPT ![w] = "top"] /\ next' = [next EXCEPT ![w] = 0]
  BY <1>2, <1>3 DEF Sweep, SweepFails, ClaimPage, Goto, stream, table
<1>5. next'[w] = 0
  BY <1>4 DEF TypeOK, WorkerOK
<1> QED  BY <1>0, <1>4, <1>5, TurnKeepsExact

(* The turns of the loop that only move on, and the stop.                  *)
LEMMA MoveKeepsExact ==
  ASSUME TypeOK, ExactInv, NEW w \in Worker,
         Top(w) \/ Stop(w) \/ TurnFlush(w) \/ TurnNoFlush(w) \/ SkipSweep(w)
  PROVE  ExactInv' /\ LedgerStep
<1>1. /\ UNCHANGED <<pel, stale, trimmed, delivered, merged, wm, owner, mem, unacked, next>>
      /\ pc[w] \in {"top", "read", "turn", "sweep"}
      /\ \E step \in {"top", "read", "turn", "sweep", "flush", "leaving"} :
            /\ pc' = [pc EXCEPT ![w] = step]
            /\ step = "flush" => phase'[w] # "sweep"
  BY DEF Top, Stop, TurnFlush, TurnNoFlush, SkipSweep, Flush, Goto, stream, group, table,
         TypeOK, WorkerOK
<1>2. next'[w] = 0
  BY <1>1, ExactParts DEF HeldBy, InBody, Body
<1> QED  BY <1>1, <1>2, TurnKeepsExact

(* XREADGROUP >, with its reply folded in or lost.                         *)
LEMMA ReadKeepsExact ==
  ASSUME TypeOK, TypeOK', Calm, ExactInv, NEW w \in Worker, pc[w] = "read", Deliver(w),
         UNCHANGED <<trimmed, merged, wm, owner, next>>,
         \/ Ingest(w, NewPage) /\ pc' = [pc EXCEPT ![w] = "turn"]
         \/ pc' = [pc EXCEPT ![w] = "leaving"]
  PROVE  ExactInv' /\ LedgerStep
<1>0. InBody(w) /\ HeldBy(w) /\ BatchInv
  BY ExactParts DEF InBody, Body
<1>1. Holds(w) /\ next[w] = 0 /\ \A e \in Pending : ~Covered(e)
  BY <1>0 DEF HeldBy
<1>2. /\ BatchInv' /\ Pending' = Pending \cup NewPage /\ stale' = {}
      /\ NewPage \cap Pending = {}
      /\ \A e \in Pending' : pel'[e] = w
      /\ \A e \in Pending' : ~Covered(e)'
  BY <1>0, <1>1, DeliverKeepsBatch DEF Holds
<1>3. LedgerStep
  BY <1>0, LedgerDelivers DEF BatchInv, NothingAhead
<1>4. CASE Ingest(w, NewPage) /\ pc' = [pc EXCEPT ![w] = "turn"]
  <2>1. pc'[w] = "turn"
    BY <1>4 DEF TypeOK, WorkerOK
  <2>2. NewPage \in SUBSET Ids
    BY NewPageIds
  <2>3. \A e \in Ids : mem[w][e] = (IF e \in unacked[w] THEN 1 ELSE 0)
    BY <1>1 DEF Holds, Pending
  <2>4. Pending' = unacked[w] \cup NewPage /\ unacked[w] \cap NewPage = {}
    BY <1>1, <1>2 DEF Holds
  <2>5. Holds(w)'
    BY <1>0, <1>2, <1>4, <2>2, <2>3, <2>4, IngestHolds
  <2>6. HeldBy(w)'
    BY <1>1, <1>2, <2>1, <2>5 DEF HeldBy, InBody
  <2> QED  BY <1>0, <1>2, <1>3, <1>4, <2>6, BodyKeepsExact
<1>5. CASE pc' = [pc EXCEPT ![w] = "leaving"]
  <2>1. "leaving" \notin Body
    BY DEF Body
  <2> QED  BY <1>0, <1>2, <1>3, <1>5, <2>1, BodyKeepsExact
<1> QED  BY <1>4, <1>5

(* flush() with nothing folded.                                            *)
LEMMA NothingKeepsExact ==
  ASSUME TypeOK, ExactInv, NEW w \in Worker, FlushNothing(w)
  PROVE  ExactInv' /\ LedgerStep
<1>0. pc[w] = "flush" /\ InBody(w) /\ HeldBy(w) /\ BatchInv
  BY ExactParts DEF FlushNothing, InBody, Body
<1>1. Holds(w) /\ phase[w] # "sweep" /\ next[w] = 0 /\ mem[w] = Empty
  BY <1>0 DEF HeldBy, FlushNothing
<1>2. /\ UNCHANGED <<pel, stale, trimmed, delivered, merged, wm, owner, mem, unacked, next>>
      /\ pc' = [pc EXCEPT ![w] = Resume(w)] /\ UNCHANGED phase
  BY DEF FlushNothing, Goto, stream, group, table
<1>3. BatchInv' /\ LedgerStep
  BY <1>0, <1>2, QuietKeepsBatch, LedgerQuiet
<1>4. \A e \in Ids : pel[e] = NoOne
  <2>1. \A e \in Ids : (IF pel[e] = NoOne THEN 0 ELSE 1) = 0
    BY <1>1 DEF Holds, Empty
  <2> QED  BY <2>1
<1>5. Pending = {} /\ Pending' = {}
  BY <1>2, <1>4 DEF Pending
<1>6. Resume(w) \in {"drain", "top", "sweep", "leaving"}
  BY <1>1 DEF Resume, TypeOK, WorkerOK, Phases
<1>7. pc'[w] = Resume(w)
  BY <1>2 DEF TypeOK, WorkerOK
<1>8. Holds(w)' /\ mem'[w] = Empty' /\ unacked'[w] = {}
  BY <1>1, <1>2, <1>5 DEF Holds, Empty
<1>9. HeldBy(w)'
  BY <1>1, <1>2, <1>5, <1>6, <1>7, <1>8 DEF HeldBy, InBody
<1> QED  BY <1>0, <1>2, <1>3, <1>9, BodyKeepsExact

(* The commit, answered or not.                                            *)
LEMMA CommitKeepsExact ==
  ASSUME TypeOK, TypeOK', Calm, AckedIsCovered, ExactInv, NEW w \in Worker,
         Commit(w) \/ CommitFails(w)
  PROVE  ExactInv' /\ LedgerStep
<1>0. pc[w] = "flush" /\ InBody(w) /\ HeldBy(w) /\ BatchInv
  BY ExactParts DEF Commit, CommitFails, InBody, Body
<1>1. Holds(w) /\ phase[w] # "sweep" /\ next[w] = 0 /\ SettledIsCovered
  BY <1>0, CalmCovers DEF HeldBy
<1>2. /\ UNCHANGED <<pel, stale, trimmed, delivered, owner, mem, unacked, next, phase>>
      /\ \/ Upsert(w) /\ pc' = [pc EXCEPT ![w] = "ack"]
         \/ Upsert(w) /\ pc' = [pc EXCEPT ![w] = "leaving"]
         \/ UNCHANGED <<merged, wm>> /\ pc' = [pc EXCEPT ![w] = "leaving"]
  BY DEF Commit, CommitFails, Goto, stream, group, table
<1>3. "leaving" \notin Body
  BY DEF Body
<1>4. CASE Upsert(w)
  <2>1. /\ BatchInv' /\ \A e \in Pending' : Covered(e)'
        /\ \A e \in Ids : merged'[e] = IF e \in Pending THEN 1 ELSE merged[e]
        /\ (\A e \in Pending : merged[e] = 0) \/ merged' = merged
    BY <1>0, <1>1, <1>2, <1>4, UpsertKeepsBatch DEF Holds
  <2>2. LedgerStep
    BY <1>2, <2>1, LedgerCounts
  <2>3. CASE pc' = [pc EXCEPT ![w] = "ack"]
    <3>1. pc'[w] = "ack"
      BY <2>3 DEF TypeOK, WorkerOK
    <3>2. Holds(w)'
      BY <1>1, <1>2 DEF Holds, Pending
    <3>3. HeldBy(w)'
      BY <1>1, <1>2, <2>1, <3>1, <3>2 DEF HeldBy, InBody
    <3> QED  BY <1>0, <1>2, <2>1, <2>2, <2>3, <3>3, BodyKeepsExact
  <2>4. CASE pc' = [pc EXCEPT ![w] = "leaving"]
    BY <1>0, <1>2, <1>3, <2>1, <2>2, <2>4, BodyKeepsExact
  <2> QED  BY <1>2, <2>3, <2>4
<1>5. CASE UNCHANGED <<merged, wm>> /\ pc' = [pc EXCEPT ![w] = "leaving"]
  <2>1. BatchInv' /\ LedgerStep
    BY <1>0, <1>2, <1>5, QuietKeepsBatch, LedgerQuiet
  <2> QED  BY <1>0, <1>2, <1>3, <1>5, <2>1, BodyKeepsExact
<1> QED  BY <1>2, <1>4, <1>5

(* The XACK, answered or not.                                              *)
LEMMA AckKeepsExact ==
  ASSUME TypeOK, TypeOK', ExactInv, NEW w \in Worker, Ack(w) \/ AckFails(w)
  PROVE  ExactInv' /\ LedgerStep
<1>0. pc[w] = "ack" /\ InBody(w) /\ HeldBy(w) /\ BatchInv
  BY ExactParts DEF Ack, AckFails, InBody, Body
<1>1. /\ Holds(w) /\ phase[w] # "sweep" /\ next[w] = 0
      /\ \A e \in Pending : Covered(e)
  BY <1>0 DEF HeldBy
<1>2. "leaving" \notin Body
  BY DEF Body
<1>3. ASSUME Xack(w), UNCHANGED <<trimmed, delivered, merged, wm>>
      PROVE  BatchInv' /\ Pending' = {} /\ stale' = {} /\ LedgerStep
             /\ \A e \in Ids : pel'[e] = NoOne
  <2>1. BatchInv' /\ Pending' = {} /\ stale' = {} /\ \A e \in Ids : pel'[e] = NoOne
    BY <1>0, <1>1, <1>3, XackKeepsBatch DEF Holds
  <2>2. LedgerStep
    BY <1>0, <1>1, <1>3, <2>1, LedgerSettles
  <2> QED  BY <2>1, <2>2
<1>4. CASE Ack(w)
  <2>1. /\ Xack(w) /\ UNCHANGED <<trimmed, delivered, merged, wm, owner, phase, next>>
        /\ pc' = [pc EXCEPT ![w] = Resume(w)]
        /\ mem' = [mem EXCEPT ![w] = Empty] /\ unacked' = [unacked EXCEPT ![w] = {}]
    BY <1>4 DEF Ack, Goto, stream, table
  <2>2. BatchInv' /\ Pending' = {} /\ stale' = {} /\ LedgerStep
        /\ \A e \in Ids : pel'[e] = NoOne
    BY <1>3, <2>1
  <2>3. pc'[w] = Resume(w) /\ mem'[w] = Empty /\ unacked'[w] = {}
    BY <2>1 DEF TypeOK, WorkerOK
  <2>4. Resume(w) \in {"drain", "top", "sweep", "leaving"}
    BY <1>1 DEF Resume, TypeOK, WorkerOK, Phases
  <2>5. mem'[w] = [e \in Ids |-> IF pel'[e] = NoOne THEN 0 ELSE 1]
    BY <2>2, <2>3 DEF Empty
  <2>6. Holds(w)'
    BY <2>2, <2>3, <2>5 DEF Holds
  <2>7. mem'[w] = Empty'
    BY <2>3 DEF Empty
  <2>8. HeldBy(w)'
    BY <1>1, <2>1, <2>2, <2>3, <2>4, <2>6, <2>7 DEF HeldBy, InBody
  <2> QED  BY <1>0, <2>1, <2>2, <2>8, BodyKeepsExact
<1>5. CASE AckFails(w)
  <2>1. /\ UNCHANGED <<trimmed, delivered, merged, wm, owner>>
        /\ Xack(w) \/ UNCHANGED <<pel, stale>>
        /\ pc' = [pc EXCEPT ![w] = "leaving"]
    BY <1>1, <1>5 DEF AckFails, Goto, stream, table
  <2>2. CASE Xack(w)
    BY <1>0, <1>2, <1>3, <2>1, <2>2, BodyKeepsExact
  <2>3. CASE UNCHANGED <<pel, stale>>
    <3>1. BatchInv' /\ LedgerStep
      BY <1>0, <2>1, <2>3, QuietKeepsBatch, LedgerQuiet
    <3> QED  BY <1>0, <1>2, <2>1, <3>1, BodyKeepsExact
  <2> QED  BY <2>1, <2>2, <2>3
<1> QED  BY <1>4, <1>5

(* A read that fails leaves the batch whole.                               *)
LEMMA ReadFailsKeepsExact ==
  ASSUME TypeOK, TypeOK', Calm, ExactInv, NEW w \in Worker, ReadFails(w)
  PROVE  ExactInv' /\ LedgerStep
<1>0. /\ UNCHANGED <<trimmed, merged, wm, owner, next>>
      /\ pc' = [pc EXCEPT ![w] = "leaving"] /\ pc[w] \in {"drain", "claim", "read"}
      /\ \/ UNCHANGED <<delivered, pel>>
         \/ pc[w] = "read" /\ Deliver(w)
         \/ pc[w] = "claim" /\ Adopt(w, Scanned(w, Ids)) /\ UNCHANGED delivered
  BY DEF ReadFails, Goto, stream, table, group
<1>1. InBody(w) /\ HeldBy(w) /\ BatchInv /\ "leaving" \notin Body
  BY <1>0, ExactParts DEF InBody, Body
<1>2. CASE UNCHANGED <<delivered, pel>>
  <2>1. BatchInv' /\ LedgerStep
    BY <1>0, <1>1, <1>2, QuietKeepsBatch, LedgerQuiet
  <2> QED  BY <1>0, <1>1, <2>1, BodyKeepsExact
<1>3. CASE pc[w] = "read" /\ Deliver(w)
  BY <1>0, <1>3, ReadKeepsExact
<1>4. CASE pc[w] = "claim" /\ Adopt(w, Scanned(w, Ids)) /\ UNCHANGED delivered
  <2>1. Scanned(w, Ids) = Pending
    <3>0. next[w] = 0
      BY <1>1 DEF HeldBy
    <3>1. {e \in Pending \cap Ids : e >= next[w]} = Pending
      BY <3>0 DEF Pending, Ids
    <3>2. FirstPage(Pending) = Pending
      BY PageIsAll
    <3> QED  BY <3>1, <3>2 DEF Scanned
  <2>2. BatchInv' /\ \A e \in Ids : pel'[e] = NoOne <=> pel[e] = NoOne
    BY <1>0, <1>1, <1>4, <2>1, AdoptKeepsBatch
  <2>3. LedgerStep
    BY <1>0, <1>4, <2>2, LedgerQuiet
  <2> QED  BY <1>0, <1>1, <2>2, <2>3, BodyKeepsExact
<1> QED  BY <1>0, <1>2, <1>3, <1>4

(* Every step of the persister, while Calm holds.                          *)
LEMMA StepIsExact ==
  ASSUME TypeOK, TypeOK', Calm, Calm', AckedIsCovered, ExactInv, [Next]_vars
  PROVE  ExactInv' /\ LedgerStep
<1>1. CASE Add \/ UNCHANGED vars
  BY <1>1, QuietKeepsExact DEF Add, vars, stream, group, table, worker
<1>2. CASE Trim
  BY <1>2 DEF Trim, Calm, TypeOK, BudgetsOK
<1>3. CASE Age
  BY <1>3, AgeKeepsExact
<1>4. CASE LeaseExpires
  BY <1>4, KeyKeepsExact
<1>5. ASSUME NEW w \in Worker, Acquire(w) \/ Leave(w) \/ Restart(w) \/ RenewRefused(w)
      PROVE  ExactInv' /\ LedgerStep
  <2>1. CASE RenewRefused(w)
    BY <2>1, QuietKeepsExact DEF RenewRefused, stream, group, table
  <2>2. CASE Acquire(w) \/ Leave(w) \/ Restart(w)
    BY <2>2, KeyKeepsExact
  <2> QED  BY <1>5, <2>1, <2>2
<1>6. ASSUME NEW w \in Worker, Work(w) PROVE ExactInv' /\ LedgerStep
  <2>1. CASE ReadNew(w)
    <3>1. /\ pc[w] = "read" /\ Deliver(w) /\ UNCHANGED <<trimmed, merged, wm, owner, next>>
          /\ Ingest(w, NewPage) /\ pc' = [pc EXCEPT ![w] = "turn"]
      BY <2>1 DEF ReadNew, Goto, stream, table
    <3> QED  BY <3>1, ReadKeepsExact
  <2>2. CASE Drain(w) \/ Claim(w) \/ Sweep(w)
    BY <2>2, DrainKeepsExact, ClaimKeepsExact, SweepKeepsExact
  <2>3. CASE Top(w) \/ TurnFlush(w) \/ TurnNoFlush(w) \/ SkipSweep(w)
    BY <2>3, MoveKeepsExact
  <2>4. CASE FlushNothing(w) \/ Commit(w) \/ Ack(w)
    BY <2>4, NothingKeepsExact, CommitKeepsExact, AckKeepsExact
  <2> QED  BY <1>6, <2>1, <2>2, <2>3, <2>4 DEF Work
<1>7. ASSUME NEW w \in Worker, Failure(w) PROVE ExactInv' /\ LedgerStep
  <2>1. CASE Stall(w)
    BY <2>1 DEF Stall, Calm, TypeOK, BudgetsOK
  <2>2. CASE RenewError(w)
    BY <2>2, QuietKeepsExact DEF RenewError, stream, group, table
  <2>3. CASE Crash(w)
    BY <2>3, KeyKeepsExact
  <2>4. CASE ReadFails(w) \/ SweepFails(w) \/ Stop(w)
    BY <2>4, ReadFailsKeepsExact, SweepKeepsExact, MoveKeepsExact
  <2>5. CASE CommitFails(w) \/ AckFails(w)
    BY <2>5, CommitKeepsExact, AckKeepsExact
  <2> QED  BY <1>7, <2>1, <2>2, <2>3, <2>4, <2>5 DEF Failure
<1> QED  BY <1>1, <1>2, <1>3, <1>4, <1>5, <1>6, <1>7 DEF Next

(* "At-least-once delivery into an exactly-once effect" (db.py): as long as*)
(* no pause outlives the lease, nothing is trimmed, every entry parses and *)
(* the backlog fits one page, every behaviour of the workers, with any     *)
(* crashes, errors, lost answers and failovers, is one of TickLedger.      *)
THEOREM PersisterIsALedger == Spec /\ []Calm => ImplementsLedger
<1>1. Init => ExactInv /\ Ledger!Init
  <2> SUFFICES ASSUME Init PROVE ExactInv /\ Ledger!Init
    OBVIOUS
  <2>1. /\ \A e \in Ids : pel[e] = NoOne /\ e \in Nat /\ e > 0 /\ RowOf[e] \in Row
        /\ delivered = 0 /\ trimmed = 0 /\ merged = Empty /\ wm = [r \in Row |-> 0]
        /\ \A w \in Worker : pc[w] = "standby"
    BY DEF Init, Ids
  <2>2. Pending = {} /\ \A e \in Ids : ~Settled(e)
    BY <2>1 DEF Pending, Settled
  <2>3. OneBody /\ \A w \in Worker : HeldBy(w)
    BY <2>1 DEF OneBody, HeldBy, InBody, Body
  <2>4. BatchInv
    BY <2>1, <2>2 DEF BatchInv, WatermarkCounts, NothingAhead, OneBatch, Covered, Empty
  <2>5. Ledger!Init
    BY <2>1, <2>2 DEF Ledger!Init, Empty
  <2> QED  BY <2>3, <2>4, <2>5, ExactParts
<1>2. TypeOK /\ TypeOK' /\ Calm /\ Calm' /\ AckedIsCovered /\ ExactInv /\ [Next]_vars
        => ExactInv' /\ [Ledger!Next]_(Ledger!ledger)
  BY StepIsExact DEF LedgerStep
<1> QED  BY <1>1, <1>2, TypeCorrect, AckOrderingCovers, PTL
         DEF Spec, ImplementsLedger, Ledger!Spec

============================================================================
