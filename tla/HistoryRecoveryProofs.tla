----------------------- MODULE HistoryRecoveryProofs -----------------------
(***************************************************************************)
(* The history recovery, for any processes, windows, budgets, backoffs,    *)
(* bucket widths and bounds: runs exclude each other, plans ask for what   *)
(* is missing and nothing else, the tables and the cache keep their shape, *)
(* stored bars stay, the live feed keeps its reserve, no minute is asked   *)
(* for too soon, and a run that finishes leaves nothing to repair.         *)
(*                                                                         *)
(* The planning functions and the ledger's count are folds.  A fold is     *)
(* defined by CHOOSE, so the first sections show that the recursive        *)
(* function it chooses exists and follow it by induction over subsets,     *)
(* stated about sets instead of predicates.                                *)
(***************************************************************************)
EXTENDS HistoryRecovery, WellFoundedInduction, FiniteSetTheorems, SequenceTheorems, TLAPS

-----------------------------------------------------------------------------
(* Folds as recursions over sets, so that first-order provers can follow   *)
(* them.                                                                   *)

(* A non-empty set of numbers has a least one.                             *)
LEMMA LeastExists ==
  ASSUME NEW T \in SUBSET Nat, T # {}
  PROVE  \E x \in T : \A y \in T : x <= y
<1> DEFINE Below == {p \in Nat \X Nat : p[1] < p[2]}
<1>1. IsWellFoundedOn(Below, Nat)
  BY NatLessThanWellFounded DEF OpToRel
<1>2. PICK x \in T : \A y \in T : ~(<<y, x>> \in Below)
  <2> HIDE DEF Below
  <2> QED  BY <1>1, WFMin, Zenon
<1>3. \A y \in T : x <= y
  <2> SUFFICES ASSUME NEW y \in T PROVE x <= y
    OBVIOUS
  <2>1. x \in Nat /\ y \in Nat
    OBVIOUS
  <2>2. ~(y < x)
    BY <1>2, <2>1
  <2> QED  BY <2>1, <2>2
<1> QED  BY <1>3

(* Induction over numbers, with the set of those that satisfy the claim in *)
(* the place of the claim.                                                 *)
LEMMA Counting ==
  ASSUME NEW P, 0 \in P, \A k \in Nat : k \in P => k + 1 \in P
  PROVE  Nat \subseteq P
<1> SUFFICES ASSUME ~(Nat \subseteq P) PROVE FALSE
  OBVIOUS
<1> DEFINE T == Nat \ P
<1>1. PICK x \in T : \A y \in T : x <= y
  <2>1. T \in SUBSET Nat /\ T # {}
    OBVIOUS
  <2> HIDE DEF T
  <2> QED  BY <2>1, LeastExists
<1>2. x \in Nat /\ x # 0 /\ x - 1 \in Nat
  OBVIOUS
<1>3. x - 1 \in P
  BY <1>1, <1>2
<1> QED  BY <1>2, <1>3

(* c points at an element of every non-empty subset.                       *)
Chooses(c, S) == \A s \in SUBSET S : s # {} => c[s] \in s

(* P has a non-empty subset if it has it without what c points at.         *)
Descends(P, S, c) == \A s \in SUBSET S : s # {} /\ s \ {c[s]} \in P => s \in P

(* Induction over the subsets of a finite set that takes out the element a *)
(* choice function points at.                                              *)
LEMMA SubsetInduction ==
  ASSUME NEW S, IsFiniteSet(S), NEW c, Chooses(c, S), NEW P, {} \in P, Descends(P, S, c)
  PROVE  SUBSET S \subseteq P
<1> DEFINE Q == {n \in Nat : \A s \in SUBSET S : Cardinality(s) = n => s \in P}
<1>1. \A s \in SUBSET S : IsFiniteSet(s) /\ Cardinality(s) \in Nat
  BY FS_Subset, FS_CardinalityType
<1>2. 0 \in Q
  BY <1>1, FS_EmptySet
<1>3. ASSUME NEW k \in Nat, k \in Q PROVE k + 1 \in Q
  <2> SUFFICES ASSUME NEW s \in SUBSET S, Cardinality(s) = k + 1 PROVE s \in P
    OBVIOUS
  <2>1. s # {}
    <3>1. Cardinality({}) = 0
      BY FS_EmptySet
    <3> HIDE DEF Q
    <3> QED  BY <3>1
  <2>2. c[s] \in s
    BY <2>1 DEF Chooses
  <2>3. Cardinality(s \ {c[s]}) = k
    <3>1. Cardinality(s \ {c[s]}) = Cardinality(s) - 1
      BY <1>1, <2>2, FS_RemoveElement
    <3> HIDE DEF Q
    <3> QED  BY <3>1
  <2>4. s \ {c[s]} \in SUBSET S
    OBVIOUS
  <2>5. s \ {c[s]} \in P
    BY <1>3, <2>3, <2>4
  <2> QED  BY <2>1, <2>5 DEF Descends
<1>4. Nat \subseteq Q
  <2> HIDE DEF Q
  <2> QED  BY <1>2, <1>3, Counting
<1> QED  BY <1>1, <1>4

(* g folds the subsets of S: h[x] is what an element x does to the rest.   *)
Folding(g, S, c, base, h) ==
  \A s \in SUBSET S : g[s] = IF s = {} THEN base ELSE h[c[s]][g[s \ {c[s]}]]

(* Such a recursion over the subsets of a finite set has a solution.       *)
LEMMA FoldExists ==
  ASSUME NEW S, IsFiniteSet(S), NEW c, Chooses(c, S),
         NEW V, NEW base \in V, NEW h \in [S -> [V -> V]]
  PROVE  \E g \in [SUBSET S -> V] : Folding(g, S, c, base, h)
<1> DEFINE Small(n)   == {s \in SUBSET S : Cardinality(s) <= n}
           Good(g, n) == \A s \in Small(n) :
                            g[s] = IF s = {} THEN base ELSE h[c[s]][g[s \ {c[s]}]]
           Q == {n \in Nat : \E g \in [Small(n) -> V] : Good(g, n)}
<1>1. \A s \in SUBSET S : IsFiniteSet(s) /\ Cardinality(s) \in Nat
  BY FS_Subset, FS_CardinalityType
<1>2. 0 \in Q
  <2> DEFINE g == [s \in Small(0) |-> base]
  <2>1. \A s \in Small(0) : s = {}
    BY <1>1, FS_EmptySet
  <2>2. g \in [Small(0) -> V] /\ Good(g, 0)
    BY <2>1
  <2> QED  BY <2>2
<1>3. ASSUME NEW k \in Nat, k \in Q PROVE k + 1 \in Q
  <2>1. PICK g \in [Small(k) -> V] : Good(g, k)
    BY <1>3
  <2> DEFINE f == [s \in Small(k + 1) |->
                     IF s = {} THEN base ELSE h[c[s]][g[s \ {c[s]}]]]
  <2>2. ASSUME NEW s \in Small(k + 1), s # {} PROVE s \ {c[s]} \in Small(k) /\ c[s] \in S
    <3>1. c[s] \in s
      BY <2>2 DEF Chooses
    <3>2. Cardinality(s \ {c[s]}) = Cardinality(s) - 1
      BY <1>1, <3>1, FS_RemoveElement
    <3> QED  BY <1>1, <3>1, <3>2
  <2>3. f \in [Small(k + 1) -> V]
    <3> SUFFICES ASSUME NEW s \in Small(k + 1)
                 PROVE  (IF s = {} THEN base ELSE h[c[s]][g[s \ {c[s]}]]) \in V
      OBVIOUS
    <3>1. CASE s = {}
      BY <3>1
    <3>2. CASE s # {}
      <4> DEFINE u == s \ {c[s]}
      <4>1. u \in Small(k) /\ c[s] \in S
        BY <2>2, <3>2
      <4> HIDE DEF u
      <4>2. g[u] \in V
        BY <4>1
      <4>3. h[c[s]] \in [V -> V]
        BY <4>1
      <4>4. h[c[s]][g[u]] \in V
        BY <4>2, <4>3
      <4> QED  BY <3>2, <4>4 DEF u
    <3> QED  BY <3>1, <3>2
  <2>4. \A s \in Small(k) : f[s] = g[s]
    <3>1. \A s \in Small(k) : s \in Small(k + 1)
      BY <1>1
    <3>2. \A s \in Small(k) : g[s] = IF s = {} THEN base ELSE h[c[s]][g[s \ {c[s]}]]
      BY <2>1
    <3> HIDE DEF Small
    <3> QED  BY <3>1, <3>2
  <2>5. Good(f, k + 1)
    <3> SUFFICES ASSUME NEW s \in Small(k + 1), s # {}
                 PROVE  f[s] = h[c[s]][f[s \ {c[s]}]]
      OBVIOUS
    <3>1. f[s] = h[c[s]][g[s \ {c[s]}]]
      OBVIOUS
    <3> HIDE DEF f
    <3> QED  BY <2>2, <2>4, <3>1
  <2> HIDE DEF f
  <2>6. \E e \in [Small(k + 1) -> V] : Good(e, k + 1)
    BY <2>3, <2>5
  <2> HIDE DEF Small, Good
  <2>7. k + 1 \in Nat
    OBVIOUS
  <2> QED  BY <2>6, <2>7, Zenon
<1>4. Nat \subseteq Q
  <2> HIDE DEF Q
  <2> QED  BY <1>2, <1>3, Counting
<1>5. Cardinality(S) \in Q
  BY <1>1, <1>4
<1>6. Small(Cardinality(S)) = SUBSET S
  BY <1>1, FS_Subset
<1> QED  BY <1>5, <1>6 DEF Folding

(* What Max and Min return.                                                *)
LEMMA MaxOf ==
  ASSUME NEW s \in SUBSET Int, NEW m \in s, \A x \in s : x <= m
  PROVE  Max(s) = m
<1>1. Max(s) \in s /\ \A x \in s : Max(s) >= x
  BY DEF Max
<1>2. Max(s) <= m /\ m <= Max(s) /\ Max(s) \in Int /\ m \in Int
  BY <1>1
<1> QED  BY <1>2

(* A finite set of numbers has a least element, the one Min chooses.       *)
LEMMA MinOf ==
  ASSUME NEW s \in SUBSET Int, NEW m \in s, \A x \in s : m <= x
  PROVE  Min(s) = m
<1>1. Min(s) \in s /\ \A x \in s : Min(s) <= x
  BY DEF Min
<1>2. Min(s) <= m /\ m <= Min(s) /\ Min(s) \in Int /\ m \in Int
  BY <1>1
<1> QED  BY <1>2

(* An initial segment of the indices of a sequence, taken apart by Max.    *)
LEMMA Prefix ==
  ASSUME NEW n \in Nat, NEW k \in 1..n
  PROVE  /\ 1..k \in SUBSET (1..n) /\ 1..k # {}
         /\ Max(1..k) = k /\ (1..k) \ {Max(1..k)} = 1..(k - 1)
<1> DEFINE T == 1..k
<1>1. k \in Int /\ \A x \in T : x \in 1..n /\ x \in Int /\ x <= k
  OBVIOUS
<1>2. k \in T /\ T \ {k} = 1..(k - 1)
  OBVIOUS
<1> HIDE DEF T
<1>3. T \in SUBSET (1..n) /\ T # {} /\ T \in SUBSET Int
  BY <1>1, <1>2, Zenon
<1>4. Max(T) = k
  BY <1>1, <1>2, <1>3, MaxOf
<1> QED  BY <1>2, <1>3, <1>4 DEF T

(* A non-empty set of indices has a largest.                               *)
LEMMA MaxIn ==
  ASSUME NEW n \in Int, NEW s \in SUBSET Int, s # {}, \A x \in s : x <= n
  PROVE  Max(s) \in s /\ \A x \in s : x <= Max(s)
<1> DEFINE T == {n - x : x \in s}
<1>1. T \in SUBSET Nat /\ T # {}
  <2>1. \A x \in s : n - x \in Nat
    OBVIOUS
  <2> QED  BY <2>1
<1>2. PICK y \in T : \A z \in T : y <= z
  <2> HIDE DEF T
  <2> QED  BY <1>1, LeastExists
<1>3. PICK x \in s : y = n - x
  OBVIOUS
<1>4. \A z \in s : z <= x
  <2> SUFFICES ASSUME NEW z \in s PROVE z <= x
    OBVIOUS
  <2>1. n - z \in T
    OBVIOUS
  <2>2. y <= n - z
    BY <1>2, <2>1
  <2> QED  BY <1>3, <2>2
<1>5. Max(s) = x
  BY <1>4, MaxOf
<1> QED  BY <1>4, <1>5

(* Min of a set of integers that is bounded below.                         *)
LEMMA MinIn ==
  ASSUME NEW n \in Int, NEW s \in SUBSET Int, s # {}, \A x \in s : n <= x
  PROVE  Min(s) \in s /\ \A x \in s : Min(s) <= x
<1> DEFINE T == {x - n : x \in s}
<1>1. T \in SUBSET Nat /\ T # {}
  OBVIOUS
<1>2. PICK y \in T : \A z \in T : y <= z
  <2> HIDE DEF T
  <2> QED  BY <1>1, LeastExists
<1>3. PICK x \in s : y = x - n
  OBVIOUS
<1>4. \A z \in s : x <= z
  <2> SUFFICES ASSUME NEW z \in s PROVE x <= z
    OBVIOUS
  <2>1. z - n \in T
    OBVIOUS
  <2>2. y <= z - n
    BY <1>2, <2>1
  <2> QED  BY <1>3, <2>2
<1>5. Min(s) = x
  BY <1>4, MinOf
<1> QED  BY <1>4, <1>5

(* The recursion FoldLeft makes, with the largest index taken out, has a   *)
(* solution.                                                               *)
Along(g, n, base, h) ==
  \A s \in SUBSET (1..n) :
     /\ s # {} => Max(s) \in 1..n /\ s \ {Max(s)} \in SUBSET (1..n)
     /\ g[s] = IF s = {} THEN base ELSE h[Max(s)][g[s \ {Max(s)}]]

(* FoldLeft over a sequence is a recursion over its prefixes.              *)
LEMMA FoldAlong ==
  ASSUME NEW n \in Nat, NEW V, NEW base \in V, NEW h \in [1..n -> [V -> V]]
  PROVE  \E g \in [SUBSET (1..n) -> V] : Along(g, n, base, h)
<1> DEFINE S == 1..n
           c == [s \in SUBSET S |-> Max(s)]
<1>1. IsFiniteSet(S)
  BY FS_Interval
<1>2. ASSUME NEW s \in SUBSET S, s # {} PROVE Max(s) \in s
  <2>1. n \in Int /\ s \in SUBSET Int /\ \A x \in s : x <= n
    OBVIOUS
  <2> HIDE DEF S
  <2> QED  BY <1>2, <2>1, MaxIn
<1>3. PICK g \in [SUBSET S -> V] : Folding(g, S, c, base, h)
  <2>1. h \in [S -> [V -> V]]
    OBVIOUS
  <2>2. Chooses(c, S)
    BY <1>2 DEF Chooses
  <2> HIDE DEF c, S
  <2> QED  BY <1>1, <2>1, <2>2, FoldExists
<1>4. \A s \in SUBSET S : g[s] = IF s = {} THEN base ELSE h[Max(s)][g[s \ {Max(s)}]]
  BY <1>3 DEF Folding
<1>5. \A s \in SUBSET S : s # {} => Max(s) \in S /\ s \ {Max(s)} \in SUBSET S
  BY <1>2
<1> QED  BY <1>4, <1>5 DEF Along

-----------------------------------------------------------------------------
(* Sequences of spans.                                                     *)
Span  == [start : Nat, end : Nat]
Spans == Seq(Span)

(* A span has its two ends.                                                *)
LEMMA SpanIs ==
  ASSUME NEW x \in Span
  PROVE  x.start \in Nat /\ x.end \in Nat /\ x = [start |-> x.start, end |-> x.end]
BY DEF Span

(* A sequence of spans: its length, its domain, its elements.              *)
LEMMA SpansAre ==
  ASSUME NEW q \in Spans
  PROVE  /\ Len(q) \in Nat /\ DOMAIN q = 1..Len(q)
         /\ q # <<>> <=> Len(q) > 0
         /\ \A i \in 1..Len(q) : q[i] \in Span /\ q[i].start \in Nat /\ q[i].end \in Nat
<1> USE DEF Spans
<1>1. Len(q) \in Nat /\ DOMAIN q = 1..Len(q)
  BY LenProperties
<1>2. \A i \in 1..Len(q) : q[i] \in Span
  BY ElementOfSeq
<1>3. \A i \in 1..Len(q) : q[i].start \in Nat /\ q[i].end \in Nat
  BY <1>2, SpanIs
<1>4. q # <<>> => Len(q) \in Nat \ {0}
  BY EmptySeq
<1>5. q = <<>> => Len(q) = 0
  BY EmptySeq
<1>6. q # <<>> <=> Len(q) > 0
  <2> DEFINE l == Len(q)
  <2>1. l \in Nat /\ (q # <<>> => l \in Nat \ {0}) /\ (q = <<>> => l = 0)
    BY <1>1, <1>4, <1>5
  <2> HIDE DEF l, Spans
  <2>2. q # <<>> <=> l > 0
    BY <2>1
  <2> QED  BY <2>2 DEF l
<1> QED  BY <1>1, <1>2, <1>3, <1>6

(* One more span.                                                          *)
LEMMA AppendSpan ==
  ASSUME NEW q \in Spans, NEW x \in Span
  PROVE  /\ Append(q, x) \in Spans /\ Len(Append(q, x)) = Len(q) + 1
         /\ \A i \in 1..Len(q) : Append(q, x)[i] = q[i]
         /\ Append(q, x)[Len(q) + 1] = x
         /\ q \o <<x>> = Append(q, x)
BY AppendProperties, AppendIsConcat DEF Spans

(* Two sequences of spans, one after the other.                            *)
LEMMA ConcatSpans ==
  ASSUME NEW q \in Spans, NEW p \in Spans
  PROVE  /\ q \o p \in Spans /\ Len(q \o p) = Len(q) + Len(p)
         /\ \A i \in 1..Len(q) : (q \o p)[i] = q[i]
         /\ \A i \in 1..Len(p) : (q \o p)[Len(q) + i] = p[i]
<1>1. /\ q \o p \in Spans /\ Len(q \o p) = Len(q) + Len(p)
      /\ \A i \in 1..Len(q) + Len(p) :
            (q \o p)[i] = IF i <= Len(q) THEN q[i] ELSE p[i - Len(q)]
  BY ConcatProperties DEF Spans
<1>2. Len(q) \in Nat /\ Len(p) \in Nat
  BY SpansAre
<1>3. \A i \in 1..Len(q) : i \in 1..Len(q) + Len(p) /\ i <= Len(q)
  BY <1>2
<1>4. \A i \in 1..Len(p) : /\ Len(q) + i \in 1..Len(q) + Len(p) /\ ~(Len(q) + i <= Len(q))
                           /\ (Len(q) + i) - Len(q) = i
  BY <1>2
<1> QED  BY <1>1, <1>3, <1>4

(* Two sequences of spans with the same elements are the same.             *)
LEMMA SameSpans ==
  ASSUME NEW q \in Spans, NEW p \in Spans, Len(q) = Len(p),
         \A i \in 1..Len(q) : q[i] = p[i]
  PROVE  q = p
BY SeqEqual DEF Spans

(* In the order of time and apart.                                         *)
Ordered(q) ==
    /\ \A i \in 1..Len(q) : q[i].start <= q[i].end
    /\ \A i, j \in 1..Len(q) : i < j => q[i].end < q[j].start

(* A minute is wanted when it lies in one of the spans.                    *)
LEMMA InWanted ==
  ASSUME NEW q \in Spans, NEW m
  PROVE  m \in Wanted(q)
           <=> m \in Nat /\ \E k \in 1..Len(q) : q[k].start <= m /\ m <= q[k].end
<1>1. DOMAIN q = 1..Len(q) /\ \A k \in 1..Len(q) : q[k].start \in Nat /\ q[k].end \in Nat
  BY SpansAre
<1>2. ASSUME NEW k \in 1..Len(q)
      PROVE  m \in each_minute(q[k]) <=> m \in Nat /\ q[k].start <= m /\ m <= q[k].end
  <2> DEFINE a == q[k].start
             b == q[k].end
  <2>1. a \in Nat /\ b \in Nat
    BY <1>1
  <2> HIDE DEF a, b
  <2>2. m \in a..b <=> m \in Nat /\ a <= m /\ m <= b
    BY <2>1
  <2> QED  BY <2>2 DEF a, b, each_minute
<1> QED  BY <1>1, <1>2 DEF Wanted

Scan   == [spans : Spans, run : Spans]
NoScan == [spans |-> <<>>, run |-> <<>>]

(* A step of missing_spans.                                                *)
Missing(m, held, ranges) == m \notin held /\ \A r \in ranges : m \notin each_minute(r)
Visit(acc, m, held, ranges) ==
    IF Missing(m, held, ranges) /\ acc.run # <<>> /\ m = acc.run[1].end + 1
    THEN [acc EXCEPT !.run[1].end = m]
    ELSE [spans |-> acc.spans \o acc.run,
          run   |-> IF Missing(m, held, ranges) THEN <<[start |-> m, end |-> m]>> ELSE <<>>]

Visits(f, e, held, ranges) ==
    f = [s \in SUBSET (DOMAIN e) |->
           IF s = {} THEN NoScan ELSE Visit(f[s \ {Max(s)}], e[Max(s)], held, ranges)]

(* What a step does to the spans found so far.                             *)
Found(acc) == acc.spans \o acc.run

(* missing_spans is the last state of its scan.                            *)
LEMMA MissingFold ==
  ASSUME NEW e, NEW held, NEW ranges, NEW g, Visits(g, e, held, ranges)
  PROVE  \E f : /\ Visits(f, e, held, ranges)
                /\ missing_spans(e, held, ranges) = Found(f[DOMAIN e])
BY DEF missing_spans, FoldLeft, MapThenFoldSet, Visits, Visit, Missing, NoScan, Found

Longer(q, m)  == [q EXCEPT ![Len(q)] = [start |-> @.start, end |-> m]]
Minute(m)     == [start |-> m, end |-> m]

Grown(old, new, m, missing) ==
    \/ missing /\ old # <<>> /\ m = old[Len(old)].end + 1 /\ new = Longer(old, m)
    \/ missing /\ new = Append(old, Minute(m))
    \/ ~missing /\ new = old

(* The span of a single minute.                                            *)
LEMMA OneSpan ==
  ASSUME NEW x \in Span
  PROVE  <<x>> \in Spans /\ Len(<<x>>) = 1 /\ <<x>>[1] = x
BY DEF Spans

(* The run being extended ends one minute later.                           *)
LEMMA LongerIs ==
  ASSUME NEW q \in Spans, q # <<>>, NEW m \in Nat
  PROVE  /\ Longer(q, m) \in Spans /\ Len(Longer(q, m)) = Len(q)
         /\ \A i \in 1..Len(q) : i # Len(q) => Longer(q, m)[i] = q[i]
         /\ Longer(q, m)[Len(q)] = [start |-> q[Len(q)].start, end |-> m]
<1> DEFINE x == [start |-> q[Len(q)].start, end |-> m]
<1>1. Len(q) \in 1..Len(q) /\ q[Len(q)].start \in Nat
  <2>1. Len(q) \in Nat /\ Len(q) > 0
    BY SpansAre
  <2>2. Len(q) \in 1..Len(q)
    BY <2>1
  <2> QED  BY <2>2, SpansAre
<1>2. x \in Span
  BY <1>1 DEF Span
<1>3. Longer(q, m) = [q EXCEPT ![Len(q)] = x]
  BY DEF Longer
<1> HIDE DEF x
<1>4. /\ [q EXCEPT ![Len(q)] = x] \in Spans /\ Len([q EXCEPT ![Len(q)] = x]) = Len(q)
      /\ \A j \in 1..Len(q) : [q EXCEPT ![Len(q)] = x][j] = IF j = Len(q) THEN x ELSE q[j]
  BY <1>1, <1>2, ExceptSeq DEF Spans
<1> QED  BY <1>1, <1>3, <1>4 DEF x

(* A visited minute is found when it is missing, and nothing else changes. *)
LEMMA VisitFinds ==
  ASSUME NEW sp \in Spans, NEW rn \in Spans, Len(rn) <= 1,
         NEW m \in Nat, NEW held, NEW ranges
  PROVE  LET new == Visit([spans |-> sp, run |-> rn], m, held, ranges)
             old == sp \o rn
         IN /\ new \in Scan /\ Len(new.run) <= 1
            /\ Grown(old, Found(new), m, Missing(m, held, ranges))
<1> DEFINE old == sp \o rn
<1>0. old \in Spans
  BY ConcatSpans
<1>1. CASE Missing(m, held, ranges) /\ rn # <<>> /\ m = rn[1].end + 1
  <2>1. Len(rn) = 1 /\ rn[1] \in Span /\ rn[1].start \in Nat
    <3>1. Len(rn) \in Nat /\ Len(rn) > 0
      BY <1>1, SpansAre
    <3>2. Len(rn) = 1 /\ 1 \in 1..Len(rn)
      BY <3>1
    <3> QED  BY <3>2, SpansAre
  <2> DEFINE one == [start |-> rn[1].start, end |-> m]
  <2>2. one \in Span /\ rn = <<rn[1]>>
    <3>1. <<rn[1]>> \in Spans /\ Len(<<rn[1]>>) = 1 /\ <<rn[1]>>[1] = rn[1]
      BY <2>1, OneSpan
    <3>2. \A i \in 1..Len(rn) : rn[i] = <<rn[1]>>[i]
      BY <2>1, <3>1
    <3>3. rn = <<rn[1]>>
      BY <2>1, <3>1, <3>2, SameSpans
    <3> QED  BY <2>1, <3>3 DEF Span
  <2>3. Visit([spans |-> sp, run |-> rn], m, held, ranges) = [spans |-> sp, run |-> <<one>>]
    <3>1. Visit([spans |-> sp, run |-> rn], m, held, ranges)
            = [spans |-> sp, run |-> [rn EXCEPT ![1].end = m]]
      BY <1>1 DEF Visit
    <3>2. rn[1] = [start |-> rn[1].start, end |-> rn[1].end]
      BY <2>1, SpanIs
    <3>3. [rn EXCEPT ![1].end = m] = <<one>>
      BY <2>1, <2>2, <3>2
    <3> QED  BY <3>1, <3>3
  <2>4. Len(old) = Len(sp) + 1 /\ old[Len(old)] = rn[1] /\ old # <<>>
    <3>1. Len(sp) \in Nat /\ Len(old) = Len(sp) + Len(rn)
          /\ \A i \in 1..Len(rn) : old[Len(sp) + i] = rn[i]
      BY ConcatSpans, SpansAre
    <3> HIDE DEF old
    <3>2. Len(old) = Len(sp) + 1 /\ old[Len(old)] = rn[1] /\ Len(old) > 0
      BY <2>1, <3>1
    <3> QED  BY <1>0, <3>2, SpansAre
  <2>5. <<one>> \in Spans /\ Len(<<one>>) = 1 /\ <<one>>[1] = one
    BY <2>2, OneSpan
  <2>6. sp \o <<one>> = Longer(old, m)
    <3> DEFINE new == sp \o <<one>>
    <3>1. /\ new \in Spans /\ Len(new) = Len(sp) + 1
          /\ \A i \in 1..Len(sp) : new[i] = sp[i]
          /\ new[Len(sp) + 1] = one
      BY <2>5, ConcatSpans
    <3>2. \A i \in 1..Len(sp) : old[i] = sp[i]
      BY ConcatSpans
    <3>3. /\ Longer(old, m) \in Spans /\ Len(Longer(old, m)) = Len(old)
          /\ \A i \in 1..Len(old) : i # Len(old) => Longer(old, m)[i] = old[i]
          /\ Longer(old, m)[Len(old)] = [start |-> old[Len(old)].start, end |-> m]
      BY <1>0, <2>4, LongerIs
    <3>4. Len(sp) \in Nat
      BY SpansAre
    <3>5. Longer(old, m)[Len(sp) + 1] = one
      BY <2>4, <3>3
    <3> HIDE DEF new, old, one
    <3>6. \A i \in 1..Len(new) : new[i] = Longer(old, m)[i]
      BY <2>4, <3>1, <3>2, <3>3, <3>4, <3>5
    <3>7. new = Longer(old, m)
      BY <2>4, <3>1, <3>3, <3>6, SameSpans
    <3> QED  BY <3>7 DEF new
  <2>7. [spans |-> sp, run |-> <<one>>] \in Scan
    BY <2>5 DEF Scan
  <2>8. m = old[Len(old)].end + 1
    BY <1>1, <2>4
  <2> HIDE DEF one, old
  <2>9. Found([spans |-> sp, run |-> <<one>>]) = Longer(old, m)
    BY <2>6 DEF Found
  <2> DEFINE new == [spans |-> sp, run |-> <<one>>]
  <2>10. new \in Scan /\ Len(new.run) <= 1 /\ Found(new) = Longer(old, m)
    BY <2>5, <2>7, <2>9
  <2> HIDE DEF new
  <2> QED  BY <1>1, <2>3, <2>4, <2>8, <2>10, Zenon DEF old, new, Grown
<1>2. CASE ~(Missing(m, held, ranges) /\ rn # <<>> /\ m = rn[1].end + 1)
  <2> DEFINE last == IF Missing(m, held, ranges) THEN <<Minute(m)>> ELSE <<>>
  <2>1. Visit([spans |-> sp, run |-> rn], m, held, ranges) = [spans |-> old, run |-> last]
    BY <1>2 DEF Visit, Minute
  <2>2. Minute(m) \in Span
    BY DEF Span, Minute
  <2>3. <<Minute(m)>> \in Spans /\ Len(<<Minute(m)>>) = 1
    BY <2>2, OneSpan
  <2>4. <<>> \in Spans /\ Len(<<>>) = 0
    BY EmptySeq DEF Spans
  <2>5. last \in Spans /\ Len(last) <= 1
    BY <2>3, <2>4
  <2>6. Missing(m, held, ranges) => old \o last = Append(old, Minute(m))
    BY <1>0, <2>2, AppendSpan
  <2>7. ~Missing(m, held, ranges) => old \o last = old
    BY <1>0, ConcatEmptySeq DEF Spans
  <2> HIDE DEF last, old
  <2>8. [spans |-> old, run |-> last] \in Scan
    BY <1>0, <2>5 DEF Scan
  <2>9. Found([spans |-> old, run |-> last]) = old \o last
    BY DEF Found
  <2> DEFINE new == [spans |-> old, run |-> last]
  <2>10. new \in Scan /\ Len(new.run) <= 1 /\ Found(new) = old \o last
    BY <2>5, <2>8, <2>9
  <2> HIDE DEF new
  <2> QED  BY <2>1, <2>6, <2>7, <2>10, Zenon DEF old, new, Grown
<1> QED  BY <1>1, <1>2

(* Every step is taken by a scan whose last span may still grow.           *)
Scans == {v \in Scan : Len(v.run) <= 1}

(* A scan's state stays one.                                               *)
LEMMA VisitClosed ==
  ASSUME NEW v \in Scans, NEW m \in Nat, NEW held, NEW ranges
  PROVE  LET new == Visit(v, m, held, ranges)
         IN /\ new \in Scans /\ Found(v) \in Spans
            /\ Grown(Found(v), Found(new), m, Missing(m, held, ranges))
<1>1. v.spans \in Spans /\ v.run \in Spans /\ Len(v.run) <= 1
      /\ v = [spans |-> v.spans, run |-> v.run]
  BY DEF Scans, Scan
<1>2. Found(v) \in Spans
  BY <1>1, ConcatSpans DEF Found
<1>3. PICK sp \in Spans, rn \in Spans :
          Len(rn) <= 1 /\ v = [spans |-> sp, run |-> rn] /\ Found(v) = sp \o rn
  BY <1>1 DEF Found
<1> QED  BY <1>2, <1>3, VisitFinds DEF Scans

(* The states of the scan of e.                                            *)
Scanning(a, n, e, held, ranges) ==
    /\ a[0] = NoScan
    /\ \A k \in 1..n : a[k] = Visit(a[k - 1], e[k], held, ranges)
    /\ missing_spans(e, held, ranges) = Found(a[n])

(* The scan visits the expected minutes one by one.                        *)
LEMMA ScanSteps ==
  ASSUME NEW e, NEW n \in Nat, DOMAIN e = 1..n, \A k \in 1..n : e[k] \in Nat,
         NEW held, NEW ranges
  PROVE  \E a : Scanning(a, n, e, held, ranges)
<1> DEFINE h == [k \in 1..n |-> [v \in Scans |-> Visit(v, e[k], held, ranges)]]
<1>1. NoScan \in Scans
  BY EmptySeq DEF NoScan, Scans, Scan, Spans
<1>2. h \in [1..n -> [Scans -> Scans]]
  <2>1. \A k \in 1..n : \A v \in Scans : Visit(v, e[k], held, ranges) \in Scans
    BY VisitClosed
  <2> QED  BY <2>1
<1>3. PICK g \in [SUBSET (1..n) -> Scans] : Along(g, n, NoScan, h)
  <2> HIDE DEF h
  <2> QED  BY <1>1, <1>2, FoldAlong
<1>4. \A s \in SUBSET (1..n) :
          g[s] = IF s = {} THEN NoScan ELSE Visit(g[s \ {Max(s)}], e[Max(s)], held, ranges)
  BY <1>3 DEF Along
<1>5. PICK f : /\ Visits(f, e, held, ranges)
               /\ missing_spans(e, held, ranges) = Found(f[1..n])
  <2>1. Visits(g, e, held, ranges)
    BY <1>4 DEF Visits
  <2> QED  BY <2>1, MissingFold
<1> DEFINE a == [k \in 0..n |-> f[1..k]]
<1>6. a[0] = NoScan
  <2>1. 1..0 = {} /\ 1..0 \in SUBSET (1..n)
    OBVIOUS
  <2> QED  BY <1>5, <2>1 DEF Visits
<1>7. ASSUME NEW k \in 1..n PROVE a[k] = Visit(a[k - 1], e[k], held, ranges)
  <2>1. 1..k \in SUBSET (1..n) /\ 1..k # {} /\ Max(1..k) = k /\ (1..k) \ {Max(1..k)} = 1..(k - 1)
    BY Prefix
  <2>2. f[1..k] = Visit(f[1..(k - 1)], e[k], held, ranges)
    BY <1>5, <2>1 DEF Visits
  <2>3. k \in 0..n /\ k - 1 \in 0..n
    OBVIOUS
  <2> QED  BY <2>2, <2>3
<1>8. a[n] = f[1..n]
  OBVIOUS
<1> HIDE DEF a
<1>9. Scanning(a, n, e, held, ranges)
  BY <1>5, <1>6, <1>7, <1>8 DEF Scanning
<1> QED  BY <1>9

(* No span reaches m.                                                      *)
Before(q, m) == \A i \in 1..Len(q) : q[i].end < m

(* A span after all the others keeps them in order.                        *)
LEMMA AppendOrdered ==
  ASSUME NEW q \in Spans, Ordered(q), NEW x \in Span, x.start <= x.end, Before(q, x.start)
  PROVE  /\ Append(q, x) \in Spans /\ Ordered(Append(q, x)) /\ Before(Append(q, x), x.end + 1)
         /\ \A m : m \in Wanted(Append(q, x)) <=> m \in Wanted(q) \/ m \in x.start..x.end
<1> DEFINE n == Len(q)
           p == Append(q, x)
<1>1. /\ p \in Spans /\ Len(p) = n + 1 /\ n \in Nat
      /\ \A i \in 1..n : p[i] = q[i]
      /\ p[n + 1] = x
  BY AppendSpan, SpansAre
<1>2. /\ \A i \in 1..n : q[i].start \in Nat /\ q[i].end \in Nat
      /\ x.start \in Nat /\ x.end \in Nat
  BY SpansAre, SpanIs
<1>3. /\ \A i \in 1..n : q[i].start <= q[i].end /\ q[i].end < x.start
      /\ \A i, j \in 1..n : i < j => q[i].end < q[j].start
  BY DEF Ordered, Before
<1>4. \A m : m \in Wanted(p) <=> m \in Nat /\ \E k \in 1..Len(p) : p[k].start <= m /\ m <= p[k].end
  BY <1>1, InWanted
<1>5. \A m : m \in Wanted(q) <=> m \in Nat /\ \E k \in 1..n : q[k].start <= m /\ m <= q[k].end
  BY InWanted
<1> HIDE DEF n, p
<1>6. 1..Len(p) = (1..n) \cup {n + 1} /\ n + 1 \notin 1..n
  BY <1>1
<1>7. \A i \in 1..Len(p) : p[i].start <= p[i].end
  BY <1>1, <1>3, <1>6
<1>8. ASSUME NEW i \in 1..Len(p), NEW j \in 1..Len(p), i < j PROVE p[i].end < p[j].start
  <2>1. i \in 1..n
    BY <1>1, <1>8
  <2>2. CASE j = n + 1
    BY <1>1, <1>3, <2>1, <2>2
  <2>3. CASE j \in 1..n
    BY <1>1, <1>3, <1>8, <2>1, <2>3
  <2> QED  BY <1>6, <2>2, <2>3
<1>9. \A i \in 1..Len(p) : p[i].end < x.end + 1
  <2>1. \A i \in 1..n : q[i].end < x.end + 1
    BY <1>2, <1>3
  <2> QED  BY <1>1, <1>2, <1>6, <2>1
<1>10. ASSUME NEW m PROVE m \in Wanted(p) <=> m \in Wanted(q) \/ m \in x.start..x.end
  <2>1. m \in x.start..x.end <=> m \in Nat /\ x.start <= m /\ m <= x.end
    BY <1>2
  <2> QED  BY <1>1, <1>4, <1>5, <1>6, <2>1
<1> QED  BY <1>1, <1>7, <1>8, <1>9, <1>10 DEF Ordered, Before, p

(* The last span may grow.                                                 *)
LEMMA LongerOrdered ==
  ASSUME NEW q \in Spans, Ordered(q), q # <<>>, NEW m \in Nat, m = q[Len(q)].end + 1
  PROVE  /\ Longer(q, m) \in Spans /\ Ordered(Longer(q, m)) /\ Before(Longer(q, m), m + 1)
         /\ \A x : x \in Wanted(Longer(q, m)) <=> x \in Wanted(q) \/ x = m
<1> DEFINE n == Len(q)
           p == Longer(q, m)
<1>1. /\ p \in Spans /\ Len(p) = n /\ n \in Nat /\ n > 0
      /\ \A i \in 1..n : i # n => p[i] = q[i]
      /\ p[n].start = q[n].start /\ p[n].end = m
  <2>1. n \in Nat /\ n > 0
    BY SpansAre
  <2>2. /\ p \in Spans /\ Len(p) = n /\ \A i \in 1..n : i # n => p[i] = q[i]
        /\ p[n] = [start |-> q[n].start, end |-> m]
    BY LongerIs
  <2> QED  BY <2>1, <2>2
<1>2. \A i \in 1..n : q[i].start \in Nat /\ q[i].end \in Nat
  BY SpansAre
<1>3. /\ \A i \in 1..n : q[i].start <= q[i].end
      /\ \A i, j \in 1..n : i < j => q[i].end < q[j].start
      /\ m = q[n].end + 1
  BY DEF Ordered
<1>4. \A x : x \in Wanted(p) <=> x \in Nat /\ \E k \in 1..n : p[k].start <= x /\ x <= p[k].end
  BY <1>1, InWanted
<1>5. \A x : x \in Wanted(q) <=> x \in Nat /\ \E k \in 1..n : q[k].start <= x /\ x <= q[k].end
  BY InWanted
<1> HIDE DEF n, p
<1>6. n \in 1..n /\ \A i \in 1..n : i # n => i < n
  BY <1>1
<1>7. \A i \in 1..n : p[i].start = q[i].start /\ p[i].end = IF i = n THEN m ELSE q[i].end
  BY <1>1
<1>8. \A i \in 1..n : p[i].start <= p[i].end
  <2>1. q[n].start <= m
    BY <1>2, <1>3, <1>6
  <2> QED  BY <1>3, <1>7, <2>1
<1>9. \A i, j \in 1..n : i < j => p[i].end < p[j].start
  <2> SUFFICES ASSUME NEW i \in 1..n, NEW j \in 1..n, i < j PROVE p[i].end < p[j].start
    OBVIOUS
  <2>1. i # n
    BY <1>1
  <2> QED  BY <1>3, <1>7, <2>1
<1>10. \A i \in 1..n : p[i].end < m + 1
  <2> SUFFICES ASSUME NEW i \in 1..n PROVE p[i].end < m + 1
    OBVIOUS
  <2>1. CASE i = n
    BY <1>7, <2>1
  <2>2. CASE i # n
    <3>1. q[i].end < q[n].start /\ q[n].start <= q[n].end
      BY <1>3, <1>6, <2>2
    <3>2. p[i].end = q[i].end
      BY <1>7, <2>2
    <3> QED  BY <1>2, <1>3, <1>6, <3>1, <3>2
  <2> QED  BY <2>1, <2>2
<1>11. ASSUME NEW x PROVE x \in Wanted(p) <=> x \in Wanted(q) \/ x = m
  <2>1. ASSUME NEW k \in 1..n, x \in Nat
        PROVE  p[k].start <= x /\ x <= p[k].end
                 <=> (q[k].start <= x /\ x <= q[k].end) \/ (k = n /\ x = m)
    <3>1. CASE k = n
      <4>1. q[n].start \in Nat /\ q[n].end \in Nat /\ q[n].start <= q[n].end
        BY <1>2, <1>3, <1>6
      <4>2. p[k].start = q[n].start /\ p[k].end = m
        BY <1>7, <3>1
      <4> QED  BY <1>3, <2>1, <3>1, <4>1, <4>2
    <3>2. CASE k # n
      BY <1>7, <3>2
    <3> QED  BY <3>1, <3>2
  <2> QED  BY <1>4, <1>5, <1>6, <2>1
<1> QED  BY <1>1, <1>8, <1>9, <1>10, <1>11 DEF Ordered, Before, p

(* A visit keeps the spans in order.                                       *)
LEMMA GrownOrdered ==
  ASSUME NEW q \in Spans, Ordered(q), NEW m \in Nat, Before(q, m),
         NEW missing \in BOOLEAN, NEW new, Grown(q, new, m, missing)
  PROVE  /\ new \in Spans /\ Ordered(new) /\ Before(new, m + 1)
         /\ \A x : x \in Wanted(new) <=> x \in Wanted(q) \/ (missing /\ x = m)
<1>1. CASE missing /\ q # <<>> /\ m = q[Len(q)].end + 1 /\ new = Longer(q, m)
  BY <1>1, LongerOrdered
<1>2. CASE missing /\ new = Append(q, Minute(m))
  <2>1. Minute(m) \in Span /\ Minute(m).start = m /\ Minute(m).end = m
    BY DEF Minute, Span
  <2>2. \A x : x \in m..m <=> x = m
    OBVIOUS
  <2>3. m <= m
    OBVIOUS
  <2> QED  BY <1>2, <2>1, <2>2, <2>3, AppendOrdered
<1>3. CASE ~missing /\ new = q
  <2>1. Before(q, m + 1)
    <3>1. \A i \in 1..Len(q) : q[i].end \in Nat
      BY SpansAre
    <3> QED  BY <3>1 DEF Before
  <2> QED  BY <1>3, <2>1
<1> QED  BY <1>1, <1>2, <1>3 DEF Grown

(* missing_spans finds the missing minutes among the expected ones, as     *)
(* spans in order.                                                         *)
Rising(e, n) ==
    /\ DOMAIN e = 1..n /\ \A k \in 1..n : e[k] \in Nat
    /\ \A i, j \in 1..n : i < j => e[i] < e[j]

(* missing_spans finds exactly the missing minutes, in order.              *)
LEMMA MissingSpansExact ==
  ASSUME NEW e, NEW n \in Nat, Rising(e, n), NEW held, NEW ranges
  PROVE  LET q == missing_spans(e, held, ranges)
         IN /\ q \in Spans /\ Ordered(q)
            /\ \A x : x \in Wanted(q)
                        <=> \E k \in 1..n : x = e[k] /\ Missing(e[k], held, ranges)
<1> DEFINE q == missing_spans(e, held, ranges)
<1>1. /\ DOMAIN e = 1..n /\ \A k \in 1..n : e[k] \in Nat
      /\ \A i, j \in 1..n : i < j => e[i] < e[j]
  BY DEF Rising
<1>2. PICK a : /\ a[0] = NoScan
               /\ \A k \in 1..n : a[k] = Visit(a[k - 1], e[k], held, ranges)
               /\ q = Found(a[n])
  <2>1. PICK a : Scanning(a, n, e, held, ranges)
    BY <1>1, ScanSteps
  <2> QED  BY <2>1 DEF Scanning
<1> HIDE DEF q
<1> DEFINE Inv(k) ==
       /\ a[k] \in Scans
       /\ Found(a[k]) \in Spans /\ Ordered(Found(a[k]))
       /\ \A j \in 1..n : j > k => Before(Found(a[k]), e[j])
       /\ \A x : x \in Wanted(Found(a[k]))
                   <=> \E j \in 1..k : x = e[j] /\ Missing(e[j], held, ranges)
       P == {k \in Nat : k <= n => Inv(k)}
<1>3. 0 \in P
  <2>1. Found(NoScan) = <<>>
    BY DEF Found, NoScan
  <2>2. NoScan \in Scans /\ <<>> \in Spans /\ Len(<<>>) = 0
    BY EmptySeq DEF NoScan, Scans, Scan, Spans
  <2>3. 1..0 = {}
    OBVIOUS
  <2>4. Ordered(<<>>) /\ \A m : Before(<<>>, m) /\ m \notin Wanted(<<>>)
    BY <2>2, <2>3, InWanted DEF Ordered, Before
  <2>5. Inv(0)
    BY <1>2, <2>1, <2>2, <2>3, <2>4
  <2> HIDE DEF Inv
  <2> QED  BY <2>5
<1>4. ASSUME NEW k \in Nat, k \in P PROVE k + 1 \in P
  <2> SUFFICES ASSUME k + 1 <= n PROVE Inv(k + 1)
    <3> HIDE DEF Inv
    <3> QED  OBVIOUS
  <2> DEFINE v == a[k]
             m == e[k + 1]
             mis == Missing(m, held, ranges)
             new == Visit(v, m, held, ranges)
  <2>1. k + 1 \in 1..n /\ (k + 1) - 1 = k /\ k <= n
    OBVIOUS
  <2>2. Inv(k)
    <3> HIDE DEF Inv
    <3> QED  BY <1>4, <2>1
  <2>3. a[k + 1] = new /\ m \in Nat
    BY <1>1, <1>2, <2>1
  <2>4. v \in Scans /\ Found(v) \in Spans /\ Ordered(Found(v)) /\ Before(Found(v), m)
    BY <2>1, <2>2
  <2>5. new \in Scans /\ Grown(Found(v), Found(new), m, mis)
    <3> HIDE DEF v, m
    <3> QED  BY <2>3, <2>4, VisitClosed
  <2>6. mis \in BOOLEAN
    BY DEF Missing
  <2>7. /\ Found(new) \in Spans /\ Ordered(Found(new)) /\ Before(Found(new), m + 1)
        /\ \A x : x \in Wanted(Found(new)) <=> x \in Wanted(Found(v)) \/ (mis /\ x = m)
    <3> HIDE DEF v, m, mis, new
    <3> QED  BY <2>3, <2>4, <2>5, <2>6, GrownOrdered
  <2>8. ASSUME NEW j \in 1..n, j > k + 1 PROVE Before(Found(new), e[j])
    <3>1. m + 1 <= e[j] /\ e[j] \in Nat
      BY <1>1, <2>1, <2>8
    <3>2. \A i \in 1..Len(Found(new)) : Found(new)[i].end \in Nat /\ Found(new)[i].end < m + 1
      BY <2>7, SpansAre DEF Before
    <3> HIDE DEF v, m, mis, new
    <3>3. \A i \in 1..Len(Found(new)) : Found(new)[i].end < e[j]
      BY <2>3, <3>1, <3>2
    <3> QED  BY <3>3 DEF Before
  <2>9. \A x : x \in Wanted(Found(new))
                 <=> \E j \in 1..(k + 1) : x = e[j] /\ Missing(e[j], held, ranges)
    <3>1. 1..(k + 1) = 1..k \cup {k + 1}
      OBVIOUS
    <3>2. \A x : x \in Wanted(Found(v)) <=> \E j \in 1..k : x = e[j] /\ Missing(e[j], held, ranges)
      BY <2>2
    <3>3. \A x : x \in Wanted(Found(new)) <=> x \in Wanted(Found(v)) \/ (mis /\ x = m)
      BY <2>7
    <3> HIDE DEF v, new
    <3> QED  BY <3>1, <3>2, <3>3
  <2> HIDE DEF v, m, mis, new
  <2> QED  BY <2>3, <2>5, <2>7, <2>8, <2>9
<1>5. Inv(n)
  <2> HIDE DEF Inv
  <2>1. Nat \subseteq P
    <3> HIDE DEF P
    <3> QED  BY <1>3, <1>4, Counting
  <2> QED  BY <2>1
<1> QED  BY <1>2, <1>5 DEF q

-----------------------------------------------------------------------------
(* open_minutes and missing_spans.                                         *)

(* A step of open_minutes, and the recursion of its fold.                  *)
Keep(acc, m, closed) == IF m \in closed THEN acc ELSE Append(acc, m)

Keeping(f, e, closed) ==
    f = [s \in SUBSET (DOMAIN e) |->
           IF s = {} THEN <<>> ELSE Keep(f[s \ {Max(s)}], e[Max(s)], closed)]

AllMinutes(window) ==
    [k \in 1..(window.end - window.start + 1) |-> window.start + k - 1]

(* open_minutes is a recursion over the minutes of the window.             *)
LEMMA OpenFold ==
  ASSUME NEW window, NEW closed, NEW g, Keeping(g, AllMinutes(window), closed)
  PROVE  \E f : /\ Keeping(f, AllMinutes(window), closed)
                /\ open_minutes(window, closed) = f[DOMAIN AllMinutes(window)]
<1> DEFINE e == AllMinutes(window)
<1>1. open_minutes(window, closed)
        = FoldLeft(LAMBDA acc, m : IF m \in closed THEN acc ELSE Append(acc, m), <<>>, e)
  BY DEF open_minutes, AllMinutes
<1>2. Keeping(g, e, closed)
  OBVIOUS
<1> HIDE DEF e
<1>3. \E f : /\ Keeping(f, e, closed)
             /\ FoldLeft(LAMBDA acc, m : IF m \in closed THEN acc ELSE Append(acc, m), <<>>, e)
                  = f[DOMAIN e]
  BY <1>2 DEF FoldLeft, MapThenFoldSet, Keeping, Keep
<1> QED  BY <1>1, <1>3 DEF e

(* Sequences of minutes.                                                   *)
Series == Seq(Nat)

(* One more minute.                                                        *)
LEMMA AppendMinute ==
  ASSUME NEW q \in Series, NEW m \in Nat
  PROVE  /\ Len(q) \in Nat /\ DOMAIN q = 1..Len(q) /\ \A i \in 1..Len(q) : q[i] \in Nat
         /\ Append(q, m) \in Series /\ Len(Append(q, m)) = Len(q) + 1
         /\ \A i \in 1..Len(q) : Append(q, m)[i] = q[i]
         /\ Append(q, m)[Len(q) + 1] = m
BY AppendProperties, LenProperties, ElementOfSeq DEF Series

Opens(a, n, window, closed) ==
    /\ a[0] = <<>>
    /\ \A k \in 1..n : a[k] = Keep(a[k - 1], window.start + k - 1, closed)
    /\ open_minutes(window, closed) = a[n]

Lasts(window, n) == window.end - window.start + 1 = n

(* The loop of open_minutes looks at the minutes one by one.               *)
LEMMA OpenSteps ==
  ASSUME NEW window, NEW closed, NEW n \in Nat, window.start \in Nat, Lasts(window, n)
  PROVE  \E a : Opens(a, n, window, closed)
<1> DEFINE e == AllMinutes(window)
           h == [k \in 1..n |-> [v \in Series |-> Keep(v, e[k], closed)]]
<1>1. DOMAIN e = 1..n /\ \A k \in 1..n : e[k] = window.start + k - 1 /\ e[k] \in Nat
  BY DEF AllMinutes, Lasts
<1> HIDE DEF e
<1>2. <<>> \in Series
  BY DEF Series
<1>3. h \in [1..n -> [Series -> Series]]
  <2>1. \A k \in 1..n : \A v \in Series : Keep(v, e[k], closed) \in Series
    BY <1>1, AppendMinute DEF Keep
  <2> QED  BY <2>1
<1>4. PICK g \in [SUBSET (1..n) -> Series] : Along(g, n, <<>>, h)
  <2> HIDE DEF h
  <2> QED  BY <1>2, <1>3, FoldAlong
<1>5. \A s \in SUBSET (1..n) :
          g[s] = IF s = {} THEN <<>> ELSE Keep(g[s \ {Max(s)}], e[Max(s)], closed)
  BY <1>4 DEF Along
<1>6. PICK f : Keeping(f, e, closed) /\ open_minutes(window, closed) = f[1..n]
  <2>1. Keeping(g, e, closed)
    BY <1>1, <1>5 DEF Keeping
  <2> QED  BY <1>1, <2>1, OpenFold DEF e
<1> DEFINE a == [k \in 0..n |-> f[1..k]]
<1>7. a[0] = <<>>
  <2>1. 1..0 = {} /\ 1..0 \in SUBSET (1..n)
    OBVIOUS
  <2> QED  BY <1>1, <1>6, <2>1 DEF Keeping
<1>8. ASSUME NEW k \in 1..n PROVE a[k] = Keep(a[k - 1], e[k], closed)
  <2>1. 1..k \in SUBSET (1..n) /\ 1..k # {} /\ Max(1..k) = k /\ (1..k) \ {Max(1..k)} = 1..(k - 1)
    BY Prefix
  <2>2. f[1..k] = Keep(f[1..(k - 1)], e[k], closed)
    BY <1>1, <1>6, <2>1 DEF Keeping
  <2>3. k \in 0..n /\ k - 1 \in 0..n
    OBVIOUS
  <2> QED  BY <2>2, <2>3
<1>9. a[n] = f[1..n]
  OBVIOUS
<1> HIDE DEF a
<1> QED  BY <1>1, <1>6, <1>7, <1>8, <1>9 DEF Opens

(* The open minutes rise, and are those of the window that are not closed. *)
LEMMA OpenMinutesExact ==
  ASSUME NEW window, NEW closed, window.start \in Nat, window.end \in Nat,
         window.start <= window.end
  PROVE  LET q == open_minutes(window, closed)
         IN /\ Len(q) \in Nat /\ Rising(q, Len(q))
            /\ \A x : x \in each_minute(window) \ closed <=> \E k \in 1..Len(q) : x = q[k]
<1> DEFINE n == window.end - window.start + 1
           w == window.start
<1>1. n \in Nat /\ w \in Nat /\ window.end = w + n - 1
  OBVIOUS
<1>2. PICK a : /\ a[0] = <<>>
               /\ \A k \in 1..n : a[k] = Keep(a[k - 1], w + k - 1, closed)
               /\ open_minutes(window, closed) = a[n]
  <2>1. n \in Nat /\ Lasts(window, n)
    BY <1>1 DEF Lasts
  <2> HIDE DEF n
  <2>2. \E a : Opens(a, n, window, closed)
    BY <2>1, OpenSteps
  <2> QED  BY <2>2 DEF Opens, w
<1> HIDE DEF n, w
<1> DEFINE Inv(k) ==
       /\ a[k] \in Series
       /\ \A i \in 1..Len(a[k]) : a[k][i] < w + k
       /\ \A i, j \in 1..Len(a[k]) : i < j => a[k][i] < a[k][j]
       /\ \A x : x \in w..(w + k - 1) /\ x \notin closed <=> \E i \in 1..Len(a[k]) : x = a[k][i]
       P == {k \in Nat : k <= n => Inv(k)}
<1>3. 0 \in P
  <2>1. <<>> \in Series /\ Len(<<>>) = 0
    BY EmptySeq DEF Series
  <2>2. 1..0 = {} /\ w..(w + 0 - 1) = {}
    BY <1>1
  <2>3. Inv(0)
    BY <1>2, <2>1, <2>2
  <2> HIDE DEF Inv
  <2> QED  BY <2>3
<1>4. ASSUME NEW k \in Nat, k \in P PROVE k + 1 \in P
  <2> SUFFICES ASSUME k + 1 <= n PROVE Inv(k + 1)
    <3> HIDE DEF Inv
    <3> QED  OBVIOUS
  <2> DEFINE q == a[k]
             m == w + k
  <2>1. k + 1 \in 1..n /\ (k + 1) - 1 = k /\ w + (k + 1) - 1 = m /\ k <= n /\ m \in Nat
    BY <1>1
  <2>2. Inv(k)
    <3> HIDE DEF Inv
    <3> QED  BY <1>4, <2>1
  <2>3. a[k + 1] = Keep(q, m, closed)
    BY <1>2, <2>1
  <2>4. /\ q \in Series
        /\ \A i \in 1..Len(q) : q[i] < m
        /\ \A i, j \in 1..Len(q) : i < j => q[i] < q[j]
        /\ \A x : x \in w..(w + k - 1) /\ x \notin closed <=> \E i \in 1..Len(q) : x = q[i]
    BY <2>2
  <2>5. /\ Len(q) \in Nat /\ \A i \in 1..Len(q) : q[i] \in Nat
        /\ Append(q, m) \in Series /\ Len(Append(q, m)) = Len(q) + 1
        /\ \A i \in 1..Len(q) : Append(q, m)[i] = q[i]
        /\ Append(q, m)[Len(q) + 1] = m
    BY <2>1, <2>4, AppendMinute
  <2>6. \A x : x \in w..(w + (k + 1) - 1) <=> x \in w..(w + k - 1) \/ x = m
    BY <1>1
  <2>7. \A i \in 1..Len(q) : q[i] < w + (k + 1)
    <3>1. m < w + (k + 1) /\ m \in Nat /\ w \in Nat
      BY <1>1
    <3> HIDE DEF m, q
    <3> QED  BY <2>4, <2>5, <3>1
  <2>8. m < w + (k + 1)
    BY <1>1
  <2> HIDE DEF m, q
  <2>9. CASE m \in closed
    <3>1. a[k + 1] = q
      BY <2>3, <2>9 DEF Keep
    <3> QED  BY <2>4, <2>6, <2>7, <2>9, <3>1
  <2>10. CASE m \notin closed
    <3> DEFINE p == Append(q, m)
               l == Len(q)
    <3>1. a[k + 1] = p
      BY <2>3, <2>10 DEF Keep
    <3>2. /\ l \in Nat /\ Len(p) = l + 1 /\ p \in Series
          /\ \A i \in 1..l : p[i] = q[i]
          /\ p[l + 1] = m
      BY <2>5
    <3>3. /\ \A i \in 1..l : q[i] < m
          /\ \A i, j \in 1..l : i < j => q[i] < q[j]
          /\ \A x : x \in w..(w + k - 1) /\ x \notin closed <=> \E i \in 1..l : x = q[i]
          /\ \A i \in 1..l : q[i] < w + (k + 1)
      BY <2>4, <2>7
    <3> HIDE DEF p, l, Series
    <3>4. 1..(l + 1) = 1..l \cup {l + 1} /\ l + 1 \notin 1..l
      BY <3>2
    <3>5. \A i \in 1..(l + 1) : p[i] < w + (k + 1)
      BY <2>8, <3>2, <3>3, <3>4
    <3>6. ASSUME NEW i \in 1..(l + 1), NEW j \in 1..(l + 1), i < j PROVE p[i] < p[j]
      <4>1. i \in 1..l
        BY <3>2, <3>6
      <4>2. CASE j = l + 1
        BY <3>2, <3>3, <4>1, <4>2
      <4>3. CASE j \in 1..l
        BY <3>2, <3>3, <3>6, <4>1, <4>3
      <4> QED  BY <3>4, <4>2, <4>3
    <3>7. \A x : x \in w..(w + (k + 1) - 1) /\ x \notin closed <=> \E i \in 1..(l + 1) : x = p[i]
      BY <2>6, <2>10, <3>2, <3>3, <3>4
    <3> QED  BY <3>1, <3>2, <3>5, <3>6, <3>7
  <2> QED  BY <2>9, <2>10
<1>5. Inv(n)
  <2> HIDE DEF Inv
  <2>1. Nat \subseteq P
    <3> HIDE DEF P
    <3> QED  BY <1>3, <1>4, Counting
  <2> QED  BY <1>1, <2>1
<1> DEFINE q == a[n]
<1>6. Len(q) \in Nat /\ DOMAIN q = 1..Len(q) /\ \A i \in 1..Len(q) : q[i] \in Nat
  BY <1>5, AppendMinute
<1>7. Rising(q, Len(q))
  BY <1>5, <1>6 DEF Rising
<1>8. each_minute(window) = w..(w + n - 1)
  BY <1>1 DEF each_minute, w
<1>9. \A x : x \in w..(w + n - 1) /\ x \notin closed <=> \E i \in 1..Len(q) : x = q[i]
  BY <1>5
<1> HIDE DEF q, Inv
<1> QED  BY <1>2, <1>6, <1>7, <1>8, <1>9 DEF q

-----------------------------------------------------------------------------
(* split_by_days.                                                          *)

(* Days are intervals of DayLen minutes, in order.                         *)
LEMMA DayIs ==
  ASSUME NEW m \in Nat
  PROVE  Day(m) \in Nat /\ Day(m) * DayLen <= m /\ m < (Day(m) + 1) * DayLen
<1>1. DayLen \in Nat /\ DayLen > 0
  BY PlanAssumption
<1> QED  BY <1>1 DEF Day

(* Products of numbers are numbers.                                        *)
LEMMA Times ==
  ASSUME NEW a \in Nat, NEW b \in Nat, a <= b, NEW d \in Nat
  PROVE  a * d \in Nat /\ b * d \in Nat /\ a * d <= b * d
OBVIOUS

(* Days do not go back.                                                    *)
LEMMA DayRises ==
  ASSUME NEW m \in Nat, NEW n \in Nat, m <= n
  PROVE  Day(m) <= Day(n)
<1>1. DayLen \in Nat /\ DayLen > 0
  BY PlanAssumption
<1>2. SUFFICES ASSUME Day(n) + 1 <= Day(m) PROVE FALSE
  BY DayIs
<1>3. (Day(n) + 1) * DayLen <= Day(m) * DayLen
  BY <1>1, <1>2, DayIs, Times
<1> QED  BY <1>1, <1>3, DayIs

(* Below a day's end is in the day or before.                              *)
LEMMA DayBefore ==
  ASSUME NEW m \in Nat, NEW d \in Nat
  PROVE  m < d * DayLen <=> Day(m) < d
<1>1. DayLen \in Nat /\ DayLen > 0
  BY PlanAssumption
<1>2. Day(m) \in Nat /\ Day(m) * DayLen <= m /\ m < (Day(m) + 1) * DayLen
  BY DayIs
<1>3. CASE Day(m) < d
  <2>1. (Day(m) + 1) * DayLen <= d * DayLen
    BY <1>1, <1>2, <1>3, Times
  <2> QED  BY <1>1, <1>2, <1>3, <2>1
<1>4. CASE d <= Day(m)
  <2>1. d * DayLen <= Day(m) * DayLen /\ d * DayLen \in Nat /\ Day(m) * DayLen \in Nat
    BY <1>1, <1>2, <1>4, Times
  <2> QED  BY <1>1, <1>2, <1>4, <2>1
<1> QED  BY <1>2, <1>3, <1>4

(* What div leaves is less than the divisor.                               *)
LEMMA Division ==
  ASSUME NEW a \in Nat, NEW d \in Nat, d > 0
  PROVE  a \div d \in Nat /\ (a \div d) * d <= a /\ a < (a \div d + 1) * d
OBVIOUS

(* One more multiple.                                                      *)
LEMMA Plus ==
  ASSUME NEW k \in Nat, NEW d \in Nat
  PROVE  (k + 1) * d = k * d + d /\ k * d \in Nat
OBVIOUS

(* Where part k of a span ends, and how many there are.                    *)
Edge(span, k) == (Day(span.start) + k * DaysPerRequest) * DayLen
Parts(span)   == (Day(span.end) - Day(span.start)) \div DaysPerRequest + 1

(* The parts of a span, by their number.                                   *)
LEMMA SplitIs ==
  ASSUME NEW span
  PROVE  split_by_days(span)
           = [k \in 1..Parts(span) |->
                [start |-> IF k = 1 THEN span.start ELSE Edge(span, k - 1),
                 end   |-> Smaller(span.end, Edge(span, k) - 1)]]
BY DEF split_by_days, Edge, Parts

(* The boundaries between the parts.                                       *)
LEMMA EdgeIs ==
  ASSUME NEW span \in Span, span.start <= span.end, NEW k \in Nat
  PROVE  /\ Edge(span, k) \in Nat
         /\ \A x \in Nat : x < Edge(span, k) <=> Day(x) < Day(span.start) + k * DaysPerRequest
<1>1. DaysPerRequest \in Nat /\ DayLen \in Nat /\ span.start \in Nat
  BY PlanAssumption, SpanIs
<1>2. Day(span.start) \in Nat
  BY <1>1, DayIs
<1> DEFINE d == Day(span.start) + k * DaysPerRequest
<1>3. d \in Nat
  BY <1>1, <1>2, Plus
<1> HIDE DEF d
<1>4. d * DayLen \in Nat
  BY <1>1, <1>3, Plus
<1>5. Edge(span, k) = d * DayLen
  BY DEF Edge, d
<1>6. \A x \in Nat : x < d * DayLen <=> Day(x) < d
  BY <1>3, DayBefore
<1> QED  BY <1>4, <1>5, <1>6 DEF d

(* The part a minute of the span falls in.                                 *)
LEMMA PartOf ==
  ASSUME NEW span \in Span, span.start <= span.end, NEW x \in Nat,
         span.start <= x, x <= span.end
  PROVE  \E k \in 1..Parts(span) : (k > 1 => Edge(span, k - 1) <= x) /\ x < Edge(span, k)
<1> DEFINE D  == DaysPerRequest
           d0 == Day(span.start)
           d1 == Day(span.end)
           dx == Day(x)
           k  == (dx - d0) \div D
           p  == (d1 - d0) \div D
<1>1. D \in Nat /\ D > 0 /\ span.start \in Nat /\ span.end \in Nat
  BY PlanAssumption, SpanIs
<1>2. d0 \in Nat /\ d1 \in Nat /\ dx \in Nat /\ d0 <= dx /\ dx <= d1
  BY <1>1, DayIs, DayRises
<1> HIDE DEF D, d0, d1, dx
<1>3. k \in Nat /\ k * D <= dx - d0 /\ dx - d0 < (k + 1) * D
  <2>1. dx - d0 \in Nat
    BY <1>2
  <2> QED  BY <1>1, <2>1, Division
<1>4. p \in Nat /\ d1 - d0 < (p + 1) * D
  <2>1. d1 - d0 \in Nat
    BY <1>2
  <2> QED  BY <1>1, <2>1, Division
<1> HIDE DEF k, p
<1>5. k <= p
  <2> SUFFICES ASSUME p + 1 <= k PROVE FALSE
    BY <1>3, <1>4
  <2>1. (p + 1) * D <= k * D /\ (p + 1) * D \in Nat /\ k * D \in Nat
    BY <1>1, <1>3, <1>4, Times
  <2> QED  BY <1>2, <1>3, <1>4, <2>1
<1>6. Parts(span) = p + 1 /\ k + 1 \in 1..(p + 1)
  BY <1>3, <1>4, <1>5 DEF Parts, p, d0, d1, D
<1>7. x < Edge(span, k + 1)
  <2>1. k + 1 \in Nat /\ (k + 1) * D \in Nat
    BY <1>1, <1>3, Plus
  <2>2. dx < d0 + (k + 1) * D
    BY <1>2, <1>3, <2>1
  <2> QED  BY <2>1, <2>2, EdgeIs DEF D, d0, dx
<1>8. Edge(span, k) <= x
  <2>1. k * D \in Nat
    BY <1>1, <1>3, Plus
  <2>2. ~(dx < d0 + k * D)
    BY <1>2, <1>3, <2>1
  <2>3. Edge(span, k) \in Nat /\ (x < Edge(span, k) <=> dx < d0 + k * D)
    BY <1>3, EdgeIs DEF D, d0, dx
  <2> QED  BY <2>2, <2>3
<1>9. (k + 1) - 1 = k
  BY <1>3
<1> QED  BY <1>6, <1>7, <1>8, <1>9

(* The edges of a span, relative to it and to each other.                  *)
LEMMA Edges ==
  ASSUME NEW span \in Span, span.start <= span.end
  PROVE  /\ Parts(span) \in Nat /\ Parts(span) >= 1
         /\ span.end < Edge(span, Parts(span))
         /\ \A k \in 1..Parts(span) :
              /\ Edge(span, k) \in Nat /\ span.start < Edge(span, k)
              /\ Edge(span, k - 1) \in Nat /\ Edge(span, k - 1) <= span.end
              /\ Edge(span, k - 1) < Edge(span, k)
         /\ \A i, j \in 1..Parts(span) : i < j => Edge(span, i) <= Edge(span, j - 1)
<1> DEFINE D  == DaysPerRequest
           d0 == Day(span.start)
           d1 == Day(span.end)
           p  == (d1 - d0) \div D
<1>1. D \in Nat /\ D > 0 /\ span.start \in Nat /\ span.end \in Nat /\ DayLen \in Nat /\ DayLen > 0
  BY PlanAssumption, SpanIs
<1>2. d0 \in Nat /\ d1 \in Nat /\ d0 <= d1
  BY <1>1, DayIs, DayRises
<1> HIDE DEF D, d0, d1
<1>3. p \in Nat /\ p * D <= d1 - d0 /\ d1 - d0 < (p + 1) * D
  <2>1. d1 - d0 \in Nat
    BY <1>2
  <2> QED  BY <1>1, <2>1, Division
<1>4. Parts(span) = p + 1
  BY DEF Parts, p, d0, d1, D
<1> HIDE DEF p
<1>5. ASSUME NEW k \in Nat
      PROVE  /\ Edge(span, k) \in Nat /\ k * D \in Nat
             /\ \A x \in Nat : x < Edge(span, k) <=> Day(x) < d0 + k * D
  BY <1>1, EdgeIs, Plus DEF d0, D
<1>6. span.end < Edge(span, p + 1)
  <2>1. p + 1 \in Nat /\ (p + 1) * D \in Nat /\ d1 < d0 + (p + 1) * D
    BY <1>1, <1>2, <1>3, Plus
  <2> QED  BY <1>1, <1>5, <2>1 DEF d1
<1>7. \A i \in Nat, j \in Nat : i <= j => Edge(span, i) <= Edge(span, j)
  <2> SUFFICES ASSUME NEW i \in Nat, NEW j \in Nat, i <= j PROVE Edge(span, i) <= Edge(span, j)
    OBVIOUS
  <2>1. i * D <= j * D /\ i * D \in Nat /\ j * D \in Nat
    BY <1>1, Times
  <2>2. d0 + i * D \in Nat /\ d0 + j * D \in Nat /\ d0 + i * D <= d0 + j * D
    BY <1>2, <2>1
  <2>3. (d0 + i * D) * DayLen <= (d0 + j * D) * DayLen
    BY <1>1, <2>2, Times
  <2> QED  BY <2>3 DEF Edge, d0, D
<1>8. ASSUME NEW k \in 1..(p + 1)
      PROVE  /\ Edge(span, k) \in Nat /\ span.start < Edge(span, k)
             /\ Edge(span, k - 1) \in Nat /\ Edge(span, k - 1) <= span.end
             /\ Edge(span, k - 1) < Edge(span, k)
  <2>1. k \in Nat /\ k - 1 \in Nat /\ (k - 1) + 1 = k /\ k - 1 <= p
    BY <1>3
  <2>2. k * D = (k - 1) * D + D /\ (k - 1) * D \in Nat /\ k * D \in Nat
    BY <1>1, <2>1, Plus
  <2>3. d0 < d0 + k * D
    BY <1>1, <1>2, <2>2
  <2>4. Edge(span, k) \in Nat /\ span.start < Edge(span, k)
    BY <1>1, <1>5, <2>1, <2>3 DEF d0
  <2>5. (k - 1) * D <= p * D /\ p * D \in Nat
    BY <1>1, <1>3, <2>1, Times
  <2>6. ~(d1 < d0 + (k - 1) * D)
    BY <1>2, <1>3, <2>2, <2>5
  <2>7. Edge(span, k - 1) \in Nat /\ ~(span.end < Edge(span, k - 1))
    BY <1>1, <1>5, <2>1, <2>6 DEF d1
  <2>8. Edge(span, k - 1) < Edge(span, k)
    <3> DEFINE a == d0 + (k - 1) * D
               b == d0 + k * D
    <3>1. a \in Nat /\ b \in Nat /\ a + 1 <= b
      BY <1>1, <1>2, <2>2
    <3> HIDE DEF a, b
    <3>2. (a + 1) * DayLen <= b * DayLen /\ (a + 1) * DayLen = a * DayLen + DayLen
          /\ a * DayLen \in Nat /\ b * DayLen \in Nat
      BY <1>1, <3>1, Times, Plus
    <3>3. a * DayLen < b * DayLen
      BY <1>1, <3>2
    <3> QED  BY <3>3 DEF Edge, a, b, d0, D
  <2> QED  BY <1>1, <2>4, <2>7, <2>8
<1>9. ASSUME NEW i \in 1..(p + 1), NEW j \in 1..(p + 1), i < j
      PROVE  Edge(span, i) <= Edge(span, j - 1)
  <2>1. i \in Nat /\ j - 1 \in Nat /\ i <= j - 1
    BY <1>3, <1>9
  <2> QED  BY <1>7, <2>1
<1> QED  BY <1>3, <1>4, <1>6, <1>8, <1>9

(* The parts of a span cover it in order, each within the days of one      *)
(* request.                                                                *)
ShortSpan(x) == Day(x.end) - Day(x.start) < DaysPerRequest
Short(q)     == \A k \in 1..Len(q) : ShortSpan(q[k])

(* split_by_days cuts a span into parts in order that cover it and fit.    *)
LEMMA SplitExact ==
  ASSUME NEW span \in Span, span.start <= span.end
  PROVE  LET q == split_by_days(span)
         IN /\ q \in Spans /\ q # <<>> /\ Ordered(q) /\ Short(q)
            /\ \A k \in 1..Len(q) : span.start <= q[k].start /\ q[k].end <= span.end
            /\ \A x : x \in Wanted(q) <=> x \in span.start..span.end
<1> DEFINE q == split_by_days(span)
           p == Parts(span)
           from(k) == IF k = 1 THEN span.start ELSE Edge(span, k - 1)
           to(k)   == Smaller(span.end, Edge(span, k) - 1)
<1>1. span.start \in Nat /\ span.end \in Nat
  BY SpanIs
<1>2. q = [k \in 1..p |-> [start |-> from(k), end |-> to(k)]]
  BY SplitIs
<1>3. p \in Nat /\ p >= 1
  BY Edges
<1>4. \A k \in 1..p : /\ from(k) \in Nat /\ to(k) \in Nat /\ from(k) <= to(k)
                      /\ span.start <= from(k) \/ k # 1
                      /\ to(k) <= span.end /\ to(k) < Edge(span, k)
  BY <1>1, Edges DEF Smaller
<1>5. \A k \in 1..p : q[k] \in Span /\ q[k].start = from(k) /\ q[k].end = to(k)
  <2> HIDE DEF from, to, q, p
  <2> QED  BY <1>2, <1>4 DEF Span
<1>6. q \in Spans /\ Len(q) = p
  <2> HIDE DEF from, to, p
  <2>1. q \in [1..p -> Span]
    BY <1>2, <1>5
  <2> HIDE DEF q
  <2>2. q \in Seq(Span) /\ Len(q) = p
    BY <1>3, <2>1
  <2> QED  BY <2>2 DEF Spans
<1>7. Ordered(q)
  <2>1. \A i, j \in 1..p : i < j => to(i) < from(j)
    <3> SUFFICES ASSUME NEW i \in 1..p, NEW j \in 1..p, i < j PROVE to(i) < from(j)
      OBVIOUS
    <3>1. to(i) < Edge(span, i) /\ Edge(span, i) <= Edge(span, j - 1) /\ j # 1
      BY <1>3, <1>4, Edges
    <3>2. from(j) = Edge(span, j - 1)
      BY <3>1
    <3>3. Edge(span, i) \in Nat /\ Edge(span, j - 1) \in Nat /\ to(i) \in Nat
      BY <1>4, Edges
    <3> HIDE DEF from, to
    <3> QED  BY <3>1, <3>2, <3>3
  <2> HIDE DEF from, to, q, p
  <2> QED  BY <1>4, <1>5, <1>6, <2>1 DEF Ordered
<1>8. \A k \in 1..p : span.start <= from(k)
  <2> SUFFICES ASSUME NEW k \in 1..p, k # 1 PROVE span.start <= Edge(span, k - 1)
    BY <1>1
  <2>1. k - 1 \in 1..p
    BY <1>3
  <2>2. span.start < Edge(span, k - 1) /\ Edge(span, k - 1) \in Nat
    BY <2>1, Edges
  <2> QED  BY <1>1, <2>2
<1>9. Short(q)
  <2> SUFFICES ASSUME NEW k \in 1..p PROVE Day(to(k)) - Day(from(k)) < DaysPerRequest
    <3> HIDE DEF from, to, q, p
    <3> QED  BY <1>5, <1>6 DEF Short, ShortSpan
  <2> DEFINE d0 == Day(span.start)
             D  == DaysPerRequest
  <2>1. from(k) \in Nat /\ to(k) \in Nat /\ to(k) < Edge(span, k)
    BY <1>4
  <2>2. k \in Nat /\ k - 1 \in Nat /\ (k - 1) + 1 = k
    BY <1>3
  <2>3. D \in Nat /\ d0 \in Nat
    BY <1>1, PlanAssumption, DayIs
  <2>4. k * D = (k - 1) * D + D /\ (k - 1) * D \in Nat
    BY <2>2, <2>3, Plus
  <2>5. Day(to(k)) < d0 + k * D /\ Day(to(k)) \in Nat /\ Day(from(k)) \in Nat
    <3> HIDE DEF from, to
    <3> QED  BY <2>1, <2>2, EdgeIs, DayIs
  <2>6. Day(from(k)) >= d0 + (k - 1) * D
    <3>1. CASE k = 1
      <4>1. from(k) = span.start /\ (k - 1) * D = 0
        BY <3>1, <2>3
      <4> QED  BY <2>3, <4>1
    <3>2. CASE k # 1
      <4>1. from(k) = Edge(span, k - 1)
        BY <3>2
      <4>2. Edge(span, k - 1) \in Nat /\ ~(from(k) < Edge(span, k - 1))
        BY <2>2, <4>1, EdgeIs
      <4>3. ~(Day(from(k)) < d0 + (k - 1) * D)
        <5> HIDE DEF from
        <5> QED  BY <2>1, <2>2, <4>2, EdgeIs
      <4> HIDE DEF from, d0
      <4> QED  BY <2>3, <2>4, <2>5, <4>3
    <3> QED  BY <3>1, <3>2
  <2> HIDE DEF from, to, d0, D
  <2>7. Day(to(k)) - Day(from(k)) < D
    BY <2>3, <2>4, <2>5, <2>6
  <2> QED  BY <2>7 DEF D
<1>10. ASSUME NEW x PROVE x \in Wanted(q) <=> x \in span.start..span.end
  <2>1. x \in Wanted(q) <=> x \in Nat /\ \E k \in 1..p : from(k) <= x /\ x <= to(k)
    <3> HIDE DEF from, to, q, p
    <3> QED  BY <1>5, <1>6, InWanted
  <2>2. ASSUME x \in Nat, NEW k \in 1..p, from(k) <= x, x <= to(k) PROVE x \in span.start..span.end
    <3>1. from(k) \in Nat /\ to(k) \in Nat /\ span.start <= from(k) /\ to(k) <= span.end
      BY <1>4, <1>8
    <3> HIDE DEF from, to
    <3> QED  BY <1>1, <2>2, <3>1
  <2>3. ASSUME x \in span.start..span.end
        PROVE  x \in Nat /\ \E k \in 1..p : from(k) <= x /\ x <= to(k)
    <3>1. x \in Nat /\ span.start <= x /\ x <= span.end
      BY <1>1, <2>3
    <3>2. PICK k \in 1..p : (k > 1 => Edge(span, k - 1) <= x) /\ x < Edge(span, k)
      BY <3>1, PartOf
    <3>3. Edge(span, k) \in Nat
      BY Edges
    <3>4. k = 1 \/ k > 1
      BY <1>3
    <3>5. from(k) <= x /\ x <= to(k)
      BY <1>1, <3>1, <3>2, <3>3, <3>4 DEF Smaller
    <3> QED  BY <3>1, <3>5
  <2> HIDE DEF from, to, p, q
  <2> QED  BY <2>1, <2>2, <2>3
<1>11. q # <<>>
  BY <1>3, <1>6, SpansAre
<1> HIDE DEF from, to, q, p
<1> QED  BY <1>4, <1>5, <1>6, <1>7, <1>8, <1>9, <1>10, <1>11 DEF q

-----------------------------------------------------------------------------
(* split_by_days over all spans of a plan.                                 *)

(* The parts of all spans.                                                 *)
PartsOf(ss) == FoldLeft(LAMBDA acc, span : acc \o split_by_days(span), <<>>, ss)

Splitting(f, e) ==
    f = [s \in SUBSET (DOMAIN e) |->
           IF s = {} THEN <<>> ELSE f[s \ {Max(s)}] \o split_by_days(e[Max(s)])]

(* The parts of all spans are a recursion over the spans.                  *)
LEMMA PartsFold ==
  ASSUME NEW e, NEW g, Splitting(g, e)
  PROVE  \E f : Splitting(f, e) /\ PartsOf(e) = f[DOMAIN e]
BY DEF PartsOf, FoldLeft, MapThenFoldSet, Splitting

(* A span that is not empty, and what splitting makes of it.               *)
Real == {x \in Span : x.start <= x.end}

Splits(a, n, e) ==
    /\ a[0] = <<>>
    /\ \A k \in 1..n : a[k] = a[k - 1] \o split_by_days(e[k])
    /\ PartsOf(e) = a[n]

(* The spans are split one by one.                                         *)
LEMMA PartsSteps ==
  ASSUME NEW e, NEW n \in Nat, DOMAIN e = 1..n, \A k \in 1..n : e[k] \in Real
  PROVE  \E a : Splits(a, n, e)
<1> DEFINE h == [k \in 1..n |-> [v \in Spans |-> v \o split_by_days(e[k])]]
<1>1. <<>> \in Spans
  BY DEF Spans
<1>2. h \in [1..n -> [Spans -> Spans]]
  <2>1. \A k \in 1..n : split_by_days(e[k]) \in Spans
    BY SplitExact DEF Real
  <2>2. \A k \in 1..n : \A v \in Spans : v \o split_by_days(e[k]) \in Spans
    BY <2>1, ConcatSpans
  <2> QED  BY <2>2
<1>3. PICK g \in [SUBSET (1..n) -> Spans] : Along(g, n, <<>>, h)
  <2> HIDE DEF h
  <2> QED  BY <1>1, <1>2, FoldAlong
<1>4. \A s \in SUBSET (1..n) :
          g[s] = IF s = {} THEN <<>> ELSE g[s \ {Max(s)}] \o split_by_days(e[Max(s)])
  BY <1>3 DEF Along
<1>5. PICK f : Splitting(f, e) /\ PartsOf(e) = f[1..n]
  <2>1. Splitting(g, e)
    BY <1>4 DEF Splitting
  <2> QED  BY <2>1, PartsFold
<1> DEFINE a == [k \in 0..n |-> f[1..k]]
<1>6. a[0] = <<>>
  <2>1. 1..0 = {} /\ 1..0 \in SUBSET (1..n)
    OBVIOUS
  <2> QED  BY <1>5, <2>1 DEF Splitting
<1>7. ASSUME NEW k \in 1..n PROVE a[k] = a[k - 1] \o split_by_days(e[k])
  <2>1. 1..k \in SUBSET (1..n) /\ 1..k # {} /\ Max(1..k) = k /\ (1..k) \ {Max(1..k)} = 1..(k - 1)
    BY Prefix
  <2>2. f[1..k] = f[1..(k - 1)] \o split_by_days(e[k])
    BY <1>5, <2>1 DEF Splitting
  <2>3. k \in 0..n /\ k - 1 \in 0..n
    OBVIOUS
  <2> QED  BY <2>2, <2>3
<1>8. a[n] = f[1..n]
  OBVIOUS
<1> HIDE DEF a
<1> QED  BY <1>5, <1>6, <1>7, <1>8 DEF Splits

(* Spans after spans.                                                      *)
LEMMA ConcatOrdered ==
  ASSUME NEW q \in Spans, Ordered(q), Short(q), NEW p \in Spans, Ordered(p), Short(p),
         NEW m \in Nat, NEW n \in Nat, Before(q, m),
         \A k \in 1..Len(p) : m <= p[k].start /\ p[k].end <= n
  PROVE  /\ q \o p \in Spans /\ Ordered(q \o p) /\ Short(q \o p)
         /\ m <= n + 1 => Before(q \o p, n + 1)
         /\ \A x : x \in Wanted(q \o p) <=> x \in Wanted(q) \/ x \in Wanted(p)
<1> DEFINE r == q \o p
           a == Len(q)
           b == Len(p)
<1>1. /\ r \in Spans /\ Len(r) = a + b /\ a \in Nat /\ b \in Nat
      /\ \A i \in 1..a : r[i] = q[i] /\ q[i].start \in Nat /\ q[i].end \in Nat
      /\ \A i \in 1..b : r[a + i] = p[i] /\ p[i].start \in Nat /\ p[i].end \in Nat
  BY ConcatSpans, SpansAre
<1>2. /\ \A i \in 1..a : q[i].start <= q[i].end /\ q[i].end < m /\ ShortSpan(q[i])
      /\ \A i, j \in 1..a : i < j => q[i].end < q[j].start
      /\ \A i \in 1..b : p[i].start <= p[i].end /\ m <= p[i].start /\ p[i].end <= n
                         /\ ShortSpan(p[i])
      /\ \A i, j \in 1..b : i < j => p[i].end < p[j].start
  BY DEF Ordered, Before, Short
<1>3. /\ \A x : x \in Wanted(r) <=> x \in Nat /\ \E k \in 1..Len(r) : r[k].start <= x /\ x <= r[k].end
      /\ \A x : x \in Wanted(q) <=> x \in Nat /\ \E k \in 1..a : q[k].start <= x /\ x <= q[k].end
      /\ \A x : x \in Wanted(p) <=> x \in Nat /\ \E k \in 1..b : p[k].start <= x /\ x <= p[k].end
  BY <1>1, InWanted
<1> HIDE DEF r, a, b
<1>4. ASSUME NEW i \in 1..Len(r), i \notin 1..a
      PROVE  i - a \in 1..b /\ r[i] = p[i - a] /\ i = a + (i - a)
  <2>1. i - a \in 1..b /\ i = a + (i - a)
    BY <1>1, <1>4
  <2> QED  BY <1>1, <2>1
<1>5. \A i \in 1..a : i \in 1..Len(r)
  BY <1>1
<1>6. \A i \in 1..b : a + i \in 1..Len(r)
  BY <1>1
<1>7. \A i \in 1..Len(r) : r[i].start <= r[i].end /\ ShortSpan(r[i])
  <2> SUFFICES ASSUME NEW i \in 1..Len(r) PROVE r[i].start <= r[i].end /\ ShortSpan(r[i])
    OBVIOUS
  <2>1. CASE i \in 1..a
    BY <1>1, <1>2, <2>1
  <2>2. CASE i \notin 1..a
    BY <1>2, <1>4, <2>2
  <2> QED  BY <2>1, <2>2
<1>8. ASSUME NEW i \in 1..Len(r), NEW j \in 1..Len(r), i < j PROVE r[i].end < r[j].start
  <2>1. CASE i \in 1..a /\ j \in 1..a
    BY <1>1, <1>2, <1>8, <2>1
  <2>2. CASE i \in 1..a /\ j \notin 1..a
    <3>1. r[i].end < m /\ r[i].end \in Nat
      BY <1>1, <1>2, <2>2
    <3>2. j - a \in 1..b /\ r[j] = p[j - a]
      BY <1>4, <2>2
    <3>3. m <= r[j].start /\ r[j].start \in Nat
      BY <1>1, <1>2, <3>2
    <3> QED  BY <3>1, <3>3
  <2>3. CASE i \notin 1..a /\ j \notin 1..a
    <3>1. i - a \in 1..b /\ r[i] = p[i - a] /\ j - a \in 1..b /\ r[j] = p[j - a]
      BY <1>4, <2>3
    <3>2. i - a < j - a
      BY <1>1, <1>8
    <3> QED  BY <1>2, <3>1, <3>2
  <2>4. i \notin 1..a => j \notin 1..a
    BY <1>1, <1>8
  <2> QED  BY <2>1, <2>2, <2>3, <2>4
<1>9. ASSUME m <= n + 1, NEW i \in 1..Len(r) PROVE r[i].end < n + 1
  <2>1. CASE i \in 1..a
    <3>1. r[i].end < m /\ r[i].end \in Nat
      BY <1>1, <1>2, <2>1
    <3> QED  BY <1>9, <3>1
  <2>2. CASE i \notin 1..a
    <3>1. i - a \in 1..b /\ r[i] = p[i - a]
      BY <1>4, <2>2
    <3>2. r[i].end <= n /\ r[i].end \in Nat
      BY <1>1, <1>2, <3>1
    <3> QED  BY <3>2
  <2> QED  BY <2>1, <2>2
<1>10. ASSUME NEW x PROVE x \in Wanted(r) <=> x \in Wanted(q) \/ x \in Wanted(p)
  <2>1. ASSUME x \in Wanted(r) PROVE x \in Wanted(q) \/ x \in Wanted(p)
    <3>1. PICK k \in 1..Len(r) : r[k].start <= x /\ x <= r[k].end
      BY <1>3, <2>1
    <3>2. x \in Nat
      BY <1>3, <2>1
    <3>3. CASE k \in 1..a
      BY <1>1, <1>3, <3>1, <3>2, <3>3
    <3>4. CASE k \notin 1..a
      BY <1>3, <1>4, <3>1, <3>2, <3>4
    <3> QED  BY <3>3, <3>4
  <2>2. x \in Wanted(q) => x \in Wanted(r)
    BY <1>1, <1>3, <1>5
  <2>3. x \in Wanted(p) => x \in Wanted(r)
    <3> SUFFICES ASSUME x \in Wanted(p) PROVE x \in Wanted(r)
      OBVIOUS
    <3>1. PICK k \in 1..b : p[k].start <= x /\ x <= p[k].end
      BY <1>3
    <3>2. x \in Nat /\ a + k \in 1..Len(r) /\ r[a + k] = p[k]
      BY <1>1, <1>3, <1>6
    <3> QED  BY <1>3, <3>1, <3>2
  <2> QED  BY <2>1, <2>2, <2>3
<1> QED  BY <1>1, <1>7, <1>8, <1>9, <1>10 DEF Ordered, Short, Before, r

(* The parts of spans in order are the same minutes, in order.             *)
LEMMA PartsExact ==
  ASSUME NEW e \in Spans, Ordered(e)
  PROVE  LET q == PartsOf(e)
         IN q \in Spans /\ Ordered(q) /\ Short(q) /\ \A x : x \in Wanted(q) <=> x \in Wanted(e)
<1> DEFINE n == Len(e)
           q == PartsOf(e)
<1>1. n \in Nat /\ DOMAIN e = 1..n
  BY SpansAre
<1>2. /\ \A k \in 1..n : e[k] \in Span /\ e[k].start \in Nat /\ e[k].end \in Nat
                         /\ e[k].start <= e[k].end
      /\ \A i, j \in 1..n : i < j => e[i].end < e[j].start
  BY SpansAre DEF Ordered
<1>3. \A x : x \in Wanted(e) <=> x \in Nat /\ \E k \in 1..n : e[k].start <= x /\ x <= e[k].end
  BY InWanted
<1> HIDE DEF n
<1>4. PICK a : Splits(a, n, e)
  <2>1. \A k \in 1..n : e[k] \in Real
    BY <1>2 DEF Real
  <2> QED  BY <1>1, <2>1, PartsSteps
<1>5. /\ a[0] = <<>>
      /\ \A k \in 1..n : a[k] = a[k - 1] \o split_by_days(e[k])
      /\ q = a[n]
  BY <1>4 DEF Splits
<1> HIDE DEF q
<1> DEFINE Inv(k) ==
       /\ a[k] \in Spans /\ Ordered(a[k]) /\ Short(a[k])
       /\ \A j \in 1..n : j > k => Before(a[k], e[j].start)
       /\ \A x : x \in Wanted(a[k])
                   <=> \E j \in 1..k : x \in Nat /\ e[j].start <= x /\ x <= e[j].end
       P == {k \in Nat : k <= n => Inv(k)}
<1>6. 0 \in P
  <2>1. <<>> \in Spans /\ Len(<<>>) = 0
    BY EmptySeq DEF Spans
  <2>2. 1..0 = {}
    OBVIOUS
  <2>3. Ordered(<<>>) /\ Short(<<>>) /\ \A m : Before(<<>>, m) /\ m \notin Wanted(<<>>)
    BY <2>1, <2>2, InWanted DEF Ordered, Before, Short
  <2>4. Inv(0)
    BY <1>5, <2>1, <2>2, <2>3
  <2> HIDE DEF Inv
  <2> QED  BY <2>4
<1>7. ASSUME NEW k \in Nat, k \in P PROVE k + 1 \in P
  <2> SUFFICES ASSUME k + 1 <= n PROVE Inv(k + 1)
    <3> HIDE DEF Inv
    <3> QED  OBVIOUS
  <2> DEFINE old == a[k]
             s   == e[k + 1]
             p   == split_by_days(s)
             new == old \o p
  <2>1. k + 1 \in 1..n /\ (k + 1) - 1 = k /\ k <= n
    BY <1>1
  <2>2. Inv(k)
    <3> HIDE DEF Inv
    <3> QED  BY <1>7, <2>1
  <2>3. a[k + 1] = new
    BY <1>5, <2>1
  <2>4. s \in Span /\ s.start \in Nat /\ s.end \in Nat /\ s.start <= s.end
    BY <1>2, <2>1
  <2>5. old \in Spans /\ Ordered(old) /\ Short(old) /\ Before(old, s.start)
    BY <2>1, <2>2
  <2>6. \A x : x \in Wanted(old)
                 <=> \E j \in 1..k : x \in Nat /\ e[j].start <= x /\ x <= e[j].end
    BY <2>2
  <2> HIDE DEF old, s
  <2>7. /\ p \in Spans /\ Ordered(p) /\ Short(p)
        /\ \A i \in 1..Len(p) : s.start <= p[i].start /\ p[i].end <= s.end
        /\ \A x : x \in Wanted(p) <=> x \in s.start..s.end
    BY <2>4, SplitExact
  <2> HIDE DEF p
  <2>8. /\ new \in Spans /\ Ordered(new) /\ Short(new)
        /\ s.start <= s.end + 1 => Before(new, s.end + 1)
        /\ \A x : x \in Wanted(new) <=> x \in Wanted(old) \/ x \in Wanted(p)
    BY <2>4, <2>5, <2>7, ConcatOrdered
  <2> HIDE DEF new
  <2>9. ASSUME NEW j \in 1..n, j > k + 1 PROVE Before(new, e[j].start)
    <3>1. e[j].start \in Nat /\ s.end + 1 <= e[j].start
      BY <1>2, <2>1, <2>4, <2>9 DEF s
    <3>2. Before(new, s.end + 1)
      BY <2>4, <2>8
    <3>3. \A i \in 1..Len(new) : new[i].end \in Nat /\ new[i].end < s.end + 1
      BY <2>8, <3>2, SpansAre DEF Before
    <3>4. \A i \in 1..Len(new) : new[i].end < e[j].start
      BY <2>4, <3>1, <3>3
    <3> QED  BY <3>4 DEF Before
  <2>10. \A x : x \in Wanted(new)
                  <=> \E j \in 1..(k + 1) : x \in Nat /\ e[j].start <= x /\ x <= e[j].end
    <3>1. 1..(k + 1) = 1..k \cup {k + 1}
      OBVIOUS
    <3>2. \A x : x \in s.start..s.end
                   <=> x \in Nat /\ e[k + 1].start <= x /\ x <= e[k + 1].end
      BY <2>4 DEF s
    <3> QED  BY <2>6, <2>7, <2>8, <3>1, <3>2
  <2> QED  BY <2>3, <2>8, <2>9, <2>10
<1>8. Inv(n)
  <2> HIDE DEF Inv
  <2>1. Nat \subseteq P
    <3> HIDE DEF P
    <3> QED  BY <1>6, <1>7, Counting
  <2> QED  BY <1>1, <2>1
<1> QED  BY <1>3, <1>5, <1>8 DEF q

-----------------------------------------------------------------------------
(* plan_requests.                                                          *)

(* The recursion of plan_requests.                                         *)
Full(current, part) ==
    current # <<>> /\ Day(part.end) - Day(current[1].start) >= DaysPerRequest
Put(acc, part) ==
    IF Full(acc.current, part)
    THEN [requests |-> Append(acc.requests, acc.current), current |-> <<part>>]
    ELSE [acc EXCEPT !.current = Append(@, part)]
NoPlan == [requests |-> <<>>, current |-> <<>>]
Requests(acc) ==
    IF acc.current = <<>> THEN acc.requests ELSE Append(acc.requests, acc.current)

Putting(f, e) ==
    f = [s \in SUBSET (DOMAIN e) |->
           IF s = {} THEN NoPlan ELSE Put(f[s \ {Max(s)}], e[Max(s)])]

(* plan_requests is a recursion over the parts.                            *)
LEMMA PlanFold ==
  ASSUME NEW ss, NEW g, Putting(g, PartsOf(ss))
  PROVE  \E f : /\ Putting(f, PartsOf(ss))
                /\ plan_requests(ss) = Requests(f[DOMAIN PartsOf(ss)])
<1> DEFINE Step(acc, part) ==
             IF acc.current # <<>> /\ Day(part.end) - Day(acc.current[1].start) >= DaysPerRequest
             THEN [requests |-> Append(acc.requests, acc.current), current |-> <<part>>]
             ELSE [acc EXCEPT !.current = Append(@, part)]
           e == PartsOf(ss)
<1>1. plan_requests(ss) = Requests(FoldLeft(Step, [requests |-> <<>>, current |-> <<>>], e))
  BY DEF plan_requests, PartsOf, Requests
<1>2. Putting(g, e)
  OBVIOUS
<1> HIDE DEF e
<1>3. \E f : /\ Putting(f, e)
             /\ FoldLeft(Step, [requests |-> <<>>, current |-> <<>>], e) = f[DOMAIN e]
  BY <1>2 DEF FoldLeft, MapThenFoldSet, Putting, Put, Full, NoPlan
<1> QED  BY <1>1, <1>3 DEF e

(* Sequences of requests.                                                  *)
Plans   == Seq(Spans)
Packing == [requests : Plans, current : Spans]

(* One more request.                                                       *)
LEMMA AppendRequest ==
  ASSUME NEW q \in Plans, NEW r \in Spans
  PROVE  /\ Len(q) \in Nat /\ DOMAIN q = 1..Len(q) /\ \A i \in 1..Len(q) : q[i] \in Spans
         /\ Append(q, r) \in Plans /\ Len(Append(q, r)) = Len(q) + 1
         /\ \A i \in 1..Len(q) : Append(q, r)[i] = q[i]
         /\ Append(q, r)[Len(q) + 1] = r
BY AppendProperties, LenProperties, ElementOfSeq DEF Plans

(* A part goes into the current request or begins the next one.            *)
LEMMA PutIs ==
  ASSUME NEW v \in Packing, NEW part \in Span
  PROVE  /\ v.requests \in Plans /\ v.current \in Spans /\ Put(v, part) \in Packing
         /\ Full(v.current, part) => /\ Put(v, part).requests = Append(v.requests, v.current)
                                     /\ Put(v, part).current = <<part>>
         /\ ~Full(v.current, part) => /\ Put(v, part).requests = v.requests
                                      /\ Put(v, part).current = Append(v.current, part)
<1>1. v.requests \in Plans /\ v.current \in Spans
  BY DEF Packing
<1>2. Append(v.requests, v.current) \in Plans /\ <<part>> \in Spans
      /\ Append(v.current, part) \in Spans
  BY <1>1, AppendRequest, AppendSpan, OneSpan
<1> QED  BY <1>1, <1>2 DEF Put, Packing

Packs(a, n, ss) ==
    /\ a[0] = NoPlan
    /\ \A k \in 1..n : a[k] = Put(a[k - 1], PartsOf(ss)[k])
    /\ plan_requests(ss) = Requests(a[n])

(* The parts are put into requests one by one.                             *)
LEMMA PlanSteps ==
  ASSUME NEW ss, NEW n \in Nat, DOMAIN PartsOf(ss) = 1..n,
         \A k \in 1..n : PartsOf(ss)[k] \in Span
  PROVE  \E a : Packs(a, n, ss)
<1> DEFINE e == PartsOf(ss)
           h == [k \in 1..n |-> [v \in Packing |-> Put(v, e[k])]]
<1>0. DOMAIN e = 1..n /\ \A k \in 1..n : e[k] \in Span
  OBVIOUS
<1> HIDE DEF e
<1>1. NoPlan \in Packing
  BY DEF NoPlan, Packing, Plans, Spans
<1>2. h \in [1..n -> [Packing -> Packing]]
  <2>1. \A k \in 1..n : \A v \in Packing : Put(v, e[k]) \in Packing
    BY <1>0, PutIs
  <2> QED  BY <2>1
<1>3. PICK g \in [SUBSET (1..n) -> Packing] : Along(g, n, NoPlan, h)
  <2> HIDE DEF h
  <2> QED  BY <1>1, <1>2, FoldAlong
<1>4. \A s \in SUBSET (1..n) :
          g[s] = IF s = {} THEN NoPlan ELSE Put(g[s \ {Max(s)}], e[Max(s)])
  BY <1>3 DEF Along
<1>5. PICK f : Putting(f, e) /\ plan_requests(ss) = Requests(f[1..n])
  <2>1. Putting(g, e)
    BY <1>0, <1>4 DEF Putting
  <2> QED  BY <1>0, <2>1, PlanFold DEF e
<1> DEFINE a == [k \in 0..n |-> f[1..k]]
<1>6. a[0] = NoPlan
  <2>1. 1..0 = {} /\ 1..0 \in SUBSET (1..n)
    OBVIOUS
  <2> QED  BY <1>0, <1>5, <2>1 DEF Putting
<1>7. ASSUME NEW k \in 1..n PROVE a[k] = Put(a[k - 1], e[k])
  <2>1. 1..k \in SUBSET (1..n) /\ 1..k # {} /\ Max(1..k) = k /\ (1..k) \ {Max(1..k)} = 1..(k - 1)
    BY Prefix
  <2>2. f[1..k] = Put(f[1..(k - 1)], e[k])
    BY <1>0, <1>5, <2>1 DEF Putting
  <2>3. k \in 0..n /\ k - 1 \in 0..n
    OBVIOUS
  <2> QED  BY <2>2, <2>3
<1>8. a[n] = f[1..n]
  OBVIOUS
<1> HIDE DEF a
<1> QED  BY <1>5, <1>6, <1>7, <1>8 DEF Packs, e

(* A request the provider takes.                                           *)
Fit(r) ==
    /\ r # <<>> /\ Ordered(r)
    /\ \A x, y \in Wanted(r) : Day(y) - Day(x) < DaysPerRequest

Apart(r, s) == \A x \in Wanted(r), y \in Wanted(s) : x < y

(* No minute of spans in order is before the first one.                    *)
LEMMA FromFirst ==
  ASSUME NEW r \in Spans, Ordered(r), NEW x \in Wanted(r)
  PROVE  r # <<>> /\ 1 \in 1..Len(r) /\ x \in Nat /\ r[1].start \in Nat /\ r[1].start <= x
<1>1. PICK k \in 1..Len(r) : x \in Nat /\ r[k].start <= x /\ x <= r[k].end
  BY InWanted
<1>2. Len(r) \in Nat /\ \A i \in 1..Len(r) : r[i].start \in Nat /\ r[i].end \in Nat
  BY SpansAre
<1> DEFINE n == Len(r)
<1>3. n \in Nat /\ k \in 1..n
  BY <1>2
<1>4. \A i \in 1..n : r[i].start \in Nat /\ r[i].end \in Nat
  BY <1>2
<1>5. /\ \A i \in 1..n : r[i].start <= r[i].end
      /\ \A i, j \in 1..n : i < j => r[i].end < r[j].start
  BY DEF Ordered
<1>6. r # <<>>
  <2>1. Len(r) > 0
    BY <1>3
  <2> QED  BY <2>1, SpansAre
<1> HIDE DEF n, Spans
<1>7. 1 \in 1..n /\ (k = 1 \/ 1 < k)
  BY <1>3
<1>8. r[1].start <= x
  <2>1. CASE k = 1
    BY <1>1, <2>1
  <2>2. CASE 1 < k
    <3>1. r[1].start <= r[1].end /\ r[1].end < r[k].start /\ r[k].start <= x
      BY <1>1, <1>3, <1>5, <1>7, <2>2
    <3>2. r[1].start \in Nat /\ r[1].end \in Nat /\ r[k].start \in Nat /\ x \in Nat
      BY <1>1, <1>3, <1>4, <1>7
    <3> QED  BY <3>1, <3>2
  <2> QED  BY <1>7, <2>1, <2>2
<1> QED  BY <1>1, <1>4, <1>6, <1>7, <1>8 DEF n

(* A request that is not full takes one more part.                         *)
LEMMA FitAppend ==
  ASSUME NEW r \in Spans, Ordered(r), NEW part \in Real, Before(r, part.start),
         ShortSpan(part), ~Full(r, part)
  PROVE  LET p == Append(r, part)
         IN /\ p \in Spans /\ Fit(p)
            /\ \A x : x \in Wanted(p) <=> x \in Wanted(r) \/ x \in part.start..part.end
            /\ \A x \in Wanted(r) : x < part.start
<1> DEFINE p == Append(r, part)
           D == DaysPerRequest
<1>1. part \in Span /\ part.start \in Nat /\ part.end \in Nat /\ part.start <= part.end
  BY SpanIs DEF Real
<1>2. /\ p \in Spans /\ Ordered(p)
      /\ \A x : x \in Wanted(p) <=> x \in Wanted(r) \/ x \in part.start..part.end
  BY <1>1, AppendOrdered
<1>3. p # <<>>
  <2>1. Len(p) = Len(r) + 1 /\ Len(r) \in Nat
    BY <1>1, AppendSpan, SpansAre
  <2>2. Len(p) > 0
    BY <2>1
  <2> QED  BY <1>2, <2>2, SpansAre
<1>4. \A x \in Wanted(r) : x \in Nat /\ x < part.start
  <2> SUFFICES ASSUME NEW x \in Wanted(r) PROVE x \in Nat /\ x < part.start
    OBVIOUS
  <2>1. PICK k \in 1..Len(r) : x \in Nat /\ r[k].start <= x /\ x <= r[k].end
    BY InWanted
  <2>2. r[k].end \in Nat /\ r[k].end < part.start
    BY SpansAre DEF Before
  <2> QED  BY <1>1, <2>1, <2>2
<1> HIDE DEF p
<1>5. D \in Nat /\ D > 0
  BY PlanAssumption
<1>6. ASSUME NEW x \in Wanted(p), NEW y \in Wanted(p) PROVE Day(y) - Day(x) < D
  <2>1. y \in Nat /\ x \in Nat /\ y <= part.end
    BY <1>1, <1>2, <1>4
  <2>2. Day(y) <= Day(part.end) /\ Day(y) \in Nat /\ Day(x) \in Nat /\ Day(part.end) \in Nat
    BY <1>1, <2>1, DayRises, DayIs
  <2>3. CASE x \in Wanted(r)
    <3>1. r # <<>> /\ r[1].start \in Nat /\ r[1].start <= x
      BY <2>3, FromFirst
    <3>2. Day(r[1].start) <= Day(x) /\ Day(r[1].start) \in Nat
      BY <2>1, <3>1, DayRises, DayIs
    <3>3. ~(Day(part.end) - Day(r[1].start) >= D)
      BY <3>1 DEF Full
    <3> HIDE DEF D
    <3> QED  BY <1>5, <2>2, <3>2, <3>3
  <2>4. CASE x \in part.start..part.end
    <3>1. part.start <= x
      BY <1>1, <2>4
    <3>2. Day(part.start) <= Day(x) /\ Day(part.start) \in Nat
      BY <1>1, <2>1, <3>1, DayRises, DayIs
    <3>3. Day(part.end) - Day(part.start) < D
      BY DEF ShortSpan
    <3> HIDE DEF D
    <3> QED  BY <1>5, <2>2, <3>2, <3>3
  <2> QED  BY <1>2, <2>3, <2>4
<1> QED  BY <1>2, <1>3, <1>4, <1>6 DEF Fit, p

(* The empty request asks for nothing.                                     *)
LEMMA NoSpans ==
  /\ <<>> \in Spans /\ Len(<<>>) = 0 /\ Ordered(<<>>)
  /\ \A m : Before(<<>>, m) /\ m \notin Wanted(<<>>)
<1>1. <<>> \in Spans /\ Len(<<>>) = 0
  BY EmptySeq DEF Spans
<1>2. 1..0 = {}
  OBVIOUS
<1> QED  BY <1>1, <1>2, InWanted DEF Ordered, Before

(* A part alone fits.                                                      *)
LEMMA FitOne ==
  ASSUME NEW part \in Real, ShortSpan(part)
  PROVE  /\ <<part>> \in Spans /\ Fit(<<part>>)
         /\ \A x : x \in Wanted(<<part>>) <=> x \in part.start..part.end
<1>1. ~Full(<<>>, part)
  BY DEF Full
<1>2. Append(<<>>, part) = <<part>>
  BY DEF Real
<1> QED  BY <1>1, <1>2, NoSpans, FitAppend

(* What a plan covers, and in which order.                                 *)
Covers(q, n, x) == \E i \in 1..n : x \in Wanted(q[i])

InOrder(q, n) == \A i, j \in 1..n : i < j => Apart(q[i], q[j])

(* plan_requests asks for exactly the spans' minutes, in requests that fit.*)
LEMMA PlanExact ==
  ASSUME NEW e \in Spans, Ordered(e)
  PROVE  LET q == plan_requests(e)
         IN /\ q \in Plans /\ \A k \in 1..Len(q) : q[k] \in Spans /\ Fit(q[k])
            /\ InOrder(q, Len(q))
            /\ \A x : Covers(q, Len(q), x) <=> x \in Wanted(e)
<1> DEFINE p == PartsOf(e)
           n == Len(p)
           q == plan_requests(e)
<1>1. p \in Spans /\ Ordered(p) /\ Short(p) /\ \A x : x \in Wanted(p) <=> x \in Wanted(e)
  BY PartsExact
<1>2. n \in Nat /\ DOMAIN p = 1..n
  BY <1>1, SpansAre
<1>3. /\ \A k \in 1..n : p[k] \in Real /\ p[k] \in Span /\ p[k].start \in Nat /\ p[k].end \in Nat
                         /\ p[k].start <= p[k].end /\ ShortSpan(p[k])
      /\ \A i, j \in 1..n : i < j => p[i].end < p[j].start
  BY <1>1, SpansAre DEF Ordered, Short, Real
<1>4. \A x : x \in Wanted(p) <=> \E k \in 1..n : x \in p[k].start..p[k].end
  <2>1. \A x : x \in Wanted(p) <=> x \in Nat /\ \E k \in 1..n : p[k].start <= x /\ x <= p[k].end
    BY <1>1, InWanted
  <2>2. \A x : \A k \in 1..n : x \in p[k].start..p[k].end
                                 <=> x \in Nat /\ p[k].start <= x /\ x <= p[k].end
    <3> HIDE DEF n, p
    <3> QED  BY <1>3
  <2> HIDE DEF n, p
  <2> QED  BY <2>1, <2>2
<1>5. PICK a : Packs(a, n, e)
  <2> HIDE DEF n
  <2> QED  BY <1>2, <1>3, PlanSteps
<1>6. /\ a[0] = NoPlan
      /\ \A k \in 1..n : a[k] = Put(a[k - 1], p[k])
      /\ q = Requests(a[n])
  BY <1>5 DEF Packs
<1> HIDE DEF n, p, q
<1> DEFINE R(k) == a[k].requests
           C(k) == a[k].current
           Inv(k) ==
       /\ a[k] \in Packing
       /\ k = 0 => R(k) = <<>> /\ C(k) = <<>>
       /\ k # 0 => Fit(C(k))
       /\ \A i \in 1..Len(R(k)) : Fit(R(k)[i]) /\ Apart(R(k)[i], C(k))
       /\ InOrder(R(k), Len(R(k)))
       /\ \A x, j : j \in 1..n /\ j > k /\ (Covers(R(k), Len(R(k)), x) \/ x \in Wanted(C(k)))
                      => x < p[j].start
       /\ \A x : Covers(R(k), Len(R(k)), x) \/ x \in Wanted(C(k))
                   <=> \E j \in 1..k : x \in p[j].start..p[j].end
       P == {k \in Nat : k <= n => Inv(k)}
<1>7. 0 \in P
  <2>1. 1..0 = {} /\ Len(<<>>) = 0
    BY EmptySeq
  <2>2. NoPlan \in Packing /\ R(0) = <<>> /\ C(0) = <<>>
    BY <1>6 DEF NoPlan, Packing, Plans, Spans
  <2>3. \A x : ~Covers(<<>>, 0, x)
    BY <2>1 DEF Covers
  <2>4. InOrder(<<>>, 0)
    BY <2>1 DEF InOrder
  <2>5. Inv(0)
    BY <1>6, <2>1, <2>2, <2>3, <2>4, NoSpans
  <2> HIDE DEF Inv
  <2> QED  BY <2>5
<1>8. ASSUME NEW k \in Nat, k \in P PROVE k + 1 \in P
  <2> SUFFICES ASSUME k + 1 <= n PROVE Inv(k + 1)
    <3> HIDE DEF Inv
    <3> QED  OBVIOUS
  <2> DEFINE v == a[k]
             s == p[k + 1]
             w == Put(v, s)
             r == v.requests
             c == v.current
             l == Len(r)
  <2>1. k + 1 \in 1..n /\ (k + 1) - 1 = k /\ k <= n /\ k + 1 # 0
    BY <1>2
  <2>2. Inv(k)
    <3> HIDE DEF Inv
    <3> QED  BY <1>8, <2>1
  <2>3. a[k + 1] = w
    BY <1>6, <2>1
  <2>4. s \in Real /\ s \in Span /\ s.start \in Nat /\ s.end \in Nat /\ s.start <= s.end /\ ShortSpan(s)
    BY <1>3, <2>1
  <2>5. v \in Packing /\ r \in Plans /\ c \in Spans
    BY <2>2 DEF Packing
  <2>6. /\ w \in Packing
        /\ Full(c, s) => w.requests = Append(r, c) /\ w.current = <<s>>
        /\ ~Full(c, s) => w.requests = r /\ w.current = Append(c, s)
    <3> HIDE DEF v, s
    <3> QED  BY <2>4, <2>5, PutIs
  <2>7. /\ k = 0 => r = <<>> /\ c = <<>>
        /\ k # 0 => Fit(c)
        /\ \A i \in 1..l : Fit(r[i]) /\ Apart(r[i], c)
        /\ InOrder(r, l)
        /\ \A x : Covers(r, l, x) \/ x \in Wanted(c) => x < s.start
        /\ \A x : Covers(r, l, x) \/ x \in Wanted(c) <=> \E j \in 1..k : x \in p[j].start..p[j].end
    BY <2>1, <2>2
  <2>8. c = <<>> \/ Fit(c)
    BY <2>7
  <2>9. Ordered(c) /\ Before(c, s.start)
    <3>1. Ordered(c)
      BY <2>8, NoSpans DEF Fit
    <3>2. ASSUME NEW i \in 1..Len(c) PROVE c[i].end < s.start
      <4>1. c[i].start \in Nat /\ c[i].end \in Nat /\ c[i].start <= c[i].end
        BY <2>5, <3>1, SpansAre DEF Ordered
      <4>2. c[i].end \in Wanted(c)
        <5>1. c[i].end <= c[i].end
          BY <4>1
        <5> QED  BY <2>5, <4>1, <5>1, InWanted
      <4> QED  BY <2>7, <4>2
    <3> QED  BY <3>1, <3>2 DEF Before
  <2>10. ASSUME NEW x, NEW j, j \in 1..n, j > k + 1
         PROVE  /\ x \in s.start..s.end => x < p[j].start
                /\ x < s.start /\ x \in Nat => x < p[j].start
    <3>1. p[j].start \in Nat /\ s.end < p[j].start
      BY <1>3, <2>1, <2>10
    <3> HIDE DEF s
    <3> QED  BY <2>4, <3>1
  <2>11. \A x : (\E j \in 1..(k + 1) : x \in p[j].start..p[j].end)
                   <=> (\E j \in 1..k : x \in p[j].start..p[j].end) \/ x \in s.start..s.end
    <3>1. 1..(k + 1) = 1..k \cup {k + 1}
      OBVIOUS
    <3> QED  BY <3>1
  <2>12. /\ l \in Nat /\ DOMAIN r = 1..l /\ \A i \in 1..l : r[i] \in Spans
         /\ Append(r, c) \in Plans /\ Len(Append(r, c)) = l + 1
         /\ \A i \in 1..l : Append(r, c)[i] = r[i]
         /\ Append(r, c)[l + 1] = c
    BY <2>5, AppendRequest
  <2>13. \A x : Covers(r, l, x) \/ x \in Wanted(c) => x \in Nat
    <3>1. \A x : x \in Wanted(c) => x \in Nat
      BY <2>5, InWanted
    <3>2. \A x : \A i \in 1..l : x \in Wanted(r[i]) => x \in Nat
      BY <2>12, InWanted
    <3> QED  BY <3>1, <3>2 DEF Covers
  <2> HIDE DEF v, s, w, r, c, l
  <2>14. CASE Full(c, s)
    <3> DEFINE t == Append(r, c)
    <3>1. w.requests = t /\ w.current = <<s>> /\ Len(t) = l + 1
      BY <2>6, <2>12, <2>14
    <3>2. /\ <<s>> \in Spans /\ Fit(<<s>>)
          /\ \A x : x \in Wanted(<<s>>) <=> x \in s.start..s.end
      BY <2>4, FitOne
    <3>3. 1..(l + 1) = 1..l \cup {l + 1} /\ l + 1 \notin 1..l
      BY <2>12
    <3>4. Fit(c)
      BY <2>8, <2>14 DEF Full
    <3>5. \A x : Covers(t, l + 1, x) <=> Covers(r, l, x) \/ x \in Wanted(c)
      <4>1. \A i \in 1..l : t[i] = r[i]
        BY <2>12
      <4>2. t[l + 1] = c
        BY <2>12
      <4> HIDE DEF t
      <4> QED  BY <3>3, <4>1, <4>2 DEF Covers
    <3>6. \A i \in 1..(l + 1) : Fit(t[i])
      BY <2>7, <2>12, <3>3, <3>4
    <3>7. ASSUME NEW i \in 1..(l + 1) PROVE Apart(t[i], <<s>>)
      <4> SUFFICES ASSUME NEW x \in Wanted(t[i]), NEW y \in Wanted(<<s>>) PROVE x < y
        BY DEF Apart
      <4>1. Covers(t, l + 1, x)
        BY DEF Covers
      <4>2. x < s.start /\ x \in Nat
        BY <2>7, <2>13, <3>5, <4>1
      <4>3. y \in s.start..s.end
        BY <3>2
      <4> QED  BY <2>4, <4>2, <4>3
    <3>8. InOrder(t, l + 1)
      <4> SUFFICES ASSUME NEW i \in 1..(l + 1), NEW j \in 1..(l + 1), i < j PROVE Apart(t[i], t[j])
        BY DEF InOrder
      <4>1. i \in 1..l
        BY <2>12
      <4>2. CASE j = l + 1
        BY <2>7, <2>12, <4>1, <4>2
      <4>3. CASE j \in 1..l
        BY <2>7, <2>12, <4>1, <4>3 DEF InOrder
      <4> QED  BY <3>3, <4>2, <4>3
    <3> HIDE DEF t
    <3>9. \A x : Covers(t, l + 1, x) \/ x \in Wanted(<<s>>)
                   <=> \E j \in 1..(k + 1) : x \in p[j].start..p[j].end
      BY <2>7, <2>11, <3>2, <3>5
    <3>10. \A x, j : j \in 1..n /\ j > k + 1 /\ (Covers(t, l + 1, x) \/ x \in Wanted(<<s>>))
                       => x < p[j].start
      BY <2>7, <2>10, <2>13, <3>2, <3>5
    <3> QED  BY <2>1, <2>3, <2>6, <3>1, <3>2, <3>6, <3>7, <3>8, <3>9, <3>10
  <2>15. CASE ~Full(c, s)
    <3> DEFINE d == Append(c, s)
    <3>1. w.requests = r /\ w.current = d
      BY <2>6, <2>15
    <3>2. /\ d \in Spans /\ Fit(d)
          /\ \A x : x \in Wanted(d) <=> x \in Wanted(c) \/ x \in s.start..s.end
      BY <2>4, <2>5, <2>9, <2>15, FitAppend DEF c
    <3> HIDE DEF d
    <3>3. ASSUME NEW i \in 1..l PROVE Apart(r[i], d)
      <4> SUFFICES ASSUME NEW x \in Wanted(r[i]), NEW y \in Wanted(d) PROVE x < y
        BY DEF Apart
      <4>1. CASE y \in Wanted(c)
        BY <2>7, <4>1 DEF Apart
      <4>2. CASE y \in s.start..s.end
        <5>1. Covers(r, l, x)
          BY DEF Covers
        <5>2. x < s.start /\ x \in Nat
          BY <2>7, <2>13, <5>1
        <5> QED  BY <2>4, <4>2, <5>2
      <4> QED  BY <3>2, <4>1, <4>2
    <3>4. \A x : Covers(r, l, x) \/ x \in Wanted(d)
                   <=> \E j \in 1..(k + 1) : x \in p[j].start..p[j].end
      BY <2>7, <2>11, <3>2
    <3>5. \A x, j : j \in 1..n /\ j > k + 1 /\ (Covers(r, l, x) \/ x \in Wanted(d))
                      => x < p[j].start
      BY <2>7, <2>10, <2>13, <3>2
    <3> QED  BY <2>1, <2>3, <2>6, <2>7, <3>1, <3>2, <3>3, <3>4, <3>5 DEF l
  <2> QED  BY <2>14, <2>15
<1>9. Inv(n)
  <2> HIDE DEF Inv
  <2>1. Nat \subseteq P
    <3> HIDE DEF P
    <3> QED  BY <1>7, <1>8, Counting
  <2> QED  BY <1>2, <2>1
<1> DEFINE r == R(n)
           c == C(n)
           l == Len(r)
<1>10. /\ r \in Plans /\ c \in Spans
       /\ n = 0 => r = <<>> /\ c = <<>>
       /\ n # 0 => Fit(c)
       /\ \A i \in 1..l : Fit(r[i]) /\ Apart(r[i], c)
       /\ InOrder(r, l)
       /\ \A x : Covers(r, l, x) \/ x \in Wanted(c) <=> x \in Wanted(e)
  BY <1>1, <1>4, <1>9 DEF Packing
<1>11. q = IF c = <<>> THEN r ELSE Append(r, c)
  BY <1>6 DEF Requests
<1> HIDE DEF r, c, R, C, Inv, l
<1>12. /\ l \in Nat /\ DOMAIN r = 1..l /\ \A i \in 1..l : r[i] \in Spans
       /\ Append(r, c) \in Plans /\ Len(Append(r, c)) = l + 1
       /\ \A i \in 1..l : Append(r, c)[i] = r[i]
       /\ Append(r, c)[l + 1] = c
  BY <1>10, AppendRequest DEF l
<1>13. CASE c = <<>>
  BY <1>10, <1>11, <1>12, <1>13, NoSpans DEF l, q
<1>14. CASE c # <<>>
  <2> DEFINE t == Append(r, c)
  <2>1. q = t /\ Len(t) = l + 1 /\ Fit(c)
    BY <1>10, <1>11, <1>12, <1>14
  <2>2. 1..(l + 1) = 1..l \cup {l + 1} /\ l + 1 \notin 1..l
    BY <1>12
  <2>3. \A i \in 1..(l + 1) : t[i] \in Spans /\ Fit(t[i])
    BY <1>10, <1>12, <2>1, <2>2
  <2>4. InOrder(t, l + 1)
    <3> SUFFICES ASSUME NEW i \in 1..(l + 1), NEW j \in 1..(l + 1), i < j PROVE Apart(t[i], t[j])
      BY DEF InOrder
    <3>1. i \in 1..l
      BY <1>12
    <3>2. CASE j = l + 1
      BY <1>10, <1>12, <3>1, <3>2
    <3>3. CASE j \in 1..l
      BY <1>10, <1>12, <3>1, <3>3 DEF InOrder
    <3> QED  BY <2>2, <3>2, <3>3
  <2>5. \A x : Covers(t, l + 1, x) <=> Covers(r, l, x) \/ x \in Wanted(c)
    <3>1. \A i \in 1..l : t[i] = r[i]
      BY <1>12
    <3>2. t[l + 1] = c
      BY <1>12
    <3> HIDE DEF t
    <3> QED  BY <2>2, <3>1, <3>2 DEF Covers
  <2>6. t \in Plans
    BY <1>12
  <2> HIDE DEF t
  <2> QED  BY <1>10, <2>1, <2>3, <2>4, <2>5, <2>6 DEF q
<1> QED  BY <1>13, <1>14

-----------------------------------------------------------------------------
(* The number of requests in a ledger.                                     *)

(* g sums l over the subsets of S, whatever element is taken out.          *)
Sums(g, S, l) ==
    /\ g[{}] = 0
    /\ \A s \in SUBSET S : g[s] \in Nat
    /\ \A s \in SUBSET S : \A x \in s : g[s] = l[x] + g[s \ {x}]

(* Every finite set of times has its sum.                                  *)
LEMMA SumExists ==
  ASSUME NEW S, IsFiniteSet(S), NEW l, \A x \in S : l[x] \in Nat
  PROVE  \E g \in [SUBSET S -> Nat] : Sums(g, S, l)
<1> DEFINE c == [s \in SUBSET S |-> CHOOSE x \in s : TRUE]
           h == [x \in S |-> [v \in Nat |-> l[x] + v]]
<1>1. Chooses(c, S)
  BY DEF Chooses
<1>2. h \in [S -> [Nat -> Nat]]
  OBVIOUS
<1>3. PICK g \in [SUBSET S -> Nat] : Folding(g, S, c, 0, h)
  <2> HIDE DEF c, h
  <2> QED  BY <1>1, <1>2, FoldExists
<1>4. g[{}] = 0
  BY <1>3 DEF Folding
<1>5. ASSUME NEW s \in SUBSET S, s # {}
      PROVE  c[s] \in s /\ g[s] = l[c[s]] + g[s \ {c[s]}]
  <2>1. c[s] \in s
    BY <1>1, <1>5 DEF Chooses
  <2> HIDE DEF c
  <2>2. s \ {c[s]} \in SUBSET S
    OBVIOUS
  <2>3. g[s \ {c[s]}] \in Nat
    BY <2>2
  <2> QED  BY <1>3, <1>5, <2>1, <2>3 DEF Folding
<1> HIDE DEF c, h
<1> DEFINE Q == {n \in Nat : \A s \in SUBSET S : Cardinality(s) = n =>
                                \A x \in s : g[s] = l[x] + g[s \ {x}]}
<1>6. \A s \in SUBSET S : IsFiniteSet(s) /\ Cardinality(s) \in Nat
  BY FS_Subset, FS_CardinalityType
<1>7. 0 \in Q
  <2>1. \A s \in SUBSET S : Cardinality(s) = 0 => s = {}
    BY <1>6, FS_EmptySet
  <2> QED  BY <2>1
<1>8. ASSUME NEW k \in Nat, k \in Q PROVE k + 1 \in Q
  <2> SUFFICES ASSUME NEW s \in SUBSET S, Cardinality(s) = k + 1, NEW x \in s
               PROVE  g[s] = l[x] + g[s \ {x}]
    OBVIOUS
  <2> DEFINE y == c[s]
  <2>1. y \in s /\ g[s] = l[y] + g[s \ {y}]
    BY <1>5
  <2> HIDE DEF y
  <2>2. CASE x = y
    BY <2>1, <2>2
  <2>3. CASE x # y
    <3>1. Cardinality(s \ {x}) = k /\ Cardinality(s \ {y}) = k
      <4>1. Cardinality(s \ {x}) = Cardinality(s) - 1 /\ Cardinality(s \ {y}) = Cardinality(s) - 1
        BY <1>6, <2>1, FS_RemoveElement
      <4> HIDE DEF Q
      <4> QED  BY <4>1
    <3>2. s \ {x} \in SUBSET S /\ s \ {y} \in SUBSET S
      OBVIOUS
    <3>3. y \in s \ {x} /\ x \in s \ {y}
      BY <2>1, <2>3
    <3>4. \A u \in SUBSET S : Cardinality(u) = k => \A z \in u : g[u] = l[z] + g[u \ {z}]
      BY <1>8
    <3> HIDE DEF Q
    <3>5. g[s \ {x}] = l[y] + g[(s \ {x}) \ {y}] /\ g[s \ {y}] = l[x] + g[(s \ {y}) \ {x}]
      BY <3>1, <3>2, <3>3, <3>4
    <3>6. (s \ {x}) \ {y} = (s \ {y}) \ {x}
      OBVIOUS
    <3>7. l[x] \in Nat /\ l[y] \in Nat /\ (s \ {x}) \ {y} \in SUBSET S
      BY <2>1
    <3>8. g[(s \ {x}) \ {y}] \in Nat
      BY <3>7
    <3> DEFINE b == g[(s \ {x}) \ {y}]
    <3>9. /\ g[s \ {x}] = l[y] + b /\ g[s \ {y}] = l[x] + b /\ b \in Nat
      BY <3>5, <3>6, <3>8
    <3> HIDE DEF b
    <3> QED  BY <2>1, <3>7, <3>9
  <2> QED  BY <2>2, <2>3
<1>9. Nat \subseteq Q
  <2> HIDE DEF Q
  <2> QED  BY <1>7, <1>8, Counting
<1>10. Sums(g, S, l)
  BY <1>4, <1>6, <1>9 DEF Sums
<1> QED  BY <1>10

(* The recursion of ZCount.                                                *)
Adding(f, S, l) ==
    f = [s \in SUBSET S |->
           IF s = {} THEN 0
           ELSE l[CHOOSE x \in s : TRUE] + f[s \ {CHOOSE x \in s : TRUE}]]

From(D, since) == {t \in D : t >= since}

(* ZCount is a recursion over the times it counts.                         *)
LEMMA CountFold ==
  ASSUME NEW l, NEW since, NEW g, Adding(g, From(DOMAIN l, since), l)
  PROVE  \E f : /\ Adding(f, From(DOMAIN l, since), l)
                /\ ZCount(l, since) = f[From(DOMAIN l, since)]
BY DEF ZCount, MapThenSumSet, MapThenFoldSet, Adding, From

(* ZCount is the sum over the times from since on.                         *)
LEMMA CountIs ==
  ASSUME NEW D, IsFiniteSet(D), NEW l \in [D -> Nat], NEW since, NEW g,
         Sums(g, From(D, since), l)
  PROVE  ZCount(l, since) = g[From(D, since)]
<1> DEFINE S == From(D, since)
           c == [s \in SUBSET S |-> CHOOSE x \in s : TRUE]
           e == [s \in SUBSET S |-> g[s]]
<1>1. IsFiniteSet(S) /\ S \subseteq D
  BY FS_Subset DEF From
<1>2. Chooses(c, S)
  BY DEF Chooses
<1>3. Sums(g, S, l)
  OBVIOUS
<1>4. DOMAIN l = D /\ S = From(DOMAIN l, since)
  OBVIOUS
<1> HIDE DEF S
<1>5. \A s \in SUBSET S : s # {} => (CHOOSE x \in s : TRUE) \in s
  OBVIOUS
<1>6. \A s \in SUBSET S :
         g[s] = IF s = {} THEN 0
                ELSE l[CHOOSE x \in s : TRUE] + g[s \ {CHOOSE x \in s : TRUE}]
  BY <1>3, <1>5 DEF Sums
<1>7. Adding(e, S, l)
  <2>1. \A s \in SUBSET S : s \ {CHOOSE x \in s : TRUE} \in SUBSET S
    OBVIOUS
  <2> QED  BY <1>6, <2>1 DEF Adding
<1> HIDE DEF e
<1>8. PICK f : Adding(f, S, l) /\ ZCount(l, since) = f[S]
  BY <1>4, <1>7, CountFold
<1>9. \A s \in SUBSET S :
         f[s] = IF s = {} THEN 0
                ELSE l[CHOOSE x \in s : TRUE] + f[s \ {CHOOSE x \in s : TRUE}]
  BY <1>8 DEF Adding
<1> DEFINE P == {s \in SUBSET S : f[s] = g[s]}
<1>10. SUBSET S \subseteq P
  <2>1. {} \in P
    BY <1>6, <1>9
  <2>2. Descends(P, S, c)
    BY <1>6, <1>9 DEF Descends
  <2> HIDE DEF P, c
  <2> QED  BY <1>1, <1>2, <2>1, <2>2, SubsetInduction
<1>11. f[S] = g[S]
  BY <1>10
<1> QED  BY <1>8, <1>11 DEF S

(* Equal terms, equal sums; zero terms may be left out.                    *)
LEMMA SumsAgree ==
  ASSUME NEW S, IsFiniteSet(S), NEW l, NEW k, NEW g, NEW h, Sums(g, S, l), Sums(h, S, k),
         \A x \in S : l[x] = k[x]
  PROVE  g[S] = h[S]
<1> DEFINE c == [s \in SUBSET S |-> CHOOSE x \in s : TRUE]
           P == {s \in SUBSET S : g[s] = h[s]}
<1>1. Chooses(c, S)
  BY DEF Chooses
<1>2. {} \in P
  BY DEF Sums
<1>3. ASSUME NEW s \in SUBSET S, s # {}, s \ {c[s]} \in P PROVE s \in P
  <2>1. c[s] \in s
    BY <1>1, <1>3 DEF Chooses
  <2> HIDE DEF c
  <2>2. g[s] = l[c[s]] + g[s \ {c[s]}] /\ h[s] = k[c[s]] + h[s \ {c[s]}]
    BY <2>1 DEF Sums
  <2>3. l[c[s]] = k[c[s]] /\ g[s \ {c[s]}] = h[s \ {c[s]}]
    BY <1>3, <2>1
  <2> QED  BY <2>2, <2>3
<1>4. SUBSET S \subseteq P
  <2> HIDE DEF P, c
  <2>1. Descends(P, S, c)
    BY <1>3 DEF Descends
  <2> QED  BY <1>1, <1>2, <2>1, SubsetInduction
<1> QED  BY <1>4

(* Times without requests add nothing.                                     *)
LEMMA SumsPad ==
  ASSUME NEW S, IsFiniteSet(S), NEW l, NEW g, Sums(g, S, l),
         NEW u \in SUBSET S, \A x \in S \ u : l[x] = 0
  PROVE  g[S] = g[u]
<1> DEFINE c == [s \in SUBSET S |-> CHOOSE x \in s : TRUE]
           P == {s \in SUBSET S : g[s] = g[s \cap u]}
<1>1. Chooses(c, S)
  BY DEF Chooses
<1>2. {} \in P
  OBVIOUS
<1>3. ASSUME NEW s \in SUBSET S, s # {}, s \ {c[s]} \in P PROVE s \in P
  <2> DEFINE y == c[s]
             t == s \ {y}
  <2>1. y \in s
    BY <1>1, <1>3 DEF Chooses
  <2>2. g[t] = g[t \cap u] /\ t \in SUBSET S
    BY <1>3
  <2> HIDE DEF y
  <2>3. g[s] = l[y] + g[t]
    BY <2>1 DEF Sums
  <2>4. CASE y \in u
    <3>1. (s \cap u) \ {y} = t \cap u /\ s \cap u \in SUBSET S /\ y \in s \cap u
      BY <2>1, <2>4
    <3>2. g[s \cap u] = l[y] + g[(s \cap u) \ {y}]
      BY <3>1 DEF Sums
    <3> QED  BY <2>2, <2>3, <3>1, <3>2
  <2>5. CASE y \notin u
    <3>1. s \cap u = t \cap u
      BY <2>5
    <3>2. l[y] = 0 /\ g[t] \in Nat
      BY <2>1, <2>2, <2>5 DEF Sums
    <3>3. g[s] = g[t]
      BY <2>3, <3>2
    <3> QED  BY <2>2, <3>1, <3>3
  <2> QED  BY <2>4, <2>5
<1>4. SUBSET S \subseteq P
  <2> HIDE DEF P, c
  <2>1. Descends(P, S, c)
    BY <1>3 DEF Descends
  <2> QED  BY <1>1, <1>2, <2>1, SubsetInduction
<1>5. S \cap u = u
  OBVIOUS
<1> QED  BY <1>4, <1>5

(* A table of sums serves every subset.                                    *)
LEMMA SumsOfSubset ==
  ASSUME NEW S, NEW l, NEW g, Sums(g, S, l), NEW u \in SUBSET S
  PROVE  Sums(g, u, l)
BY DEF Sums

Agree(l, k, S) == \A t \in S : l[t] = k[t]
OneMore(l, t)  == [l EXCEPT ![t] = @ + 1]

(* The number of requests from a time on: another ledger that has the same *)
(* ones, and one more.                                                     *)
LEMMA CountAgrees ==
  ASSUME NEW D, IsFiniteSet(D), NEW l \in [D -> Nat], NEW k \in [D -> Nat], NEW since,
         Agree(l, k, From(D, since))
  PROVE  ZCount(l, since) = ZCount(k, since) /\ ZCount(l, since) \in Nat
<1> DEFINE S == From(D, since)
<1>1. IsFiniteSet(S) /\ S \subseteq D
  BY FS_Subset DEF From
<1>2. \A t \in S : l[t] = k[t]
  BY DEF Agree
<1>3. \A x \in S : l[x] \in Nat /\ k[x] \in Nat
  BY <1>1
<1> HIDE DEF S
<1>4. PICK g \in [SUBSET S -> Nat] : Sums(g, S, l)
  BY <1>1, <1>3, SumExists
<1>5. PICK h \in [SUBSET S -> Nat] : Sums(h, S, k)
  BY <1>1, <1>3, SumExists
<1>6. g[S] = h[S] /\ g[S] \in Nat
  BY <1>1, <1>2, <1>4, <1>5, SumsAgree
<1>7. ZCount(l, since) = g[S] /\ ZCount(k, since) = h[S]
  BY <1>4, <1>5, CountIs DEF S
<1> QED  BY <1>6, <1>7

(* A request entered since then counts once.                               *)
LEMMA CountOneMore ==
  ASSUME NEW D, IsFiniteSet(D), NEW l \in [D -> Nat], NEW since, NEW t \in From(D, since)
  PROVE  ZCount(OneMore(l, t), since) = ZCount(l, since) + 1
<1> DEFINE S == From(D, since)
           k == OneMore(l, t)
<1>1. IsFiniteSet(S) /\ S \subseteq D /\ t \in S
  BY FS_Subset DEF From
<1>2. k \in [D -> Nat] /\ k[t] = l[t] + 1 /\ \A x \in S \ {t} : k[x] = l[x]
  BY <1>1 DEF OneMore
<1> HIDE DEF S, k
<1>3. \A x \in S : l[x] \in Nat /\ k[x] \in Nat
  BY <1>1, <1>2
<1>4. PICK g \in [SUBSET S -> Nat] : Sums(g, S, l)
  BY <1>1, <1>3, SumExists
<1>5. PICK h \in [SUBSET S -> Nat] : Sums(h, S, k)
  BY <1>1, <1>3, SumExists
<1> DEFINE u == S \ {t}
<1>6. u \in SUBSET S /\ IsFiniteSet(u) /\ \A x \in u : l[x] = k[x]
  BY <1>1, <1>2, FS_Subset
<1>7. g[S] = l[t] + g[u] /\ h[S] = k[t] + h[u]
  BY <1>1, <1>4, <1>5 DEF Sums
<1> HIDE DEF u
<1>8. g[u] = h[u]
  <2>1. Sums(g, u, l) /\ Sums(h, u, k)
    BY <1>4, <1>5, <1>6, SumsOfSubset
  <2> QED  BY <1>6, <2>1, SumsAgree
<1>9. ZCount(l, since) = g[S] /\ ZCount(k, since) = h[S]
  BY <1>2, <1>4, <1>5, CountIs DEF S
<1>10. l[t] \in Nat /\ g[u] \in Nat
  BY <1>1, <1>3, <1>6
<1> QED  BY <1>2, <1>7, <1>8, <1>9, <1>10 DEF k

(* Times without requests need not be counted.                             *)
LEMMA CountPads ==
  ASSUME NEW D, IsFiniteSet(D), NEW l \in [D -> Nat], NEW a, NEW b,
         From(D, b) \subseteq From(D, a), \A t \in From(D, a) \ From(D, b) : l[t] = 0
  PROVE  ZCount(l, a) = ZCount(l, b)
<1> DEFINE S == From(D, a)
           u == From(D, b)
<1>1. IsFiniteSet(S) /\ S \subseteq D /\ u \in SUBSET S /\ \A t \in S \ u : l[t] = 0
  BY FS_Subset DEF From
<1> HIDE DEF S, u
<1>2. \A x \in S : l[x] \in Nat
  BY <1>1
<1>3. PICK g \in [SUBSET S -> Nat] : Sums(g, S, l)
  BY <1>1, <1>2, SumExists
<1>4. Sums(g, u, l) /\ g[S] = g[u]
  BY <1>1, <1>3, SumsOfSubset, SumsPad
<1>5. ZCount(l, a) = g[S] /\ ZCount(l, b) = g[u]
  BY <1>3, <1>4, CountIs DEF S, u
<1> QED  BY <1>4, <1>5

-----------------------------------------------------------------------------
(* The advisory lock.                                                      *)

Fields == {"pc", "id", "at", "window", "settledToo", "rest", "answer", "got", "inserted",
           "changed", "stale", "status", "incomplete", "refused"}

(* A run is a record with these fields, and every process has one.         *)
IsRun(s)  == s = [x \in Fields |-> s[x]] /\ s.status \in Statuses
IsRuns(f) == f = [r \in Runners |-> f[r]] /\ \A r \in Runners : IsRun(f[r])

RunningRows == {id \in DOMAIN rows : rows[id] = "running"}

(* OneRunAtATime made inductive: a run inside holds the lock, and its row  *)
(* is the only one marked running.                                         *)
Holds(r) ==
    lock = {r} /\ run[r].id \in DOMAIN rows /\ RunningRows = {run[r].id}

LockInv ==
    /\ IsRuns(run) /\ rows \in Seq(Statuses)
    /\ "lock" \notin faults => \A r \in Runners : Inside(r) => Holds(r)

(* It implies OneRunAtATime.                                               *)
LEMMA Excludes == LockInv => OneRunAtATime
BY DEF LockInv, Holds, OneRunAtATime, RunningRows

(* No run at all is a run record.                                          *)
LEMMA IdleRun == IsRun(Idle) /\ Idle.pc = "idle"
BY DEF Idle, IsRun, Fields, Statuses

(* A step in which every process stays in its run or outside one, and the  *)
(* lock and the table of runs stay as they are.                            *)
Keeps ==
    /\ IsRuns(run')
    /\ \A q \in Runners : run'[q].id = run[q].id /\ (run'[q].pc = "idle" <=> run[q].pc = "idle")
    /\ UNCHANGED <<rows, lock>> /\ faults \subseteq faults'

(* Such a step keeps the invariant.                                        *)
LEMMA KeepsLockInv == ASSUME LockInv, Keeps PROVE LockInv'
BY DEF LockInv, Keeps, Inside, Holds, RunningRows

(* The steps of a run between its beginning and its end.                   *)
Middle(r) ==
    \/ Stop(r) \/ SkipRefused(r) \/ Postpone(r) \/ Spend(r) \/ Ask(r) \/ Insert(r)
    \/ CacheInserted(r) \/ RecordSpans(r) \/ RefreshRollups(r) \/ RepairCache(r)

(* The steps inside a run are such steps.                                  *)
LEMMA MiddleKeeps ==
    ASSUME IsRuns(run), NEW r \in Runners, Middle(r)
    PROVE  Keeps
<1>1. CASE Stop(r)
  BY <1>1 DEF Stop, Keeps, IsRuns, IsRun, Fields, Statuses, world
<1>2. CASE SkipRefused(r)
  <2> DEFINE t == Tail(run[r].rest)
             p == AfterRequest(t)
  <2>1. p # "idle"
    BY DEF AfterRequest
  <2>2. run' = [run EXCEPT ![r].rest = t, ![r].pc = p] /\ run[r].pc # "idle"
        /\ UNCHANGED <<rows, lock, faults>>
    BY <1>2 DEF SkipRefused, world
  <2> HIDE DEF t, p
  <2> QED  BY <2>1, <2>2 DEF Keeps, IsRuns, IsRun, Fields
<1>3. CASE Postpone(r)
  <2>1. /\ run' = [run EXCEPT ![r].pc = "roll", ![r].rest = <<>>, ![r].incomplete = TRUE]
        /\ run[r].pc # "idle" /\ UNCHANGED <<rows, lock>> /\ faults \subseteq faults'
    BY <1>3 DEF Postpone, Fault
  <2> QED  BY <2>1 DEF Keeps, IsRuns, IsRun, Fields
<1>4. CASE Ask(r)
  <2>1. run[r].pc # "idle" /\ UNCHANGED <<rows, lock, faults>>
    BY <1>4 DEF Ask, world
  <2>2. \/ \E g : run' = [run EXCEPT ![r].pc = "insert", ![r].answer = "bars", ![r].got = g]
        \/ \E a : run' = [run EXCEPT ![r].pc = "record", ![r].answer = a, ![r].got = {}]
    BY <1>4 DEF Ask
  <2>3. CASE \E g : run' = [run EXCEPT ![r].pc = "insert", ![r].answer = "bars", ![r].got = g]
    BY <2>1, <2>3 DEF Keeps, IsRuns, IsRun, Fields
  <2>4. CASE \E a : run' = [run EXCEPT ![r].pc = "record", ![r].answer = a, ![r].got = {}]
    BY <2>1, <2>4 DEF Keeps, IsRuns, IsRun, Fields
  <2> QED  BY <2>2, <2>3, <2>4
<1>5. CASE Insert(r)
  <2> DEFINE i == Inserted(run[r].got)
  <2>1. run' = [run EXCEPT ![r].pc = "cache", ![r].inserted = i] /\ run[r].pc # "idle"
        /\ UNCHANGED <<rows, lock, faults>>
    BY <1>5 DEF Insert, world
  <2> DEFINE t == [run[r] EXCEPT !.pc = "cache", !.inserted = i]
  <2>2. run' = [run EXCEPT ![r] = t]
    BY <2>1 DEF IsRuns
  <2> HIDE DEF i
  <2>3. IsRun(t) /\ t.id = run[r].id /\ t.pc # "idle"
    BY DEF IsRuns, IsRun, Fields
  <2> HIDE DEF t
  <2> QED  BY <2>1, <2>2, <2>3 DEF Keeps, IsRuns
<1>6. CASE Spend(r) \/ CacheInserted(r) \/ RefreshRollups(r) \/ RepairCache(r)
  <2>1. /\ run[r].pc # "idle" /\ UNCHANGED <<rows, lock, faults>>
        /\ \E p \in {"send", "record", "repair", "finish"} : run' = [run EXCEPT ![r].pc = p]
    BY <1>6 DEF Spend, CacheInserted, RefreshRollups, RepairCache, Goto, world
  <2> QED  BY <2>1 DEF Keeps, IsRuns, IsRun, Fields
<1>7. CASE RecordSpans(r)
  <2> DEFINE rest == IF run[r].answer \in {"auth", "rate"} THEN <<>> ELSE Tail(run[r].rest)
             p == AfterRequest(rest)
             c == run[r].changed \cup run[r].inserted
             f == run[r].refused \/ run[r].answer = "forbidden"
             n == run[r].incomplete \/ run[r].answer # "bars"
             s == IF run[r].answer = "auth" THEN "failed" ELSE run[r].status
  <2>1. p # "idle" /\ s \in Statuses
    BY DEF AfterRequest, IsRuns, IsRun, Statuses
  <2>2. run[r].pc # "idle" /\ UNCHANGED <<rows, lock, faults>>
    BY <1>7 DEF RecordSpans, world
  <2> DEFINE t == [run[r] EXCEPT !.pc = p, !.rest = rest, !.changed = c, !.inserted = {},
                                 !.got = {}, !.answer = "bars", !.refused = f,
                                 !.incomplete = n, !.status = s]
  <2>3. run' = [run EXCEPT ![r] = t]
    BY <1>7, Zenon DEF RecordSpans
  <2> HIDE DEF rest, p, c, f, n, s
  <2>4. IsRun(t) /\ t.id = run[r].id /\ t.pc # "idle"
    BY <2>1 DEF IsRuns, IsRun, Fields
  <2> HIDE DEF t
  <2> QED  BY <2>2, <2>3, <2>4 DEF Keeps, IsRuns
<1> QED  BY <1>1, <1>2, <1>3, <1>4, <1>5, <1>6, <1>7 DEF Middle

(* abort_stale_runs leaves no row running.                                 *)
LEMMA NoneRunning ==
    ASSUME NEW rs \in Seq(Statuses)
    PROVE  LET a == abort_stale_runs(rs)
           IN a \in Seq(Statuses) /\ Len(a) = Len(rs)
              /\ \A id \in DOMAIN a : a[id] # "running"
BY DEF abort_stale_runs, Statuses

(* A run that begins takes the lock and the only running row.              *)
LEMMA StartLocks ==
    ASSUME LockInv, NEW r \in Runners, Start(r)
    PROVE  LockInv'
<1> DEFINE a == abort_stale_runs(rows)
<1>1. /\ a \in Seq(Statuses) /\ Len(a) = Len(rows)
      /\ \A id \in DOMAIN a : a[id] # "running"
  BY NoneRunning DEF LockInv
<1>2. /\ faults' = faults
      /\ "lock" \notin faults => \A q \in Runners : run[q].pc = "idle"
  BY DEF Start, world, exclusive, LockInv, Inside, Holds
<1>3. \/ rows' = a /\ UNCHANGED <<lock, run>>
      \/ \E w, y, f, s, i : /\ rows' = Append(a, "running") /\ lock' = {r}
                            /\ run' = [run EXCEPT ![r] = NewRun(w, y, f, s, i)]
  BY DEF Start
<1> HIDE DEF a
<1>4. CASE rows' = a /\ UNCHANGED <<lock, run>>
  BY <1>1, <1>2, <1>4 DEF LockInv, Inside
<1>5. CASE \E w, y, f, s, i : /\ rows' = Append(a, "running") /\ lock' = {r}
                              /\ run' = [run EXCEPT ![r] = NewRun(w, y, f, s, i)]
  <2>1. PICK w, y, f, s, i : /\ rows' = Append(a, "running") /\ lock' = {r}
                             /\ run' = [run EXCEPT ![r] = NewRun(w, y, f, s, i)]
    BY <1>5
  <2> DEFINE new == NewRun(w, y, f, s, i)
  <2>2. IsRun(new) /\ new.id = Len(rows) + 1
    <3> DEFINE p == AfterRequest(f)
    <3>1. new = [Idle EXCEPT !.pc = p, !.id = Len(rows) + 1, !.at = now, !.window = w,
                             !.settledToo = y, !.rest = f, !.stale = s, !.incomplete = i]
      BY DEF NewRun
    <3> HIDE DEF p, new
    <3> QED  BY <3>1, IdleRun DEF IsRun, Fields
  <2>3. run' = [run EXCEPT ![r] = new]
    BY <2>1
  <2> HIDE DEF new
  <2>4. IsRuns(run') /\ run'[r] = new /\ \A q \in Runners \ {r} : run'[q] = run[q]
    BY <2>2, <2>3 DEF LockInv, IsRuns
  <2>5. /\ rows' \in Seq(Statuses) /\ new.id \in DOMAIN rows'
        /\ \A id \in DOMAIN rows' : rows'[id] = "running" <=> id = new.id
    BY <1>1, <2>1, <2>2 DEF Statuses, LockInv
  <2>6. "lock" \notin faults' => \A q \in Runners : Inside(q)' => q = r
    BY <1>2, <2>4 DEF Inside
  <2>7. Holds(r)'
    BY <2>1, <2>4, <2>5 DEF Holds, RunningRows
  <2> QED  BY <2>4, <2>5, <2>6, <2>7 DEF LockInv
<1> QED  BY <1>3, <1>4, <1>5

(* A run that finishes or is abandoned leaves the lock to nobody.          *)
LEMMA EndUnlocks ==
    ASSUME LockInv, NEW r \in Runners, Inside(r), run' = [run EXCEPT ![r] = Idle],
           rows' \in Seq(Statuses), faults \subseteq faults'
    PROVE  LockInv'
<1>1. IsRuns(run') /\ ~Inside(r)' /\ \A q \in Runners \ {r} : run'[q] = run[q]
  BY IdleRun DEF LockInv, IsRuns, Inside
<1>2. "lock" \notin faults' => \A q \in Runners : ~Inside(q)'
  BY <1>1 DEF LockInv, Inside, Holds
<1> QED  BY <1>1, <1>2 DEF LockInv

(* A row may change its status.                                            *)
LEMMA RowChanges ==
    ASSUME NEW rs \in Seq(Statuses), NEW id, NEW v \in Statuses
    PROVE  [rs EXCEPT ![id] = v] \in Seq(Statuses)
<1>1. CASE id \in 1..Len(rs)
  BY <1>1, ExceptSeq
<1>2. CASE id \notin 1..Len(rs)
  <2>1. [rs EXCEPT ![id] = v] = [k \in 1..Len(rs) |-> rs[k]]
    BY <1>2
  <2>2. [k \in 1..Len(rs) |-> rs[k]] = rs
    OBVIOUS
  <2> QED  BY <2>1, <2>2
<1> QED  BY <1>1, <1>2

(* Every step keeps the invariant of the lock.                             *)
LEMMA StepLocks ==
    ASSUME LockInv, [Next]_vars
    PROVE  LockInv'
<1>1. CASE \E r \in Runners : Start(r)
  BY <1>1, StartLocks
<1>2. CASE \E r \in Runners : Middle(r)
  BY <1>2, MiddleKeeps, KeepsLockInv DEF LockInv
<1>3. CASE \E r \in Runners : Finish(r)
  <2>1. PICK r \in Runners : Finish(r)
    BY <1>3
  <2>2. FinalStatus(run[r]) \in Statuses
    <3>1. FinalStatus(run[r]) \in {run[r].status, "partial", "succeeded"}
      BY Zenon DEF FinalStatus
    <3> QED  BY <3>1 DEF Statuses, LockInv, IsRuns, IsRun
  <2>3. rows' = [rows EXCEPT ![run[r].id] = FinalStatus(run[r])] /\ rows \in Seq(Statuses)
    BY <2>1 DEF Finish, LockInv
  <2>4. rows' \in Seq(Statuses)
    BY <2>2, <2>3, RowChanges
  <2> QED  BY <2>1, <2>4, EndUnlocks DEF Finish, Inside, world
<1>4. CASE \E r \in Runners : Abandon(r)
  BY <1>4, EndUnlocks DEF Abandon, Inside, Fault, LockInv
<1>5. CASE \E r \in Runners : LockLost(r)
  BY <1>5 DEF LockLost, Fault, LockInv
<1>6. CASE NextMinute \/ LiveRequest \/ StreamKeeps \/ (\E m \in Minutes : WorkerStores(m))
           \/ UNCHANGED vars
  <2>1. UNCHANGED <<run, rows, lock>> /\ faults \subseteq faults'
    BY <1>6 DEF NextMinute, LiveRequest, StreamKeeps, WorkerStores, vars, Fault
  <2> QED  BY <2>1, KeepsLockInv DEF Keeps, LockInv
<1> QED  BY <1>1, <1>2, <1>3, <1>4, <1>5, <1>6 DEF Next, RunStep, Middle

-----------------------------------------------------------------------------
(* The invariant.                                                          *)

(* Where a run may be.                                                     *)
Steps == {"idle", "ask", "send", "insert", "cache", "record", "roll", "repair", "finish"}

(* Requests in order that the provider takes, for these minutes.           *)
PlanFor(q, ms) ==
    /\ q \in Plans /\ InOrder(q, Len(q))
    /\ \A k \in 1..Len(q) : Fit(q[k]) /\ Wanted(q[k]) \subseteq ms

(* A run at time t: its window ends Horizon before it began or earlier,    *)
(* and what it asks for, got, inserted and changed lies in that window.    *)
RunFine(s, t) ==
    /\ s.pc \in Steps /\ s.id \in 0..MaxRuns /\ s.at \in 0..t /\ s.settledToo \in BOOLEAN
    /\ s.answer \in Answers /\ s.incomplete \in BOOLEAN /\ s.refused \in BOOLEAN
    /\ s.stale \subseteq Minutes
    /\ s.window = [start |-> s.window.start, end |-> s.window.end]
    /\ s.pc = "idle" => s.window = Idle.window
    /\ s.pc # "idle" => /\ s.window.start \in Nat /\ s.window.start <= s.window.end
                        /\ s.window.end \in Nat /\ s.window.end <= s.at - Horizon - 1
    /\ s.got \cup s.inserted \cup s.changed \subseteq each_minute(s.window)
    /\ PlanFor(s.rest, each_minute(s.window))
    /\ s.pc \in {"ask", "send", "insert", "cache", "record"} => s.rest # <<>>
    /\ s.pc \notin {"cache", "record"} => s.inserted = {}

RunsInv == \A r \in Runners : RunFine(run[r], now)

(* Ticks wait for past minutes only, runs recover minutes past the horizon *)
(* only, and no minute is both, unless the stream kept its ticks too long. *)
PastInv ==
    /\ pending \subseteq 0..now - 1
    /\ \A m \in Minutes : m >= now => bars[m] = "none"
    /\ \A m \in Minutes : bars[m] \in Recovered => m < now - Horizon
    /\ "late" \notin faults => \A m \in pending : m >= now - Horizon
    /\ NeverMixed

(* The ledger has every request of the last day, while Redis took them.    *)
LedgerInv ==
    "redis" \notin faults => \A t \in 0..MaxNow : t > now - DayMs => ledger[t] = made[t]

(* The last request of a minute has a row in the table of spans, or its    *)
(* run has still to record it, unless a run was cut short in between.      *)
AskInv ==
    "unrecorded" \notin faults => \A m \in Minutes : asked[m] # Never =>
        \/ \E s \in spans : m \in each_minute(s) /\ s.at = asked[m]
        \/ \E r \in Runners : /\ run[r].pc \in Unrecorded /\ run[r].at = asked[m]
                               /\ m \in Wanted(Head(run[r].rest))

(* No minute a run still has to ask for was asked for by a run that began  *)
(* less than Settle before it.                                             *)
DueInv ==
    faults \cap {"unrecorded", "lock"} = {} => \A r \in Runners : ~run[r].settledToo =>
        \A k \in 1..Len(run[r].rest) : (k = 1 => run[r].pc \notin Unrecorded) =>
            \A m \in Wanted(run[r].rest[k]) :
                asked[m] = Never \/ run[r].at - asked[m] >= Settle

(* In the closed buckets of a run's window a minute is rolled up as it is  *)
(* stored, or the run's refresh is to come and has it among its targets.   *)
RollInv ==
    faults \cap {"late", "lock"} = {} => \A r \in Runners : Inside(r) =>
        \A m \in each_minute(run[r].window)
                   \cap refresh_range(run[r].window.start, run[r].window.end, run[r].at) :
            \/ rolled[m] = bars[m]
            \/ /\ run[r].pc \in {"ask", "send", "insert", "cache", "record", "roll"}
               /\ m \in run[r].stale \cup run[r].changed \cup run[r].inserted

-----------------------------------------------------------------------------
(* What each step does to the run that takes it.                           *)

(* The other runs are as they were.                                        *)
Moved(r) == IsRuns(run') /\ \A q \in Runners \ {r} : run'[q] = run[q]

(* What a run is about stays while it lasts.                               *)
SameJob(s, t) ==
    /\ t.id = s.id /\ t.at = s.at /\ t.window = s.window /\ t.settledToo = s.settledToo
    /\ t.stale = s.stale

SameFinds(s, t) == t.got = s.got /\ t.inserted = s.inserted /\ t.changed = s.changed

Flags(s, t) ==
    /\ t.answer \in {s.answer} \cup Answers
    /\ t.incomplete \in {s.incomplete} \cup BOOLEAN /\ t.refused \in {s.refused} \cup BOOLEAN

(* Stop ends the requests.                                                 *)
LEMMA StopIs ==
  ASSUME IsRuns(run), NEW r \in Runners, Stop(r)
  PROVE  LET s == run[r] t == run'[r]
         IN /\ Moved(r) /\ SameJob(s, t) /\ SameFinds(s, t) /\ Flags(s, t)
            /\ s.pc = "ask" /\ t.pc = "roll" /\ t.rest = <<>>
<1>1. /\ run' = [run EXCEPT ![r].pc = "roll", ![r].rest = <<>>, ![r].status = "aborted",
                            ![r].incomplete = TRUE]
      /\ run[r].pc = "ask"
  BY DEF Stop
<1> QED  BY <1>1 DEF IsRuns, IsRun, Fields, Moved, SameJob, SameFinds, Flags, Statuses

(* SkipRefused drops one request.                                          *)
LEMMA SkipIs ==
  ASSUME IsRuns(run), NEW r \in Runners, SkipRefused(r)
  PROVE  LET s == run[r] t == run'[r]
         IN /\ Moved(r) /\ SameJob(s, t) /\ SameFinds(s, t) /\ Flags(s, t)
            /\ s.pc = "ask" /\ t.pc = AfterRequest(t.rest) /\ t.rest = Tail(s.rest)
<1> DEFINE u == Tail(run[r].rest)
           p == AfterRequest(u)
<1>1. run' = [run EXCEPT ![r].rest = u, ![r].pc = p] /\ run[r].pc = "ask"
  BY DEF SkipRefused
<1>2. p = AfterRequest(u)
  OBVIOUS
<1> HIDE DEF u, p
<1>3. run'[r].pc = p /\ run'[r].rest = u
  BY <1>1 DEF IsRuns, IsRun, Fields
<1>4. run'[r].pc = AfterRequest(run'[r].rest)
  BY <1>2, <1>3
<1>5. Moved(r) /\ SameJob(run[r], run'[r]) /\ SameFinds(run[r], run'[r]) /\ Flags(run[r], run'[r])
  BY <1>1 DEF IsRuns, IsRun, Fields, Moved, SameJob, SameFinds, Flags
<1> QED  BY <1>1, <1>3, <1>4, <1>5 DEF u

(* Postpone drops the rest of the requests.                                *)
LEMMA PostponeIs ==
  ASSUME IsRuns(run), NEW r \in Runners, Postpone(r)
  PROVE  LET s == run[r] t == run'[r]
         IN /\ Moved(r) /\ SameJob(s, t) /\ SameFinds(s, t) /\ Flags(s, t)
            /\ s.pc = "ask" /\ t.pc = "roll" /\ t.rest = <<>>
<1>1. /\ run' = [run EXCEPT ![r].pc = "roll", ![r].rest = <<>>, ![r].incomplete = TRUE]
      /\ run[r].pc = "ask"
  BY DEF Postpone
<1> QED  BY <1>1 DEF IsRuns, IsRun, Fields, Moved, SameJob, SameFinds, Flags

(* Ask finds minutes of the first request, or fails.                       *)
LEMMA AskIs ==
  ASSUME IsRuns(run), NEW r \in Runners, Ask(r)
  PROVE  LET s == run[r] t == run'[r]
         IN /\ Moved(r) /\ SameJob(s, t) /\ Flags(s, t)
            /\ s.pc = "send" /\ t.pc \in {"insert", "record"} /\ t.rest = s.rest
            /\ t.got \subseteq Wanted(Head(s.rest))
            /\ t.inserted = s.inserted /\ t.changed = s.changed
<1>1. run[r].pc = "send"
  BY DEF Ask
<1>2. CASE \E got \in SUBSET Wanted(Head(run[r].rest)) :
             run' = [run EXCEPT ![r].pc = "insert", ![r].answer = "bars", ![r].got = got]
  <2>1. PICK got \in SUBSET Wanted(Head(run[r].rest)) :
             run' = [run EXCEPT ![r].pc = "insert", ![r].answer = "bars", ![r].got = got]
    BY <1>2
  <2> DEFINE t == [run[r] EXCEPT !.pc = "insert", !.answer = "bars", !.got = got]
  <2>2. run' = [run EXCEPT ![r] = t]
    BY <2>1 DEF IsRuns
  <2>3. /\ IsRun(t) /\ SameJob(run[r], t) /\ t.pc = "insert" /\ t.rest = run[r].rest
        /\ t.inserted = run[r].inserted /\ t.changed = run[r].changed /\ t.got = got
        /\ t.answer = "bars" /\ t.incomplete = run[r].incomplete /\ t.refused = run[r].refused
    BY DEF IsRuns, IsRun, Fields, SameJob
  <2> HIDE DEF t
  <2>4. run'[r] = t /\ Moved(r)
    BY <2>2, <2>3 DEF IsRuns, Moved
  <2>5. Flags(run[r], t)
    BY <2>3 DEF Flags, Answers
  <2> QED  BY <1>1, <2>3, <2>4, <2>5
<1>3. CASE \E e \in Answers \ {"bars"} :
             run' = [run EXCEPT ![r].pc = "record", ![r].answer = e, ![r].got = {}]
  BY <1>1, <1>3 DEF IsRuns, IsRun, Fields, Moved, SameJob, Flags
<1> QED  BY <1>2, <1>3 DEF Ask

(* Insert notes what was inserted.                                         *)
LEMMA InsertIs ==
  ASSUME IsRuns(run), NEW r \in Runners, Insert(r)
  PROVE  LET s == run[r] t == run'[r]
         IN /\ Moved(r) /\ SameJob(s, t) /\ Flags(s, t)
            /\ s.pc = "insert" /\ t.pc = "cache" /\ t.rest = s.rest
            /\ t.inserted = Inserted(s.got) /\ t.got = s.got /\ t.changed = s.changed
<1> DEFINE i == Inserted(run[r].got)
<1>1. run' = [run EXCEPT ![r].pc = "cache", ![r].inserted = i] /\ run[r].pc = "insert"
  BY DEF Insert
<1> DEFINE t == [run[r] EXCEPT !.pc = "cache", !.inserted = i]
<1>2. run' = [run EXCEPT ![r] = t]
  BY <1>1 DEF IsRuns
<1> HIDE DEF i
<1>3. /\ IsRun(t) /\ SameJob(run[r], t) /\ Flags(run[r], t)
      /\ t.pc = "cache" /\ t.rest = run[r].rest
      /\ t.inserted = i /\ t.got = run[r].got /\ t.changed = run[r].changed
  BY DEF IsRuns, IsRun, Fields, SameJob, Flags
<1> HIDE DEF t
<1>4. run'[r] = t /\ Moved(r)
  BY <1>2, <1>3 DEF IsRuns, Moved
<1> QED  BY <1>1, <1>3, <1>4 DEF i

(* The other steps only go on.                                             *)
LEMMA GotoIs ==
  ASSUME IsRuns(run), NEW r \in Runners, NEW p, Goto(r, p)
  PROVE  LET s == run[r] t == run'[r]
         IN /\ Moved(r) /\ SameJob(s, t) /\ SameFinds(s, t) /\ Flags(s, t)
            /\ t.pc = p /\ t.rest = s.rest
BY DEF Goto, IsRuns, IsRun, Fields, Moved, SameJob, SameFinds, Flags

(* RecordSpans drops the request, or all of them, and forgets its answer.  *)
LEMMA RecordIs ==
  ASSUME IsRuns(run), NEW r \in Runners, RecordSpans(r)
  PROVE  LET s == run[r] t == run'[r]
         IN /\ Moved(r) /\ SameJob(s, t) /\ Flags(s, t)
            /\ s.pc = "record" /\ t.pc = AfterRequest(t.rest)
            /\ t.rest \in {<<>>, Tail(s.rest)}
            /\ t.got = {} /\ t.inserted = {} /\ t.changed = s.changed \cup s.inserted
<1> DEFINE rest == IF run[r].answer \in {"auth", "rate"} THEN <<>> ELSE Tail(run[r].rest)
           p == AfterRequest(rest)
           c == run[r].changed \cup run[r].inserted
           f == run[r].refused \/ run[r].answer = "forbidden"
           n == run[r].incomplete \/ run[r].answer # "bars"
           a == IF run[r].answer = "auth" THEN "failed" ELSE run[r].status
           t == [run[r] EXCEPT !.pc = p, !.rest = rest, !.changed = c, !.inserted = {},
                               !.got = {}, !.answer = "bars", !.refused = f,
                               !.incomplete = n, !.status = a]
<1>1. run' = [run EXCEPT ![r] = t] /\ run[r].pc = "record"
  BY Zenon DEF RecordSpans
<1>2. p = AfterRequest(rest) /\ rest \in {<<>>, Tail(run[r].rest)}
      /\ c = run[r].changed \cup run[r].inserted /\ f \in BOOLEAN /\ n \in BOOLEAN
  OBVIOUS
<1>3. a \in Statuses
  BY DEF IsRuns, IsRun, Statuses
<1> HIDE DEF rest, p, c, f, n, a
<1>4. /\ IsRun(t) /\ SameJob(run[r], t) /\ t.pc = p /\ t.rest = rest /\ t.got = {}
      /\ t.inserted = {} /\ t.changed = c /\ t.answer = "bars" /\ t.refused = f /\ t.incomplete = n
  BY <1>3 DEF IsRuns, IsRun, Fields, SameJob
<1> HIDE DEF t
<1>5. run'[r] = t /\ Moved(r)
  BY <1>1, <1>4 DEF IsRuns, Moved
<1>6. Flags(run[r], t)
  BY <1>2, <1>4 DEF Flags, Answers
<1> QED  BY <1>1, <1>2, <1>4, <1>5, <1>6

(* A run that ends.                                                        *)
LEMMA EndIs ==
  ASSUME IsRuns(run), NEW r \in Runners, run' = [run EXCEPT ![r] = Idle]
  PROVE  Moved(r) /\ run'[r] = Idle
BY IdleRun DEF IsRuns, Moved

(* A run with these, that has not found anything yet.                      *)
IsNew(t, w, y, f, st, i) ==
    /\ IsRun(t) /\ t.pc = AfterRequest(f) /\ t.id = Len(rows) + 1 /\ t.at = now
    /\ t.window = w /\ t.settledToo = y /\ t.rest = f /\ t.stale = st /\ t.incomplete = i
    /\ t.answer = "bars" /\ t.got = {} /\ t.inserted = {} /\ t.changed = {}
    /\ t.refused = FALSE

(* A run that begins is new.                                               *)
LEMMA NewRunIs ==
  ASSUME NEW w, NEW y, NEW f, NEW st, NEW i
  PROVE  IsNew(NewRun(w, y, f, st, i), w, y, f, st, i)
<1> DEFINE p == AfterRequest(f)
           n == Len(rows) + 1
           t == [Idle EXCEPT !.pc = p, !.id = n, !.at = now, !.window = w,
                             !.settledToo = y, !.rest = f, !.stale = st, !.incomplete = i]
<1>1. NewRun(w, y, f, st, i) = t /\ p = AfterRequest(f) /\ n = Len(rows) + 1
  BY DEF NewRun
<1> HIDE DEF p, n
<1>2. /\ IsRun(t) /\ t.pc = p /\ t.id = n /\ t.at = now
      /\ t.window = w /\ t.settledToo = y /\ t.rest = f /\ t.stale = st /\ t.incomplete = i
      /\ t.answer = "bars" /\ t.got = {} /\ t.inserted = {} /\ t.changed = {}
      /\ t.refused = FALSE
  BY DEF Idle, IsRun, Fields, Statuses
<1> HIDE DEF t
<1> QED  BY <1>1, <1>2 DEF IsNew

-----------------------------------------------------------------------------
(* What a run has still to ask.                                            *)

(* A plan: its length, its elements, its head and its tail.                *)
LEMMA PlansAre ==
  ASSUME NEW q \in Plans
  PROVE  /\ Len(q) \in Nat /\ DOMAIN q = 1..Len(q) /\ \A i \in 1..Len(q) : q[i] \in Spans
         /\ q # <<>> <=> Len(q) > 0
         /\ q # <<>> => /\ Tail(q) \in Plans /\ Len(Tail(q)) = Len(q) - 1
                        /\ \A i \in 1..(Len(q) - 1) : Tail(q)[i] = q[i + 1]
                        /\ Head(q) = q[1] /\ 1 \in 1..Len(q)
<1>1. Len(q) \in Nat /\ DOMAIN q = 1..Len(q) /\ \A i \in 1..Len(q) : q[i] \in Spans
  BY LenProperties, ElementOfSeq DEF Plans
<1>2. (q # <<>> => Len(q) \in Nat \ {0}) /\ (q = <<>> => Len(q) = 0)
  BY EmptySeq DEF Plans
<1> DEFINE n == Len(q)
<1>3. n \in Nat /\ (q # <<>> => n \in Nat \ {0}) /\ (q = <<>> => n = 0)
  BY <1>1, <1>2
<1>4. ASSUME q # <<>>
      PROVE  /\ Tail(q) \in Plans /\ Len(Tail(q)) = n - 1
             /\ \A i \in 1..(n - 1) : Tail(q)[i] = q[i + 1]
             /\ Head(q) = q[1]
  BY <1>4, HeadTailProperties DEF Plans
<1> HIDE DEF n, Plans
<1>5. (q # <<>> <=> n > 0) /\ (q # <<>> => 1 \in 1..n)
  BY <1>3
<1> QED  BY <1>1, <1>4, <1>5 DEF n

(* A plan without its first request, and its first requests alone.         *)
LEMMA PlanTail ==
  ASSUME NEW q, NEW ms, PlanFor(q, ms), q # <<>>
  PROVE  /\ PlanFor(Tail(q), ms) /\ Wanted(Head(q)) \subseteq ms
         /\ Head(q) \in Spans /\ Fit(Head(q))
         /\ \A k \in 1..Len(Tail(q)) : Apart(Head(q), Tail(q)[k])
<1> DEFINE n == Len(q)
           u == Tail(q)
<1>1. /\ n \in Nat /\ u \in Plans /\ Len(u) = n - 1 /\ 1 \in 1..n
      /\ \A i \in 1..(n - 1) : u[i] = q[i + 1]
      /\ Head(q) = q[1] /\ q[1] \in Spans
  BY PlansAre DEF PlanFor
<1>2. /\ \A i, j \in 1..n : i < j => Apart(q[i], q[j])
      /\ \A k \in 1..n : Fit(q[k]) /\ Wanted(q[k]) \subseteq ms
  BY DEF PlanFor, InOrder
<1> HIDE DEF n, u
<1>3. \A i \in 1..Len(u) : i + 1 \in 1..n /\ 1 < i + 1 /\ u[i] = q[i + 1]
  BY <1>1
<1>4. \A i, j \in 1..Len(u) : i < j => Apart(u[i], u[j])
  <2> SUFFICES ASSUME NEW i \in 1..Len(u), NEW j \in 1..Len(u), i < j PROVE Apart(u[i], u[j])
    OBVIOUS
  <2>1. i + 1 < j + 1
    BY <1>1
  <2> QED  BY <1>2, <1>3, <2>1
<1>5. \A k \in 1..Len(u) : Fit(u[k]) /\ Wanted(u[k]) \subseteq ms /\ Apart(q[1], u[k])
  BY <1>1, <1>2, <1>3
<1> QED  BY <1>1, <1>2, <1>4, <1>5 DEF PlanFor, InOrder, u

(* The first requests of a plan are one.                                   *)
LEMMA PlanFirst ==
  ASSUME NEW q, NEW ms, PlanFor(q, ms), NEW n \in 0..Len(q)
  PROVE  PlanFor(SubSeq(q, 1, n), ms) /\ Len(SubSeq(q, 1, n)) = n
         /\ \A k \in 1..n : SubSeq(q, 1, n)[k] = q[k] /\ k \in 1..Len(q)
<1> DEFINE u == SubSeq(q, 1, n)
<1>1. q \in Plans /\ Len(q) \in Nat
  BY PlansAre DEF PlanFor
<1>2. n \in Nat /\ n <= Len(q) /\ \A k \in 1..n : k \in 1..Len(q)
  BY <1>1
<1>3. u \in Plans /\ Len(u) = n /\ \A k \in 1..n : u[k] = q[k]
  <2>1. \A i \in 1..n : q[i] \in Spans
    BY <1>1, <1>2, PlansAre
  <2>2. u = [k \in 1..n |-> q[k]]
    <3>1. u = [k \in 1..(n - 1 + 1) |-> q[k + 1 - 1]]
      OBVIOUS
    <3>2. n - 1 + 1 = n /\ \A k \in 1..n : k + 1 - 1 = k
      BY <1>2
    <3> QED  BY <3>1, <3>2
  <2> HIDE DEF u
  <2>3. u \in [1..n -> Spans]
    BY <2>1, <2>2
  <2>4. u \in Seq(Spans) /\ Len(u) = n
    BY <1>2, <2>3
  <2> QED  BY <2>2, <2>4 DEF Plans
<1> HIDE DEF u
<1>4. \A i, j \in 1..n : i < j => Apart(u[i], u[j])
  BY <1>2, <1>3 DEF PlanFor, InOrder
<1>5. \A k \in 1..n : Fit(u[k]) /\ Wanted(u[k]) \subseteq ms
  BY <1>2, <1>3 DEF PlanFor
<1> QED  BY <1>2, <1>3, <1>4, <1>5 DEF PlanFor, InOrder, u

(* No request at all is a plan for any minutes.                            *)
LEMMA PlanNone ==
  ASSUME NEW ms
  PROVE  PlanFor(<<>>, ms)
<1>1. <<>> \in Plans /\ Len(<<>>) = 0 /\ 1..0 = {}
  BY EmptySeq DEF Plans
<1> QED  BY <1>1 DEF PlanFor, InOrder

(* What a plan may ask for.                                                *)
Ranges(settledToo) == IF settledToo THEN {} ELSE settled \cup asked_since(now - Settle)

Bare(w, settledToo) ==
    {m \in each_minute(w) \ Closed :
        bars[m] = "none" /\ \A s \in Ranges(settledToo) : m \notin each_minute(s)}

(* What may be asked for is what is bare, in spans in order.               *)
LEMMA AskableExact ==
  ASSUME NEW w, w.start \in Nat, w.end \in Nat, w.start <= w.end, NEW y
  PROVE  /\ Askable(w, y) \in Spans /\ Ordered(Askable(w, y))
         /\ \A x : x \in Wanted(Askable(w, y)) <=> x \in Bare(w, y)
<1> DEFINE e == open_minutes(w, Closed)
           n == Len(e)
           q == missing_spans(e, present(w), Ranges(y))
<1>1. Askable(w, y) = q
  BY DEF Askable, Ranges
<1>2. /\ n \in Nat /\ Rising(e, n)
      /\ \A x : x \in each_minute(w) \ Closed <=> \E k \in 1..n : x = e[k]
  BY OpenMinutesExact
<1> HIDE DEF e, n
<1>3. /\ q \in Spans /\ Ordered(q)
      /\ \A x : x \in Wanted(q) <=> \E k \in 1..n : x = e[k] /\ Missing(e[k], present(w), Ranges(y))
  BY <1>2, MissingSpansExact
<1>4. \A m \in each_minute(w) : Missing(m, present(w), Ranges(y))
          <=> bars[m] = "none" /\ \A s \in Ranges(y) : m \notin each_minute(s)
  BY DEF Missing, present
<1> HIDE DEF q
<1>5. ASSUME NEW x PROVE x \in Wanted(q) <=> x \in Bare(w, y)
  <2>1. x \in Wanted(q) <=> (\E k \in 1..n : x = e[k]) /\ Missing(x, present(w), Ranges(y))
    BY <1>3
  <2> QED  BY <1>2, <1>4, <2>1 DEF Bare
<1> QED  BY <1>1, <1>3, <1>5

(* The plan of a window asks for exactly what is bare in it.               *)
LEMMA PlanOf ==
  ASSUME NEW w, w.start \in Nat, w.end \in Nat, w.start <= w.end, NEW y
  PROVE  LET q == plan_requests(Askable(w, y))
         IN /\ PlanFor(q, Bare(w, y))
            /\ \A x : Covers(q, Len(q), x) <=> x \in Bare(w, y)
<1> DEFINE e == Askable(w, y)
           q == plan_requests(e)
<1>1. e \in Spans /\ Ordered(e) /\ \A x : x \in Wanted(e) <=> x \in Bare(w, y)
  BY AskableExact
<1> HIDE DEF e
<1>2. /\ q \in Plans /\ \A k \in 1..Len(q) : q[k] \in Spans /\ Fit(q[k])
      /\ InOrder(q, Len(q))
      /\ \A x : Covers(q, Len(q), x) <=> x \in Wanted(e)
  BY <1>1, PlanExact
<1> HIDE DEF q
<1>3. \A x : Covers(q, Len(q), x) <=> x \in Bare(w, y)
  BY <1>1, <1>2
<1>4. \A k \in 1..Len(q) : Wanted(q[k]) \subseteq Bare(w, y)
  BY <1>3 DEF Covers
<1> QED  BY <1>2, <1>3, <1>4 DEF PlanFor, q, e

(* A window ends Horizon before now, or earlier.                           *)
LEMMA WindowIs ==
  ASSUME now \in 0..MaxNow, MaxNow \in Nat, NEW r \in Runners, NEW w \in Windows(r)
  PROVE  /\ w = [start |-> w.start, end |-> w.end] /\ w.start \in Nat /\ w.end \in Nat
         /\ w.start <= w.end /\ w.end <= now - Horizon - 1
<1>1. Since \subseteq Nat /\ Until \subseteq Nat /\ Lookback \in Nat /\ Horizon \in Nat
  BY RecoveryAssumption, PlanAssumption DEF Minutes
<1> DEFINE a == Larger(now - Lookback, 0)
           b == now - Horizon - 1
<1>2. latest = [start |-> a, end |-> b] /\ a \in Nat /\ b \in Int
  BY <1>1 DEF latest, recovery_window, Larger
<1> HIDE DEF a, b
<1>3. w.start <= w.end
  BY DEF Windows
<1>4. \/ w = latest
      \/ \E x \in Since, u \in Until \cup {latest.end} :
            w = [start |-> x, end |-> Smaller(u, latest.end)]
  BY DEF Windows
<1>5. PICK x \in Nat, e \in Int : w = [start |-> x, end |-> e] /\ e <= b
  <2>1. CASE w = latest
    BY <1>2, <2>1
  <2>2. CASE \E x \in Since, u \in Until \cup {latest.end} :
               w = [start |-> x, end |-> Smaller(u, latest.end)]
    <3>1. PICK x \in Since, u \in Until \cup {b} : w = [start |-> x, end |-> Smaller(u, b)]
      BY <1>2, <2>2
    <3>2. Smaller(u, b) \in Int /\ Smaller(u, b) <= b
      BY <1>1, <1>2 DEF Smaller
    <3> QED  BY <1>1, <3>1, <3>2
  <2> QED  BY <1>4, <2>1, <2>2
<1>6. x <= e /\ w.start = x /\ w.end = e
  BY <1>3, <1>5
<1>7. e \in Nat
  BY <1>5, <1>6
<1> QED  BY <1>5, <1>6, <1>7 DEF b

-----------------------------------------------------------------------------
(* PlanIsExact.                                                            *)

(* A request has a first and a last minute.                                *)
LEMMA FitBounds ==
  ASSUME NEW r \in Spans, Fit(r)
  PROVE  /\ Max(Wanted(r)) \in Wanted(r) /\ Min(Wanted(r)) \in Wanted(r)
<1> DEFINE W == Wanted(r)
           n == Len(r)
<1>1. n \in Nat /\ n > 0 /\ \A k \in 1..n : r[k].start \in Nat /\ r[k].end \in Nat
  BY SpansAre DEF Fit
<1>2. \A m : m \in W <=> m \in Nat /\ \E k \in 1..n : r[k].start <= m /\ m <= r[k].end
  BY InWanted
<1>3. /\ \A k \in 1..n : r[k].start <= r[k].end
      /\ \A i, j \in 1..n : i < j => r[i].end < r[j].start
  BY DEF Fit, Ordered
<1> HIDE DEF W, n
<1>4. n \in 1..n /\ \A k \in 1..n : k = n \/ k < n
  BY <1>1
<1>5. r[n].start \in W
  <2>1. r[n].start <= r[n].start /\ r[n].start \in Nat
    BY <1>1, <1>4
  <2> QED  BY <1>2, <1>3, <1>4, <2>1
<1>6. W \in SUBSET Int /\ \A m \in W : 0 <= m
  BY <1>2
<1>7. \A m \in W : m <= r[n].end
  <2> SUFFICES ASSUME NEW m \in W PROVE m <= r[n].end
    OBVIOUS
  <2>1. PICK k \in 1..n : m \in Nat /\ m <= r[k].end
    BY <1>2
  <2>2. CASE k = n
    BY <2>1, <2>2
  <2>3. CASE k < n
    <3>1. r[k].end < r[n].start /\ r[n].start <= r[n].end
      BY <1>3, <1>4, <2>3
    <3>2. r[k].end \in Nat /\ r[n].start \in Nat /\ r[n].end \in Nat
      BY <1>1, <1>4
    <3> QED  BY <2>1, <3>1, <3>2
  <2> QED  BY <1>4, <2>2, <2>3
<1>8. r[n].end \in Int /\ 0 \in Int /\ W # {}
  BY <1>1, <1>4, <1>5
<1>9. Max(W) \in W
  <2> DEFINE b == r[n].end
  <2>1. b \in Int /\ \A m \in W : m <= b
    BY <1>7, <1>8
  <2> HIDE DEF b
  <2> QED  BY <1>6, <1>8, <2>1, MaxIn
<1>10. Min(W) \in W
  BY <1>6, <1>8, MinIn
<1> QED  BY <1>9, <1>10 DEF W

(* What PlanIsExact says of a window.                                      *)
ExactFor(w) ==
    LET plan == plan_requests(Askable(w, FALSE))
        bare == {m \in each_minute(w) \ Closed :
                   bars[m] = "none" /\ \A s \in settled \cup asked_since(now - Settle) :
                                         m \notin each_minute(s)}
    IN /\ UNION {Wanted(plan[k]) : k \in DOMAIN plan} = bare
       /\ \A k \in DOMAIN plan :
            /\ Day(Max(Wanted(plan[k]))) - Day(Min(Wanted(plan[k]))) < DaysPerRequest
            /\ k > 1 => Max(Wanted(plan[k - 1])) < Min(Wanted(plan[k]))

(* The plan of every window there may be is exact, in any state.           *)
LEMMA PlanHolds ==
  ASSUME now \in 0..MaxNow
  PROVE  PlanIsExact
<1>0. MaxNow \in Nat
  BY RecoveryAssumption
<1> SUFFICES ASSUME NEW r \in Runners, NEW w \in Windows(r) PROVE ExactFor(w)
  <2>1. \A w \in UNION {Windows(r) : r \in Runners} : ExactFor(w)
    OBVIOUS
  <2> QED  BY <2>1, Zenon DEF PlanIsExact, ExactFor
<1> DEFINE q == plan_requests(Askable(w, FALSE))
           bare == Bare(w, FALSE)
           n == Len(q)
<1>1. w.start \in Nat /\ w.end \in Nat /\ w.start <= w.end
  BY <1>0, WindowIs
<1>2. PlanFor(q, bare) /\ \A x : Covers(q, n, x) <=> x \in bare
  BY <1>1, PlanOf
<1>3. bare = {m \in each_minute(w) \ Closed :
                bars[m] = "none"
                  /\ \A s \in settled \cup asked_since(now - Settle) : m \notin each_minute(s)}
  BY DEF Bare, Ranges
<1> HIDE DEF q, bare
<1>4. n \in Nat /\ DOMAIN q = 1..n /\ \A k \in 1..n : q[k] \in Spans /\ Fit(q[k])
  BY <1>2, PlansAre DEF PlanFor
<1>5. UNION {Wanted(q[k]) : k \in DOMAIN q} = bare
  BY <1>2, <1>4 DEF Covers
<1>6. ASSUME NEW k \in 1..n
      PROVE  Day(Max(Wanted(q[k]))) - Day(Min(Wanted(q[k]))) < DaysPerRequest
  <2>1. Max(Wanted(q[k])) \in Wanted(q[k]) /\ Min(Wanted(q[k])) \in Wanted(q[k])
    BY <1>4, FitBounds
  <2> QED  BY <1>4, <2>1 DEF Fit
<1>7. ASSUME NEW k \in 1..n, k > 1
      PROVE  Max(Wanted(q[k - 1])) < Min(Wanted(q[k]))
  <2>1. k - 1 \in 1..n /\ k - 1 < k
    BY <1>4, <1>7
  <2>2. Apart(q[k - 1], q[k])
    BY <1>2, <2>1 DEF PlanFor, InOrder
  <2>3. Max(Wanted(q[k - 1])) \in Wanted(q[k - 1]) /\ Min(Wanted(q[k])) \in Wanted(q[k])
    BY <1>4, <2>1, FitBounds
  <2> QED  BY <2>2, <2>3 DEF Apart
<1> QED  BY <1>3, <1>4, <1>5, <1>6, <1>7 DEF q, ExactFor

-----------------------------------------------------------------------------
(* Buckets and their refresh.                                              *)

(* A bucket holds its minutes.                                             *)
LEMMA BucketIs ==
  ASSUME NEW m \in Nat
  PROVE  /\ floor_bucket(m) \in Nat /\ floor_bucket(m) <= m /\ m < floor_bucket(m) + Width
<1>1. Width \in Nat /\ Width > 0
  BY PlanAssumption
<1> DEFINE k == m \div Width
<1>2. k \in Nat /\ k * Width <= m /\ m < (k + 1) * Width
  BY <1>1, Division
<1> HIDE DEF k
<1>3. (k + 1) * Width = k * Width + Width /\ k * Width \in Nat
  BY <1>1, <1>2, Plus
<1>4. floor_bucket(m) = k * Width
  BY DEF floor_bucket, k
<1> QED  BY <1>2, <1>3, <1>4

(* The minutes of a refresh: those of the buckets of a..b that are closed. *)
Open(t) == floor_bucket(Larger(t - EndOffset, 0))

(* A refresh covers the closed buckets of its minutes.                     *)
LEMMA RefreshIs ==
  ASSUME NEW a \in Nat, NEW b \in Nat, NEW t \in Nat
  PROVE  /\ Open(t) \in Nat /\ Open(t) <= t
         /\ \A m : m \in refresh_range(a, b, t)
                     <=> m \in Nat /\ floor_bucket(a) <= m /\ m < floor_bucket(b) + Width
                           /\ m < Open(t)
<1>1. Width \in Nat /\ EndOffset \in Nat
  BY PlanAssumption
<1> DEFINE x == Larger(t - EndOffset, 0)
<1>2. x \in Nat /\ x <= t
  BY <1>1 DEF Larger
<1> HIDE DEF x
<1>3. floor_bucket(a) \in Nat /\ floor_bucket(b) \in Nat /\ floor_bucket(x) \in Nat
      /\ floor_bucket(x) <= x
  BY <1>2, BucketIs
<1> DEFINE l == floor_bucket(a)
           h == floor_bucket(b)
           o == floor_bucket(x)
<1>4. refresh_range(a, b, t) = l..(Smaller(h + Width, o) - 1) /\ Open(t) = o
  BY DEF refresh_range, Open, x
<1>5. l \in Nat /\ h \in Nat /\ o \in Nat /\ o <= t
  BY <1>2, <1>3
<1> HIDE DEF l, h, o
<1>6. \A m : m \in l..(Smaller(h + Width, o) - 1) <=> m \in Nat /\ l <= m /\ m < h + Width /\ m < o
  BY <1>1, <1>5 DEF Smaller
<1> QED  BY <1>4, <1>5, <1>6 DEF l, h

(* A refresh covers minutes that have passed.                              *)
LEMMA RefreshMinutes ==
  ASSUME NEW a \in Nat, NEW b \in Nat, NEW t \in 0..MaxNow, MaxNow \in Nat
  PROVE  refresh_range(a, b, t) \subseteq Minutes
<1>1. t \in Nat /\ t <= MaxNow
  OBVIOUS
<1>2. \A m : m \in refresh_range(a, b, t) => m \in Nat /\ m < Open(t)
  BY <1>1, RefreshIs
<1>3. Open(t) \in Nat /\ Open(t) <= t
  BY <1>1, RefreshIs
<1>4. \A m : m \in refresh_range(a, b, t) => m \in 0..MaxNow - 1
  BY <1>1, <1>2, <1>3
<1> QED  BY <1>4 DEF Minutes

(* The refresh of what lies between the ends of a set of minutes.          *)
Between(ms, t) == IF ms = {} THEN {} ELSE refresh_range(Min(ms), Max(ms), t)

(* The first and the last of some minutes.                                 *)
LEMMA MinutesBounds ==
  ASSUME NEW ms \in SUBSET Minutes, ms # {}, MaxNow \in Nat
  PROVE  /\ Min(ms) \in ms /\ Max(ms) \in ms /\ \A m \in ms : Min(ms) <= m /\ m <= Max(ms)
         /\ Min(ms) \in Nat /\ Max(ms) \in Nat
<1>1. ms \in SUBSET Int /\ (\A x \in ms : x <= MaxNow) /\ (\A x \in ms : 0 <= x) /\ MaxNow \in Int
  BY DEF Minutes
<1>2. Max(ms) \in ms /\ \A x \in ms : x <= Max(ms)
  BY <1>1, MaxIn
<1>3. Min(ms) \in ms /\ \A x \in ms : Min(ms) <= x
  BY <1>1, MinIn
<1>4. ms \subseteq Nat
  BY DEF Minutes
<1> QED  BY <1>2, <1>3, <1>4

(* What lies between some minutes covers those in closed buckets.          *)
LEMMA BetweenIs ==
  ASSUME NEW ms \in SUBSET Minutes, NEW t \in 0..MaxNow, MaxNow \in Nat
  PROVE  /\ Between(ms, t) \subseteq Minutes
         /\ \A m \in ms : m < Open(t) => m \in Between(ms, t)
<1>1. CASE ms = {}
  BY <1>1 DEF Between
<1>2. CASE ms # {}
  <2> DEFINE a == Min(ms)
             b == Max(ms)
  <2>1. a \in Nat /\ b \in Nat /\ \A m \in ms : a <= m /\ m <= b /\ m \in Nat
    BY <1>2, MinutesBounds DEF Minutes
  <2>2. Between(ms, t) = refresh_range(a, b, t)
    BY <1>2 DEF Between
  <2> HIDE DEF a, b
  <2>3. refresh_range(a, b, t) \subseteq Minutes
    BY <2>1, RefreshMinutes
  <2>4. ASSUME NEW m \in ms, m < Open(t) PROVE m \in refresh_range(a, b, t)
    <3>1. m \in Nat /\ a <= m /\ m <= b
      BY <2>1
    <3>2. floor_bucket(a) <= m /\ m < floor_bucket(b) + Width
      <4>1. floor_bucket(a) \in Nat /\ floor_bucket(a) <= a
            /\ floor_bucket(b) \in Nat /\ b < floor_bucket(b) + Width
        BY <2>1, BucketIs
      <4>2. Width \in Nat
        BY PlanAssumption
      <4> QED  BY <2>1, <3>1, <4>1, <4>2
    <3>3. t \in Nat
      OBVIOUS
    <3> QED  BY <2>1, <2>4, <3>1, <3>2, <3>3, RefreshIs
  <2> QED  BY <2>2, <2>3, <2>4
<1> QED  BY <1>1, <1>2

-----------------------------------------------------------------------------
(* The bound of the hot cache.                                             *)

(* Newest keeps all of a small set and CacheBars of a large one.           *)
LEMMA NewestIs ==
  ASSUME NEW S, S \subseteq Nat, IsFiniteSet(S)
  PROVE  /\ Newest(S) \subseteq S /\ IsFiniteSet(Newest(S))
         /\ Cardinality(S) <= CacheBars => Newest(S) = S
         /\ Cardinality(S) >= CacheBars => Cardinality(Newest(S)) = CacheBars
<1>0. CacheBars \in Nat /\ CacheBars > 0
  BY RecoveryAssumption
<1> DEFINE K == CacheBars
           Claim(s) == /\ Cardinality(s) <= K => Newest(s) = s
                       /\ Cardinality(s) >= K => Cardinality(Newest(s)) = K
           c == [s \in SUBSET S |-> Min(s)]
           P == {s \in SUBSET S : Claim(s)}
<1>1. \A s \in SUBSET S : IsFiniteSet(s) /\ Cardinality(s) \in Nat /\ Newest(s) \subseteq s
  BY FS_Subset, FS_CardinalityType DEF Newest
<1>2. ASSUME NEW s \in SUBSET S, s # {} PROVE Min(s) \in s /\ \A x \in s : Min(s) <= x
  <2>1. s \in SUBSET Int /\ 0 \in Int /\ \A x \in s : 0 <= x
    OBVIOUS
  <2> QED  BY <1>2, <2>1, MinIn
<1>3. Chooses(c, S)
  BY <1>2 DEF Chooses
<1>4. {} \in P
  <2>1. Cardinality({}) = 0 /\ Newest({}) = {}
    BY FS_EmptySet DEF Newest
  <2> QED  BY <1>0, <2>1
<1>5. ASSUME NEW s \in SUBSET S, s # {}, s \ {c[s]} \in P PROVE s \in P
  <2> DEFINE m == Min(s)
             u == s \ {m}
  <2>1. m \in s /\ (\A x \in s : m <= x) /\ u \in P
    BY <1>2, <1>5
  <2>2. Cardinality(u) = Cardinality(s) - 1 /\ Cardinality(s) \in Nat /\ Cardinality(u) \in Nat
    BY <1>1, <2>1, FS_RemoveElement
  <2>3. \A x \in u : {n \in s : n > x} = {n \in u : n > x}
    <3> SUFFICES ASSUME NEW x \in u PROVE ~(m > x)
      OBVIOUS
    <3>1. m <= x /\ m \in Nat /\ x \in Nat
      BY <2>1
    <3> QED  BY <3>1
  <2>4. {n \in s : n > m} = u
    <3>1. \A n \in s : n > m <=> n # m
      <4> SUFFICES ASSUME NEW n \in s PROVE n > m <=> n # m
        OBVIOUS
      <4>1. m <= n /\ m \in Nat /\ n \in Nat
        BY <2>1
      <4> QED  BY <4>1
    <3> QED  BY <3>1
  <2> HIDE DEF m, P
  <2>5. \A x \in u : x \in Newest(s) <=> x \in Newest(u)
    BY <2>3 DEF Newest
  <2>6. m \in Newest(s) <=> Cardinality(u) < K
    BY <2>1, <2>4 DEF Newest
  <2>7. u \in SUBSET S /\ Claim(u)
    BY <2>1 DEF P
  <2>8. Newest(s) \subseteq s /\ Newest(u) \subseteq u
    BY <1>1, <2>7
  <2> DEFINE a == Cardinality(u)
  <2>9. a \in Nat /\ Cardinality(s) = a + 1
    BY <2>2
  <2>10. CASE a < K
    <3>1. Newest(u) = u
      <4>1. Cardinality(u) <= K
        BY <1>0, <2>9, <2>10
      <4> QED  BY <2>7, <4>1
    <3>2. Newest(s) = s
      BY <2>5, <2>6, <2>8, <2>10, <3>1
    <3>3. Cardinality(s) >= K => Cardinality(s) = K
      BY <1>0, <2>9, <2>10
    <3>4. Claim(s)
      BY <3>2, <3>3
    <3> QED  BY <3>4 DEF P
  <2>11. CASE a >= K
    <3>1. Newest(s) = Newest(u)
      <4>1. m \notin Newest(s)
        BY <1>0, <2>6, <2>9, <2>11
      <4> QED  BY <2>5, <2>8, <4>1
    <3>2. Cardinality(Newest(u)) = K
      BY <2>7, <2>11
    <3>3. ~(Cardinality(s) <= K)
      BY <1>0, <2>9, <2>11
    <3>4. Claim(s)
      BY <3>1, <3>2, <3>3
    <3> QED  BY <3>4 DEF P
  <2>12. a < K \/ a >= K
    <3> HIDE DEF a, K
    <3>1. K \in Nat /\ a \in Nat
      BY <1>0, <2>9 DEF K
    <3> QED  BY <3>1
  <2> QED  BY <2>10, <2>11, <2>12
<1>6. SUBSET S \subseteq P
  <2> HIDE DEF P, c, K
  <2>1. Descends(P, S, c)
    BY <1>5 DEF Descends
  <2> QED  BY <1>3, <1>4, <2>1, SubsetInduction
<1>7. Claim(S)
  BY <1>6
<1>8. Newest(S) \subseteq S /\ IsFiniteSet(Newest(S))
  BY <1>1
<1> QED  BY <1>7, <1>8

(* Sets of minutes are finite.                                             *)
LEMMA FiniteMinutes ==
  ASSUME NEW S \in SUBSET Minutes, MaxNow \in Nat
  PROVE  IsFiniteSet(S) /\ S \in SUBSET Nat /\ Cardinality(S) \in Nat
<1>1. IsFiniteSet(Minutes)
  BY FS_Interval DEF Minutes
<1>2. S \in SUBSET Nat
  BY DEF Minutes
<1> QED  BY <1>1, <1>2, FS_Subset, FS_CardinalityType

(* What Newest keeps is within the bound of the cache.                     *)
LEMMA NewestBound ==
  ASSUME NEW S \in SUBSET Minutes, MaxNow \in Nat
  PROVE  Newest(S) \subseteq Minutes /\ Cardinality(Newest(S)) <= CacheBars
<1>1. IsFiniteSet(S) /\ S \in SUBSET Nat /\ Cardinality(S) \in Nat
  BY FiniteMinutes
<1>2. CacheBars \in Nat
  BY RecoveryAssumption
<1>3. /\ Newest(S) \subseteq S
      /\ Cardinality(S) <= CacheBars => Newest(S) = S
      /\ Cardinality(S) >= CacheBars => Cardinality(Newest(S)) = CacheBars
  BY <1>1, NewestIs
<1>4. Newest(S) \subseteq Minutes
  BY <1>3
<1> DEFINE a == Cardinality(S)
           b == Cardinality(Newest(S))
<1>5. a \in Nat /\ (a <= CacheBars => b = a) /\ (a >= CacheBars => b = CacheBars)
  BY <1>1, <1>3
<1> HIDE DEF a, b
<1>6. b <= CacheBars
  BY <1>2, <1>5
<1> QED  BY <1>4, <1>6 DEF b

-----------------------------------------------------------------------------
(* The shape of the state.                                                 *)

(* The tables, the keys and the clock.                                     *)
Shape ==
    /\ now \in 0..MaxNow
    /\ bars \in [Minutes -> Kinds] /\ rolled \in [Minutes -> Kinds]
    /\ pending \subseteq Minutes
    /\ cache \subseteq Minutes /\ Cardinality(cache) <= CacheBars
    /\ rows \in Seq(Statuses) /\ Len(rows) <= MaxRuns
    /\ spans \subseteq [start : Minutes, end : Minutes, at : 0..MaxNow,
                        status : {"failed", "recovered", "partial", "silent"}]
    /\ lock \subseteq Runners /\ \A x, y \in lock : x = y
    /\ blocked \in [Replicas -> [all : Nat, symbol : Nat]]
    /\ ledger \in [0..MaxNow -> Nat] /\ made \in [0..MaxNow -> Nat]
    /\ asked \in [Minutes -> {Never} \cup 0..MaxNow]
    /\ faults \subseteq {"abandoned", "unrecorded", "late", "lock", "redis"}

(* The constants that bound the rest.                                      *)
LEMMA Bounds ==
  /\ MaxNow \in Nat /\ MaxRuns \in Nat /\ MaxRequests \in Nat /\ CacheBars \in Nat
  /\ {MaxRequests, CacheBars, MaxNow, MaxRuns} \subseteq Nat \ {0}
  /\ Horizon \in Nat /\ Horizon > 0 /\ Lookback \in Nat
BY RecoveryAssumption, PlanAssumption

(* A run without a window, and one in its own.                             *)
LEMMA WindowMinutes ==
  ASSUME NEW s, NEW t \in 0..MaxNow, RunFine(s, t)
  PROVE  /\ each_minute(s.window) \subseteq Minutes
         /\ s.pc = "idle" => each_minute(s.window) = {}
         /\ \A m \in each_minute(s.window) : m \in Nat /\ m < s.at - Horizon /\ m < t - Horizon
<1>1. MaxNow \in Nat /\ Horizon \in Nat /\ t \in Nat /\ t <= MaxNow
  BY Bounds
<1>2. CASE s.pc = "idle"
  <2>1. s.window = [start |-> 0, end |-> -1]
    BY <1>2 DEF RunFine, Idle
  <2>2. each_minute(s.window) = {}
    BY <2>1 DEF each_minute
  <2> QED  BY <2>2
<1>3. CASE s.pc # "idle"
  <2> DEFINE a == s.window.start
             b == s.window.end
             c == s.at
  <2>1. a \in Nat /\ b \in Nat /\ b <= c - Horizon - 1 /\ c \in 0..t
    BY <1>3 DEF RunFine
  <2>2. each_minute(s.window) = a..b
    BY DEF each_minute
  <2> HIDE DEF a, b, c
  <2>3. \A m \in a..b : m \in Nat /\ m < c - Horizon /\ m < t - Horizon /\ m \in 0..MaxNow - 1
    BY <1>1, <2>1
  <2> QED  BY <1>3, <2>2, <2>3 DEF c, Minutes
<1> QED  BY <1>2, <1>3

(* A run stays sound as time passes.                                       *)
LEMMA FineLater ==
  ASSUME NEW s, NEW t \in Nat, NEW u \in Nat, t <= u, RunFine(s, t)
  PROVE  RunFine(s, u)
<1>1. s.at \in 0..u
  BY DEF RunFine
<1> QED  BY <1>1 DEF RunFine

(* No run at all is sound.                                                 *)
LEMMA FineIdle ==
  ASSUME NEW t \in Nat
  PROVE  RunFine(Idle, t)
<1>1. /\ Idle.pc = "idle" /\ Idle.id = 0 /\ Idle.at = 0 /\ Idle.settledToo = FALSE
      /\ Idle.answer = "bars" /\ Idle.incomplete = FALSE /\ Idle.refused = FALSE
      /\ Idle.stale = {} /\ Idle.got = {} /\ Idle.inserted = {} /\ Idle.changed = {}
      /\ Idle.rest = <<>> /\ Idle.window = [start |-> 0, end |-> -1]
  BY DEF Idle
<1>2. PlanFor(<<>>, each_minute(Idle.window))
  BY PlanNone
<1>3. 0 \in 0..MaxRuns /\ 0 \in 0..t
  BY Bounds
<1>4. Idle.window = [start |-> Idle.window.start, end |-> Idle.window.end]
  BY <1>1
<1> QED  BY <1>1, <1>2, <1>3, <1>4 DEF RunFine, Steps, Answers

(* A step inside a run, for all of them.                                   *)
FineMove(s, t) ==
    /\ SameJob(s, t) /\ Flags(s, t) /\ s.pc # "idle" /\ t.pc \in Steps \ {"idle"}
    /\ t.got \cup t.inserted \cup t.changed \subseteq each_minute(s.window)
    /\ PlanFor(t.rest, each_minute(s.window))
    /\ t.pc \in {"ask", "send", "insert", "cache", "record"} => t.rest # <<>>
    /\ t.pc \notin {"cache", "record"} => t.inserted = {}

(* A sound run stays sound in such a step.                                 *)
LEMMA FineStep ==
  ASSUME NEW s, NEW t, NEW n, RunFine(s, n), FineMove(s, t)
  PROVE  RunFine(t, n)
<1> USE DEF FineMove
<1>1. t.window = s.window /\ t.id = s.id /\ t.at = s.at /\ t.settledToo = s.settledToo
      /\ t.stale = s.stale
  BY DEF SameJob
<1>2. t.answer \in Answers /\ t.incomplete \in BOOLEAN /\ t.refused \in BOOLEAN
  BY DEF Flags, RunFine
<1>3. /\ s.window = [start |-> s.window.start, end |-> s.window.end]
      /\ s.window.start \in Nat /\ s.window.start <= s.window.end
      /\ s.window.end \in Nat /\ s.window.end <= s.at - Horizon - 1
      /\ s.id \in 0..MaxRuns /\ s.at \in 0..n /\ s.settledToo \in BOOLEAN /\ s.stale \subseteq Minutes
  BY DEF RunFine
<1>4. t.pc \in Steps /\ t.pc # "idle"
  OBVIOUS
<1> QED  BY <1>1, <1>2, <1>3, <1>4 DEF RunFine

(* After a request comes the next one, or the rollups.                     *)
LEMMA AfterIs ==
  ASSUME NEW q
  PROVE  /\ AfterRequest(q) \in {"ask", "roll"} /\ (AfterRequest(q) = "ask" => q # <<>>)
BY DEF AfterRequest

(* Every step inside a run is one.                                         *)
LEMMA MiddleFine ==
  ASSUME IsRuns(run), NEW r \in Runners, NEW n, RunFine(run[r], n), Middle(r)
  PROVE  RunFine(run'[r], n)
<1> DEFINE s == run[r]
           t == run'[r]
           W == each_minute(s.window)
<1>1. /\ s.got \cup s.inserted \cup s.changed \subseteq W
      /\ PlanFor(s.rest, W)
      /\ s.pc \in {"ask", "send", "insert", "cache", "record"} => s.rest # <<>>
      /\ s.pc \notin {"cache", "record"} => s.inserted = {}
  BY DEF RunFine
<1>2. PlanFor(<<>>, W)
  BY PlanNone
<1>3. SUFFICES FineMove(s, t)
  BY FineStep
<1>4. CASE Stop(r) \/ Postpone(r)
  <2>1. /\ SameJob(s, t) /\ SameFinds(s, t) /\ Flags(s, t)
        /\ s.pc = "ask" /\ t.pc = "roll" /\ t.rest = <<>>
    BY <1>4, StopIs, PostponeIs
  <2> HIDE DEF s, t
  <2>2. t.got \cup t.inserted \cup t.changed \subseteq W /\ t.inserted = {}
    BY <1>1, <2>1 DEF SameFinds
  <2>3. t.pc \in Steps \ {"idle"} /\ s.pc # "idle" /\ PlanFor(t.rest, W)
        /\ (t.pc \in {"ask", "send", "insert", "cache", "record"} => t.rest # <<>>)
    BY <1>2, <2>1 DEF Steps
  <2> QED  BY <2>1, <2>2, <2>3 DEF FineMove, W, s, t
<1>5. CASE SkipRefused(r)
  <2>1. /\ SameJob(s, t) /\ SameFinds(s, t) /\ Flags(s, t)
        /\ s.pc = "ask" /\ t.pc = AfterRequest(t.rest) /\ t.rest = Tail(s.rest)
    BY <1>5, SkipIs
  <2> HIDE DEF s, t, W
  <2>2. PlanFor(t.rest, W)
    BY <1>1, <2>1, PlanTail
  <2>3. t.pc \in {"ask", "roll"} /\ (t.pc = "ask" => t.rest # <<>>)
    BY <2>1, AfterIs
  <2>4. t.got \cup t.inserted \cup t.changed \subseteq W /\ t.inserted = {}
    BY <1>1, <2>1 DEF SameFinds
  <2>5. t.pc \in Steps \ {"idle"} /\ s.pc # "idle"
        /\ (t.pc \in {"ask", "send", "insert", "cache", "record"} => t.rest # <<>>)
    BY <2>1, <2>3 DEF Steps
  <2> QED  BY <2>1, <2>2, <2>4, <2>5 DEF FineMove, W, s, t
<1>6. CASE Ask(r)
  <2>1. /\ SameJob(s, t) /\ Flags(s, t)
        /\ s.pc = "send" /\ t.pc \in {"insert", "record"} /\ t.rest = s.rest
        /\ t.got \subseteq Wanted(Head(s.rest))
        /\ t.inserted = s.inserted /\ t.changed = s.changed
    BY <1>6, AskIs
  <2> HIDE DEF s, t, W
  <2>2. Wanted(Head(s.rest)) \subseteq W
    BY <1>1, <2>1, PlanTail
  <2>3. t.got \cup t.inserted \cup t.changed \subseteq W /\ t.inserted = {}
    BY <1>1, <2>1, <2>2
  <2>4. t.pc \in Steps \ {"idle"} /\ s.pc # "idle" /\ t.rest # <<>> /\ PlanFor(t.rest, W)
    BY <1>1, <2>1 DEF Steps
  <2> QED  BY <2>1, <2>3, <2>4 DEF FineMove, W, s, t
<1>7. CASE Insert(r)
  <2>1. /\ SameJob(s, t) /\ Flags(s, t)
        /\ s.pc = "insert" /\ t.pc = "cache" /\ t.rest = s.rest
        /\ t.inserted = Inserted(s.got) /\ t.got = s.got /\ t.changed = s.changed
    BY <1>7, InsertIs
  <2>2. Inserted(s.got) \subseteq s.got
    BY DEF Inserted
  <2> HIDE DEF s, t
  <2>3. t.got \cup t.inserted \cup t.changed \subseteq W
    BY <1>1, <2>1, <2>2
  <2>4. t.pc \in Steps \ {"idle"} /\ s.pc # "idle" /\ t.rest # <<>> /\ PlanFor(t.rest, W)
    BY <1>1, <2>1 DEF Steps
  <2>5. t.pc \in {"cache", "record"}
    BY <2>1
  <2> QED  BY <2>1, <2>3, <2>4, <2>5 DEF FineMove, W, s, t
<1>8. CASE Spend(r) \/ CacheInserted(r) \/ RefreshRollups(r) \/ RepairCache(r)
  <2>1. PICK p \in {"send", "record", "repair", "finish"} :
             /\ Goto(r, p) /\ s.pc # "idle" /\ (p = "record" <=> s.pc = "cache")
             /\ s.pc # "record" /\ (p = "send" <=> s.pc = "ask")
    BY <1>8 DEF Spend, CacheInserted, RefreshRollups, RepairCache
  <2>2. /\ SameJob(s, t) /\ SameFinds(s, t) /\ Flags(s, t) /\ t.pc = p /\ t.rest = s.rest
    BY <2>1, GotoIs
  <2> HIDE DEF s, t
  <2>3. t.got \cup t.inserted \cup t.changed \subseteq W
    BY <1>1, <2>2 DEF SameFinds
  <2>4. /\ t.pc \in Steps \ {"idle"} /\ PlanFor(t.rest, W)
        /\ t.pc \in {"ask", "send", "insert", "cache", "record"} => t.rest # <<>>
        /\ t.pc \notin {"cache", "record"} => t.inserted = {}
    BY <1>1, <2>1, <2>2 DEF Steps, SameFinds
  <2> QED  BY <2>1, <2>2, <2>3, <2>4 DEF FineMove, W, s, t
<1>9. CASE RecordSpans(r)
  <2>1. /\ SameJob(s, t) /\ Flags(s, t)
        /\ s.pc = "record" /\ t.pc = AfterRequest(t.rest)
        /\ t.rest \in {<<>>, Tail(s.rest)}
        /\ t.got = {} /\ t.inserted = {} /\ t.changed = s.changed \cup s.inserted
    BY <1>9, RecordIs
  <2> HIDE DEF s, t, W
  <2>2. PlanFor(t.rest, W)
    <3>1. PlanFor(Tail(s.rest), W)
      BY <1>1, <2>1, PlanTail
    <3> QED  BY <1>2, <2>1, <3>1
  <2>3. t.pc \in {"ask", "roll"} /\ (t.pc = "ask" => t.rest # <<>>)
    BY <2>1, AfterIs
  <2>4. t.got \cup t.inserted \cup t.changed \subseteq W
    BY <1>1, <2>1
  <2>5. t.pc \in Steps \ {"idle"} /\ s.pc # "idle" /\ t.inserted = {}
        /\ (t.pc \in {"ask", "send", "insert", "cache", "record"} => t.rest # <<>>)
    BY <2>1, <2>3 DEF Steps
  <2> QED  BY <2>1, <2>2, <2>4, <2>5 DEF FineMove, W, s, t
<1> QED  BY <1>4, <1>5, <1>6, <1>7, <1>8, <1>9 DEF Middle

(* The stale minutes of a window, and those a run that begins refreshes.   *)
Bad(w, t) == {m \in refresh_range(w.start, w.end, t) : rolled[m] # bars[m]}

(* The stale minutes a run begins with include every bad one.              *)
LEMMA StaleIs ==
  ASSUME NEW w, w.start \in Nat, w.end \in Nat, NEW t \in 0..MaxNow
  PROVE  /\ stale_rollups(w, t) \subseteq Minutes
         /\ \A m \in Bad(w, t) : m \in stale_rollups(w, t)
<1>1. MaxNow \in Nat /\ t \in Nat
  BY Bounds
<1>2. refresh_range(w.start, w.end, t) \subseteq Minutes
  BY <1>1, RefreshMinutes
<1>3. Bad(w, t) \in SUBSET Minutes
  BY <1>2 DEF Bad
<1>4. stale_rollups(w, t) = Between(Bad(w, t), t)
  BY DEF stale_rollups, Between, Bad
<1>5. \A m \in Bad(w, t) : m < Open(t)
  BY <1>1, RefreshIs DEF Bad
<1> QED  BY <1>1, <1>3, <1>4, <1>5, BetweenIs

(* A run that begins.                                                      *)
Begins(r, w, y, f, st, i) ==
    /\ w \in Windows(r) /\ y \in BOOLEAN /\ i \in BOOLEAN /\ st = stale_rollups(w, now)
    /\ PlanFor(f, Bare(w, y))
    /\ Len(rows) < MaxRuns /\ rows' = Append(abort_stale_runs(rows), "running")
    /\ lock' = {r}
    /\ run' = [run EXCEPT ![r] = NewRun(w, y, f, st, i)]

(* MaxRequests of a plan's requests are a plan.                            *)
LEMMA FirstFew ==
  ASSUME NEW plan, NEW ms, PlanFor(plan, ms)
  PROVE  /\ PlanFor(SubSeq(plan, 1, Smaller(Len(plan), MaxRequests)), ms)
         /\ (Len(plan) > MaxRequests) \in BOOLEAN
<1> DEFINE n == Smaller(Len(plan), MaxRequests)
<1>1. Len(plan) \in Nat
  BY PlansAre DEF PlanFor
<1>2. n \in 0..Len(plan)
  <2> DEFINE l == Len(plan)
  <2>1. l \in Nat /\ MaxRequests \in Nat
    BY <1>1, Bounds
  <2> HIDE DEF l
  <2>2. Smaller(l, MaxRequests) \in 0..l
    BY <2>1 DEF Smaller
  <2> QED  BY <2>2 DEF l
<1> HIDE DEF n
<1>3. PlanFor(SubSeq(plan, 1, n), ms)
  BY <1>2, PlanFirst
<1> QED  BY <1>3 DEF n

(* Start marks the dead runs, and may begin a run.                         *)
LEMMA StartIs ==
  ASSUME now \in 0..MaxNow, NEW r \in Runners, Start(r)
  PROVE  /\ run[r].pc = "idle" /\ lock = {}
         /\ UNCHANGED <<world, bars, rolled, cache, spans, blocked, asked>>
         /\ \/ rows' = abort_stale_runs(rows) /\ UNCHANGED <<lock, run>>
            \/ \E w, y, f, st, i : Begins(r, w, y, f, st, i)
<1>1. /\ run[r].pc = "idle" /\ lock = {}
      /\ UNCHANGED <<world, bars, rolled, cache, spans, blocked, asked>>
  BY DEF Start, exclusive
<1>2. PICK w \in Windows(r), y \in (IF r \in Manual THEN IncludeSettled ELSE {FALSE}) :
         LET askable == Askable(w, y)
             plan    == IF now < BlockedOf(r).symbol THEN <<>> ELSE plan_requests(askable)
             first   == SubSeq(plan, 1, Smaller(Len(plan), MaxRequests))
             stale   == stale_rollups(w, now)
             aborted == abort_stale_runs(rows)
         IN \/ rows' = aborted /\ UNCHANGED <<lock, run>>
            \/ /\ Len(rows) < MaxRuns
               /\ rows' = Append(aborted, "running")
               /\ lock' = {r}
               /\ run' = [run EXCEPT ![r] =
                              NewRun(w, y, first, stale, Len(plan) > MaxRequests)]
  BY Zenon DEF Start
<1>3. y \in BOOLEAN
  BY RecoveryAssumption
<1> DEFINE plan == IF now < BlockedOf(r).symbol THEN <<>> ELSE plan_requests(Askable(w, y))
           first == SubSeq(plan, 1, Smaller(Len(plan), MaxRequests))
           more  == Len(plan) > MaxRequests
<1>4. w.start \in Nat /\ w.end \in Nat /\ w.start <= w.end
  BY Bounds, WindowIs
<1>5. PlanFor(plan, Bare(w, y))
  <2>1. PlanFor(plan_requests(Askable(w, y)), Bare(w, y))
    BY <1>4, PlanOf
  <2>2. PlanFor(<<>>, Bare(w, y))
    BY PlanNone
  <2> QED  BY <2>1, <2>2
<1>6. \/ rows' = abort_stale_runs(rows) /\ UNCHANGED <<lock, run>>
      \/ /\ Len(rows) < MaxRuns /\ rows' = Append(abort_stale_runs(rows), "running")
         /\ lock' = {r} /\ run' = [run EXCEPT ![r] = NewRun(w, y, first, stale_rollups(w, now), more)]
  BY <1>2
<1> HIDE DEF plan
<1>7. PlanFor(first, Bare(w, y)) /\ more \in BOOLEAN
  BY <1>5, FirstFew
<1> HIDE DEF first, more
<1> QED  BY <1>1, <1>3, <1>6, <1>7 DEF Begins

(* A run that begins is sound.                                             *)
LEMMA BeginsFine ==
  ASSUME Shape, IsRuns(run), NEW r \in Runners, NEW w, NEW y, NEW f, NEW st, NEW i,
         Begins(r, w, y, f, st, i)
  PROVE  RunFine(run'[r], now) /\ Moved(r) /\ run'[r] = NewRun(w, y, f, st, i)
<1> DEFINE t == NewRun(w, y, f, st, i)
<1>1. /\ IsRun(t) /\ t.pc = AfterRequest(f) /\ t.id = Len(rows) + 1 /\ t.at = now
      /\ t.window = w /\ t.settledToo = y /\ t.rest = f /\ t.stale = st /\ t.incomplete = i
      /\ t.answer = "bars" /\ t.got = {} /\ t.inserted = {} /\ t.changed = {}
      /\ t.refused = FALSE
  <2>1. IsNew(t, w, y, f, st, i)
    BY NewRunIs
  <2> HIDE DEF t
  <2> QED  BY <2>1 DEF IsNew
<1>2. run' = [run EXCEPT ![r] = t]
  BY DEF Begins
<1> HIDE DEF t
<1>3. run'[r] = t /\ Moved(r)
  BY <1>1, <1>2 DEF IsRuns, Moved
<1>4. now \in 0..MaxNow /\ MaxNow \in Nat /\ now \in Nat /\ now \in 0..now
  BY Bounds DEF Shape
<1>5. /\ w = [start |-> w.start, end |-> w.end] /\ w.start \in Nat /\ w.end \in Nat
      /\ w.start <= w.end /\ w.end <= now - Horizon - 1
  BY <1>4, WindowIs DEF Begins
<1>6. st \subseteq Minutes
  BY <1>4, <1>5, StaleIs DEF Begins
<1>7. Len(rows) + 1 \in 0..MaxRuns
  <2>1. Len(rows) \in Nat /\ Len(rows) < MaxRuns /\ MaxRuns \in Nat
    BY Bounds, LenProperties DEF Shape, Begins
  <2> QED  BY <2>1
<1>8. PlanFor(f, each_minute(w))
  <2>1. Bare(w, y) \subseteq each_minute(w)
    BY DEF Bare
  <2> QED  BY <2>1 DEF PlanFor, Begins
<1>9. t.pc \in {"ask", "roll"} /\ (t.pc = "ask" => f # <<>>)
  BY <1>1, AfterIs
<1>10. y \in BOOLEAN /\ i \in BOOLEAN /\ "bars" \in Answers /\ FALSE \in BOOLEAN
  BY DEF Begins, Answers
<1>11. /\ t.pc \in Steps /\ t.pc # "idle"
       /\ t.pc \in {"ask", "send", "insert", "cache", "record"} => f # <<>>
  BY <1>9 DEF Steps
<1>12. RunFine(t, now)
  BY <1>1, <1>4, <1>5, <1>6, <1>7, <1>8, <1>10, <1>11 DEF RunFine
<1> QED  BY <1>3, <1>12 DEF t

-----------------------------------------------------------------------------
(* RunsInv is kept.                                                        *)

(* A step inside a run leaves the other runs alone.                        *)
LEMMA MiddleMoves ==
  ASSUME IsRuns(run), NEW r \in Runners, Middle(r)
  PROVE  Moved(r) /\ SameJob(run[r], run'[r]) /\ run[r].pc # "idle"
<1>1. CASE Spend(r) \/ CacheInserted(r) \/ RefreshRollups(r) \/ RepairCache(r)
  <2>1. (\E p : Goto(r, p)) /\ run[r].pc # "idle"
    BY <1>1 DEF Spend, CacheInserted, RefreshRollups, RepairCache
  <2> QED  BY <2>1, GotoIs
<1>2. CASE Stop(r) \/ SkipRefused(r) \/ Postpone(r) \/ Ask(r) \/ Insert(r) \/ RecordSpans(r)
  BY <1>2, StopIs, SkipIs, PostponeIs, AskIs, InsertIs, RecordIs
<1> QED  BY <1>1, <1>2 DEF Middle

(* One sound run more, and all are sound.                                  *)
LEMMA OthersFine ==
  ASSUME RunsInv, NEW r \in Runners, Moved(r), UNCHANGED now, RunFine(run'[r], now)
  PROVE  RunsInv'
BY DEF RunsInv, Moved

(* Every step leaves every run sound.                                      *)
LEMMA StepRuns ==
  ASSUME LockInv, Shape, RunsInv, [Next]_vars
  PROVE  RunsInv'
<1>0. IsRuns(run) /\ now \in 0..MaxNow /\ now \in Nat /\ MaxNow \in Nat
  BY Bounds DEF LockInv, Shape
<1>1. CASE \E r \in Runners : Start(r)
  <2>1. PICK r \in Runners : Start(r)
    BY <1>1
  <2>2. UNCHANGED now
    BY <2>1 DEF Start, world
  <2>3. CASE UNCHANGED run
    BY <2>2, <2>3 DEF RunsInv
  <2>4. CASE \E w, y, f, st, i : Begins(r, w, y, f, st, i)
    BY <1>0, <2>2, <2>4, BeginsFine, OthersFine
  <2> QED  BY <1>0, <2>1, <2>3, <2>4, StartIs
<1>2. CASE \E r \in Runners : Middle(r)
  <2>1. PICK r \in Runners : Middle(r)
    BY <1>2
  <2>2. UNCHANGED now
    BY <2>1 DEF Middle, Stop, SkipRefused, Postpone, Spend, Ask, Insert, CacheInserted,
                RecordSpans, RefreshRollups, RepairCache, world
  <2>3. RunFine(run[r], now)
    BY DEF RunsInv
  <2>4. RunFine(run'[r], now)
    BY <1>0, <2>1, <2>3, MiddleFine
  <2>5. Moved(r)
    BY <1>0, <2>1, MiddleMoves
  <2> QED  BY <2>2, <2>4, <2>5, OthersFine
<1>3. CASE \E r \in Runners : Finish(r) \/ Abandon(r)
  <2>1. PICK r \in Runners : Finish(r) \/ Abandon(r)
    BY <1>3
  <2>2. run' = [run EXCEPT ![r] = Idle] /\ UNCHANGED now
    BY <2>1 DEF Finish, Abandon, world
  <2>3. Moved(r) /\ run'[r] = Idle
    BY <1>0, <2>2, EndIs
  <2>4. RunFine(Idle, now)
    BY <1>0, FineIdle
  <2> QED  BY <2>2, <2>3, <2>4, OthersFine
<1>4. CASE NextMinute
  <2>1. UNCHANGED run /\ now' = now + 1
    BY <1>4 DEF NextMinute
  <2>2. now' \in Nat /\ now <= now'
    BY <1>0, <2>1
  <2> QED  BY <1>0, <2>1, <2>2, FineLater DEF RunsInv
<1>5. CASE LiveRequest \/ StreamKeeps \/ (\E m \in Minutes : WorkerStores(m))
           \/ (\E r \in Runners : LockLost(r)) \/ UNCHANGED vars
  <2>1. UNCHANGED <<run, now>>
    BY <1>5 DEF LiveRequest, StreamKeeps, WorkerStores, LockLost, vars
  <2> QED  BY <2>1 DEF RunsInv
<1> QED  BY <1>1, <1>2, <1>3, <1>4, <1>5 DEF Next, RunStep, Middle

-----------------------------------------------------------------------------

(* The steps keep the shape of the state.                                  *)

(* What take() and record() make of a ledger.                              *)
LEMMA LedgerIs ==
  ASSUME NEW l \in [0..MaxNow -> Nat], NEW t \in 0..MaxNow
  PROVE  /\ Forget(l, t) \in [0..MaxNow -> Nat]
         /\ Take(l, t).granted \in BOOLEAN
         /\ Take(l, t).granted => Take(l, t).ledger = [Forget(l, t) EXCEPT ![t] = @ + 1]
         /\ ~Take(l, t).granted => Take(l, t).ledger = Forget(l, t)
         /\ Take(l, t).ledger \in [0..MaxNow -> Nat]
         /\ Record(l, t) \in [0..MaxNow -> Nat]
<1>1. Forget(l, t) \in [0..MaxNow -> Nat]
  BY DEF Forget
<1> DEFINE k == Forget(l, t)
           g == ZCount(k, t - HourMs) < PerHour - ReservePerHour
                  /\ ZCount(k, 0) < PerDay - ReservePerDay
<1>2. Take(l, t) = [granted |-> g, ledger |-> IF g THEN [k EXCEPT ![t] = @ + 1] ELSE k]
  BY DEF Take, Enter
<1>3. g \in BOOLEAN
  OBVIOUS
<1>4. Record(l, t) = [k EXCEPT ![t] = @ + 1]
  BY DEF Record
<1> HIDE DEF k, g
<1>5. k \in [0..MaxNow -> Nat]
  BY <1>1 DEF k
<1>6. [k EXCEPT ![t] = @ + 1] \in [0..MaxNow -> Nat]
  BY <1>5
<1>7. Take(l, t).granted = g /\ Take(l, t).ledger = IF g THEN [k EXCEPT ![t] = @ + 1] ELSE k
  BY <1>2
<1>8. Take(l, t).ledger \in [0..MaxNow -> Nat] /\ Record(l, t) \in [0..MaxNow -> Nat]
  BY <1>4, <1>5, <1>6, <1>7
<1>9. /\ Take(l, t).granted => Take(l, t).ledger = [k EXCEPT ![t] = @ + 1]
      /\ ~Take(l, t).granted => Take(l, t).ledger = k
  BY <1>7
<1> QED  BY <1>1, <1>3, <1>7, <1>8, <1>9 DEF k

SpanRow == [start : Minutes, end : Minutes, at : 0..MaxNow,
            status : {"failed", "recovered", "partial", "silent"}]

(* The rows of a request are rows of its minutes.                          *)
RowsOf(req, answer, got, at) == UNION {SpanRows(req[k], answer, got, at) : k \in DOMAIN req}

(* The row of a span, by its status.                                       *)
LEMMA RowIs ==
  ASSUME NEW part, NEW answer, NEW got, NEW at
  PROVE  \E x \in {"failed", "recovered", "partial", "silent"} :
            SpanRows(part, answer, got, at)
              = {[start |-> part.start, end |-> part.end, at |-> at, status |-> x]}
<1> DEFINE x == CASE answer # "bars" -> "failed"
                  [] each_minute(part) \subseteq got -> "recovered"
                  [] each_minute(part) \cap got = {} -> "silent"
                  [] OTHER -> "partial"
<1>1. SpanRows(part, answer, got, at)
        = {[start |-> part.start, end |-> part.end, at |-> at, status |-> x]}
  BY DEF SpanRows
<1>2. x \in {"failed", "recovered", "partial", "silent"}
  <2> DEFINE a == answer # "bars"
             b == each_minute(part) \subseteq got
             c == each_minute(part) \cap got = {}
  <2>1. x = CASE a -> "failed" [] b -> "recovered" [] c -> "silent" [] OTHER -> "partial"
    OBVIOUS
  <2>2. a \in BOOLEAN /\ b \in BOOLEAN /\ c \in BOOLEAN
    OBVIOUS
  <2> HIDE DEF a, b, c, x
  <2> QED  BY <2>1, <2>2
<1> HIDE DEF x
<1> QED  BY <1>1, <1>2

(* A request's rows are rows of its minutes, and every minute has one.     *)
LEMMA RowsAre ==
  ASSUME NEW req \in Spans, Fit(req), Wanted(req) \subseteq Minutes, NEW answer, NEW got,
         NEW at \in 0..MaxNow
  PROVE  /\ RowsOf(req, answer, got, at) \subseteq SpanRow
         /\ \A m \in Wanted(req) :
              \E s \in RowsOf(req, answer, got, at) : m \in each_minute(s) /\ s.at = at
<1>1. /\ DOMAIN req = 1..Len(req)
      /\ \A k \in 1..Len(req) : req[k].start \in Nat /\ req[k].end \in Nat
                                  /\ req[k].start <= req[k].end
  BY SpansAre DEF Fit, Ordered
<1>2. ASSUME NEW k \in 1..Len(req) PROVE req[k].start \in Minutes /\ req[k].end \in Minutes
  <2>1. req[k].start \in Nat /\ req[k].end \in Nat /\ req[k].start <= req[k].end
    BY <1>1
  <2>2. req[k].start \in each_minute(req[k]) /\ req[k].end \in each_minute(req[k])
    BY <2>1 DEF each_minute
  <2> QED  BY <1>1, <2>2 DEF Wanted
<1>3. ASSUME NEW k \in 1..Len(req)
      PROVE  /\ SpanRows(req[k], answer, got, at) \subseteq SpanRow
             /\ \E s \in SpanRows(req[k], answer, got, at) :
                  each_minute(s) = each_minute(req[k]) /\ s.at = at
  <2>1. PICK x \in {"failed", "recovered", "partial", "silent"} :
            SpanRows(req[k], answer, got, at)
              = {[start |-> req[k].start, end |-> req[k].end, at |-> at, status |-> x]}
    BY RowIs
  <2> DEFINE row == [start |-> req[k].start, end |-> req[k].end, at |-> at, status |-> x]
  <2>2. row \in SpanRow
    BY <1>2 DEF SpanRow
  <2>3. each_minute(row) = each_minute(req[k]) /\ row.at = at
    BY DEF each_minute
  <2> HIDE DEF row
  <2> QED  BY <2>1, <2>2, <2>3 DEF row
<1>4. RowsOf(req, answer, got, at) \subseteq SpanRow
  BY <1>1, <1>3 DEF RowsOf
<1>5. ASSUME NEW m \in Wanted(req)
      PROVE  \E s \in RowsOf(req, answer, got, at) : m \in each_minute(s) /\ s.at = at
  <2>1. PICK k \in 1..Len(req) : m \in each_minute(req[k])
    BY <1>1 DEF Wanted
  <2> QED  BY <1>1, <1>3, <2>1 DEF RowsOf
<1> QED  BY <1>4, <1>5

(* Start keeps the shape of the state.                                     *)
LEMMA StartShape ==
  ASSUME Shape, NEW r \in Runners, Start(r)
  PROVE  Shape'
<1>1. now \in 0..MaxNow /\ rows \in Seq(Statuses) /\ Len(rows) <= MaxRuns /\ MaxRuns \in Nat
  BY Bounds DEF Shape
<1>2. /\ UNCHANGED <<world, bars, rolled, cache, spans, blocked, asked>>
      /\ \/ rows' = abort_stale_runs(rows) /\ UNCHANGED lock
         \/ /\ Len(rows) < MaxRuns /\ rows' = Append(abort_stale_runs(rows), "running")
            /\ lock' = {r}
  BY <1>1, StartIs DEF Begins
<1>3. rows' \in Seq(Statuses) /\ Len(rows') <= MaxRuns
  <2> DEFINE a == abort_stale_runs(rows)
  <2>1. a \in Seq(Statuses) /\ Len(a) = Len(rows) /\ Len(rows) \in Nat
    BY <1>1, NoneRunning, LenProperties
  <2>2. rows' = a \/ (Len(rows) < MaxRuns /\ rows' = Append(a, "running"))
    BY <1>2
  <2> HIDE DEF a
  <2>3. Append(a, "running") \in Seq(Statuses) /\ Len(Append(a, "running")) = Len(a) + 1
    BY <2>1, AppendProperties DEF Statuses
  <2> DEFINE n == Len(rows)
  <2>4. n \in Nat /\ n <= MaxRuns /\ (n < MaxRuns => n + 1 <= MaxRuns)
    <3>1. n \in Nat /\ n <= MaxRuns /\ MaxRuns \in Nat
      BY <1>1, <2>1
    <3> HIDE DEF n
    <3> QED  BY <3>1
  <2> QED  BY <2>1, <2>2, <2>3, <2>4
<1>4. lock' \subseteq Runners /\ \A x, y \in lock' : x = y
  BY <1>2 DEF Shape
<1> QED  BY <1>2, <1>3, <1>4 DEF Shape, world, account

(* The request a run is at.                                                *)
LEMMA HeadIs ==
  ASSUME Shape, RunsInv, NEW r \in Runners,
         run[r].pc \in {"ask", "send", "insert", "cache", "record"}
  PROVE  LET me == run[r] req == Head(me.rest)
         IN /\ me.rest # <<>> /\ PlanFor(me.rest, each_minute(me.window))
            /\ each_minute(me.window) \subseteq Minutes
            /\ req \in Spans /\ Fit(req) /\ Wanted(req) \subseteq Minutes
            /\ me.at \in 0..MaxNow /\ me.at \in Nat
<1> DEFINE me == run[r]
           req == Head(me.rest)
<1>0. now \in 0..MaxNow /\ MaxNow \in Nat /\ RunFine(me, now)
  BY Bounds DEF Shape, RunsInv
<1>1. me.rest # <<>> /\ PlanFor(me.rest, each_minute(me.window)) /\ me.at \in 0..now
  BY <1>0 DEF RunFine
<1>2. each_minute(me.window) \subseteq Minutes
  BY <1>0, WindowMinutes
<1>3. req \in Spans /\ Fit(req) /\ Wanted(req) \subseteq each_minute(me.window)
  BY <1>1, PlanTail
<1>4. me.at \in 0..MaxNow /\ me.at \in Nat
  BY <1>0, <1>1
<1> QED  BY <1>1, <1>2, <1>3, <1>4

(* What RecordSpans writes.                                                *)
LEMMA RecordRows ==
  ASSUME NEW r \in Runners, RecordSpans(r)
  PROVE  /\ run[r].pc = "record"
         /\ spans' = spans \cup RowsOf(Head(run[r].rest), run[r].answer, run[r].got, run[r].at)
BY Zenon DEF RecordSpans, RowsOf

(* A back-off ends some time.                                              *)
LEMMA BackedOffIs ==
  ASSUME NEW u \in [all : Nat, symbol : Nat], NEW me, me.at \in Nat, NEW wait \in Nat
  PROVE  BackedOff(u, me, wait) \in [all : Nat, symbol : Nat]
<1>1. AuthBackoff \in Nat /\ RateBackoff \in Nat
  BY RecoveryAssumption
<1> DEFINE a == me.at + AuthBackoff
           b == me.at + Larger(wait, RateBackoff)
<1>2. a \in Nat /\ b \in Nat
  BY <1>1 DEF Larger
<1>3. BackedOff(u, me, wait)
        \in {[u EXCEPT !.all = a], [u EXCEPT !.all = b], [u EXCEPT !.symbol = a], u}
  BY Zenon DEF BackedOff
<1> HIDE DEF a, b
<1> QED  BY <1>2, <1>3

(* RecordSpans keeps it.                                                   *)
LEMMA RecordShape ==
  ASSUME Shape, RunsInv, NEW r \in Runners, RecordSpans(r)
  PROVE  Shape'
<1> DEFINE me == run[r]
           req == Head(me.rest)
<1>1. UNCHANGED <<now, pending, ledger, made, faults, bars, rolled, cache, rows, lock, asked>>
  BY DEF RecordSpans, world, account
<1>2. /\ spans' = spans \cup RowsOf(req, me.answer, me.got, me.at)
      /\ req \in Spans /\ Fit(req) /\ Wanted(req) \subseteq Minutes
      /\ me.at \in 0..MaxNow /\ me.at \in Nat
  BY RecordRows, HeadIs
<1>3. \/ UNCHANGED blocked
      \/ /\ r \in Replicas
         /\ \E wait \in RetryAfter : blocked' = [blocked EXCEPT ![r] = BackedOff(blocked[r], me, wait)]
  <2>1. IF r \in Manual THEN UNCHANGED blocked
        ELSE \E wait \in RetryAfter :
               blocked' = [blocked EXCEPT ![r] = BackedOff(blocked[r], run[r], wait)]
    BY Zenon DEF RecordSpans
  <2> QED  BY <2>1 DEF Runners
<1> HIDE DEF me, req
<1>4. spans' \subseteq SpanRow
  BY <1>1, <1>2, RowsAre DEF Shape, SpanRow
<1>5. blocked' \in [Replicas -> [all : Nat, symbol : Nat]]
  <2>1. blocked \in [Replicas -> [all : Nat, symbol : Nat]]
    BY DEF Shape
  <2>2. ASSUME r \in Replicas, NEW wait \in RetryAfter
        PROVE  BackedOff(blocked[r], me, wait) \in [all : Nat, symbol : Nat]
    <3>1. wait \in Nat
      BY <2>2, RecoveryAssumption
    <3>2. blocked[r] \in [all : Nat, symbol : Nat]
      BY <2>1, <2>2
    <3> QED  BY <1>2, <3>1, <3>2, BackedOffIs
  <2> QED  BY <1>3, <2>1, <2>2
<1> QED  BY <1>1, <1>4, <1>5 DEF Shape, SpanRow

(* The ledger stays one.                                                   *)
LEMMA LedgerKept ==
  ASSUME ledger \in [0..MaxNow -> Nat], made \in [0..MaxNow -> Nat], now \in 0..MaxNow
  PROVE  /\ \A l \in {ledger, Take(ledger, now).ledger, Record(ledger, now)} :
               l \in [0..MaxNow -> Nat]
         /\ [made EXCEPT ![now] = @ + 1] \in [0..MaxNow -> Nat]
<1>1. Take(ledger, now).ledger \in [0..MaxNow -> Nat] /\ Record(ledger, now) \in [0..MaxNow -> Nat]
  BY LedgerIs, Zenon
<1>2. [made EXCEPT ![now] = @ + 1] \in [0..MaxNow -> Nat]
  OBVIOUS
<1> QED  BY <1>1, <1>2, Zenon

(* The cache stays within its bound.                                       *)
LEMMA CacheIs ==
  ASSUME NEW c \in SUBSET Minutes, NEW ms \in SUBSET Minutes
  PROVE  /\ cache_add(c, ms) \subseteq Minutes
         /\ Cardinality(cache_add(c, ms)) <= CacheBars
         /\ cache_would_take(c, ms) \subseteq ms
<1>1. Newest(c \cup ms) \subseteq Minutes /\ Cardinality(Newest(c \cup ms)) <= CacheBars
  BY Bounds, NewestBound
<1>2. Cardinality({}) <= CacheBars
  BY Bounds, FS_EmptySet
<1>3. cache_would_take(c, ms) \subseteq ms
  BY DEF cache_would_take
<1> QED  BY <1>1, <1>2, <1>3 DEF cache_add

(* The steps inside a run keep the shape of the state.                     *)
LEMMA MiddleShape ==
  ASSUME IsRuns(run), Shape, RunsInv, NEW r \in Runners, Middle(r)
  PROVE  Shape'
<1>0. /\ now \in 0..MaxNow /\ ledger \in [0..MaxNow -> Nat] /\ made \in [0..MaxNow -> Nat]
      /\ bars \in [Minutes -> Kinds] /\ rolled \in [Minutes -> Kinds]
      /\ cache \in SUBSET Minutes
      /\ faults \subseteq {"abandoned", "unrecorded", "late", "lock", "redis"} /\ RunFine(run[r], now)
  BY DEF Shape, RunsInv
<1>1. CASE Stop(r) \/ SkipRefused(r)
  BY <1>1 DEF Stop, SkipRefused, Shape, world, account
<1>2. CASE Postpone(r)
  <2>1. /\ UNCHANGED <<now, pending, made, bars, rolled, cache, rows, spans, lock, blocked, asked>>
        /\ ledger' \in {ledger, Take(ledger, now).ledger}
        /\ faults' \in {faults, faults \cup {"redis"}}
    BY <1>2 DEF Postpone, Fault
  <2>2. ledger' \in [0..MaxNow -> Nat]
    BY <1>0, <2>1, LedgerKept, Zenon
  <2>3. faults' \subseteq {"abandoned", "unrecorded", "late", "lock", "redis"}
    BY <1>0, <2>1
  <2> QED  BY <2>1, <2>2, <2>3 DEF Shape
<1>3. CASE Spend(r)
  <2>1. /\ UNCHANGED <<now, pending, faults, bars, rolled, cache, rows, spans, lock, blocked, asked>>
        /\ ledger' = Take(ledger, now).ledger /\ made' = [made EXCEPT ![now] = @ + 1]
    BY <1>3 DEF Spend
  <2>2. ledger' \in [0..MaxNow -> Nat] /\ made' \in [0..MaxNow -> Nat]
    BY <1>0, <2>1, LedgerKept, Zenon
  <2> QED  BY <2>1, <2>2 DEF Shape
<1>4. CASE Insert(r)
  <2>1. /\ UNCHANGED <<now, pending, ledger, made, faults, rolled, cache, rows, spans, lock,
                       blocked, asked>>
        /\ bars' = [m \in Minutes |-> IF m \in Inserted(run[r].got) THEN "backfill" ELSE bars[m]]
    BY <1>4 DEF Insert, world, account
  <2>2. bars' \in [Minutes -> Kinds]
    BY <1>0, <2>1 DEF Kinds
  <2> QED  BY <2>1, <2>2 DEF Shape
<1>5. CASE CacheInserted(r) \/ RepairCache(r)
  <2>1. /\ UNCHANGED <<now, pending, ledger, made, faults, bars, rolled, rows, spans, lock,
                       blocked, asked>>
        /\ \/ cache' = cache_add(cache, {m \in run[r].inserted : m >= cache_horizon(run[r].at)})
           \/ cache' = cache_add(cache, _cache_repairs(run[r].at))
    BY <1>5 DEF CacheInserted, RepairCache, world, account
  <2>2. run[r].inserted \subseteq Minutes
    <3>1. run[r].inserted \subseteq each_minute(run[r].window)
      BY <1>0 DEF RunFine
    <3>2. each_minute(run[r].window) \subseteq Minutes
      BY <1>0, WindowMinutes
    <3> QED  BY <3>1, <3>2
  <2>3. {m \in run[r].inserted : m >= cache_horizon(run[r].at)} \in SUBSET Minutes
    BY <2>2
  <2>4. _cache_repairs(run[r].at) \in SUBSET Minutes
    <3> DEFINE R == recovered_since(cache_horizon(run[r].at))
    <3>1. R \in SUBSET Minutes
      BY DEF recovered_since
    <3>2. _cache_repairs(run[r].at) = cache_would_take(cache, R)
      BY DEF _cache_repairs
    <3> HIDE DEF R
    <3>3. cache_would_take(cache, R) \subseteq R
      BY <1>0, <3>1, CacheIs
    <3> QED  BY <3>1, <3>2, <3>3
  <2>5. cache' \subseteq Minutes /\ Cardinality(cache') <= CacheBars
    BY <1>0, <2>1, <2>3, <2>4, CacheIs
  <2> QED  BY <2>1, <2>5 DEF Shape
<1>6. CASE RecordSpans(r)
  BY <1>6, RecordShape
<1>7. CASE RefreshRollups(r)
  <2>1. /\ UNCHANGED <<now, pending, ledger, made, faults, bars, cache, rows, spans, lock,
                       blocked, asked>>
        /\ rolled' = Refreshed(RollupTargets(r))
    BY <1>7 DEF RefreshRollups, world, account
  <2>2. rolled' \in [Minutes -> Kinds]
    BY <1>0, <2>1 DEF Refreshed
  <2> QED  BY <2>1, <2>2 DEF Shape
<1>8. CASE Ask(r)
  <2>1. /\ UNCHANGED <<now, pending, ledger, made, faults, bars, rolled, cache, rows, spans, lock,
                       blocked>>
        /\ run[r].pc = "send"
        /\ asked' = [m \in Minutes |-> IF m \in Wanted(Head(run[r].rest))
                                       THEN Larger(asked[m], run[r].at) ELSE asked[m]]
    BY <1>8 DEF Ask, world, account
  <2>2. \A m \in Minutes : asked[m] \in {Never} \cup 0..MaxNow
    BY DEF Shape
  <2>3. run[r].at \in 0..MaxNow
    BY <2>1, HeadIs
  <2>4. \A m \in Minutes : Larger(asked[m], run[r].at) \in {Never} \cup 0..MaxNow
    BY <2>2, <2>3 DEF Larger
  <2>5. asked' \in [Minutes -> {Never} \cup 0..MaxNow]
    BY <2>1, <2>2, <2>4
  <2> QED  BY <2>1, <2>5 DEF Shape
<1> QED  BY <1>1, <1>2, <1>3, <1>4, <1>5, <1>6, <1>7, <1>8 DEF Middle

(* The end of a run keeps it.                                              *)
LEMMA EndShape ==
  ASSUME IsRuns(run), Shape, NEW r \in Runners, Finish(r) \/ Abandon(r)
  PROVE  Shape'
<1>1. /\ UNCHANGED <<now, pending, ledger, made, bars, rolled, cache, spans, asked>>
      /\ lock' = lock \ {r} /\ faults' \in {faults, faults \cup {"abandoned"}, faults \cup {"unrecorded"}}
      /\ UNCHANGED rows \/ rows' = [rows EXCEPT ![run[r].id] = FinalStatus(run[r])]
      /\ UNCHANGED blocked \/ (r \in Replicas /\ blocked' = [blocked EXCEPT ![r] = Free])
  BY DEF Finish, Abandon, Fault, world, account
<1>2. rows' \in Seq(Statuses) /\ Len(rows') = Len(rows)
  <2>1. FinalStatus(run[r]) \in Statuses
    <3>1. FinalStatus(run[r]) \in {run[r].status, "partial", "succeeded"}
      BY Zenon DEF FinalStatus
    <3> QED  BY <3>1 DEF Statuses, IsRuns, IsRun
  <2>2. rows \in Seq(Statuses)
    BY DEF Shape
  <2>3. CASE UNCHANGED rows
    BY <2>2, <2>3
  <2>4. CASE rows' = [rows EXCEPT ![run[r].id] = FinalStatus(run[r])]
    <3> DEFINE v == FinalStatus(run[r])
               i == run[r].id
    <3>1. rows' = [rows EXCEPT ![i] = v] /\ v \in Statuses
      BY <2>1, <2>4
    <3> HIDE DEF v, i
    <3>2. rows' \in Seq(Statuses)
      BY <2>2, <3>1, RowChanges
    <3>3. DOMAIN rows' = DOMAIN rows
      BY <3>1
    <3>4. DOMAIN rows' = 1..Len(rows') /\ DOMAIN rows = 1..Len(rows)
          /\ Len(rows') \in Nat /\ Len(rows) \in Nat
      BY <2>2, <3>2, LenProperties
    <3> DEFINE a == Len(rows')
               b == Len(rows)
    <3>5. a \in Nat /\ b \in Nat /\ 1..a = 1..b
      BY <3>3, <3>4
    <3> HIDE DEF a, b
    <3>6. a = b
      <4>1. a # 0 => a \in 1..b
        BY <3>5
      <4>2. b # 0 => b \in 1..a
        BY <3>5
      <4> QED  BY <3>5, <4>1, <4>2
    <3> QED  BY <3>2, <3>6 DEF a, b
  <2> QED  BY <1>1, <2>3, <2>4
<1>3. blocked' \in [Replicas -> [all : Nat, symbol : Nat]]
  <2>1. Free \in [all : Nat, symbol : Nat]
    BY DEF Free
  <2> QED  BY <1>1, <2>1 DEF Shape
<1>4. /\ faults' \subseteq {"abandoned", "unrecorded", "late", "lock", "redis"}
      /\ lock' \subseteq Runners /\ \A x, y \in lock' : x = y
  BY <1>1 DEF Shape
<1>5. Len(rows') <= MaxRuns
  BY <1>2 DEF Shape
<1> QED  BY <1>1, <1>2, <1>3, <1>4, <1>5 DEF Shape

(* The end of a minute keeps it.                                           *)
LEMMA MinuteShape ==
  ASSUME Shape, NextMinute
  PROVE  Shape'
<1>0. now \in 0..MaxNow /\ MaxNow \in Nat /\ cache \in SUBSET Minutes /\ pending \subseteq Minutes
      /\ bars \in [Minutes -> Kinds] /\ rolled \in [Minutes -> Kinds]
  BY Bounds DEF Shape
<1>1. now < MaxNow /\ now' = now + 1
      /\ UNCHANGED <<rows, spans, lock, run, blocked, ledger, made, asked, faults>>
  BY DEF NextMinute, account
<1>2. now \in Minutes /\ now' \in 0..MaxNow
  BY <1>0, <1>1 DEF Minutes
<1>3. PICK o \in Outcomes(now) :
         /\ bars' = [bars EXCEPT ![now] = IF o = "stored" THEN "live" ELSE @]
         /\ pending' = {m \in pending : m > now - Horizon \/ "late" \in faults}
                         \cup (IF o = "slow" THEN {now} ELSE {})
         /\ cache' = IF o = "missed" THEN cache ELSE Newest(cache \cup {now})
  BY DEF NextMinute
<1>4. bars' \in [Minutes -> Kinds]
  BY <1>0, <1>3 DEF Kinds
<1>5. pending' \subseteq Minutes
  BY <1>0, <1>2, <1>3
<1>6. cache' \subseteq Minutes /\ Cardinality(cache') <= CacheBars
  <2>1. cache \cup {now} \in SUBSET Minutes
    BY <1>0, <1>2
  <2>2. Newest(cache \cup {now}) \subseteq Minutes
        /\ Cardinality(Newest(cache \cup {now})) <= CacheBars
    BY <1>0, <2>1, NewestBound
  <2> QED  BY <1>3, <2>2 DEF Shape
<1>7. rolled' \in [Minutes -> Kinds]
  <2>1. rolled' = Refreshed(PolicyRange(now + 1))
    BY DEF NextMinute
  <2> QED  BY <1>0, <2>1 DEF Refreshed
<1> QED  BY <1>1, <1>2, <1>4, <1>5, <1>6, <1>7 DEF Shape

(* The steps of the world keep it.                                         *)
LEMMA WorldShape ==
  ASSUME Shape, \/ LiveRequest \/ StreamKeeps \/ \E m \in Minutes : WorkerStores(m)
                \/ \E r \in Runners : LockLost(r)
  PROVE  Shape'
<1>0. /\ now \in 0..MaxNow /\ ledger \in [0..MaxNow -> Nat] /\ made \in [0..MaxNow -> Nat]
      /\ bars \in [Minutes -> Kinds]
      /\ faults \subseteq {"abandoned", "unrecorded", "late", "lock", "redis"} /\ pending \subseteq Minutes
  BY DEF Shape
<1>1. CASE LiveRequest
  <2>1. /\ UNCHANGED <<now, bars, pending, rolled, cache, rows, spans, lock, blocked, asked>>
        /\ made' = [made EXCEPT ![now] = @ + 1] /\ ledger' \in {ledger, Record(ledger, now)}
        /\ faults' \in {faults, faults \cup {"redis"}}
    BY <1>1 DEF LiveRequest, Fault
  <2>2. ledger' \in [0..MaxNow -> Nat] /\ made' \in [0..MaxNow -> Nat]
    BY <1>0, <2>1, LedgerKept, Zenon
  <2>3. faults' \subseteq {"abandoned", "unrecorded", "late", "lock", "redis"}
    BY <1>0, <2>1
  <2> QED  BY <2>1, <2>2, <2>3 DEF Shape
<1>2. CASE StreamKeeps \/ \E r \in Runners : LockLost(r)
  <2>1. /\ UNCHANGED <<now, bars, pending, rolled, cache, rows, spans, blocked, ledger, made,
                       asked>>
        /\ lock' \in {lock, {}} /\ faults' \in {faults \cup {"late"}, faults \cup {"lock"}}
    BY <1>2 DEF StreamKeeps, LockLost, Fault, account
  <2>2. faults' \subseteq {"abandoned", "unrecorded", "late", "lock", "redis"}
    BY <1>0, <2>1
  <2>3. lock' \subseteq Runners /\ \A x, y \in lock' : x = y
    BY <2>1 DEF Shape
  <2> QED  BY <2>1, <2>2, <2>3 DEF Shape
<1>3. CASE \E m \in Minutes : WorkerStores(m)
  <2>1. PICK m \in Minutes : WorkerStores(m)
    BY <1>3
  <2>2. /\ UNCHANGED <<now, rolled, cache, rows, spans, lock, blocked, ledger, made, asked,
                       faults>>
        /\ pending' = pending \ {m}
        /\ bars' = [bars EXCEPT ![m] = IF @ \in Recovered THEN "mixed" ELSE "live"]
    BY <2>1 DEF WorkerStores, account
  <2>3. bars' \in [Minutes -> Kinds] /\ pending' \subseteq Minutes
    BY <1>0, <2>2 DEF Kinds
  <2> QED  BY <2>2, <2>3 DEF Shape
<1> QED  BY <1>1, <1>2, <1>3

(* Every step keeps the shape of the state.                                *)
LEMMA StepShape ==
  ASSUME LockInv, Shape, RunsInv, [Next]_vars
  PROVE  Shape'
<1>1. CASE UNCHANGED vars
  BY <1>1 DEF vars, Shape
<1>2. CASE NextMinute
  BY <1>2, MinuteShape
<1>3. CASE \E r \in Runners : Start(r)
  BY <1>3, StartShape
<1>4. CASE \E r \in Runners : Middle(r)
  BY <1>4, MiddleShape DEF LockInv
<1>5. CASE \E r \in Runners : Finish(r) \/ Abandon(r)
  BY <1>5, EndShape DEF LockInv
<1>6. CASE \/ LiveRequest \/ StreamKeeps \/ \E m \in Minutes : WorkerStores(m)
           \/ \E r \in Runners : LockLost(r)
  BY <1>6, WorldShape
<1> QED  BY <1>1, <1>2, <1>3, <1>4, <1>5, <1>6 DEF Next, RunStep, Middle

-----------------------------------------------------------------------------
(* The initial state.                                                      *)

(* It begins in shape, with no run.                                        *)
LEMMA InitIs ==
  ASSUME Init
  PROVE  Shape /\ RunsInv /\ LockInv
<1>0. now \in 0..MaxNow /\ MaxNow \in Nat /\ now = FirstNow /\ now \in Nat
  BY Bounds, RecoveryAssumption DEF Init
<1>1. PICK past \in [0..FirstNow - 1 -> {"stored", "slow", "missed"}] :
         /\ bars = [m \in Minutes |-> IF m < now /\ past[m] = "stored" THEN "live" ELSE "none"]
         /\ pending = {m \in DOMAIN past : past[m] = "slow" /\ m >= now - Horizon}
         /\ cache = Newest({m \in DOMAIN past : past[m] # "missed"})
  BY DEF Init
<1>2. DOMAIN past \subseteq Minutes
  BY <1>0, <1>1 DEF Minutes
<1>3. bars \in [Minutes -> Kinds] /\ rolled \in [Minutes -> Kinds] /\ pending \subseteq Minutes
  BY <1>1, <1>2 DEF Init, Kinds
<1>4. cache \subseteq Minutes /\ Cardinality(cache) <= CacheBars
  <2> DEFINE S == {m \in DOMAIN past : past[m] # "missed"}
  <2>1. S \in SUBSET Minutes /\ cache = Newest(S)
    BY <1>1, <1>2
  <2> HIDE DEF S
  <2> QED  BY <1>0, <2>1, NewestBound
<1>5. rows \in Seq(Statuses) /\ Len(rows) <= MaxRuns
  <2>1. rows = <<>> /\ <<>> \in Seq(Statuses) /\ Len(<<>>) = 0
    BY EmptySeq DEF Init
  <2> QED  BY <2>1, Bounds
<1>6. /\ spans = {} /\ lock = {} /\ faults = {} /\ run = [r \in Runners |-> Idle]
      /\ blocked = [r \in Replicas |-> Free] /\ ledger = [t \in 0..MaxNow |-> 0]
      /\ made = [t \in 0..MaxNow |-> 0] /\ asked = [m \in Minutes |-> Never]
  BY DEF Init
<1>7. blocked \in [Replicas -> [all : Nat, symbol : Nat]]
  BY <1>6 DEF Free
<1>8. ledger \in [0..MaxNow -> Nat] /\ made \in [0..MaxNow -> Nat]
  BY <1>6
<1>9. asked \in [Minutes -> {Never} \cup 0..MaxNow]
  BY <1>6
<1>10. Shape
  BY <1>0, <1>3, <1>4, <1>5, <1>6, <1>7, <1>8, <1>9, Zenon DEF Shape
<1>11. RunsInv
  BY <1>0, <1>6, FineIdle DEF RunsInv
<1>12. LockInv
  BY <1>5, <1>6, IdleRun DEF LockInv, IsRuns, Inside
<1> QED  BY <1>10, <1>11, <1>12

-----------------------------------------------------------------------------
(* TypeOK.                                                                 *)

MinuteSpan == [start : Minutes, end : Minutes]

(* A request for minutes is a sequence of spans of minutes.                *)
LEMMA RequestType ==
  ASSUME NEW q \in Spans, Fit(q), Wanted(q) \subseteq Minutes
  PROVE  q \in Seq(MinuteSpan)
<1>1. /\ Len(q) \in Nat /\ DOMAIN q = 1..Len(q) /\ q = [k \in 1..Len(q) |-> q[k]]
      /\ \A k \in 1..Len(q) : q[k] \in Span
  BY LenProperties, ElementOfSeq DEF Spans
<1>2. ASSUME NEW k \in 1..Len(q) PROVE q[k] \in MinuteSpan
  <2>1. q[k].start \in Nat /\ q[k].end \in Nat /\ q[k] = [start |-> q[k].start, end |-> q[k].end]
    BY <1>1, SpanIs
  <2>2. q[k].start <= q[k].end
    BY DEF Fit, Ordered
  <2>3. q[k].start \in each_minute(q[k]) /\ q[k].end \in each_minute(q[k])
    BY <2>1, <2>2 DEF each_minute
  <2>4. q[k].start \in Minutes /\ q[k].end \in Minutes
    BY <1>1, <2>3 DEF Wanted
  <2> QED  BY <2>1, <2>4 DEF MinuteSpan
<1> DEFINE n == Len(q)
<1>3. q \in [1..n -> MinuteSpan] /\ n \in Nat
  BY <1>1, <1>2
<1> HIDE DEF n
<1> QED  BY <1>3

(* A plan for minutes is a sequence of them.                               *)
LEMMA PlanType ==
  ASSUME NEW q, NEW ms, PlanFor(q, ms), ms \subseteq Minutes
  PROVE  q \in Seq(Seq(MinuteSpan))
<1>1. /\ Len(q) \in Nat /\ DOMAIN q = 1..Len(q) /\ q = [k \in 1..Len(q) |-> q[k]]
      /\ \A k \in 1..Len(q) : q[k] \in Spans
  BY LenProperties, ElementOfSeq DEF Plans, PlanFor
<1>2. \A k \in 1..Len(q) : q[k] \in Seq(MinuteSpan)
  BY <1>1, RequestType DEF PlanFor
<1> DEFINE n == Len(q)
           M == Seq(MinuteSpan)
<1>3. q \in [1..n -> M] /\ n \in Nat
  BY <1>1, <1>2
<1> HIDE DEF n, M
<1>4. q \in Seq(M)
  BY <1>3
<1> QED  BY <1>4 DEF M

(* A sound run is one of the run records.                                  *)
LEMMA RunType ==
  ASSUME NEW t \in 0..MaxNow, NEW s, IsRun(s), RunFine(s, t)
  PROVE  s \in RunRecord
<1>0. MaxNow \in Nat /\ Horizon \in Nat
  BY Bounds
<1> DEFINE W == each_minute(s.window)
<1>1. /\ s.pc \in Steps /\ s.id \in 0..MaxRuns /\ s.at \in 0..t /\ s.settledToo \in BOOLEAN
      /\ s.answer \in Answers /\ s.incomplete \in BOOLEAN /\ s.refused \in BOOLEAN
      /\ s.stale \subseteq Minutes /\ s.got \cup s.inserted \cup s.changed \subseteq W
      /\ PlanFor(s.rest, W)
      /\ s.window = [start |-> s.window.start, end |-> s.window.end]
  BY DEF RunFine
<1>2. W \subseteq Minutes
  BY WindowMinutes
<1>3. s.rest \in Seq(Seq(MinuteSpan))
  BY <1>1, <1>2, PlanType
<1>4. s.got \subseteq Minutes /\ s.inserted \subseteq Minutes /\ s.changed \subseteq Minutes
  BY <1>1, <1>2
<1>5. s.at \in 0..MaxNow
  BY <1>0, <1>1
<1>6. s.window \in [start : Minutes, end : {-1} \cup Minutes]
  <2>1. CASE s.pc = "idle"
    <3>1. s.window = [start |-> 0, end |-> -1] /\ 0 \in Minutes
      BY <1>0, <2>1, Bounds DEF RunFine, Idle, Minutes
    <3> QED  BY <3>1
  <2>2. CASE s.pc # "idle"
    <3>1. s.window.start \in Nat /\ s.window.start <= s.window.end
          /\ s.window.end \in Nat /\ s.window.end <= s.at - Horizon - 1
      BY <2>2 DEF RunFine
    <3>2. s.window.start \in Minutes /\ s.window.end \in Minutes
      BY <1>0, <1>5, <3>1 DEF Minutes
    <3> QED  BY <1>1, <3>2
  <2> QED  BY <2>1, <2>2
<1>7. s.status \in Statuses /\ s = [x \in Fields |-> s[x]]
  BY DEF IsRun
<1> HIDE DEF W
<1> DEFINE Windowed == [start : Minutes, end : {-1} \cup Minutes]
           Reqs == Seq(Seq(MinuteSpan))
<1>8. s.window \in Windowed /\ s.rest \in Reqs
  BY <1>3, <1>6
<1>9. RunRecord = [pc : Steps, id : 0..MaxRuns, at : 0..MaxNow, window : Windowed,
                   settledToo : BOOLEAN, rest : Reqs, answer : Answers, got : SUBSET Minutes,
                   inserted : SUBSET Minutes, changed : SUBSET Minutes, stale : SUBSET Minutes,
                   status : Statuses, incomplete : BOOLEAN, refused : BOOLEAN]
  BY DEF RunRecord, Steps, MinuteSpan
<1> HIDE DEF Windowed, Reqs
<1> QED  BY <1>1, <1>4, <1>5, <1>7, <1>8, <1>9 DEF Fields

(* TypeOK, from the parts.                                                 *)
LEMMA TypesHold ==
  ASSUME LockInv, Shape, RunsInv
  PROVE  TypeOK
<1>1. run \in [Runners -> RunRecord]
  <2>1. \A r \in Runners : run[r] \in RunRecord
    BY RunType DEF LockInv, IsRuns, RunsInv, Shape
  <2> QED  BY <2>1 DEF LockInv, IsRuns
<1>2. Cardinality(lock) <= 1
  <2>1. lock = {} \/ \E x \in lock : lock = {x}
    BY DEF Shape
  <2>2. Cardinality({}) = 0 /\ \A x : Cardinality({x}) = 1
    BY FS_EmptySet, FS_Singleton
  <2>3. Cardinality(lock) = 0 \/ Cardinality(lock) = 1
    BY <2>1, <2>2
  <2> QED  BY <2>3
<1> QED  BY <1>1, <1>2, Zenon DEF Shape, TypeOK

-----------------------------------------------------------------------------
(* PastInv is kept.                                                        *)

(* The steps that leave the bars, the stream and the clock alone.          *)
Still == UNCHANGED <<now, bars, pending>> /\ faults \subseteq faults'

(* Bars, stream and clock change by an insert, a minute's end or the       *)
(* worker.                                                                 *)
LEMMA StillIs ==
  ASSUME [Next]_vars
  PROVE  \/ Still
         \/ \E r \in Runners : Insert(r)
         \/ NextMinute
         \/ \E m \in Minutes : WorkerStores(m)
<1>1. ASSUME NEW r \in Runners,
             \/ Start(r) \/ Stop(r) \/ SkipRefused(r) \/ Ask(r) \/ CacheInserted(r)
             \/ RecordSpans(r) \/ RefreshRollups(r) \/ RepairCache(r) \/ Finish(r)
      PROVE  Still
  BY <1>1 DEF Still, Start, Stop, SkipRefused, Ask, CacheInserted, RecordSpans, RefreshRollups,
              RepairCache, Finish, world
<1>2. ASSUME NEW r \in Runners, Postpone(r) \/ Spend(r) \/ Abandon(r) \/ LockLost(r)
      PROVE  Still
  BY <1>2 DEF Still, Postpone, Spend, Abandon, LockLost, Fault
<1>3. ASSUME LiveRequest \/ StreamKeeps \/ UNCHANGED vars
      PROVE  Still
  BY <1>3 DEF Still, LiveRequest, StreamKeeps, Fault, vars
<1> QED  BY <1>1, <1>2, <1>3 DEF Next, RunStep

(* What a run inserts lies in its window, where no minute has ticks left.  *)
LEMMA InsertBars ==
  ASSUME Shape, RunsInv, NEW r \in Runners, Insert(r)
  PROVE  /\ UNCHANGED <<now, pending, faults>>
         /\ \A m \in Minutes : \/ bars'[m] = bars[m]
                               \/ /\ bars[m] = "none" /\ bars'[m] = "backfill"
                                  /\ m < now - Horizon /\ m \in run[r].got
<1>1. RunFine(run[r], now) /\ now \in 0..MaxNow
  BY DEF RunsInv, Shape
<1>2. \A m \in run[r].got : m < now - Horizon
  <2>1. \A m \in each_minute(run[r].window) : m < now - Horizon
    BY <1>1, WindowMinutes
  <2> QED  BY <1>1, <2>1 DEF RunFine
<1> QED  BY <1>2 DEF Insert, Inserted, world

(* What the end of a minute does to the bars and the stream.               *)
LEMMA MinuteBars ==
  ASSUME Shape, NextMinute
  PROVE  /\ now < MaxNow /\ now' = now + 1 /\ now \in Minutes /\ UNCHANGED faults
         /\ \A m \in Minutes : m # now => bars'[m] = bars[m]
         /\ bars'[now] = bars[now] \/ bars'[now] = "live"
         /\ \A m \in pending' : m = now \/ (m \in pending /\ (m > now - Horizon \/ "late" \in faults))
<1>1. now \in 0..MaxNow /\ MaxNow \in Nat /\ bars \in [Minutes -> Kinds]
  BY Bounds DEF Shape
<1>2. now < MaxNow /\ now' = now + 1 /\ UNCHANGED faults
  BY DEF NextMinute
<1>3. now \in Minutes
  BY <1>1, <1>2 DEF Minutes
<1>4. PICK o \in Outcomes(now) :
         /\ bars' = [bars EXCEPT ![now] = IF o = "stored" THEN "live" ELSE @]
         /\ pending' = {m \in pending : m > now - Horizon \/ "late" \in faults}
                         \cup (IF o = "slow" THEN {now} ELSE {})
  BY DEF NextMinute
<1>5. (\A m \in Minutes : m # now => bars'[m] = bars[m]) /\ bars'[now] \in {bars[now], "live"}
  BY <1>1, <1>3, <1>4
<1>6. \A m \in pending' : m = now \/ (m \in pending /\ (m > now - Horizon \/ "late" \in faults))
  BY <1>4
<1> QED  BY <1>2, <1>3, <1>5, <1>6

(* The worker stores ticks that no run recovered, unless they are late.    *)
LEMMA StorePast ==
  ASSUME Shape, PastInv, NEW m \in Minutes, WorkerStores(m)
  PROVE  /\ UNCHANGED <<now, faults>> /\ pending' = pending \ {m} /\ m \in pending
         /\ \A n \in Minutes : n # m => bars'[n] = bars[n]
         /\ bars'[m] = "live" \/ ("late" \in faults /\ bars[m] \in Recovered /\ bars'[m] = "mixed")
<1>1. /\ UNCHANGED <<now, faults>> /\ m \in pending /\ pending' = pending \ {m}
      /\ bars' = [bars EXCEPT ![m] = IF @ \in Recovered THEN "mixed" ELSE "live"]
  BY DEF WorkerStores
<1>2. bars \in [Minutes -> Kinds]
  BY DEF Shape
<1>3. bars'[m] = (IF bars[m] \in Recovered THEN "mixed" ELSE "live")
      /\ \A n \in Minutes : n # m => bars'[n] = bars[n]
  BY <1>1, <1>2
<1>4. bars[m] \in Recovered => "late" \in faults
  <2> SUFFICES ASSUME bars[m] \in Recovered, "late" \notin faults PROVE FALSE
    OBVIOUS
  <2>1. m < now - Horizon /\ m >= now - Horizon
    BY <1>1 DEF PastInv
  <2>2. m \in Int /\ now \in Int /\ Horizon \in Int
    BY Bounds DEF Shape, Minutes
  <2> QED  BY <2>1, <2>2
<1> QED  BY <1>1, <1>3, <1>4

(* Every step keeps the past as it may be.                                 *)
LEMMA StepPast ==
  ASSUME Shape, RunsInv, PastInv, [Next]_vars
  PROVE  PastInv'
<1>0. /\ now \in 0..MaxNow /\ now \in Nat /\ MaxNow \in Nat /\ Horizon \in Nat /\ Horizon > 0
      /\ Minutes \subseteq Nat /\ pending \subseteq Minutes
  BY Bounds DEF Shape, Minutes
<1> USE DEF PastInv, NeverMixed, Recovered
<1>1. CASE Still
  BY <1>1 DEF Still
<1>2. CASE \E r \in Runners : Insert(r)
  <2>1. /\ UNCHANGED <<now, pending, faults>>
        /\ \A m \in Minutes : \/ bars'[m] = bars[m]
                              \/ bars'[m] = "backfill" /\ m < now - Horizon
    BY <1>2, InsertBars
  <2>2. \A m \in Minutes : m < now - Horizon => ~(m >= now)
    BY <1>0
  <2> QED  BY <2>1, <2>2
<1>3. CASE NextMinute
  <2>1. /\ now < MaxNow /\ now' = now + 1 /\ now \in Minutes /\ UNCHANGED faults
        /\ \A m \in Minutes : m # now => bars'[m] = bars[m]
        /\ bars'[now] = bars[now] \/ bars'[now] = "live"
        /\ \A m \in pending' : m = now \/ (m \in pending /\ (m > now - Horizon \/ "late" \in faults))
    BY <1>3, MinuteBars
  <2>2. \A m \in pending' : m \in 0..now' - 1
    <3> SUFFICES ASSUME NEW m \in pending' PROVE m \in 0..now' - 1
      OBVIOUS
    <3>1. m = now \/ m \in 0..now - 1
      BY <2>1
    <3>2. now' = now + 1
      BY <2>1
    <3> HIDE DEF PastInv
    <3> QED  BY <1>0, <3>1, <3>2
  <2>3. \A m \in Minutes : m >= now' => bars'[m] = "none"
    <3>1. \A m \in Minutes : m >= now' => m # now /\ m >= now
      BY <1>0, <2>1
    <3> QED  BY <2>1, <3>1
  <2>4. bars[now] = "none"
    <3>1. now >= now
      BY <1>0
    <3> QED  BY <2>1, <3>1
  <2>5. \A m \in Minutes : bars'[m] \in Recovered => m < now' - Horizon
    <3>1. \A m \in Minutes : bars'[m] \in Recovered => m < now - Horizon
      BY <2>1, <2>4
    <3>2. \A m \in Minutes : m < now - Horizon => m < now' - Horizon
      BY <1>0, <2>1
    <3> QED  BY <3>1, <3>2
  <2>6. "late" \notin faults' => \A m \in pending' : m >= now' - Horizon
    <3> SUFFICES ASSUME "late" \notin faults', NEW m \in pending' PROVE m >= now' - Horizon
      OBVIOUS
    <3>1. m \in Nat /\ (m = now \/ m > now - Horizon)
      BY <1>0, <2>1
    <3> QED  BY <1>0, <2>1, <3>1
  <2>7. NeverMixed'
    BY <2>1, <2>4
  <2>8. pending' \subseteq 0..now' - 1
    BY <2>2
  <2> QED  BY <2>3, <2>5, <2>6, <2>7, <2>8
<1>4. CASE \E m \in Minutes : WorkerStores(m)
  <2>1. PICK m \in Minutes : WorkerStores(m)
    BY <1>4
  <2>2. /\ UNCHANGED <<now, faults>> /\ pending' = pending \ {m} /\ m \in pending
        /\ \A n \in Minutes : n # m => bars'[n] = bars[n]
        /\ bars'[m] = "live" \/ ("late" \in faults /\ bars[m] \in Recovered /\ bars'[m] = "mixed")
    BY <2>1, StorePast
  <2>3. ~(m >= now)
    <3>1. m \in 0..now - 1
      BY <2>2
    <3> QED  BY <1>0, <3>1
  <2> QED  BY <2>2, <2>3
<1> QED  BY <1>1, <1>2, <1>3, <1>4, StillIs

(* It begins so.                                                           *)
LEMMA InitPast ==
  ASSUME Init
  PROVE  PastInv
<1>0. now \in 0..MaxNow /\ MaxNow \in Nat /\ now = FirstNow /\ now \in Nat
      /\ Horizon \in Nat /\ Minutes \subseteq Nat
  BY Bounds, RecoveryAssumption DEF Init, Minutes
<1>1. PICK past \in [0..FirstNow - 1 -> {"stored", "slow", "missed"}] :
         /\ bars = [m \in Minutes |-> IF m < now /\ past[m] = "stored" THEN "live" ELSE "none"]
         /\ pending = {m \in DOMAIN past : past[m] = "slow" /\ m >= now - Horizon}
  BY DEF Init
<1>2. \A m \in Minutes : bars[m] \in {"live", "none"} /\ (m >= now => bars[m] = "none")
  <2>1. \A m \in Minutes : m >= now => ~(m < now)
    BY <1>0
  <2> QED  BY <1>1, <2>1
<1>3. pending \subseteq 0..now - 1 /\ \A m \in pending : m >= now - Horizon
  BY <1>0, <1>1
<1> QED  BY <1>2, <1>3 DEF PastInv, NeverMixed, Recovered

(* A stored bar changes only when its ticks leave the stream.              *)
LEMMA StepStored ==
  ASSUME Shape, RunsInv, PastInv, [Next]_vars, NEW m \in Minutes,
         bars[m] # "none", bars'[m] # bars[m]
  PROVE  m \in pending /\ m \notin pending'
<1>1. CASE Still
  BY <1>1 DEF Still
<1>2. CASE \E r \in Runners : Insert(r)
  BY <1>2, InsertBars
<1>3. CASE NextMinute
  <2>1. m = now
    BY <1>3, MinuteBars
  <2>2. now \in Nat
    BY Bounds DEF Shape
  <2>3. bars[now] = "none"
    BY <2>1, <2>2 DEF PastInv
  <2> QED  BY <2>1, <2>3
<1>4. CASE \E n \in Minutes : WorkerStores(n)
  BY <1>4, StorePast
<1> QED  BY <1>1, <1>2, <1>3, <1>4, StillIs

-----------------------------------------------------------------------------
(* LedgerInv is kept.                                                      *)

(* The ledger and the requests made agree on everything a day old or less. *)
LEMMA ForgetIs ==
  ASSUME NEW l \in [0..MaxNow -> Nat], NEW n \in 0..MaxNow
  PROVE  \A t \in 0..MaxNow : /\ t > n - DayMs => Forget(l, n)[t] = l[t]
                              /\ t <= n - DayMs => Forget(l, n)[t] = 0
<1>1. MaxNow \in Nat /\ DayMs \in Nat
  BY Bounds, QuotaAssumption
<1>2. \A t \in 0..MaxNow : t > n - DayMs => ~(t <= n - DayMs)
  BY <1>1
<1> QED  BY <1>2 DEF Forget

(* Nothing of the account changes.                                         *)
Quiet == UNCHANGED account /\ faults \subseteq faults'

(* The account changes by a request or the refusal of one.                 *)
LEMMA QuietIs ==
  ASSUME [Next]_vars
  PROVE  \/ Quiet /\ UNCHANGED now
         \/ Quiet /\ NextMinute
         \/ \E r \in Runners : Postpone(r) \/ Spend(r)
         \/ LiveRequest /\ UNCHANGED run
<1>1. ASSUME NEW r \in Runners,
             \/ Start(r) \/ Stop(r) \/ SkipRefused(r) \/ Ask(r) \/ Insert(r) \/ CacheInserted(r)
             \/ RecordSpans(r) \/ RefreshRollups(r) \/ RepairCache(r) \/ Finish(r)
      PROVE  Quiet /\ UNCHANGED now
  BY <1>1 DEF Quiet, Start, Stop, SkipRefused, Ask, Insert, CacheInserted, RecordSpans,
              RefreshRollups, RepairCache, Finish, world
<1>2. ASSUME NEW r \in Runners, Abandon(r) \/ LockLost(r)
      PROVE  Quiet /\ UNCHANGED now
  BY <1>2 DEF Quiet, Abandon, LockLost, Fault
<1>3. ASSUME StreamKeeps \/ UNCHANGED vars \/ \E m \in Minutes : WorkerStores(m)
      PROVE  Quiet /\ UNCHANGED now
  BY <1>3 DEF Quiet, StreamKeeps, WorkerStores, Fault, vars, account
<1>4. NextMinute => Quiet
  BY DEF Quiet, NextMinute
<1>5. LiveRequest => UNCHANGED run
  BY DEF LiveRequest
<1> QED  BY <1>1, <1>2, <1>3, <1>4, <1>5 DEF Next, RunStep

(* Nothing that went wrong is forgotten.                                   *)
LEMMA FaultsGrow ==
  ASSUME [Next]_vars
  PROVE  faults \subseteq faults'
<1>1. CASE Quiet
  BY <1>1 DEF Quiet
<1>2. CASE (\E r \in Runners : Postpone(r) \/ Spend(r)) \/ LiveRequest
  BY <1>2 DEF Postpone, Spend, LiveRequest, Fault
<1> QED  BY <1>1, <1>2, QuietIs

(* Requests of runs are entered in Spend only.                             *)
LEMMA SpendMakes ==
  ASSUME [Next]_vars, NEW r \in Runners, made' # made, run'[r] # run[r]
  PROVE  \E q \in Runners : Spend(q)
<1>1. Quiet => UNCHANGED made
  BY DEF Quiet, account
<1>2. ASSUME NEW q \in Runners, Postpone(q) PROVE UNCHANGED made
  BY <1>2 DEF Postpone
<1> QED  BY <1>1, <1>2, QuietIs

(* Ledger and requests keep agreeing while Redis takes them all.           *)
LEMMA StepLedger ==
  ASSUME Shape, LedgerInv, [Next]_vars
  PROVE  LedgerInv'
<1>0. /\ now \in 0..MaxNow /\ now \in Nat /\ MaxNow \in Nat /\ DayMs \in Nat
      /\ ledger \in [0..MaxNow -> Nat] /\ made \in [0..MaxNow -> Nat]
  BY Bounds, QuotaAssumption DEF Shape
<1> SUFFICES ASSUME "redis" \notin faults', NEW t \in 0..MaxNow, t > now' - DayMs
             PROVE  ledger'[t] = made'[t]
  BY DEF LedgerInv
<1>1. ASSUME "redis" \notin faults, t > now - DayMs PROVE ledger[t] = made[t]
  BY <1>1 DEF LedgerInv
<1>2. CASE Quiet /\ UNCHANGED now
  BY <1>1, <1>2 DEF Quiet, account
<1>3. CASE Quiet /\ NextMinute
  <2>1. now' = now + 1 /\ UNCHANGED <<ledger, made>> /\ "redis" \notin faults
    BY <1>3 DEF NextMinute, Quiet, account
  <2>2. t > now - DayMs
    BY <1>0, <2>1
  <2> QED  BY <1>1, <2>1, <2>2
<1> DEFINE kept == Forget(ledger, now)
<1>4. kept \in [0..MaxNow -> Nat] /\ (t > now - DayMs => kept[t] = ledger[t])
  BY <1>0, LedgerIs, ForgetIs
<1>5. CASE \E r \in Runners : Postpone(r)
  <2>1. ~Take(ledger, now).granted /\ ledger' = Take(ledger, now).ledger
        /\ UNCHANGED <<now, made, faults>>
    BY <1>5 DEF Postpone, Fault
  <2>2. ledger' = kept
    BY <1>0, <2>1, LedgerIs
  <2> QED  BY <1>1, <1>4, <2>1, <2>2
<1>6. CASE (\E r \in Runners : Spend(r)) \/ LiveRequest
  <2>1. UNCHANGED <<now, faults>> /\ made' = [made EXCEPT ![now] = @ + 1]
        /\ ledger' = [kept EXCEPT ![now] = @ + 1]
    <3>1. CASE LiveRequest
      BY <3>1 DEF LiveRequest, Fault, Record
    <3>2. CASE \E r \in Runners : Spend(r)
      <4>1. Take(ledger, now).granted /\ ledger' = Take(ledger, now).ledger
            /\ UNCHANGED <<now, faults>> /\ made' = [made EXCEPT ![now] = @ + 1]
        BY <3>2 DEF Spend
      <4> QED  BY <1>0, <4>1, LedgerIs
    <3> QED  BY <1>6, <3>1, <3>2
  <2>2. kept[t] = made[t]
    BY <1>1, <1>4, <2>1
  <2> HIDE DEF kept
  <2>3. made[t] \in Nat
    BY <1>0
  <2> QED  BY <1>0, <1>4, <2>1, <2>2
<1> QED  BY <1>2, <1>3, <1>5, <1>6, QuietIs

(* What a granted request leaves of the allowance.                         *)
LEMMA GrantedLeaves ==
  ASSUME NEW l \in [0..MaxNow -> Nat], NEW k \in [0..MaxNow -> Nat], NEW n \in 0..MaxNow,
         \A t \in 0..MaxNow : t > n - DayMs => l[t] = k[t],
         Take(l, n).granted
  PROVE  /\ ZCount(OneMore(k, n), n - HourMs) + ReservePerHour <= PerHour
         /\ ZCount(OneMore(k, n), n - DayMs + 1) + ReservePerDay <= PerDay
<1>0. /\ MaxNow \in Nat /\ n \in Nat /\ DayMs \in Nat /\ HourMs \in Nat /\ HourMs < DayMs
      /\ PerHour \in Nat /\ PerDay \in Nat /\ ReservePerHour \in Nat /\ ReservePerDay \in Nat
  BY Bounds, QuotaAssumption
<1> DEFINE D == 0..MaxNow
           f == Forget(l, n)
           h == n - HourMs
           d == n - DayMs + 1
<1>1. IsFiniteSet(D)
  BY <1>0, FS_Interval
<1>2. f \in [D -> Nat]
  BY LedgerIs
<1>3. \A t \in D : (t > n - DayMs => f[t] = k[t]) /\ (t <= n - DayMs => f[t] = 0)
  BY ForgetIs
<1>4. ZCount(f, h) < PerHour - ReservePerHour /\ ZCount(f, 0) < PerDay - ReservePerDay
  BY DEF Take, Enter
<1>5. /\ h \in Int /\ d \in Int /\ n >= h /\ n >= d
      /\ \A t \in D : t >= h => t > n - DayMs
      /\ \A t \in D : t >= d => t > n - DayMs
      /\ \A t \in D : ~(t >= d) => t <= n - DayMs
      /\ \A t \in D : t >= 0
  BY <1>0
<1> HIDE DEF D, f, h, d
<1>6. Agree(f, k, From(D, h)) /\ n \in From(D, h)
  BY <1>3, <1>5 DEF From, Agree, D
<1>7. Agree(f, k, From(D, d)) /\ n \in From(D, d)
  BY <1>3, <1>5 DEF From, Agree, D
<1>8. From(D, d) \subseteq From(D, 0) /\ \A t \in From(D, 0) \ From(D, d) : f[t] = 0
  BY <1>3, <1>5 DEF From
<1>9. k \in [D -> Nat] /\ n \in D
  BY DEF D
<1>10. ZCount(f, h) = ZCount(k, h) /\ ZCount(f, h) \in Nat
  BY <1>1, <1>2, <1>6, <1>9, CountAgrees
<1>11. ZCount(f, d) = ZCount(k, d) /\ ZCount(f, d) \in Nat
  BY <1>1, <1>2, <1>7, <1>9, CountAgrees
<1>12. ZCount(f, 0) = ZCount(f, d)
  BY <1>1, <1>2, <1>8, CountPads
<1>13. ZCount(OneMore(k, n), h) = ZCount(k, h) + 1
       /\ ZCount(OneMore(k, n), d) = ZCount(k, d) + 1
  BY <1>1, <1>6, <1>7, <1>9, CountOneMore
<1> DEFINE a == ZCount(f, h)
           b == ZCount(f, d)
<1>14. a \in Nat /\ a < PerHour - ReservePerHour /\ b \in Nat /\ b < PerDay - ReservePerDay
  BY <1>4, <1>10, <1>11, <1>12
<1>15. ZCount(OneMore(k, n), h) = a + 1 /\ ZCount(OneMore(k, n), d) = b + 1
  BY <1>10, <1>11, <1>13
<1> HIDE DEF a, b
<1>16. a + 1 + ReservePerHour <= PerHour /\ b + 1 + ReservePerDay <= PerDay
  BY <1>0, <1>14
<1> QED  BY <1>15, <1>16 DEF h, d

(* A request of a run leaves the reserve.                                  *)
LEMMA StepReserve ==
  ASSUME Shape, LedgerInv, [Next]_vars, NEW r \in Runners, made' # made, run'[r] # run[r],
         "redis" \notin faults
  PROVE  /\ ZCount(made', now - HourMs) + ReservePerHour <= PerHour
         /\ ZCount(made', now - DayMs + 1) + ReservePerDay <= PerDay
<1>1. \E q \in Runners : Spend(q)
  BY SpendMakes
<1>2. Take(ledger, now).granted /\ made' = [made EXCEPT ![now] = @ + 1]
  BY <1>1 DEF Spend
<1>3. /\ ledger \in [0..MaxNow -> Nat] /\ made \in [0..MaxNow -> Nat] /\ now \in 0..MaxNow
      /\ \A t \in 0..MaxNow : t > now - DayMs => ledger[t] = made[t]
  BY DEF Shape, LedgerInv
<1> QED  BY <1>2, <1>3, GrantedLeaves DEF OneMore

-----------------------------------------------------------------------------
(* AskInv is kept.                                                         *)

(* A request of this time for the minute that has no row yet.              *)
Awaits(s, m, t) == s.pc \in Unrecorded /\ s.at = t /\ m \in Wanted(Head(s.rest))

(* A run that has a request to record keeps it until it does, or is cut    *)
(* short.                                                                  *)
LEMMA AwaitStays ==
  ASSUME IsRuns(run), [Next]_vars, "unrecorded" \notin faults', NEW q \in Runners,
         run[q].pc \in Unrecorded, ~RecordSpans(q), NEW m, NEW t, Awaits(run[q], m, t)
  PROVE  Awaits(run'[q], m, t)
<1> USE DEF Unrecorded
<1>1. CASE UNCHANGED run
  BY <1>1
<1>2. ASSUME NEW r \in Runners, Start(r) PROVE Awaits(run'[q], m, t)
  <2>1. run[r].pc = "idle" /\ (UNCHANGED run \/ \E f : run' = [run EXCEPT ![r] = f])
    BY <1>2 DEF Start
  <2>2. run'[q] = run[q]
    BY <2>1 DEF IsRuns
  <2> QED  BY <2>2
<1>3. ASSUME NEW r \in Runners, Finish(r) \/ Abandon(r) PROVE Awaits(run'[q], m, t)
  <2>1. run' = [run EXCEPT ![r] = Idle] /\ run[r].pc \notin Unrecorded
    BY <1>3 DEF Finish, Abandon, Fault
  <2>2. run'[q] = run[q]
    BY <2>1 DEF IsRuns
  <2> QED  BY <2>2
<1>4. ASSUME NEW r \in Runners, Middle(r), r # q PROVE Awaits(run'[q], m, t)
  <2>1. run'[q] = run[q]
    BY <1>4, MiddleMoves DEF Moved
  <2> QED  BY <2>1
<1>5. ASSUME Middle(q) PROVE Awaits(run'[q], m, t)
  <2>1. CASE CacheInserted(q)
    <3>1. Goto(q, "record")
      BY <2>1 DEF CacheInserted
    <3> QED  BY <3>1, GotoIs DEF Awaits, SameJob
  <2>2. CASE Insert(q)
    BY <2>2, InsertIs DEF Awaits, SameJob
  <2>3. CASE \/ Stop(q) \/ SkipRefused(q) \/ Postpone(q) \/ Spend(q) \/ Ask(q)
             \/ RefreshRollups(q) \/ RepairCache(q)
    BY <2>3 DEF Stop, SkipRefused, Postpone, Spend, Ask, RefreshRollups, RepairCache
  <2> QED  BY <1>5, <2>1, <2>2, <2>3 DEF Middle
<1>6. NextMinute \/ LiveRequest \/ StreamKeeps \/ (\E n \in Minutes : WorkerStores(n))
        \/ (\E r \in Runners : LockLost(r)) \/ UNCHANGED vars => UNCHANGED run
  BY DEF NextMinute, LiveRequest, StreamKeeps, WorkerStores, LockLost, vars
<1> QED  BY <1>1, <1>2, <1>3, <1>4, <1>5, <1>6 DEF Next, RunStep, Middle

(* Requests are made in Ask, and their rows written in RecordSpans.        *)
LEMMA AskedStays ==
  ASSUME [Next]_vars
  PROVE  /\ UNCHANGED asked \/ \E r \in Runners : Ask(r)
         /\ UNCHANGED spans \/ \E r \in Runners : RecordSpans(r) /\ UNCHANGED asked
<1>1. ASSUME NEW r \in Runners,
             \/ Start(r) \/ Stop(r) \/ SkipRefused(r) \/ Postpone(r) \/ Spend(r) \/ Insert(r)
             \/ CacheInserted(r) \/ RefreshRollups(r) \/ RepairCache(r) \/ Finish(r)
             \/ Abandon(r) \/ LockLost(r)
      PROVE  UNCHANGED <<spans, asked>>
  BY <1>1 DEF Start, Stop, SkipRefused, Postpone, Spend, Insert, CacheInserted, RefreshRollups,
              RepairCache, Finish, Abandon, LockLost
<1>2. ASSUME \/ NextMinute \/ LiveRequest \/ StreamKeeps \/ UNCHANGED vars
             \/ \E m \in Minutes : WorkerStores(m)
      PROVE  UNCHANGED <<spans, asked>>
  BY <1>2 DEF NextMinute, LiveRequest, StreamKeeps, WorkerStores, vars
<1>3. ASSUME NEW r \in Runners, Ask(r) PROVE UNCHANGED spans
  BY <1>3 DEF Ask
<1>4. ASSUME NEW r \in Runners, RecordSpans(r) PROVE UNCHANGED asked
  BY <1>4 DEF RecordSpans
<1> QED  BY <1>1, <1>2, <1>3, <1>4 DEF Next, RunStep

(* Every request keeps its row, or a run that has still to write it.       *)
LEMMA StepAsked ==
  ASSUME LockInv, Shape, RunsInv, AskInv, [Next]_vars
  PROVE  AskInv'
<1>0. IsRuns(run)
  BY DEF LockInv
<1> SUFFICES ASSUME "unrecorded" \notin faults', NEW m \in Minutes, asked'[m] # Never
             PROVE  \/ \E s \in spans' : m \in each_minute(s) /\ s.at = asked'[m]
                    \/ \E r \in Runners : Awaits(run'[r], m, asked'[m])
  BY DEF AskInv, Awaits
<1>1. asked[m] # Never => \/ \E s \in spans : m \in each_minute(s) /\ s.at = asked[m]
                          \/ \E r \in Runners : Awaits(run[r], m, asked[m])
  BY FaultsGrow DEF AskInv, Awaits
<1>2. CASE asked'[m] = asked[m]
  <2>1. spans \subseteq spans'
    BY AskedStays, RecordRows
  <2>2. ASSUME NEW q \in Runners, Awaits(run[q], m, asked[m]), ~RecordSpans(q)
        PROVE  Awaits(run'[q], m, asked[m])
    BY <1>0, <2>2, AwaitStays DEF Awaits
  <2>3. ASSUME NEW q \in Runners, Awaits(run[q], m, asked[m]), RecordSpans(q)
        PROVE  \E s \in spans' : m \in each_minute(s) /\ s.at = asked[m]
    <3> DEFINE me == run[q]
               req == Head(me.rest)
               new == RowsOf(req, me.answer, me.got, me.at)
    <3>1. me.pc = "record" /\ spans' = spans \cup new
      BY <2>3, RecordRows
    <3>2. req \in Spans /\ Fit(req) /\ Wanted(req) \subseteq Minutes /\ me.at \in 0..MaxNow
      BY <3>1, HeadIs
    <3>3. m \in Wanted(req) /\ me.at = asked[m]
      BY <2>3 DEF Awaits
    <3> HIDE DEF me, req, new
    <3>4. \E s \in new : m \in each_minute(s) /\ s.at = me.at
      BY <3>2, <3>3, RowsAre DEF new
    <3> QED  BY <3>1, <3>3, <3>4
  <2> QED  BY <1>1, <1>2, <2>1, <2>2, <2>3
<1>3. CASE asked'[m] # asked[m]
  <2>1. PICK r \in Runners : Ask(r)
    BY <1>3, AskedStays
  <2>2. m \in Wanted(Head(run[r].rest)) /\ asked'[m] = run[r].at
    <3>1. asked'[m] = IF m \in Wanted(Head(run[r].rest))
                      THEN Larger(asked[m], run[r].at) ELSE asked[m]
      BY <2>1 DEF Ask
    <3>2. Larger(asked[m], run[r].at) \in {asked[m], run[r].at}
      BY DEF Larger
    <3> QED  BY <1>3, <3>1, <3>2
  <2>3. Awaits(run'[r], m, asked'[m])
    BY <1>0, <2>1, <2>2, AskIs DEF Awaits, SameJob, Unrecorded
  <2> QED  BY <2>3
<1> QED  BY <1>2, <1>3

-----------------------------------------------------------------------------
(* DueInv is kept.                                                         *)

(* What a run still has to ask is due.                                     *)
Due(s, a) ==
    ~s.settledToo =>
        \A k \in 1..Len(s.rest) : (k = 1 => s.pc \notin Unrecorded) =>
            \A m \in Wanted(s.rest[k]) : a[m] = Never \/ s.at - a[m] >= Settle

(* DueInv, run by run.                                                     *)
LEMMA DueIs ==
  DueInv <=> (faults \cap {"unrecorded", "lock"} = {} => \A r \in Runners : Due(run[r], asked))
BY DEF DueInv, Due

(* A run without requests has nothing due.                                 *)
LEMMA DueNone ==
  ASSUME NEW s, NEW a, s.rest = <<>>
  PROVE  Due(s, a)
<1>1. Len(s.rest) = 0 /\ 1..0 = {}
  BY EmptySeq
<1> QED  BY <1>1 DEF Due

(* Neither has one without a window.                                       *)
LEMMA DueOut ==
  ASSUME NEW s, NEW a, PlanFor(s.rest, {})
  PROVE  Due(s, a)
BY DEF Due, PlanFor

(* The requests after the first were due while that one was under way.     *)
LEMMA DueTail ==
  ASSUME NEW s, NEW t, NEW a, NEW ms, PlanFor(s.rest, ms), s.rest # <<>>,
         Due(s, a), SameJob(s, t), t.rest = Tail(s.rest)
  PROVE  Due(t, a)
<1> DEFINE q == s.rest
           u == t.rest
           n == Len(q)
<1>1. n \in Nat /\ Len(u) = n - 1 /\ \A i \in 1..(n - 1) : u[i] = q[i + 1]
  BY PlansAre DEF PlanFor
<1>2. t.at = s.at /\ t.settledToo = s.settledToo
  BY DEF SameJob
<1> SUFFICES ASSUME ~s.settledToo, NEW k \in 1..Len(u), NEW m \in Wanted(u[k])
             PROVE  a[m] = Never \/ s.at - a[m] >= Settle
  BY <1>2 DEF Due
<1>3. k + 1 \in 1..n /\ k + 1 # 1 /\ u[k] = q[k + 1]
  <2> HIDE DEF n, u
  <2> QED  BY <1>1
<1> QED  BY <1>3 DEF Due

(* A request leaves the others of its run due: they are apart.             *)
LEMMA DueApart ==
  ASSUME NEW s, NEW t, NEW a, NEW b, NEW ms, PlanFor(s.rest, ms), s.rest # <<>>,
         Due(s, a), SameJob(s, t), t.rest = s.rest, s.pc \notin Unrecorded, t.pc \in Unrecorded,
         ms \subseteq Nat, \A m \in ms \ Wanted(Head(s.rest)) : b[m] = a[m]
  PROVE  Due(t, b)
<1> DEFINE q == s.rest
           n == Len(q)
<1>1. n \in Nat /\ Head(q) = q[1] /\ 1 \in 1..n
  BY PlansAre DEF PlanFor
<1>2. t.at = s.at /\ t.settledToo = s.settledToo
  BY DEF SameJob
<1> SUFFICES ASSUME ~s.settledToo, NEW k \in 1..n, k # 1, NEW m \in Wanted(q[k])
             PROVE  b[m] = Never \/ s.at - b[m] >= Settle
  BY <1>2 DEF Due
<1>3. 1 < k
  <2> HIDE DEF n
  <2> QED  BY <1>1
<1>4. Apart(q[1], q[k]) /\ m \in ms /\ m \in Nat
  BY <1>1, <1>3 DEF PlanFor, InOrder
<1>5. m \notin Wanted(Head(q))
  <2>1. m \in Wanted(q[1]) => m < m
    BY <1>4 DEF Apart
  <2> QED  BY <1>1, <1>4, <2>1
<1>6. b[m] = a[m]
  BY <1>4, <1>5
<1>7. a[m] = Never \/ s.at - a[m] >= Settle
  BY DEF Due
<1> QED  BY <1>6, <1>7

(* A run that begins leaves alone what was asked for less than Settle ago: *)
(* it has the lock, so every request has its row.                          *)
LEMMA BeginsDue ==
  ASSUME Shape, IsRuns(run), AskInv, "unrecorded" \notin faults,
         \A q \in Runners : run[q].pc = "idle",
         NEW r \in Runners, NEW w, NEW y, NEW f, NEW st, NEW i, Begins(r, w, y, f, st, i)
  PROVE  Due(run'[r], asked)
<1>0. /\ now \in 0..MaxNow /\ MaxNow \in Nat /\ now \in Nat /\ Settle \in Nat
      /\ asked \in [Minutes -> {Never} \cup 0..MaxNow] /\ Horizon \in Nat
  BY Bounds, RecoveryAssumption DEF Shape
<1> DEFINE t == NewRun(w, y, f, st, i)
<1>1. run'[r] = t
  BY BeginsFine
<1>2. t.rest = f /\ t.at = now /\ t.settledToo = y
  <2>1. IsNew(t, w, y, f, st, i)
    BY NewRunIs
  <2> HIDE DEF t
  <2> QED  BY <2>1 DEF IsNew
<1> HIDE DEF t
<1> SUFFICES ASSUME ~y, NEW k \in 1..Len(f), NEW m \in Wanted(f[k]), asked[m] # Never
             PROVE  now - asked[m] >= Settle
  BY <1>1, <1>2 DEF Due
<1>3. m \in Bare(w, y)
  BY DEF Begins, PlanFor
<1>4. m \in Minutes
  <2>1. w.start \in Nat /\ w.end \in Nat /\ w.end <= now - Horizon - 1
    BY <1>0, WindowIs DEF Begins
  <2>2. m \in w.start..w.end
    BY <1>3 DEF Bare, each_minute
  <2> QED  BY <1>0, <2>1, <2>2 DEF Minutes
<1>5. PICK s \in spans : m \in each_minute(s) /\ s.at = asked[m]
  <2>1. "idle" \notin Unrecorded
    BY DEF Unrecorded
  <2> QED  BY <1>4, <2>1 DEF AskInv
<1>6. s \notin asked_since(now - Settle)
  BY <1>3, <1>5 DEF Bare, Ranges
<1>7. ~(s.at > now - Settle)
  BY <1>6 DEF asked_since
<1>8. asked[m] \in 0..MaxNow
  BY <1>0, <1>4
<1> QED  BY <1>0, <1>5, <1>7, <1>8

(* A step of a run that makes no request.                                  *)
LEMMA DueStays ==
  ASSUME RunsInv, NEW r \in Runners, Due(run[r], asked), SameJob(run[r], run'[r]),
         \/ run'[r].rest = run[r].rest
              /\ (run[r].pc \in Unrecorded => run'[r].pc \in Unrecorded)
         \/ run'[r].rest = <<>>
         \/ run[r].pc \in {"ask", "record"} /\ run'[r].rest = Tail(run[r].rest)
  PROVE  Due(run'[r], asked)
<1> DEFINE s == run[r]
           t == run'[r]
<1>1. CASE t.rest = s.rest /\ (s.pc \in Unrecorded => t.pc \in Unrecorded)
  BY <1>1 DEF Due, SameJob
<1>2. CASE t.rest = <<>>
  BY <1>2, DueNone
<1>3. CASE s.pc \in {"ask", "record"} /\ t.rest = Tail(s.rest)
  <2>1. RunFine(s, now)
    BY DEF RunsInv
  <2>2. s.rest # <<>> /\ PlanFor(s.rest, each_minute(s.window))
    BY <1>3, <2>1 DEF RunFine
  <2> HIDE DEF s, t
  <2>3. Due(s, asked) /\ SameJob(s, t)
    BY DEF s, t
  <2>4. Due(t, asked)
    BY <1>3, <2>2, <2>3, DueTail
  <2> QED  BY <2>4 DEF t
<1> QED  BY <1>1, <1>2, <1>3

(* Ask touches what is due to no run.                                      *)
LEMMA AskDue ==
  ASSUME LockInv, Shape, RunsInv, DueInv, faults \cap {"unrecorded", "lock"} = {},
         NEW r \in Runners, Ask(r)
  PROVE  \A q \in Runners : Due(run'[q], asked')
<1>0. IsRuns(run) /\ now \in 0..MaxNow
  BY DEF LockInv, Shape
<1> DEFINE s == run[r]
           t == run'[r]
           req == Head(s.rest)
           ms == each_minute(s.window)
<1>1. /\ Moved(r) /\ SameJob(s, t) /\ t.rest = s.rest /\ s.pc = "send"
      /\ t.pc \in {"insert", "record"}
  BY <1>0, AskIs
<1>2. s.rest # <<>> /\ PlanFor(s.rest, ms) /\ ms \subseteq Minutes
  BY <1>1, HeadIs
<1>3. ms \subseteq Nat
  BY <1>2 DEF Minutes
<1>4. \A m \in ms \ Wanted(req) : asked'[m] = asked[m]
  <2>1. asked' = [m \in Minutes |-> IF m \in Wanted(req) THEN Larger(asked[m], s.at) ELSE asked[m]]
    BY DEF Ask
  <2> QED  BY <1>2, <2>1
<1>5. Due(s, asked)
  BY DueIs
<1>6. Due(t, asked')
  <2>1. s.pc \notin Unrecorded /\ t.pc \in Unrecorded
    BY <1>1 DEF Unrecorded
  <2> HIDE DEF s, t, ms
  <2> QED  BY <1>1, <1>2, <1>3, <1>4, <1>5, <2>1, DueApart DEF req
<1>7. ASSUME NEW q \in Runners, q # r PROVE Due(run'[q], asked')
  <2>1. run[q].pc = "idle"
    BY <1>1, <1>7 DEF LockInv, Inside, Holds
  <2>2. RunFine(run[q], now)
    BY DEF RunsInv
  <2>3. each_minute(run[q].window) = {} /\ PlanFor(run[q].rest, each_minute(run[q].window))
    BY <1>0, <2>1, <2>2, WindowMinutes DEF RunFine
  <2>4. run'[q] = run[q]
    BY <1>1, <1>7 DEF Moved
  <2> QED  BY <2>3, <2>4, DueOut
<1> QED  BY <1>6, <1>7

(* What the runs have to ask stays due.                                    *)
LEMMA StepDue ==
  ASSUME LockInv, Shape, RunsInv, AskInv, DueInv, [Next]_vars
  PROVE  DueInv'
<1>0. IsRuns(run) /\ now \in 0..MaxNow /\ now \in Nat
  BY Bounds DEF LockInv, Shape
<1> SUFFICES ASSUME faults' \cap {"unrecorded", "lock"} = {}
             PROVE  \A q \in Runners : Due(run'[q], asked')
  BY DEF DueInv, Due
<1>1. faults \cap {"unrecorded", "lock"} = {}
  BY FaultsGrow
<1>2. \A q \in Runners : Due(run[q], asked)
  BY <1>1, DueIs
<1>3. ASSUME NEW r \in Runners, Moved(r), Due(run'[r], asked), UNCHANGED asked
      PROVE  \A q \in Runners : Due(run'[q], asked')
  BY <1>2, <1>3 DEF Moved
<1>4. CASE \E r \in Runners : Start(r)
  <2>1. PICK r \in Runners : Start(r)
    BY <1>4
  <2>2. UNCHANGED asked
    BY <2>1 DEF Start
  <2>3. CASE UNCHANGED run
    BY <1>2, <2>2, <2>3
  <2>4. CASE \E w, y, f, st, i : Begins(r, w, y, f, st, i)
    <3>1. \A q \in Runners : run[q].pc = "idle"
      BY <1>0, <1>1, <2>1, StartIs DEF LockInv, Inside, Holds
    <3> QED  BY <1>0, <1>1, <1>3, <2>2, <2>4, <3>1, BeginsFine, BeginsDue
  <2> QED  BY <1>0, <2>1, <2>3, <2>4, StartIs
<1>5. CASE \E r \in Runners : Ask(r)
  BY <1>1, <1>5, AskDue
<1>6. CASE \E r \in Runners : Middle(r) /\ ~Ask(r)
  <2>1. PICK r \in Runners : Middle(r) /\ ~Ask(r)
    BY <1>6
  <2>2. UNCHANGED asked
    BY <2>1 DEF Middle, Stop, SkipRefused, Postpone, Spend, Insert, CacheInserted, RecordSpans,
                RefreshRollups, RepairCache
  <2>3. Moved(r) /\ SameJob(run[r], run'[r])
    BY <1>0, <2>1, MiddleMoves
  <2>4. \/ run'[r].rest = run[r].rest /\ (run[r].pc \in Unrecorded => run'[r].pc \in Unrecorded)
        \/ run'[r].rest = <<>>
        \/ run[r].pc \in {"ask", "record"} /\ run'[r].rest = Tail(run[r].rest)
    <3>1. CASE Spend(r) \/ CacheInserted(r) \/ RefreshRollups(r) \/ RepairCache(r)
      <4>1. PICK p : Goto(r, p) /\ (run[r].pc \in Unrecorded => p \in Unrecorded)
        BY <3>1 DEF Spend, CacheInserted, RefreshRollups, RepairCache, Unrecorded
      <4> QED  BY <1>0, <4>1, GotoIs
    <3>2. CASE Insert(r)
      BY <1>0, <3>2, InsertIs DEF Unrecorded
    <3>3. CASE Stop(r) \/ SkipRefused(r) \/ Postpone(r) \/ RecordSpans(r)
      BY <1>0, <3>3, StopIs, SkipIs, PostponeIs, RecordIs
    <3> QED  BY <2>1, <3>1, <3>2, <3>3 DEF Middle
  <2>5. Due(run'[r], asked)
    BY <1>2, <2>3, <2>4, DueStays
  <2> QED  BY <1>3, <2>2, <2>3, <2>5
<1>7. CASE \E r \in Runners : Finish(r) \/ Abandon(r)
  <2>1. PICK r \in Runners : Finish(r) \/ Abandon(r)
    BY <1>7
  <2>2. run' = [run EXCEPT ![r] = Idle] /\ UNCHANGED asked
    BY <2>1 DEF Finish, Abandon
  <2>3. Moved(r) /\ run'[r] = Idle
    BY <1>0, <2>2, EndIs
  <2>4. Idle.rest = <<>>
    BY DEF Idle
  <2> QED  BY <1>3, <2>2, <2>3, <2>4, DueNone
<1>8. CASE NextMinute \/ LiveRequest \/ StreamKeeps \/ (\E m \in Minutes : WorkerStores(m))
           \/ (\E r \in Runners : LockLost(r)) \/ UNCHANGED vars
  <2>1. UNCHANGED <<run, asked>>
    BY <1>8 DEF NextMinute, LiveRequest, StreamKeeps, WorkerStores, LockLost, vars
  <2> QED  BY <1>2, <2>1
<1> QED  BY <1>4, <1>5, <1>6, <1>7, <1>8 DEF Next, RunStep, Middle

(* A request that a run is about to make is due.                           *)
LEMMA SendsDue ==
  ASSUME Shape, RunsInv, DueInv, faults \cap {"unrecorded", "lock"} = {}, NEW r \in Runners
  PROVE  ~AsksTooSoon(r)
<1> SUFFICES ASSUME run[r].pc = "send", ~run[r].settledToo, NEW m \in Wanted(Head(run[r].rest)),
                    asked[m] # Never, run[r].at - asked[m] < Settle
             PROVE  FALSE
  BY DEF AsksTooSoon
<1>1. /\ run[r].rest # <<>> /\ PlanFor(run[r].rest, each_minute(run[r].window))
      /\ Wanted(Head(run[r].rest)) \subseteq Minutes /\ run[r].at \in Nat
  BY HeadIs
<1>2. Head(run[r].rest) = run[r].rest[1] /\ 1 \in 1..Len(run[r].rest)
  BY <1>1, PlansAre DEF PlanFor
<1>3. Due(run[r], asked)
  BY DueIs
<1>4. run[r].at - asked[m] >= Settle
  BY <1>2, <1>3 DEF Due, Unrecorded
<1>5. asked[m] \in Int /\ Settle \in Nat
  <2>1. asked[m] \in {Never} \cup 0..MaxNow
    BY <1>1 DEF Shape
  <2> QED  BY <2>1, Bounds, RecoveryAssumption DEF Never
<1> QED  BY <1>1, <1>4, <1>5

-----------------------------------------------------------------------------
(* What the hot cache would take.                                          *)

(* The hot cache takes all it would take at once.                          *)
LEMMA NewestAbove ==
  ASSUME NEW S \in SUBSET Minutes, NEW m \in S, m \notin Newest(S), NEW n \in Newest(S)
  PROVE  n > m /\ Cardinality(S) >= CacheBars
<1>0. MaxNow \in Nat /\ CacheBars \in Nat /\ S \subseteq Nat
  BY Bounds DEF Minutes
<1> DEFINE A == {x \in S : x > m}
           B == {x \in S : x > n}
<1>1. IsFiniteSet(S) /\ IsFiniteSet(A) /\ IsFiniteSet(B)
  BY <1>0, FiniteMinutes, FS_Subset
<1>2. Cardinality(A) \in Nat /\ Cardinality(B) \in Nat /\ Cardinality(S) \in Nat
  BY <1>1, FS_CardinalityType
<1>3. ~(Cardinality(A) < CacheBars) /\ Cardinality(B) < CacheBars /\ n \in S
  BY DEF Newest
<1>4. Cardinality(A) <= Cardinality(S)
  BY <1>1, FS_Subset
<1>5. ASSUME ~(n > m) PROVE FALSE
  <2>1. n \in Nat /\ m \in Nat
    BY <1>0, <1>3
  <2>2. A \subseteq B
    <3> SUFFICES ASSUME NEW x \in S, x > m PROVE x > n
      OBVIOUS
    <3>1. x \in Nat
      BY <1>0
    <3> QED  BY <1>5, <2>1, <3>1
  <2>3. Cardinality(A) <= Cardinality(B)
    BY <1>1, <2>2, FS_Subset
  <2> DEFINE a == Cardinality(A)
             b == Cardinality(B)
  <2>4. a \in Nat /\ b \in Nat /\ ~(a < CacheBars) /\ b < CacheBars /\ a <= b
    BY <1>2, <1>3, <2>3
  <2> HIDE DEF a, b
  <2> QED  BY <1>0, <2>4
<1>6. Cardinality(S) >= CacheBars
  <2> DEFINE a == Cardinality(A)
             c == Cardinality(S)
  <2>1. a \in Nat /\ c \in Nat /\ ~(a < CacheBars) /\ a <= c
    BY <1>2, <1>3, <1>4
  <2> HIDE DEF a, c
  <2>2. c >= CacheBars
    BY <1>0, <2>1
  <2> QED  BY <2>2 DEF c
<1> QED  BY <1>5, <1>6

(* A cache that was added what it would take would take no more.           *)
LEMMA TakesAll ==
  ASSUME NEW c \in SUBSET Minutes, NEW R \in SUBSET Minutes
  PROVE  cache_would_take(cache_add(c, cache_would_take(c, R)), R) = {}
<1>0. MaxNow \in Nat /\ CacheBars \in Nat /\ CacheBars > 0 /\ Minutes \subseteq Nat
  BY Bounds DEF Minutes
<1> DEFINE T == cache_would_take(c, R)
           S == c \cup T
           N == Newest(S)
<1>1. CASE c = {}
  BY <1>1 DEF cache_add, cache_would_take
<1>2. CASE c # {}
  <2>1. /\ \A m \in R : m \in T <=> m \notin c /\ (Cardinality(c) < CacheBars \/ m > Min(c))
        /\ T \subseteq R
    BY <1>2 DEF cache_would_take
  <2>2. cache_add(c, T) = N
    BY <1>2 DEF cache_add
  <2> HIDE DEF T
  <2>3. S \in SUBSET Minutes /\ IsFiniteSet(S) /\ S \in SUBSET Nat /\ Cardinality(S) \in Nat
    BY <1>0, <2>1, FiniteMinutes
  <2>4. IsFiniteSet(c) /\ Cardinality(c) \in Nat
    BY <1>0, FiniteMinutes
  <2>5. /\ N \subseteq S /\ (Cardinality(S) >= CacheBars => Cardinality(N) = CacheBars)
        /\ (Cardinality(S) <= CacheBars => N = S)
    BY <2>3, NewestIs
  <2>6. Cardinality(c) <= Cardinality(S)
    BY <2>3, FS_Subset
  <2>7. Min(c) \in c /\ \A x \in c : Min(c) <= x
    BY <1>0, <1>2, MinutesBounds
  <2> HIDE DEF S, N
  <2>8. ASSUME NEW m \in R, m \notin N
        PROVE  Cardinality(S) >= CacheBars /\ \A n \in N : n > m
    <3>1. CASE m \in S
      <4>1. N # {}
        <5>1. CASE Cardinality(S) <= CacheBars
          BY <2>5, <3>1, <5>1
        <5>2. CASE Cardinality(S) >= CacheBars
          <6>1. Cardinality(N) # 0
            BY <1>0, <2>5, <5>2
          <6> QED  BY <6>1, FS_EmptySet
        <5>3. Cardinality(S) <= CacheBars \/ Cardinality(S) >= CacheBars
          <6> DEFINE a == Cardinality(S)
          <6>1. a \in Nat
            BY <2>3
          <6> HIDE DEF a
          <6>2. a <= CacheBars \/ a >= CacheBars
            BY <1>0, <6>1
          <6> QED  BY <6>2 DEF a
        <5> QED  BY <5>1, <5>2, <5>3
      <4>2. \A n \in N : n > m /\ Cardinality(S) >= CacheBars
        BY <2>3, <2>8, <3>1, NewestAbove DEF N
      <4> QED  BY <4>1, <4>2
    <3>2. CASE m \notin S
      <4>1. m \notin c /\ m \notin T
        BY <3>2 DEF S
      <4>2. ~(Cardinality(c) < CacheBars) /\ ~(m > Min(c))
        BY <2>1, <4>1
      <4>3. Cardinality(S) >= CacheBars
        <5> DEFINE a == Cardinality(c)
                   b == Cardinality(S)
        <5>1. a \in Nat /\ b \in Nat /\ a <= b /\ ~(a < CacheBars)
          BY <2>3, <2>4, <2>6, <4>2
        <5> HIDE DEF a, b
        <5>2. b >= CacheBars
          BY <1>0, <5>1
        <5> QED  BY <5>2 DEF b
      <4>4. m \in Nat /\ Min(c) \in Nat /\ m # Min(c)
        BY <1>0, <2>7, <4>1
      <4>5. ASSUME NEW n \in S PROVE n > m
        <5>1. n \in Nat
          BY <2>3
        <5>2. Min(c) <= n \/ n > Min(c)
          BY <2>1, <2>7, <4>2 DEF S
        <5> QED  BY <4>2, <4>4, <5>1, <5>2
      <4> QED  BY <2>5, <4>3, <4>5
    <3> QED  BY <3>1, <3>2
  <2>9. ASSUME NEW m \in R \ N, N # {} PROVE ~(Cardinality(N) < CacheBars \/ m > Min(N))
    <3>1. Cardinality(N) = CacheBars
      BY <2>5, <2>8, <2>9
    <3>2. Min(N) \in N
      <4>1. N \in SUBSET Minutes
        BY <2>3, <2>5
      <4> QED  BY <1>0, <2>9, <4>1, MinutesBounds
    <3>3. Min(N) > m
      BY <2>8, <2>9, <3>2
    <3>4. Min(N) \in Nat /\ m \in Nat
      BY <1>0, <2>3, <2>5, <3>2
    <3>5. ~(CacheBars < CacheBars) /\ ~(m > Min(N))
      BY <1>0, <3>3, <3>4
    <3> QED  BY <3>1, <3>5
  <2>10. cache_would_take(N, R) = {}
    BY <2>9 DEF cache_would_take
  <2> QED  BY <2>2, <2>10 DEF T
<1> QED  BY <1>1, <1>2

-----------------------------------------------------------------------------
(* RollInv is kept.                                                        *)

(* The minutes of a run's window that a refresh at its time would reach,   *)
(* and one of them that is rolled up or about to be.                       *)
Reached(s) == each_minute(s.window) \cap refresh_range(s.window.start, s.window.end, s.at)

Ahead(s, m) ==
    /\ s.pc \in {"ask", "send", "insert", "cache", "record", "roll"}
    /\ m \in s.stale \cup s.changed \cup s.inserted

Rolls(s, rl, bs) == s.pc # "idle" => \A m \in Reached(s) : rl[m] = bs[m] \/ Ahead(s, m)

(* RollInv, run by run.                                                    *)
LEMMA RollIs ==
  RollInv <=> (faults \cap {"late", "lock"} = {} =>
                 \A r \in Runners : Rolls(run[r], rolled, bars))
BY DEF RollInv, Rolls, Reached, Ahead, Inside

(* Those minutes are past the horizon and in closed buckets.               *)
LEMMA ReachedIs ==
  ASSUME NEW t \in 0..MaxNow, NEW s, RunFine(s, t), s.pc # "idle"
  PROVE  \A m \in Reached(s) : m \in Minutes /\ m < t - Horizon /\ m < Open(s.at)
<1>1. /\ each_minute(s.window) \subseteq Minutes
      /\ \A m \in each_minute(s.window) : m < t - Horizon
  BY WindowMinutes
<1>2. s.window.start \in Nat /\ s.window.end \in Nat /\ s.at \in Nat
  <2>1. /\ s.window.start \in Nat /\ s.window.start <= s.window.end
        /\ s.window.end \in Nat /\ s.at \in 0..t
    BY DEF RunFine
  <2>2. Horizon \in Nat /\ t \in Nat
    BY Bounds
  <2> QED  BY <2>1, <2>2
<1>3. \A m \in refresh_range(s.window.start, s.window.end, s.at) : m < Open(s.at)
  BY <1>2, RefreshIs
<1> QED  BY <1>1, <1>3 DEF Reached

(* A step that forgets no insert and does not pass the refresh.            *)
LEMMA RollsOn ==
  ASSUME NEW s, NEW t, NEW rl, NEW bs, Rolls(s, rl, bs), SameJob(s, t), s.pc # "idle",
         t.pc \in {"ask", "send", "insert", "cache", "record", "roll"} \/ s.pc = t.pc
           \/ s.pc \notin {"ask", "send", "insert", "cache", "record", "roll"},
         s.changed \cup s.inserted \subseteq t.changed \cup t.inserted
  PROVE  Rolls(t, rl, bs)
<1>1. Reached(t) = Reached(s) /\ t.stale = s.stale
  BY DEF SameJob, Reached
<1>2. \A m : Ahead(s, m) => Ahead(t, m)
  BY <1>1 DEF Ahead
<1> QED  BY <1>1, <1>2 DEF Rolls

(* The refresh of a run reaches every minute that it left for it.          *)
LEMMA TargetsAre ==
  ASSUME NEW st \in SUBSET Minutes, NEW ch \in SUBSET Minutes, NEW t \in 0..MaxNow
  PROVE  \A m \in st \cup ch : m < Open(t) => m \in Targets(st, ch, t)
<1>0. MaxNow \in Nat /\ Minutes \subseteq Nat
  BY Bounds DEF Minutes
<1> DEFINE ms == st \cup Between(ch, t)
<1>1. Targets(st, ch, t) = IF ms = {} THEN {} ELSE Min(ms)..Max(ms)
  BY DEF Targets, Between
<1>2. Between(ch, t) \subseteq Minutes /\ \A m \in ch : m < Open(t) => m \in Between(ch, t)
  BY <1>0, BetweenIs
<1>3. ms \in SUBSET Minutes
  BY <1>2
<1> SUFFICES ASSUME NEW m \in st \cup ch, m < Open(t) PROVE m \in Targets(st, ch, t)
  OBVIOUS
<1>4. m \in ms
  BY <1>2
<1> HIDE DEF ms
<1>5. Min(ms) <= m /\ m <= Max(ms) /\ Min(ms) \in Nat /\ Max(ms) \in Nat /\ m \in Nat
  BY <1>0, <1>3, <1>4, MinutesBounds
<1>6. m \in Min(ms)..Max(ms)
  BY <1>5
<1> QED  BY <1>1, <1>4, <1>6

(* A run that begins has every bad minute ahead of it.                     *)
LEMMA BeginsRolls ==
  ASSUME Shape, IsRuns(run), NEW r \in Runners, NEW w, NEW y, NEW f, NEW st, NEW i,
         Begins(r, w, y, f, st, i)
  PROVE  Rolls(run'[r], rolled, bars)
<1>0. now \in 0..MaxNow /\ MaxNow \in Nat
  BY Bounds DEF Shape
<1> DEFINE t == NewRun(w, y, f, st, i)
<1>1. run'[r] = t
  BY BeginsFine
<1>2. t.pc = AfterRequest(f) /\ t.at = now /\ t.window = w /\ t.stale = st
  <2>1. IsNew(t, w, y, f, st, i)
    BY NewRunIs
  <2> HIDE DEF t
  <2> QED  BY <2>1 DEF IsNew
<1> HIDE DEF t
<1>3. t.pc \in {"ask", "roll"}
  BY <1>2, AfterIs
<1>4. w.start \in Nat /\ w.end \in Nat
  BY <1>0, WindowIs DEF Begins
<1>5. \A m \in Bad(w, now) : m \in st
  BY <1>0, <1>4, StaleIs DEF Begins
<1>6. \A m \in Reached(t) : rolled[m] = bars[m] \/ m \in t.stale
  BY <1>2, <1>5 DEF Reached, Bad
<1> QED  BY <1>1, <1>3, <1>6 DEF Rolls, Ahead

(* After the refresh every such minute is rolled up.                       *)
LEMMA RefreshRolls ==
  ASSUME Shape, IsRuns(run), RunsInv, NEW r \in Runners, Rolls(run[r], rolled, bars),
         RefreshRollups(r)
  PROVE  Rolls(run'[r], rolled', bars')
<1> DEFINE s == run[r]
           t == run'[r]
<1>0. now \in 0..MaxNow /\ MaxNow \in Nat /\ RunFine(s, now)
  BY Bounds DEF Shape, RunsInv
<1>1. s.pc = "roll" /\ Goto(r, "repair") /\ UNCHANGED bars
      /\ rolled' = Refreshed(Targets(s.stale, s.changed, s.at))
  BY DEF RefreshRollups, RollupTargets
<1>2. SameJob(s, t)
  BY <1>1, GotoIs
<1>3. /\ s.inserted = {} /\ s.stale \in SUBSET Minutes /\ s.at \in 0..MaxNow
      /\ s.changed \subseteq each_minute(s.window)
  BY <1>0, <1>1 DEF RunFine
<1>4. s.changed \in SUBSET Minutes
  BY <1>0, <1>3, WindowMinutes
<1> HIDE DEF s, t
<1>5. ASSUME NEW m \in Reached(s) PROVE rolled'[m] = bars[m]
  <2>1. m \in Minutes /\ m < Open(s.at)
    BY <1>0, <1>1, ReachedIs
  <2>2. rolled[m] = bars[m] \/ m \in s.stale \cup s.changed
    BY <1>1, <1>3 DEF Rolls, Ahead, s
  <2>3. m \in s.stale \cup s.changed => m \in Targets(s.stale, s.changed, s.at)
    BY <1>3, <1>4, <2>1, TargetsAre
  <2> QED  BY <1>1, <2>1, <2>2, <2>3 DEF Refreshed
<1>6. Reached(t) = Reached(s)
  BY <1>2 DEF SameJob, Reached
<1> QED  BY <1>1, <1>5, <1>6 DEF Rolls, t

(* What is inserted is ahead until then.                                   *)
LEMMA InsertRolls ==
  ASSUME Shape, IsRuns(run), RunsInv, NEW r \in Runners, Rolls(run[r], rolled, bars), Insert(r)
  PROVE  Rolls(run'[r], rolled', bars')
<1> DEFINE s == run[r]
           t == run'[r]
<1>0. now \in 0..MaxNow /\ MaxNow \in Nat /\ RunFine(s, now)
  BY Bounds DEF Shape, RunsInv
<1>1. /\ SameJob(s, t) /\ s.pc = "insert" /\ t.pc = "cache"
      /\ t.inserted = Inserted(s.got) /\ t.changed = s.changed
  BY InsertIs
<1>2. /\ bars' = [m \in Minutes |-> IF m \in Inserted(s.got) THEN "backfill" ELSE bars[m]]
      /\ UNCHANGED rolled
  BY DEF Insert
<1>3. s.inserted = {}
  BY <1>0, <1>1 DEF RunFine
<1>4. \A m \in Reached(s) : m \in Minutes
  BY <1>0, <1>1, ReachedIs
<1> HIDE DEF s, t
<1>5. Reached(t) = Reached(s) /\ t.stale = s.stale
  BY <1>1 DEF SameJob, Reached
<1>6. ASSUME NEW m \in Reached(s) PROVE rolled'[m] = bars'[m] \/ Ahead(t, m)
  <2>1. CASE m \in Inserted(s.got)
    BY <1>1, <2>1 DEF Ahead
  <2>2. CASE m \notin Inserted(s.got)
    <3>1. bars'[m] = bars[m]
      BY <1>2, <1>4, <2>2
    <3>2. rolled[m] = bars[m] \/ m \in s.stale \cup s.changed
      BY <1>1, <1>3 DEF Rolls, Ahead, s
    <3> QED  BY <1>1, <1>2, <1>5, <3>1, <3>2 DEF Ahead
  <2> QED  BY <2>1, <2>2
<1> QED  BY <1>5, <1>6 DEF Rolls, t

(* The bars and the rollup of the minutes a run may reach change only by   *)
(* the run itself.                                                         *)
LEMMA WorldRolls ==
  ASSUME Shape, RunsInv, PastInv, "late" \notin faults, NEW r \in Runners,
         Rolls(run[r], rolled, bars), UNCHANGED run,
         NextMinute \/ \E m \in Minutes : WorkerStores(m)
  PROVE  Rolls(run'[r], rolled', bars')
<1> DEFINE s == run[r]
<1>0. now \in 0..MaxNow /\ now \in Nat /\ Horizon \in Nat /\ RunFine(s, now)
  BY Bounds DEF Shape, RunsInv
<1> SUFFICES ASSUME s.pc # "idle", NEW m \in Reached(s)
             PROVE  rolled'[m] = bars'[m] \/ Ahead(s, m)
  BY DEF Rolls
<1>1. m \in Minutes /\ m < now - Horizon
  BY <1>0, ReachedIs
<1>2. rolled[m] = bars[m] \/ Ahead(s, m)
  BY DEF Rolls
<1>3. m \in Nat
  BY <1>1 DEF Minutes
<1> HIDE DEF s
<1>4. CASE NextMinute
  <2>1. m # now
    BY <1>0, <1>1, <1>3
  <2>2. bars'[m] = bars[m]
    BY <1>1, <1>4, <2>1, MinuteBars
  <2>3. rolled' = Refreshed(PolicyRange(now + 1))
    BY <1>4 DEF NextMinute
  <2>4. rolled'[m] \in {rolled[m], bars[m]}
    BY <1>1, <2>3 DEF Refreshed
  <2> QED  BY <1>2, <2>2, <2>4
<1>5. CASE \E n \in Minutes : WorkerStores(n)
  <2>1. PICK n \in Minutes : WorkerStores(n)
    BY <1>5
  <2>2. n \in pending /\ (n # m => bars'[m] = bars[m]) /\ UNCHANGED rolled
    BY <1>1, <2>1, StorePast DEF WorkerStores
  <2>3. n >= now - Horizon /\ n \in Nat
    BY <2>2 DEF PastInv, Minutes
  <2>4. n # m
    BY <1>0, <1>1, <1>3, <2>3
  <2> QED  BY <1>2, <2>2, <2>4
<1> QED  BY <1>4, <1>5

(* A step of a run that leaves its bars and the rollup as they were.       *)
LEMMA PlainRolls ==
  ASSUME IsRuns(run), NEW r \in Runners, Rolls(run[r], rolled, bars),
         \/ Stop(r) \/ SkipRefused(r) \/ Postpone(r) \/ Spend(r) \/ Ask(r)
         \/ CacheInserted(r) \/ RecordSpans(r) \/ RepairCache(r)
  PROVE  Rolls(run'[r], rolled', bars') /\ Moved(r) /\ UNCHANGED <<rolled, bars>>
<1> DEFINE s == run[r]
           t == run'[r]
<1>1. UNCHANGED <<rolled, bars>>
  BY DEF Stop, SkipRefused, Postpone, Spend, Ask, CacheInserted, RecordSpans, RepairCache
<1>2. ASSUME Spend(r) \/ CacheInserted(r) \/ RepairCache(r)
      PROVE  /\ Moved(r) /\ SameJob(s, t) /\ s.pc # "idle"
             /\ t.pc \in {"send", "record"} \/ s.pc = "repair"
             /\ s.changed \cup s.inserted \subseteq t.changed \cup t.inserted
  <2>1. PICK p \in {"send", "record", "finish"} :
             /\ Goto(r, p) /\ s.pc \in {"ask", "cache", "repair"}
             /\ p \in {"send", "record"} \/ s.pc = "repair"
    BY <1>2 DEF Spend, CacheInserted, RepairCache
  <2> QED  BY <2>1, GotoIs DEF SameFinds
<1>3. ASSUME \/ Stop(r) \/ SkipRefused(r) \/ Postpone(r) \/ Ask(r)
      PROVE  /\ Moved(r) /\ SameJob(s, t) /\ s.pc # "idle"
             /\ t.pc \in {"ask", "send", "insert", "record", "roll"}
             /\ s.changed \cup s.inserted \subseteq t.changed \cup t.inserted
  BY <1>3, StopIs, SkipIs, PostponeIs, AskIs, AfterIs DEF SameFinds
<1>4. ASSUME RecordSpans(r)
      PROVE  /\ Moved(r) /\ SameJob(s, t) /\ s.pc # "idle"
             /\ t.pc \in {"ask", "send", "insert", "record", "roll"}
             /\ s.changed \cup s.inserted \subseteq t.changed \cup t.inserted
  BY <1>4, RecordIs, AfterIs
<1>5. /\ Moved(r) /\ SameJob(s, t) /\ s.pc # "idle"
      /\ t.pc \in {"ask", "send", "insert", "record", "roll"} \/ s.pc = "repair"
      /\ s.changed \cup s.inserted \subseteq t.changed \cup t.inserted
  BY <1>2, <1>3, <1>4
<1> HIDE DEF s, t
<1>6. Rolls(t, rolled, bars)
  BY <1>5, RollsOn DEF s
<1> QED  BY <1>1, <1>5, <1>6 DEF t

(* Every step leaves every such minute rolled up or ahead.                 *)
LEMMA StepRolls ==
  ASSUME LockInv, Shape, RunsInv, PastInv, RollInv, [Next]_vars
  PROVE  RollInv'
<1>0. IsRuns(run) /\ now \in 0..MaxNow
  BY DEF LockInv, Shape
<1> SUFFICES ASSUME faults' \cap {"late", "lock"} = {}
             PROVE  \A q \in Runners : Rolls(run'[q], rolled', bars')
  BY DEF RollInv, Rolls, Reached, Ahead, Inside
<1>1. "late" \notin faults /\ "lock" \notin faults
  BY FaultsGrow
<1>2. \A q \in Runners : Rolls(run[q], rolled, bars)
  BY <1>1, RollIs
<1>3. ASSUME NEW r \in Runners, Moved(r), Rolls(run'[r], rolled', bars'),
             UNCHANGED <<rolled, bars>> \/ run[r].pc # "idle"
      PROVE  \A q \in Runners : Rolls(run'[q], rolled', bars')
  <2>1. ASSUME NEW q \in Runners, q # r PROVE Rolls(run'[q], rolled', bars')
    <3>1. run'[q] = run[q]
      BY <1>3, <2>1 DEF Moved
    <3>2. CASE UNCHANGED <<rolled, bars>>
      BY <1>2, <3>1, <3>2
    <3>3. CASE run[r].pc # "idle"
      <4>1. run[q].pc = "idle"
        BY <1>1, <2>1, <3>3 DEF LockInv, Inside, Holds
      <4> QED  BY <3>1, <4>1 DEF Rolls
    <3> QED  BY <1>3, <3>2, <3>3
  <2> QED  BY <1>3, <2>1
<1>4. CASE \E r \in Runners : Start(r)
  <2>1. PICK r \in Runners : Start(r)
    BY <1>4
  <2>2. UNCHANGED <<rolled, bars>>
    BY <2>1 DEF Start
  <2>3. CASE UNCHANGED run
    BY <1>2, <2>2, <2>3
  <2>4. CASE \E w, y, f, st, i : Begins(r, w, y, f, st, i)
    <3>1. Moved(r) /\ Rolls(run'[r], rolled, bars)
      BY <1>0, <2>4, BeginsFine, BeginsRolls
    <3> QED  BY <1>3, <2>2, <3>1
  <2> QED  BY <1>0, <2>1, <2>3, <2>4, StartIs
<1>5. CASE \E r \in Runners : Insert(r)
  <2>1. PICK r \in Runners : Insert(r)
    BY <1>5
  <2>2. Moved(r) /\ run[r].pc = "insert"
    BY <1>0, <2>1, InsertIs
  <2>3. Rolls(run'[r], rolled', bars')
    BY <1>0, <1>2, <2>1, InsertRolls
  <2> QED  BY <1>3, <2>2, <2>3
<1>6. CASE \E r \in Runners : RefreshRollups(r)
  <2>1. PICK r \in Runners : RefreshRollups(r)
    BY <1>6
  <2>2. Goto(r, "repair") /\ run[r].pc = "roll"
    BY <2>1 DEF RefreshRollups
  <2>3. Moved(r)
    BY <1>0, <2>2, GotoIs
  <2>4. Rolls(run'[r], rolled', bars')
    BY <1>0, <1>2, <2>1, RefreshRolls
  <2> QED  BY <1>3, <2>2, <2>3, <2>4
<1>7. CASE \E r \in Runners : \/ Stop(r) \/ SkipRefused(r) \/ Postpone(r) \/ Spend(r) \/ Ask(r)
                              \/ CacheInserted(r) \/ RecordSpans(r) \/ RepairCache(r)
  BY <1>0, <1>2, <1>3, <1>7, PlainRolls
<1>8. CASE \E r \in Runners : Finish(r) \/ Abandon(r)
  <2>1. PICK r \in Runners : Finish(r) \/ Abandon(r)
    BY <1>8
  <2>2. run' = [run EXCEPT ![r] = Idle] /\ UNCHANGED <<rolled, bars>>
    BY <2>1 DEF Finish, Abandon
  <2>3. Moved(r) /\ run'[r].pc = "idle"
    BY <1>0, <2>2, EndIs, IdleRun
  <2>4. Rolls(run'[r], rolled', bars')
    BY <2>3 DEF Rolls
  <2> QED  BY <1>3, <2>2, <2>3, <2>4
<1>9. CASE NextMinute \/ \E m \in Minutes : WorkerStores(m)
  <2>1. UNCHANGED run
    BY <1>9 DEF NextMinute, WorkerStores
  <2> QED  BY <1>1, <1>2, <1>9, <2>1, WorldRolls
<1>10. CASE LiveRequest \/ StreamKeeps \/ (\E r \in Runners : LockLost(r)) \/ UNCHANGED vars
  <2>1. UNCHANGED <<run, rolled, bars>>
    BY <1>10 DEF LiveRequest, StreamKeeps, LockLost, vars
  <2> QED  BY <1>2, <2>1
<1> QED  BY <1>4, <1>5, <1>6, <1>7, <1>8, <1>9, <1>10 DEF Next, RunStep

(* A run that has repaired.                                                *)
LEMMA FinishRepairs ==
  ASSUME IsRuns(run), NEW r \in Runners, run[r].pc = "repair", run'[r].pc = "finish", [Next]_vars
  PROVE  RepairCache(r)
<1>1. \/ UNCHANGED run
      \/ \E q \in Runners : Start(q)
      \/ \E q \in Runners : Finish(q) \/ Abandon(q)
      \/ \E q \in Runners : Middle(q)
  <2>1. NextMinute \/ LiveRequest \/ StreamKeeps \/ (\E m \in Minutes : WorkerStores(m))
           \/ (\E q \in Runners : LockLost(q)) \/ UNCHANGED vars => UNCHANGED run
    BY DEF NextMinute, LiveRequest, StreamKeeps, WorkerStores, LockLost, vars
  <2> QED  BY <2>1 DEF Next, RunStep, Middle
<1>2. ASSUME NEW q \in Runners, Moved(q) PROVE q = r
  BY <1>2 DEF Moved
<1>3. ASSUME NEW q \in Runners, Start(q) PROVE FALSE
  <2>1. run[q].pc = "idle" /\ (UNCHANGED run \/ \E f : run' = [run EXCEPT ![q] = f])
    BY <1>3 DEF Start
  <2> QED  BY <2>1 DEF IsRuns
<1>4. ASSUME NEW q \in Runners, Finish(q) \/ Abandon(q) PROVE FALSE
  <2>1. run' = [run EXCEPT ![q] = Idle]
    BY <1>4 DEF Finish, Abandon
  <2>2. Moved(q) /\ run'[q] = Idle
    BY <2>1, EndIs
  <2> QED  BY <1>2, <2>2, IdleRun
<1>5. ASSUME NEW q \in Runners, Middle(q) PROVE RepairCache(r)
  <2>1. CASE RepairCache(q)
    <3>1. Goto(q, "finish")
      BY <2>1 DEF RepairCache
    <3> QED  BY <1>2, <2>1, <3>1, GotoIs
  <2>2. CASE Spend(q) \/ CacheInserted(q) \/ RefreshRollups(q)
    <3>1. (\E p : Goto(q, p)) /\ run[q].pc # "repair"
      BY <2>2 DEF Spend, CacheInserted, RefreshRollups
    <3> QED  BY <1>2, <3>1, GotoIs
  <2>3. CASE Stop(q) \/ SkipRefused(q) \/ Postpone(q) \/ Ask(q) \/ Insert(q) \/ RecordSpans(q)
    <3>1. Moved(q) /\ run[q].pc # "repair"
      BY <2>3, StopIs, SkipIs, PostponeIs, AskIs, InsertIs, RecordIs
    <3> QED  BY <1>2, <3>1
  <2> QED  BY <1>5, <2>1, <2>2, <2>3 DEF Middle
<1> QED  BY <1>1, <1>3, <1>4, <1>5

(* A run that has repaired left nothing undone.                            *)
LEMMA StepRepairs ==
  ASSUME LockInv, Shape, RollInv, [Next]_vars, NEW r \in Runners,
         run[r].pc = "repair", run'[r].pc = "finish", faults \cap {"late", "lock"} = {}
  PROVE  /\ \A m \in Reached(run[r]) : rolled'[m] = bars'[m]
         /\ cache_would_take(cache', recovered_since(cache_horizon(run[r].at))) = {}
<1>1. RepairCache(r)
  BY FinishRepairs DEF LockInv
<1>2. UNCHANGED <<rolled, bars>> /\ cache' = cache_add(cache, _cache_repairs(run[r].at))
  BY <1>1 DEF RepairCache
<1>3. \A m \in Reached(run[r]) : rolled'[m] = bars'[m]
  <2>1. Rolls(run[r], rolled, bars)
    BY RollIs
  <2>2. \A m : ~Ahead(run[r], m)
    BY DEF Ahead
  <2> QED  BY <1>2, <2>1, <2>2 DEF Rolls
<1> DEFINE R == recovered_since(cache_horizon(run[r].at))
<1>4. cache \in SUBSET Minutes /\ R \in SUBSET Minutes
  BY DEF Shape, recovered_since
<1>5. cache' = cache_add(cache, cache_would_take(cache, R))
  BY <1>2 DEF _cache_repairs
<1> HIDE DEF R
<1>6. cache_would_take(cache', R) = {}
  BY <1>4, <1>5, TakesAll
<1> QED  BY <1>3, <1>6 DEF R

-----------------------------------------------------------------------------

(* The theorems.                                                           *)

(* The inductive invariant.                                                *)
RecoveryInv ==
    /\ LockInv /\ Shape /\ RunsInv /\ PastInv
    /\ LedgerInv /\ AskInv /\ DueInv /\ RollInv

(* It holds at first.                                                      *)
LEMMA InitRecovers == Init => RecoveryInv
<1> SUFFICES ASSUME Init PROVE RecoveryInv
  OBVIOUS
<1>1. LockInv /\ Shape /\ RunsInv /\ PastInv
  BY InitIs, InitPast
<1>2. LedgerInv
  BY DEF Init, LedgerInv
<1>3. AskInv
  BY DEF Init, AskInv
<1>4. \A r \in Runners : run[r] = Idle
  BY DEF Init
<1>5. DueInv
  <2>1. Idle.rest = <<>>
    BY DEF Idle
  <2>2. Due(Idle, asked)
    BY <2>1, DueNone
  <2> QED  BY <1>4, <2>2, DueIs
<1>6. RollInv
  BY <1>4, IdleRun, RollIs DEF Rolls
<1> QED  BY <1>1, <1>2, <1>3, <1>5, <1>6 DEF RecoveryInv

(* Every step keeps it.                                                    *)
LEMMA StepRecovers == RecoveryInv /\ [Next]_vars => RecoveryInv'
BY StepLocks, StepShape, StepRuns, StepPast, StepLedger, StepAsked, StepDue, StepRolls
   DEF RecoveryInv

(* It holds always.                                                        *)
LEMMA Recovers == Spec => []RecoveryInv
BY InitRecovers, StepRecovers, PTL DEF Spec

(* For any processes, windows, budgets and bounds, and wherever a run fails*)
(* or is abandoned: two runs never overlap, and no row says "running" but  *)
(* that of the run under way, as long as no lock's connection is lost.     *)
THEOREM RunsExclude == Spec => []OneRunAtATime
<1>1. RecoveryInv => OneRunAtATime
  BY Excludes DEF RecoveryInv
<1> QED  BY <1>1, Recovers, PTL

(* Whatever is stored, closed, settled or was asked for: open_minutes,     *)
(* missing_spans, split_by_days and plan_requests together ask for exactly *)
(* the missing minutes, in order, in requests of at most DaysPerRequest    *)
(* days.                                                                   *)
THEOREM PlansAreExact == Spec => []PlanIsExact
<1>1. RecoveryInv => PlanIsExact
  BY PlanHolds DEF RecoveryInv, Shape
<1> QED  BY <1>1, Recovers, PTL

(* The tables, the keys and the runs keep their types, the hot cache never *)
(* holds more than HOT_CACHE_BARS, and no provider price is folded into a  *)
(* live bar, as long as the stream keeps to its retention.                 *)
THEOREM BarsHold == Spec => []BarsInv
<1>1. RecoveryInv => BarsInv
  BY TypesHold DEF RecoveryInv, BarsInv, PastInv
<1> QED  BY <1>1, Recovers, PTL

(* A stored bar changes only when the worker folds ticks into it: neither  *)
(* the inserts of a run nor the end of a minute touch one.                 *)
THEOREM StoredStay == Spec => StoredBarsStay
<1>1. RecoveryInv /\ [Next]_vars =>
        [\A m \in Minutes :
           bars[m] # "none" /\ bars'[m] # bars[m] => m \in pending /\ m \notin pending']_vars
  BY StepStored DEF RecoveryInv
<1> QED  BY <1>1, Recovers, PTL DEF Spec, StoredBarsStay

(* Whoever takes requests in whatever order, one that a run makes leaves   *)
(* the live feed its reserve of the last hour and of the last day, as long *)
(* as Redis took the feed's own.                                           *)
THEOREM KeepsTheReserve == Spec => LeavesTheReserve
<1>1. RecoveryInv /\ [Next]_vars =>
        [\A r \in Runners :
           Inside(r) /\ made' # made /\ run'[r] # run[r] /\ "redis" \notin faults =>
              /\ ZCount(made', now - HourMs) + ReservePerHour <= PerHour
              /\ ZCount(made', now - DayMs + 1) + ReservePerDay <= PerDay]_vars
  BY StepReserve DEF RecoveryInv
<1> QED  BY <1>1, Recovers, PTL DEF Spec, LeavesTheReserve

(* A run never asks for a minute that a run which began less than Settle   *)
(* before it asked for, whatever came back, unless the operator wants      *)
(* settled minutes too: as long as no run is cut short between its request *)
(* and record_spans, and no lock's connection is lost.                     *)
THEOREM AsksAreApart == Spec => AsksApart
<1>1. RecoveryInv /\ [Next]_vars =>
        [faults \cap {"unrecorded", "lock"} = {} => \A r \in Runners : ~AsksTooSoon(r)]_vars
  BY SendsDue DEF RecoveryInv
<1> QED  BY <1>1, Recovers, PTL DEF Spec, AsksApart

(* A run that finishes leaves no closed bucket of its window stale and no  *)
(* recovered minute out of the cache that the cache would take, whatever   *)
(* earlier runs left undone, as long as the stream keeps to its retention  *)
(* and no lock's connection is lost.                                       *)
THEOREM FinishedIsRepaired == Spec => RepairedByFinish
<1>1. RecoveryInv /\ [Next]_vars =>
        [\A r \in Runners :
           run[r].pc = "repair" /\ run'[r].pc = "finish" /\ faults \cap {"late", "lock"} = {} =>
              /\ \A m \in each_minute(run[r].window)
                          \cap refresh_range(run[r].window.start, run[r].window.end, run[r].at) :
                    rolled'[m] = bars'[m]
              /\ cache_would_take(cache', recovered_since(cache_horizon(run[r].at))) = {}]_vars
  BY StepRepairs DEF RecoveryInv, Reached
<1> QED  BY <1>1, Recovers, PTL DEF Spec, RepairedByFinish

=============================================================================
