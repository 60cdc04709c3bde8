----------------------------- MODULE StreamIds -----------------------------
(***************************************************************************)
(* Sets of Redis stream ids, as the two persisters read them.  An id is a  *)
(* number; the order of the numbers is the order of the stream             *)
(* (persister.py, _stream_order).                                          *)
(***************************************************************************)
EXTENDS Integers, FiniteSets

(* What a read with COUNT n returns of the readable entries S: the oldest. *)
Page(S, n) == {e \in S : Cardinality({f \in S : f <= e}) <= n}

Oldest(S) == CHOOSE e \in S : \A f \in S : e <= f

Newest(S) == CHOOSE e \in S : \A f \in S : f <= e

============================================================================
