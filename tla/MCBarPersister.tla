--------------------------- MODULE MCBarPersister ---------------------------
(***************************************************************************)
(* TLC instances of BarPersister.                                          *)
(***************************************************************************)
EXTENDS BarPersister, TLC

(* The last tick opens the next minute's bar.                              *)
MCRow == {"minute1", "minute2"}
MCRowOf == [e \in Ids |-> IF e = MaxId THEN "minute2" ELSE "minute1"]

(* All ticks of one bar.                                                   *)
OneRow == {"minute1"}
OneRowOf == [e \in Ids |-> "minute1"]

FirstIsMalformed == {1}

WorkerSymmetry == Permutations(Worker)

============================================================================
