-------------------------- MODULE MCAlertPersister --------------------------
(***************************************************************************)
(* TLC instances of AlertPersister.                                        *)
(***************************************************************************)
EXTENDS AlertPersister

(* Three entries, two transitions: the first is re-emitted under a new id. *)
ReemittedKey == {"s1", "s2"}
ReemittedKeyOf == <<"s1", "s2", "s1">>
ReemittedTsOf  == <<1, 2, 1>>

(* One seq, two different transitions: the counter restarted.              *)
ReusedKey == {"s1"}
ReusedKeyOf == [e \in Ids |-> "s1"]
ReusedTsOf  == [e \in Ids |-> e]

SecondIsMalformed == {2}

============================================================================
