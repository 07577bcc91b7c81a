------------------------------ MODULE MCRabbit ------------------------------
(* Three keys whose paths meet in every order, one of them twice in a slot. *)
EXTENDS Rabbit, TLC

MCKeys == {1, 2, 3}
MCSlots == {"a", "b", "c", "d"}
MCPath == 1 :> <<"a", "b", "c", "d">> @@ 2 :> <<"a", "b", "a", "c">> @@ 3 :> <<"b", "a", "d", "c">>
=============================================================================
