----------------------------- MODULE MCStaking -----------------------------
(* Small instances of Staking. *)
EXTENDS Staking

CONSTANTS Ann, Bob

(* The owner shortens and lengthens the schedule. *)
Changing == {<<1, 0>>, <<3, 1>>}

(* Ann stakes for herself, Bob has one token to stake or to add for her. *)
Few == [a \in Account |-> IF a = Ann THEN 3 ELSE 1]
=============================================================================
