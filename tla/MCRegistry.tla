----------------------------- MODULE MCRegistry -----------------------------
(* A small instance of Registry with a taker that reads it. *)
EXTENDS RegistryClient

CONSTANTS X, Y

MCQuery == {<<X, Y>>}

Level(amount, price) == [amount |-> amount, price |-> price]

(* None, one, two and three levels.  A price of 15 is 1.5 millionths, which*)
(* rounds up for one unit and is exact for two.                            *)
MCLevels ==
    {<<>>, <<Level(3, 15)>>, <<Level(1, 4), Level(4, 26)>>,
     <<Level(1, 15), Level(2, 11), Level(4, 30)>>}
=============================================================================
