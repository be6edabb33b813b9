------------------------------- MODULE Quotes -------------------------------
(***************************************************************************)
(* The part of tools/utils with which a taker compares what servers offer: *)
(* the cost of an amount from price levels, and the best of several        *)
(* quotes.  Levels are a list of amounts, each with the price of a unit up *)
(* to it.  Prices are numbers of 10^-7, one digit more than a cost keeps.  *)
(***************************************************************************)
EXTENDS Integers, SequencesExt

(* Beyond the last level the code throws. *)
Available(levels) == Last(levels).amount

(* decimalPlaces(6) rounds half up; the result is a number of 10^-6. *)
SixDecimals(cost) == (cost + 5) \div 10

(* Mutant: the loop does not stop at the level that has the amount. *)
StepThroughAll(amount, acc, level) ==
    LET upTo == IF amount > level.amount THEN level.amount ELSE amount
    IN  [cost |-> acc.cost + (upTo - acc.previousLevel) * level.price,
         previousLevel |-> level.amount, done |-> FALSE]

(* One pass of the loop: the part of the amount between the previous level *)
(* and this one is charged at the price of this one.                       *)
StepThroughLevel(amount, acc, level) ==
    LET upTo == IF amount > level.amount THEN level.amount ELSE amount
    IN  IF acc.done THEN acc
        ELSE [cost |-> acc.cost + (upTo - acc.previousLevel) * level.price,
              previousLevel |-> level.amount, done |-> amount < level.amount]

calculateCostFromLevels(amount, levels) ==
    LET after[i \in 0..Len(levels)] ==
            IF i = 0 THEN [cost |-> 0, previousLevel |-> 0, done |-> FALSE]
            ELSE StepThroughLevel(amount, after[i - 1], levels[i])
    IN  SixDecimals(after[Len(levels)].cost)

-----------------------------------------------------------------------------
(* An object has a signer and a sender with an amount each, as far as its  *)
(* maker filled them in; the best of none is undefined.                    *)
Undefined == <<>>

(* Mutant: the first object stays the best. *)
FirstIsBest(amount, bestAmount) == FALSE

Lower(amount, bestAmount) == amount < bestAmount

getLowest(objects, key) ==
    LET after[i \in 0..Len(objects)] ==
            IF i = 0 THEN Undefined
            ELSE IF /\ key \in DOMAIN objects[i]
                    /\ \/ after[i - 1] = Undefined
                       \/ Lower(objects[i][key].amount, after[i - 1][key].amount)
                 THEN objects[i]
                 ELSE after[i - 1]
    IN  after[Len(objects)]

getHighest(objects, key) ==
    LET after[i \in 0..Len(objects)] ==
            IF i = 0 THEN Undefined
            ELSE IF /\ key \in DOMAIN objects[i]
                    /\ \/ after[i - 1] = Undefined
                       \/ Lower(after[i - 1][key].amount, objects[i][key].amount)
                 THEN objects[i]
                 ELSE after[i - 1]
    IN  after[Len(objects)]

getBestByLowestSenderAmount(objects) == getLowest(objects, "sender")
getBestByHighestSignerAmount(objects) == getHighest(objects, "signer")
=============================================================================
