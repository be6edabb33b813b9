----------------------------- MODULE Directory -----------------------------
(***************************************************************************)
(* What the Registry contract promises: under each token a taker finds the *)
(* servers of the stakers listed for it, each staker changes its own list  *)
(* and its own URL and nobody else's, and it has on deposit the price of   *)
(* its list, by whatever calls the list came about.                        *)
(***************************************************************************)
EXTENDS Integers, FiniteSets

CONSTANTS Staker, Token, URL, NoURL,
          obligationCost,   \* the price of being listed at all
          tokenCost         \* and of each token

VARIABLES listed,    \* listed[s]: the tokens under which s is found
          url,       \* url[s]: where its server is
          deposit    \* deposit[s]: what it can take back

directory == <<listed, url, deposit>>

Price(tokens) ==
    IF tokens = {} THEN 0 ELSE obligationCost + tokenCost * Cardinality(tokens)

Init ==
    /\ listed = [s \in Staker |-> {}]
    /\ url = [s \in Staker |-> NoURL]
    /\ deposit = [s \in Staker |-> 0]

(* A staker replaces its list, and pays or gets the difference in price. *)
Relist(s, tokens) ==
    /\ listed' = [listed EXCEPT ![s] = tokens]
    /\ deposit' = [deposit EXCEPT ![s] = Price(tokens)]
    /\ UNCHANGED url

Move(s, newURL) ==
    /\ url' = [url EXCEPT ![s] = newURL]
    /\ UNCHANGED <<listed, deposit>>

Next == \E s \in Staker : \/ \E tokens \in SUBSET Token : Relist(s, tokens)
                          \/ \E newURL \in URL \union {NoURL} : Move(s, newURL)

Spec == Init /\ [][Next]_directory
=============================================================================
