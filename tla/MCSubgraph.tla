----------------------------- MODULE MCSubgraph -----------------------------
(* A small instance of Subgraph: a trader A who quotes, C who may sign for *)
(* A and quotes for itself, a taker B, and F, who owns Light, receives the *)
(* fees and does not trade.                                                *)
EXTENDS Subgraph

CONSTANTS A, B, C, F, X, Y

Quote(n, wallet, fromToken, amount, toToken) ==
    [nonce |-> n, expiry |-> 2, signerWallet |-> wallet, signerToken |-> fromToken,
     signerAmount |-> amount, signerFee |-> 5000, senderWallet |-> B,
     senderToken |-> toToken, senderAmount |-> 1]

(* A and its signer C use one nonce for A; C uses it for itself too, in an *)
(* order that competes with the one it signed for A.                       *)
MCSignature ==
    {[signatory |-> A, order |-> Quote(0, A, X, 6, Y)],
     [signatory |-> A, order |-> Quote(1, A, Y, 4, X)],
     [signatory |-> C, order |-> Quote(0, A, X, 2, X)],
     [signatory |-> C, order |-> Quote(0, C, X, 6, Y)]}

MCCancellation == {<<A, {0, 1}>>, <<A, {1}>>, <<C, {0}>>}
MCAuthorization == {<<A, C>>}
MCApproval == {<<B, Y, 0>>}
Twenty == [w \in Wallet |-> 20]

MCTokenUnit == [t \in Token |-> IF t = X THEN 2 ELSE 1]
MCPair == {<<X, Y>>, <<Y, X>>}

(* Networks in which two of the contracts are in use, paired so that each  *)
(* kind of entity that two of them share is written by both.               *)
MCBudget ==
    ({"Light", "Locker"} :> 2) @@ ({"Swap", "Locker"} :> 4) @@ ({"Indexer", "Locker"} :> 5)
        @@ ({"Delegate", "Indexer"} :> 5) @@ ({"Delegate"} :> 7)
=============================================================================
