----------------------------- MODULE MCWrapper -----------------------------
(* A small instance of Wrapper: Ann sells X for wrapped ether and for      *)
(* nothing, and wrapped ether for nothing; Bob takes.  Nobody approved any *)
(* token at first, and the wrapper has no function to do so.               *)
EXTENDS Wrapper

CONSTANTS Ann, Bob, X

Offer(n, fromToken, toToken, price) ==
    [signatory |-> Ann,
     order |-> [nonce |-> n, expiry |-> 1, signerWallet |-> Ann, signerToken |-> fromToken,
                signerAmount |-> 1, signerFee |-> 0, senderWallet |-> Contract,
                senderToken |-> toToken, senderAmount |-> price]]

MCSignature == {Offer(0, X, WETH, 1), Offer(1, X, X, 0), Offer(2, WETH, X, 0)}

MCAuthorization == {<<Ann, Bob>>}
MCCancellation == {<<Ann, {0}>>}
MCApproval == {<<Ann, X, 1>>, <<Ann, WETH, 2>>, <<Bob, WETH, 2>>}
Nothing == [w \in Wallet |-> 0]
MCHolding == [w \in Wallet |-> IF w = Contract THEN 0 ELSE 2]
=============================================================================
