------------------------------ MODULE MCLight ------------------------------
(* A small instance of Light with the Validator: a trader A who quotes, a  *)
(* taker B, and C, whom A may authorize to sign and who owns Light.        *)
EXTENDS Validator

CONSTANTS A, B, C, X, Y

(* Three nonces: two in one storage word, and the first of the next one. *)
MCNonce == {0, 1, 256}

Quote(n, exp, wallet, fromToken, amount, fee, taker, toToken, price) ==
    [nonce |-> n, expiry |-> exp, signerWallet |-> wallet, signerToken |-> fromToken,
     signerAmount |-> amount, signerFee |-> fee, senderWallet |-> taker,
     senderToken |-> toToken, senderAmount |-> price]

(* A quotes X for Y with a fee of half the amount and requotes it with the *)
(* same nonce and no fee; A trades X for X with B, and with itself, which  *)
(* the word boundary numbers.  C quotes for A, to itself, under the nonce  *)
(* that A uses.                                                            *)
MCSignature ==
    {[signatory |-> A, order |-> Quote(0, 2, A, X, 2, 5000, B, Y, 1)],
     [signatory |-> A, order |-> Quote(0, 1, A, X, 3, 0, B, Y, 2)],
     [signatory |-> A, order |-> Quote(1, 1, A, X, 2, 5000, B, X, 1)],
     [signatory |-> A, order |-> Quote(256, 1, A, Y, 1, 0, A, Y, 1)],
     [signatory |-> C, order |-> Quote(0, 1, A, Y, 2, 5000, C, X, 1)]}

(* A cancels its own nonces, in a batch that spans two words and in one    *)
(* that does not, and C cancels what it signed for A.                      *)
MCCancellation == {<<A, {0, 256}>>, <<A, {1}>>, <<C, {0}>>}
MCAuthorization == {<<A, C>>}
MCApproval == {<<A, X, 2>>, <<B, Y, 4>>}
Four == [w \in Wallet |-> 4]
=============================================================================
