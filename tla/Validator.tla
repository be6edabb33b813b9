----------------------------- MODULE Validator -----------------------------
(***************************************************************************)
(* The Validator contract (source/validator/contracts/Validator.sol): a    *)
(* view that reports, before a taker submits a swap, why Light would       *)
(* reject it.  It keeps no state but the address of Light, and reads       *)
(* Light's and the tokens'; it is composed here with every behaviour of    *)
(* Light.                                                                  *)
(***************************************************************************)
EXTENDS Light

MAX_ERROR_COUNT == 8

(* Mutant: the hash of a swap by anybody. *)
RecoveredFromOpenOrder(order, sender, sig) ==
    Recover(OrderHash(order, NullAddress), sig)

(* _getOrderHash and _getSignatory: the hash of Light, with the fee now in *)
(* force and the sender asked about, and a signatory that may be null.     *)
RecoveredSignatory(order, sender, sig) == Recover(OrderHash(order, sender), sig)

(* Mutant: only wallets that authorized somebody are checked. *)
UnauthorizedIfDelegated(signatory, wallet) ==
    /\ wallet # signatory
    /\ authorized[wallet] \notin {signatory, NullAddress}

Unauthorized(signatory, wallet) ==
    /\ wallet # signatory
    /\ authorized[wallet] # signatory

(* Mutant: the fee is forgotten. *)
AmountDueWithoutFee(order) == order.signerAmount

(* What the signer parts with: the amount and the fee. *)
AmountDue(order) == order.signerAmount + FeeAmount(order, signerFee)

(* The errors of checkSwap.  The array holds them in this order and        *)
(* without repetition, hence a set; their number is its cardinality.       *)
CheckSwap(order, sender, sig) ==
    LET signatory == RecoveredSignatory(order, sender, sig)
        reasons == [INVALID_SIG          |-> signatory = NullAddress,
                    EXPIRY_PASSED        |-> order.expiry < now,
                    UNAUTHORIZED         |-> Unauthorized(signatory, order.signerWallet),
                    SENDER_ALLOWANCE_LOW |-> tokens.allow[order.senderToken][sender]
                                               < order.senderAmount,
                    SIGNER_ALLOWANCE_LOW |-> tokens.allow[order.signerToken][order.signerWallet]
                                               < AmountDue(order),
                    SENDER_BALANCE_LOW   |-> tokens.bal[order.senderToken][sender]
                                               < order.senderAmount,
                    SIGNER_BALANCE_LOW   |-> tokens.bal[order.signerToken][order.signerWallet]
                                               < AmountDue(order),
                    NONCE_ALREADY_USED   |-> nonceUsed(order.signerWallet, order.nonce)]
    IN  {e \in DOMAIN reasons : reasons[e]}

-----------------------------------------------------------------------------
(* What a taker can conclude from a report. *)

(* Every question a taker may ask of the validator. *)
Question == [order: {s.order : s \in Signature}, sender: Wallet,
             sig: Signature \union Malformed]

Report(q) == CheckSwap(q.order, q.sender, q.sig)

SwapSucceeds(q) == CanSwap(q.sender, q.sender, q.order, q.sig)

Signatory(q) == RecoveredSignatory(q.order, q.sender, q.sig)

(* The questions outside the known gaps of the validator: the chain forked, *)
(* the order expires in this very block, an authorized signer signed it, or *)
(* one wallet trades a token with itself.                                   *)
InScope(q) ==
    /\ chainId = DomainChainId
    /\ q.order.expiry # now
    /\ Signatory(q) \in {q.order.signerWallet, NullAddress, Unknown}
    /\ ~(q.sender = q.order.signerWallet /\ q.order.senderToken = q.order.signerToken)

(* A clean report is a promise: submitted in this state, the swap does not *)
(* revert.  It relates two contracts that each re-derive the hash, the     *)
(* fee, the authorization and the order of three transfers.                *)
CleanReportsHold ==
    \A q \in Question : InScope(q) /\ Report(q) = {} => SwapSucceeds(q)

(* A report of errors is no false alarm: the swap would revert.  Trades of *)
(* one token for itself are left out, because the sender's payment then    *)
(* funds the signer's, and trades of a wallet with itself, because what it *)
(* pays itself then funds its fee.                                         *)
ReportedErrorsAreReal ==
    \A q \in Question :
        /\ InScope(q)
        /\ q.order.senderToken # q.order.signerToken
        /\ q.sender # q.order.signerWallet
        /\ Report(q) # {}
        => ~SwapSucceeds(q)

(* "properly detects a nonce that has already been used": an order signed  *)
(* by its wallet or the wallet's authorized signer, whose nonce Light      *)
(* rejects as used, never has a clean report.                              *)
UsedNoncesAreDetected ==
    \A q \in Question :
        /\ Signatory(q) \in {q.order.signerWallet, authorized[q.order.signerWallet]}
        /\ nonceUsed(Signatory(q), q.order.nonce)
        => Report(q) # {}
=============================================================================
