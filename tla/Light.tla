------------------------------- MODULE Light -------------------------------
(***************************************************************************)
(* The Light contract (source/light/contracts/Light.sol): ERC20 swaps of   *)
(* orders signed off chain.  A transaction runs to its end or reverts, so  *)
(* each external function is one action, enabled exactly when no `require' *)
(* on its path fails, and the interleaving is that of the transactions of  *)
(* independent wallets.                                                    *)
(***************************************************************************)
EXTENDS ERC20, Integers

CONSTANTS
    Wallet,         \* externally owned accounts and contracts that trade
    NullAddress,    \* address(0)
    Unknown,        \* what ecrecover yields for a hash that was not signed
    Owner,          \* the owner of the contract (Ownable)
    Token,          \* ERC20 tokens
    Nonce,          \* the nonces in use
    Signature,      \* the signatures made off chain, see SignatureType
    FeeValue,       \* the arguments tried for setFee
    FeeWallet,      \* and for setFeeWallet
    Authorization,  \* pairs of a wallet and a signer it may authorize
    Cancellation,   \* pairs of a wallet and an array of nonces it may cancel
    Approval,       \* triples of a wallet, a token and an amount it may approve
    InitBalance,    \* InitBalance[w]: what w has of every token at the start,
    InitAllowance,  \* InitAllowance[w]: and what of it Light may move
    ChainId,        \* chain ids that block.chainid may return
    DomainChainId,  \* the chain id at construction
    MaxTime         \* bound on the clock

FEE_DIVISOR == 10000

Address == Wallet \union {NullAddress, Unknown}

(* The fields of LIGHT_ORDER_TYPEHASH: what is hashed and signed. *)
OrderType ==
    [nonce: Nonce, expiry: Nat, signerWallet: Wallet, signerToken: Token,
     signerAmount: Nat, signerFee: Nat, senderWallet: Wallet,
     senderToken: Token, senderAmount: Nat]

SignatureType == [signatory: Wallet, order: OrderType]

ASSUME LightAssumption ==
    /\ NullAddress \notin Wallet
    /\ Unknown \notin Wallet \union {NullAddress}
    /\ Owner \in Wallet
    /\ Nonce \subseteq Nat
    /\ \A sig \in Signature : sig \in SignatureType
    /\ FeeValue \subseteq Nat
    /\ FeeWallet \subseteq Wallet \union {NullAddress}
    /\ Authorization \subseteq Wallet \X Wallet
    /\ Cancellation \subseteq Wallet \X SUBSET Nonce
    /\ \A a \in Approval : a \in Wallet \X Token \X Nat
    /\ InitBalance \in [Wallet -> Nat] /\ InitAllowance \in [Wallet -> Nat]
    /\ MaxTime \in Nat
    /\ DomainChainId \in ChainId

VARIABLES
    signerFee,      \* the fee of the signer, in basis points
    feeWallet,      \* who receives it
    authorized,     \* authorized[w]: the address that may sign for w
    nonceGroups,    \* nonceGroups[s][g]: the bits set in the group g of s
    chainId,        \* what getChainId() returns
    now,            \* block.timestamp
    tokens,         \* balances, and allowances granted to this contract
    filled,         \* history: Swap events per signatory and nonce
    cancelled       \* history: Cancel events per signatory and nonce

config == <<signerFee, feeWallet>>
history == <<filled, cancelled>>
vars == <<config, authorized, nonceGroups, chainId, now, tokens, history>>

-----------------------------------------------------------------------------
(* Nonces are kept in groups of 256 bits, one storage word each. *)

(* Mutant: one word for all the nonces. *)
GroupKeyTruncated(nonce) == 0

GroupKey(nonce) == nonce \div 256
IndexInGroup(nonce) == nonce % 256
Group == {GroupKey(n) : n \in Nonce}

nonceUsed(signer, nonce) ==
    IndexInGroup(nonce) \in nonceGroups[signer][GroupKey(nonce)]

(* Mutant: the word is assigned and not or-ed. *)
MarkOverwriting(signer, batch) ==
    [nonceGroups EXCEPT ![signer] =
        [g \in Group |-> IF \E m \in batch : GroupKey(m) = g
                         THEN {IndexInGroup(n) : n \in {m \in batch : GroupKey(m) = g}}
                         ELSE @[g]]]

(* The groups after the nonces of a batch are marked for a signer. *)
MarkNoncesAsUsed(signer, batch) ==
    [nonceGroups EXCEPT ![signer] =
        [g \in Group |-> @[g] \union {IndexInGroup(n) : n \in {m \in batch : GroupKey(m) = g}}]]

(* Two histories count one more event for each nonce of a batch. *)
Count(log, signer, batch) ==
    [log EXCEPT ![signer] = [n \in Nonce |-> IF n \in batch THEN @[n] + 1 ELSE @[n]]]

-----------------------------------------------------------------------------
(* Signatures.  The hash takes the sender and the fee from the transaction *)
(* and not from the caller's arguments.                                    *)

(* Mutant: the fee is not part of the hash. *)
OrderHashWithoutFee(order, sender) == [order EXCEPT !.senderWallet = sender]

OrderHash(order, sender) ==
    [order EXCEPT !.senderWallet = sender, !.signerFee = signerFee]

(* ecrecover: the signatory for the hash that was signed, an address that  *)
(* nobody holds for another hash, null for a malformed signature.          *)
Malformed == [signatory: {NullAddress}, order: {sig.order : sig \in Signature}]

Recover(hash, sig) ==
    IF sig \in Malformed THEN NullAddress
    ELSE IF sig.order = hash THEN sig.signatory ELSE Unknown

(* Mutant: no INVALID_SIG. *)
AnySignatory(signatory) == TRUE

(* _getSignatory reverts on null: INVALID_SIG. *)
ValidSignatory(signatory) == signatory # NullAddress

-----------------------------------------------------------------------------
(* Settlement: three transfers in order, each on the holdings the one      *)
(* before it left.                                                         *)

FeeAmount(order, fee) == (order.signerAmount * fee) \div FEE_DIVISOR

AfterSender(order, sender) ==
    TransferFrom(tokens, order.senderToken, sender, order.signerWallet, order.senderAmount)

AfterSigner(order, sender, recipient) ==
    TransferFrom(AfterSender(order, sender), order.signerToken, order.signerWallet,
                 recipient, order.signerAmount)

CanSettle(order, sender, recipient) ==
    /\ CanTransferFrom(tokens, order.senderToken, sender, order.senderAmount)
    /\ CanTransferFrom(AfterSender(order, sender), order.signerToken,
                       order.signerWallet, order.signerAmount)
    /\ CanTransferFrom(AfterSigner(order, sender, recipient), order.signerToken,
                       order.signerWallet, FeeAmount(order, signerFee))

Settled(order, sender, recipient) ==
    TransferFrom(AfterSigner(order, sender, recipient), order.signerToken,
                 order.signerWallet, feeWallet, FeeAmount(order, signerFee))

(* The signatory may sign for the wallet at this moment. *)
MaySignFor(signatory, wallet) ==
    wallet # signatory => authorized[wallet] = signatory

(* What swapWithRecipient requires, in the order of the code.  The nonce   *)
(* is checked, and marked, for the signatory before its authorization is.  *)
CanSwap(sender, recipient, order, sig) ==
    LET signatory == Recover(OrderHash(order, sender), sig)
    IN  /\ DomainChainId = chainId
        /\ order.expiry > now
        /\ ValidSignatory(signatory)
        /\ ~nonceUsed(signatory, order.nonce)
        /\ MaySignFor(signatory, order.signerWallet)
        /\ CanSettle(order, sender, recipient)

(* A swap marks the nonce of the signatory and emits the event. *)
RecordSwap(signatory, nonce) ==
    /\ nonceGroups' = MarkNoncesAsUsed(signatory, {nonce})
    /\ filled' = Count(filled, signatory, {nonce})
    /\ UNCHANGED <<config, authorized, chainId, now, cancelled>>

SwapWithRecipient(sender, recipient, order, sig) ==
    /\ CanSwap(sender, recipient, order, sig)
    /\ tokens' = Settled(order, sender, recipient)
    /\ RecordSwap(Recover(OrderHash(order, sender), sig), order.nonce)

Swap(sender, order, sig) == SwapWithRecipient(sender, sender, order, sig)

(* cancel: a nonce that was already used is skipped without an event, so   *)
(* the order and repetitions of the array do not matter.                   *)
Cancel(wallet, batch) ==
    /\ cancelled' = Count(cancelled, wallet, {n \in batch : ~nonceUsed(wallet, n)})
    /\ nonceGroups' = MarkNoncesAsUsed(wallet, batch)
    /\ UNCHANGED <<config, authorized, chainId, now, tokens, filled>>

Authorize(wallet, signer) ==
    /\ authorized' = [authorized EXCEPT ![wallet] = signer]
    /\ UNCHANGED <<config, nonceGroups, chainId, now, tokens, history>>

Revoke(wallet) ==
    /\ authorized' = [authorized EXCEPT ![wallet] = NullAddress]
    /\ UNCHANGED <<config, nonceGroups, chainId, now, tokens, history>>

SetFeeWallet(caller, newFeeWallet) ==
    /\ caller = Owner
    /\ newFeeWallet # NullAddress
    /\ feeWallet' = newFeeWallet
    /\ UNCHANGED <<signerFee, authorized, nonceGroups, chainId, now, tokens, history>>

(* Mutant: no INVALID_FEE. *)
SetFeeUnchecked(caller, newSignerFee) ==
    /\ caller = Owner
    /\ signerFee' = newSignerFee
    /\ UNCHANGED <<feeWallet, authorized, nonceGroups, chainId, now, tokens, history>>

SetFee(caller, newSignerFee) ==
    /\ caller = Owner
    /\ newSignerFee < FEE_DIVISOR
    /\ signerFee' = newSignerFee
    /\ UNCHANGED <<feeWallet, authorized, nonceGroups, chainId, now, tokens, history>>

-----------------------------------------------------------------------------
(* The world around the contract. *)

ApproveLight(wallet, t, amount) ==
    /\ tokens' = Approve(tokens, t, wallet, amount)
    /\ UNCHANGED <<config, authorized, nonceGroups, chainId, now, history>>

Tick ==
    /\ now < MaxTime
    /\ now' = now + 1
    /\ UNCHANGED <<config, authorized, nonceGroups, chainId, tokens, history>>

(* A fork of the chain takes another chain id. *)
Fork(id) ==
    /\ chainId' = id
    /\ UNCHANGED <<config, authorized, nonceGroups, now, tokens, history>>

Init ==
    /\ feeWallet \in FeeWallet \ {NullAddress}
    /\ signerFee \in {f \in FeeValue : f < FEE_DIVISOR}
    /\ authorized = [w \in Wallet |-> NullAddress]
    /\ nonceGroups = [s \in Address |-> [g \in Group |-> {}]]
    /\ chainId = DomainChainId
    /\ now = 0
    /\ tokens = [bal   |-> [t \in Token |-> InitBalance],
                 allow |-> [t \in Token |-> InitAllowance]]
    /\ filled = [s \in Address |-> [n \in Nonce |-> 0]]
    /\ cancelled = [s \in Address |-> [n \in Nonce |-> 0]]

(* What the accounts in Caller may do.  A sender may submit any signature, *)
(* also one made for something else, or a malformed one.                   *)
NextBy(Caller) ==
    \/ \E sender \in Caller, o \in {s.order : s \in Signature},
          sig \in Signature \union Malformed :
            \/ Swap(sender, o, sig)
            \/ \E recipient \in Wallet : SwapWithRecipient(sender, recipient, o, sig)
    \/ \E w \in Caller :
            \/ Revoke(w)
            \/ \E fw \in FeeWallet : SetFeeWallet(w, fw)
            \/ \E fee \in FeeValue : SetFee(w, fee)
    \/ \E c \in Cancellation : Cancel(c[1], c[2])
    \/ \E a \in Authorization : Authorize(a[1], a[2])
    \/ \E a \in Approval : ApproveLight(a[1], a[2], a[3])
    \/ Tick
    \/ \E id \in ChainId : Fork(id)

Next == NextBy(Wallet)

Spec == Init /\ [][Next]_vars

-----------------------------------------------------------------------------
(* Correctness. *)

(* Every variable has its type: in particular the fee stays below the      *)
(* divisor and the fee wallet is never null, which setFee, setFeeWallet    *)
(* and the constructor each check for themselves.                          *)
TypeOK ==
    /\ signerFee \in 0..(FEE_DIVISOR - 1)
    /\ feeWallet \in Wallet
    /\ authorized \in [Wallet -> Wallet \union {NullAddress}]
    /\ nonceGroups \in [Address -> [Group -> SUBSET (0..255)]]
    /\ chainId \in ChainId
    /\ now \in 0..MaxTime
    /\ tokens \in Holdings(Token, Wallet)
    /\ filled \in [Address -> [Nonce -> Nat]]
    /\ cancelled \in [Address -> [Nonce -> Nat]]

(* The bitmap and the event log agree: a nonce of a signatory is used      *)
(* exactly if one Swap or one Cancel event, and no second one, was emitted *)
(* for it.  Over the bitmap alone this says that swaps and cancellations   *)
(* of any nonces, in any order, disturb no neighbour in the same word.     *)
OneEventPerUsedNonce ==
    \A s \in Address, n \in Nonce :
        filled[s][n] + cancelled[s][n] = IF nonceUsed(s, n) THEN 1 ELSE 0

(* A used nonce never becomes available again. *)
UsedNoncesStayUsed ==
    [][\A s \in Address, n \in Nonce : nonceUsed(s, n) => nonceUsed(s, n)']_vars

(* What an account pays and gets in token t when an order settles. *)
Paid(o, t, w) ==
    (IF w = o.signerWallet /\ t = o.signerToken
        THEN o.signerAmount + FeeAmount(o, o.signerFee) ELSE 0)
    + (IF w = o.senderWallet /\ t = o.senderToken THEN o.senderAmount ELSE 0)

Received(o, t, w, recipient) ==
    (IF w = recipient /\ t = o.signerToken THEN o.signerAmount ELSE 0)
    + (IF w = feeWallet /\ t = o.signerToken THEN FeeAmount(o, o.signerFee) ELSE 0)
    + (IF w = o.signerWallet /\ t = o.senderToken THEN o.senderAmount ELSE 0)

(* The order of a signature is live: on this chain, before its expiry, with *)
(* the fee now in force, unused, and signed by its wallet or by the signer  *)
(* that wallet authorizes at this moment.                                   *)
Live(sig) ==
    /\ chainId = DomainChainId
    /\ now < sig.order.expiry
    /\ signerFee = sig.order.signerFee
    /\ ~nonceUsed(sig.signatory, sig.order.nonce)
    /\ sig.signatory \in {sig.order.signerWallet, authorized[sig.order.signerWallet]}

(* Balances move only as somebody signed: whenever a transaction changes   *)
(* the balance of any account, some signature was live, its nonce is used  *)
(* afterwards, and every account of every token gained and lost exactly    *)
(* what that signed order says, the fee being the one that was signed,     *)
(* whichever of signer, sender, recipient and fee wallet coincide.         *)
SettlesAsSigned ==
    [][tokens.bal' # tokens.bal =>
        \E sig \in Signature, recipient \in Wallet :
            /\ Live(sig)
            /\ nonceUsed(sig.signatory, sig.order.nonce)'
            /\ \A t \in Token, w \in Wallet :
                  tokens.bal'[t][w] + Paid(sig.order, t, w)
                     = tokens.bal[t][w] + Received(sig.order, t, w, recipient)]_vars

(* Light implements the ledger of nonces: the outcome of a nonce is read   *)
(* from the bitmap and the log.                                            *)
Outcome(s, n) ==
    IF ~nonceUsed(s, n) THEN "open"
    ELSE IF filled[s][n] > 0 THEN "filled" ELSE "cancelled"

Ledger == INSTANCE NonceLedger WITH
    Signatory <- Address, Nonce <- Nonce,
    status <- [s \in Address |-> [n \in Nonce |-> Outcome(s, n)]]

ImplementsLedger == Ledger!Spec
=============================================================================
