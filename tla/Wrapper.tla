------------------------------ MODULE Wrapper ------------------------------
(***************************************************************************)
(* The Wrapper contract (source/wrapper/contracts/Wrapper.sol) over Light: *)
(* it takes orders whose sender is the wrapper, wraps the ether that its   *)
(* caller pays with, and unwraps what its caller is paid.  It is an        *)
(* account among others to Light and to the tokens.  WETH is external:     *)
(* deposit mints, and withdraw burns, tokens of the account that calls.    *)
(***************************************************************************)
EXTENDS Light

CONSTANTS
    Contract,      \* the address of the wrapper, a wallet to Light
    WETH,          \* the token of wrapped ether
    Payable,       \* the wallets that accept ether
    InitEther      \* InitEther[w]: the ether of w at the start

VARIABLE ether     \* ether[w]: the ether of account w

wrapperVars == <<vars, ether>>

(* Light, if the tokens were held as in w. *)
L(w) == INSTANCE Light WITH tokens <- w

Deposit(w, amount) == [w EXCEPT !.bal[WETH] = Credit(@, Contract, amount)]
Withdraw(w, amount) == [w EXCEPT !.bal[WETH] = Debit(@, Contract, amount)]

(* The holdings when Light is called, and when it returns.  The wrapper is *)
(* the sender, its caller the recipient.                                   *)
Wrapped(order, value) ==
    IF order.senderToken = WETH THEN Deposit(tokens, value) ELSE tokens

Traded(sender, value, order) == L(Wrapped(order, value))!Settled(order, Contract, sender)

Unwrapped(sender, value, order) ==
    IF order.signerToken = WETH THEN Withdraw(Traded(sender, value, order), order.signerAmount)
    ELSE Traded(sender, value, order)

(* VALUE_MUST_BE_SENT, what Light requires of the wrapper, that WETH burns *)
(* only what the wrapper has, and ETH_RETURN_FAILED.                       *)
CanSwapThroughWrapper(sender, value, order, sig) ==
    /\ ether[sender] >= value
    /\ order.senderToken = WETH => order.senderAmount = value
    /\ L(Wrapped(order, value))!CanSwap(Contract, sender, order, sig)
    /\ order.signerToken = WETH =>
          /\ CanTransfer(Traded(sender, value, order), WETH, Contract, order.signerAmount)
          /\ sender \in Payable

(* Ether that comes with another token than WETH stays with the wrapper.   *)
EtherAfter(sender, value, order) ==
    LET paid == IF order.senderToken = WETH THEN Debit(ether, sender, value)
                                            ELSE Move(ether, sender, Contract, value)
    IN  IF order.signerToken = WETH THEN Credit(paid, sender, order.signerAmount) ELSE paid

swap(sender, value, order, sig) ==
    /\ CanSwapThroughWrapper(sender, value, order, sig)
    /\ tokens' = Unwrapped(sender, value, order)
    /\ ether' = EtherAfter(sender, value, order)
    /\ RecordSwap(Recover(OrderHash(order, Contract), sig), order.nonce)

WrapperInit ==
    /\ Init
    /\ ether = InitEther

WrapperNext ==
    \/ NextBy(Wallet \ {Contract}) /\ UNCHANGED ether
    \/ \E sender \in Wallet \ {Contract}, o \in {s.order : s \in Signature},
          sig \in Signature \union Malformed :
            \E value \in 0..ether[sender] : swap(sender, value, o, sig)

WrapperSpec == WrapperInit /\ [][WrapperNext]_wrapperVars

-----------------------------------------------------------------------------
(* "test wrap (deposit)": a live order for ether, whose signer can pay the *)
(* amount and the fee, settles when a caller sends that ether.             *)
OrdersForEtherSettle ==
    \A sender \in Wallet \ {Contract}, sig \in Signature :
        LET order == sig.order
            due == order.signerAmount + FeeAmount(order, signerFee)
        IN  /\ Live(sig)
            /\ order.senderWallet = Contract /\ order.senderToken = WETH
            /\ order.signerToken # WETH
            /\ ether[sender] >= order.senderAmount
            /\ tokens.bal[order.signerToken][order.signerWallet] >= due
            /\ tokens.allow[order.signerToken][order.signerWallet] >= due
            => CanSwapThroughWrapper(sender, order.senderAmount, order, sig)
=============================================================================
