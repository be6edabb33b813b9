------------------------------- MODULE ERC20 -------------------------------
(***************************************************************************)
(* The part of the OpenZeppelin ERC20 token that the contracts rely on.    *)
(* The token contracts are not in the repository: they are modelled from   *)
(* how the contracts call them.  The holdings of every token are kept as a *)
(* record `w' of two functions: w.bal[t][a], the balance of account a in   *)
(* token t, and w.allow[t][a], the amount that a allows the contract under *)
(* study to move.  A call that reverts is an operator whose guard is       *)
(* FALSE.                                                                  *)
(***************************************************************************)
EXTENDS Naturals

(* The holdings of accounts Acc in tokens Tok. *)
Holdings(Tok, Acc) == [bal: [Tok -> [Acc -> Nat]], allow: [Tok -> [Acc -> Nat]]]

(* Moving an amount within one token: debit first, then credit. *)
Debit(b, from, amount) == [b EXCEPT ![from] = @ - amount]
Credit(b, to, amount) == [b EXCEPT ![to] = @ + amount]
Move(b, from, to, amount) == Credit(Debit(b, from, amount), to, amount)

(* transferFrom moves tokens only within the owner's balance and allowance. *)
CanTransferFrom(w, t, from, amount) ==
    w.bal[t][from] >= amount /\ w.allow[t][from] >= amount

(* The effect of transferFrom; a transfer to oneself uses the allowance up *)
(* and leaves the balance.                                                 *)
TransferFrom(w, t, from, to, amount) ==
    [bal   |-> [w.bal EXCEPT ![t] = Move(@, from, to, amount)],
     allow |-> [w.allow EXCEPT ![t][from] = @ - amount]]

(* transfer: the contract pays out of its own balance. *)
CanTransfer(w, t, from, amount) == w.bal[t][from] >= amount

Transfer(w, t, from, to, amount) ==
    [bal   |-> [w.bal EXCEPT ![t] = Move(@, from, to, amount)],
     allow |-> w.allow]

(* approve sets the allowance, whatever it was. *)
Approve(w, t, from, amount) ==
    [bal |-> w.bal, allow |-> [w.allow EXCEPT ![t][from] = amount]]
=============================================================================
