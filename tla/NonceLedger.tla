---------------------------- MODULE NonceLedger ----------------------------
(***************************************************************************)
(* What the Light contract promises of an order: it is identified by the   *)
(* signatory of its signature and by its nonce, it is open until it is     *)
(* either filled or cancelled, and neither outcome is ever undone.         *)
(***************************************************************************)
CONSTANTS Signatory,   \* the addresses that sign orders
          Nonce        \* the nonces they use

VARIABLE status        \* status[s][n]: what became of the order n of s

Outcome == {"open", "filled", "cancelled"}

LedgerTypeOK == status \in [Signatory -> [Nonce -> Outcome]]

Init == status = [s \in Signatory |-> [n \in Nonce |-> "open"]]

(* A swap fills one open order. *)
Fill(s, n) ==
    /\ status[s][n] = "open"
    /\ status' = [status EXCEPT ![s][n] = "filled"]

(* A cancellation closes the orders of a batch that are still open. *)
Cancel(s, batch) ==
    status' = [status EXCEPT ![s] =
        [n \in Nonce |-> IF n \in batch /\ @[n] = "open" THEN "cancelled" ELSE @[n]]]

Next == \E s \in Signatory : \/ \E n \in Nonce : Fill(s, n)
                             \/ \E batch \in SUBSET Nonce : Cancel(s, batch)

Spec == Init /\ [][Next]_status
=============================================================================
