----------------------------- MODULE Converter -----------------------------
(***************************************************************************)
(* The Converter contract with its payment splitter                        *)
(* (source/converter/contracts/Converter.sol, TokenPaymentSplitter.sol):   *)
(* the owner converts fee tokens the contract has collected into one token *)
(* by a router and splits the result among payees by their shares.  What   *)
(* leaves the contract is recorded by `paid'; the router is external.      *)
(***************************************************************************)
EXTENDS Integers, FiniteSetsExt, SequencesExt

CONSTANTS
    Account,       \* payees, and the owner
    Owner,         \* the owner of the contract
    NullAddress,   \* address(0)
    Token,         \* ERC20 tokens
    Share,         \* values tried for shares
    TriggerFee,    \* values tried for setTriggerFee
    Path,          \* paths the owner may set
    Amount,        \* what the router may yield, what arrives, minimums
    MaxHolding,    \* bound on the contract's holding of each token
    MaxPath        \* bound on the length of a stored path

ASSUME ConverterAssumption ==
    /\ Owner \in Account /\ NullAddress \notin Account \union Token
    /\ IsFiniteSet(Account)
    /\ Share \subseteq Nat /\ TriggerFee \subseteq Nat /\ Amount \subseteq Nat
    /\ Path \subseteq Seq(Token)
    /\ MaxHolding \in Nat /\ MaxPath \in Nat

NoEvent == [from |-> NullAddress]

VARIABLES
    wETH, swapToToken, triggerFee,
    tokenPathMapping, \* tokenPathMapping[t]: the path stored for token t
    payees,           \* the array _payees
    shares,           \* the mapping _shares
    totalShares,
    holding,          \* the contract's balance of each token
    approved,         \* what the router may still take of each token
    paid,             \* history: what the last transaction paid to each account,
    event             \* its ConvertAndTransfer event, and what the router bought

settings == <<wETH, swapToToken, triggerFee>>
splitter == <<payees, shares, totalShares>>
vars == <<settings, tokenPathMapping, splitter, holding, approved, paid, event>>

Unpaid == [a \in Account |-> 0]
Quiet == paid' = Unpaid /\ event' = NoEvent

-----------------------------------------------------------------------------
(* The payment splitter. *)

addPayee(caller, account, share) ==
    /\ caller = Owner
    /\ account # NullAddress
    /\ share > 0
    /\ shares[account] = 0
    /\ payees' = Append(payees, account)
    /\ shares' = [shares EXCEPT ![account] = share]
    /\ totalShares' = totalShares + share
    /\ Quiet
    /\ UNCHANGED <<settings, tokenPathMapping, holding, approved>>

(* Mutant: the last payee is dropped and not moved. *)
WithoutLastPayee(index) == Front(payees)

(* The last payee takes the place of the one removed. *)
WithoutPayee(index) == Front([payees EXCEPT ![index] = Last(payees)])

(* Mutant: the shares stay in the total. *)
TotalSharesKept(account) == totalShares

TotalSharesWithout(account) == totalShares - shares[account]

removePayee(caller, account, index) ==
    /\ caller = Owner
    /\ index \in DOMAIN payees
    /\ account = payees[index]
    /\ totalShares' = TotalSharesWithout(account)
    /\ shares' = [shares EXCEPT ![account] = 0]
    /\ payees' = WithoutPayee(index)
    /\ Quiet
    /\ UNCHANGED <<settings, tokenPathMapping, holding, approved>>

-----------------------------------------------------------------------------
(* The settings. *)

setWETH(caller, token) ==
    /\ caller = Owner
    /\ token # NullAddress
    /\ wETH' = token
    /\ Quiet
    /\ UNCHANGED <<swapToToken, triggerFee, tokenPathMapping, splitter, holding,
                   approved>>

setSwapToToken(caller, token) ==
    /\ caller = Owner
    /\ token # NullAddress
    /\ swapToToken' = token
    /\ Quiet
    /\ UNCHANGED <<wETH, triggerFee, tokenPathMapping, splitter, holding, approved>>

setTriggerFee(caller, fee) ==
    /\ caller = Owner
    /\ fee <= 100
    /\ triggerFee' = fee
    /\ Quiet
    /\ UNCHANGED <<wETH, swapToToken, tokenPathMapping, splitter, holding, approved>>

(* The path is pushed onto what is stored. *)
setTokenPath(caller, token, path) ==
    /\ caller = Owner
    /\ Len(tokenPathMapping[token] \o path) <= MaxPath
    /\ tokenPathMapping' = [tokenPathMapping EXCEPT ![token] = @ \o path]
    /\ Quiet
    /\ UNCHANGED <<settings, splitter, holding, approved>>

-----------------------------------------------------------------------------
(* Conversion. *)

DefaultPath(from) ==
    IF swapToToken = wETH THEN <<from, wETH>> ELSE <<from, wETH, swapToToken>>

(* The path the router is given, which is stored if it is the default. *)
PathFor(from) ==
    IF tokenPathMapping[from] # <<>> THEN tokenPathMapping[from] ELSE DefaultPath(from)

(* External: the router takes the amount of the first token within its     *)
(* allowance, and pays some amount of the last, over pairs of two tokens.  *)
CanRoute(path, amount, allowance) ==
    /\ Len(path) >= 2
    /\ \A i \in 1..(Len(path) - 1) : path[i] # path[i + 1]
    /\ allowance[Head(path)] >= amount
    /\ holding[Head(path)] >= amount

Routed(path, amount, out) ==
    [[holding EXCEPT ![Head(path)] = @ - amount] EXCEPT ![Last(path)] = @ + out]

TriggerAmount(newTokenBalance) == (newTokenBalance * triggerFee) \div 100

PayeeAmount(payee, newTokenBalance) ==
    ((newTokenBalance - TriggerAmount(newTokenBalance)) * shares[payee]) \div totalShares

(* The transfers of the loop over the payees, and all of them together. *)
PayeeTotal(account, newTokenBalance) ==
    PayeeAmount(account, newTokenBalance) * Cardinality({i \in DOMAIN payees : payees[i] = account})

Payment(account, newTokenBalance) ==
    (IF account = Owner THEN TriggerAmount(newTokenBalance) ELSE 0)
        + PayeeTotal(account, newTokenBalance)

TotalPayment(newTokenBalance) ==
    SumFunction([a \in Account |-> Payment(a, newTokenBalance)])

(* The last part of convertAndTransfer, on the holdings after the router.  *)
Distribute(from, bought, held) ==
    LET newTokenBalance == held[swapToToken]
    IN  /\ TotalPayment(newTokenBalance) <= newTokenBalance
        /\ holding' = [held EXCEPT ![swapToToken] = @ - TotalPayment(newTokenBalance)]
        /\ paid' = [a \in Account |-> Payment(a, newTokenBalance)]
        /\ event' = [from |-> from, to |-> swapToToken, bought |-> bought]

(* The token is the one the payees get: it is approved and not routed. *)
convertNothing(from, tokenBalance) ==
    /\ from = swapToToken
    /\ approved' = [approved EXCEPT ![from] = tokenBalance]
    /\ Distribute(from, from, holding)
    /\ UNCHANGED tokenPathMapping

convertByRouter(from, tokenBalance, amountOutMin, out) ==
    LET path == PathFor(from)
        allowance == [approved EXCEPT ![from] = tokenBalance]
    IN  /\ from # swapToToken
        /\ CanRoute(path, tokenBalance, allowance)
        /\ out >= amountOutMin
        /\ holding[Last(path)] + out <= MaxHolding
        /\ tokenPathMapping' = [tokenPathMapping EXCEPT ![from] = path]
        /\ approved' = [allowance EXCEPT ![Head(path)] = @ - tokenBalance]
        /\ Distribute(from, Last(path), Routed(path, tokenBalance, out))

convertAndTransfer(caller, from, amountOutMin, out) ==
    /\ caller = Owner
    /\ payees # <<>>
    /\ holding[from] > 0
    /\ \/ convertNothing(from, holding[from])
       \/ convertByRouter(from, holding[from], amountOutMin, out)
    /\ UNCHANGED <<settings, splitter>>

(* drainTo a destination pays out the whole holding of some tokens. *)
drainTo(caller, transferTo, tokens) ==
    /\ caller = Owner
    /\ holding' = [t \in Token |-> IF t \in tokens THEN 0 ELSE holding[t]]
    /\ Quiet
    /\ UNCHANGED <<settings, tokenPathMapping, splitter, approved>>

-----------------------------------------------------------------------------
(* External: fees arrive at the contract. *)
Income(token, amount) ==
    /\ holding[token] + amount <= MaxHolding
    /\ holding' = [holding EXCEPT ![token] = @ + amount]
    /\ Quiet
    /\ UNCHANGED <<settings, tokenPathMapping, splitter, approved>>

(* The constructor with one payee; it adds further ones as addPayee does.  *)
Init ==
    /\ wETH \in Token /\ swapToToken \in Token
    /\ triggerFee \in {f \in TriggerFee : f <= 100}
    /\ tokenPathMapping = [t \in Token |-> <<>>]
    /\ \E account \in Account, share \in {n \in Share : n > 0} :
          /\ payees = <<account>>
          /\ shares = [a \in Account |-> IF a = account THEN share ELSE 0]
          /\ totalShares = share
    /\ holding = [t \in Token |-> 0]
    /\ approved = [t \in Token |-> 0]
    /\ paid = Unpaid /\ event = NoEvent

Next ==
    \/ \E caller \in Account :
          \/ \E account \in Account, n \in Share : addPayee(caller, account, n)
          \/ \E account \in Account, i \in DOMAIN payees : removePayee(caller, account, i)
          \/ \E t \in Token \union {NullAddress} : setWETH(caller, t) \/ setSwapToToken(caller, t)
          \/ \E fee \in TriggerFee : setTriggerFee(caller, fee)
          \/ \E t \in Token, path \in Path : setTokenPath(caller, t, path)
          \/ \E t \in Token, minimum, out \in Amount : convertAndTransfer(caller, t, minimum, out)
          \/ \E dest \in Account, tokens \in SUBSET Token : drainTo(caller, dest, tokens)
    \/ \E t \in Token, n \in Amount : Income(t, n)

Spec == Init /\ [][Next]_vars

-----------------------------------------------------------------------------
(* Correctness. *)

(* The array of payees, the mapping of shares and the total describe one   *)
(* distribution after any additions and removals: every account with       *)
(* shares is listed once and no other, and the shares add up to the total. *)
PayeesMatchShares ==
    /\ IsInjective(payees)
    /\ {payees[i] : i \in DOMAIN payees} = {a \in Account : shares[a] > 0}
    /\ totalShares = SumFunction(shares)

(* A conversion pays out what the contract holds of the token paid: less   *)
(* than one unit for each payee stays behind, and nothing goes to an       *)
(* account without shares but the trigger's fee.  It relates the total to  *)
(* the shares listed, over all earlier additions and removals.             *)
PayoutIsComplete ==
    event # NoEvent =>
        /\ holding[event.to] < Len(payees)
        /\ \A a \in Account \ {Owner} : shares[a] = 0 => paid[a] = 0

(* Doc of convertAndTransfer: it "converts an token in the contract to the *)
(* SwapToToken": what the router bought is the token the payees are paid   *)
(* in, also when that token was changed since an earlier conversion.       *)
BuysSwapToToken == event # NoEvent => event.bought = event.to
=============================================================================
