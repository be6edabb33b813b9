------------------------------ MODULE Staking ------------------------------
(***************************************************************************)
(* The Staking contract (source/staking/contracts/Staking.sol): tokens are *)
(* locked in stakes that vest linearly after a cliff.  An account has a    *)
(* list of stakes; the owner may change the vesting schedule at any time,  *)
(* and a stake keeps the one it was made or last extended under.           *)
(***************************************************************************)
EXTENDS ERC20, Integers, FiniteSetsExt, SequencesExt

CONSTANTS
    Account,       \* who stakes
    Contract,      \* the address of the contract
    Owner,         \* its owner
    Schedule,      \* pairs of a duration and a cliff that setVesting is given
    Amount,        \* amounts tried in a call
    InitBalance,   \* tokens of each account at the start
    MaxStakes,     \* bound on the stakes of an account
    MaxInitial,    \* bound on the initial amount of an extended stake
    MaxTime        \* bound on the clock

ASSUME StakingAssumption ==
    /\ Contract \notin Account
    /\ Owner \in Account /\ IsFiniteSet(Account)
    /\ Schedule \subseteq Nat \X Nat /\ Schedule # {}
    /\ Amount \subseteq Nat
    /\ InitBalance \in [Account -> Nat]
    /\ MaxStakes \in Nat /\ MaxInitial \in Nat /\ MaxTime \in Nat

VARIABLES
    duration,      \* the vesting schedule in force
    cliff,
    allStakes,     \* allStakes[a]: the list of stakes of account a
    balance,       \* balances of the staked token
    now,           \* block.timestamp
    rescheduled    \* history: the schedule was replaced by another

vars == <<duration, cliff, allStakes, balance, now, rescheduled>>

StakeType ==
    [duration: Nat, cliff: Nat, initial: Nat, balance: Nat, timestamp: Nat]

Stakes(a) == ToSet(allStakes[a])

-----------------------------------------------------------------------------
(* Vesting. *)

Elapsed(s) == now - s.timestamp

(* vested divides by the duration of the stake, after it compared with the *)
(* duration in force, and reverts on zero.                                 *)
VestedDefined(s) == Elapsed(s) > duration \/ s.duration > 0

vested(s) ==
    IF Elapsed(s) > duration THEN s.initial
    ELSE (s.initial * Elapsed(s)) \div s.duration

Withdrawn(s) == s.initial - s.balance

(* available subtracts with a check for underflow. *)
AvailableDefined(s) ==
    Elapsed(s) >= s.cliff => VestedDefined(s) /\ vested(s) >= Withdrawn(s)

available(s) ==
    IF Elapsed(s) < s.cliff THEN 0 ELSE vested(s) - Withdrawn(s)

-----------------------------------------------------------------------------
(* Operations. *)

setVesting(caller, newDuration, newCliff) ==
    /\ caller = Owner
    /\ duration' = newDuration
    /\ cliff' = newCliff
    /\ rescheduled' = (rescheduled \/ <<newDuration, newCliff>> # <<duration, cliff>>)
    /\ UNCHANGED <<allStakes, balance, now>>

NewStake(amount) ==
    [duration |-> duration, cliff |-> cliff, initial |-> amount,
     balance |-> amount, timestamp |-> now]

(* The caller's tokens move to the contract. *)
PayIn(caller, amount) ==
    /\ balance[caller] >= amount
    /\ balance' = Move(balance, caller, Contract, amount)

stakeFor(caller, account, amount) ==
    /\ amount > 0
    /\ Len(allStakes[account]) < MaxStakes
    /\ allStakes' = [allStakes EXCEPT ![account] = Append(@, NewStake(amount))]
    /\ PayIn(caller, amount)
    /\ UNCHANGED <<duration, cliff, now, rescheduled>>

stake(caller, amount) == stakeFor(caller, caller, amount)

(* Mutant: the time stamp stays. *)
ExtendedTimestampKept(s, amount) == s.timestamp

(* Mutant: the division is by the old amount. *)
ExtendedTimestampFast(s, amount) ==
    s.timestamp + (amount * Elapsed(s)) \div s.initial

(* The time stamp moves towards now in proportion to the new amount. *)
ExtendedTimestamp(s, amount) ==
    s.timestamp + (amount * Elapsed(s)) \div (s.initial + amount)

ExtendedStake(s, amount) ==
    [duration |-> duration, cliff |-> cliff,
     initial |-> s.initial + amount, balance |-> s.balance + amount,
     timestamp |-> ExtendedTimestamp(s, amount)]

(* Mutant: a stake counts as fully vested only with nothing withdrawn. *)
FullyVestedAndWhole(s) == vested(s) = s.balance

FullyVested(s) == vested(s) = s.initial

(* A fully vested stake is left alone and a new one is made. *)
extendFor(caller, index, account, amount) ==
    /\ amount > 0
    /\ index \in DOMAIN allStakes[account]
    /\ LET selected == allStakes[account][index]
       IN  /\ VestedDefined(selected)
           /\ IF FullyVested(selected)
              THEN stakeFor(caller, account, amount)
              ELSE /\ selected.initial + amount <= MaxInitial
                   /\ allStakes' = [allStakes EXCEPT
                                      ![account][index] = ExtendedStake(selected, amount)]
                   /\ PayIn(caller, amount)
                   /\ UNCHANGED <<duration, cliff, now, rescheduled>>

extend(caller, index, amount) == extendFor(caller, index, caller, amount)

(* Mutant: the last stake is dropped but not moved. *)
RemoveStakeUnmoved(stakes, index) == Front(stakes)

(* A stake with no balance left gives its place to the last one. *)
RemoveStake(stakes, index) == Front([stakes EXCEPT ![index] = Last(stakes)])

(* Mutant: the amount is compared with the balance alone. *)
CanUnstakeUnvested(stakes, index, amount) ==
    /\ index \in DOMAIN stakes
    /\ Elapsed(stakes[index]) >= stakes[index].cliff
    /\ amount <= stakes[index].balance

(* Mutant: the amount is compared with what was staked, not what is left. *)
CanUnstakeVestedAgain(stakes, index, amount) ==
    /\ index \in DOMAIN stakes
    /\ Elapsed(stakes[index]) >= stakes[index].cliff
    /\ amount <= vested(stakes[index])

(* _unstake: the guards, then the effect on the list of the caller. *)
CanUnstake(stakes, index, amount) ==
    /\ index \in DOMAIN stakes
    /\ Elapsed(stakes[index]) >= stakes[index].cliff
    /\ AvailableDefined(stakes[index])
    /\ amount <= available(stakes[index])
    /\ amount <= stakes[index].balance

Unstaked(stakes, index, amount) ==
    IF amount = stakes[index].balance THEN RemoveStake(stakes, index)
    ELSE [stakes EXCEPT ![index].balance = @ - amount]

(* The loop of unstake takes amounts[i] from the stake at i, from the last *)
(* index down, since a removal moves only stakes that were already         *)
(* handled.  Its value at i is the list when the indices from i on are     *)
(* done; a call that reverts has no list.                                  *)
Unstaking(stakes, amounts) ==
    LET after[i \in 1..(Len(amounts) + 1)] ==
            IF i > Len(amounts) THEN stakes
            ELSE IF amounts[i] = 0 THEN after[i + 1]
            ELSE IF CanUnstake(after[i + 1], i, amounts[i])
                 THEN Unstaked(after[i + 1], i, amounts[i])
            ELSE <<>>
    IN  after

(* What unstake requires: at each index what _unstake does of the list as  *)
(* it then is, and that the contract can pay the total.                    *)
CanUnstakeAll(caller, amounts) ==
    LET after == Unstaking(allStakes[caller], amounts)
    IN  /\ \A i \in DOMAIN amounts : amounts[i] > 0 => CanUnstake(after[i + 1], i, amounts[i])
        /\ balance[Contract] >= SumFunction(amounts)

unstake(caller, amounts) ==
    /\ CanUnstakeAll(caller, amounts)
    /\ allStakes' = [allStakes EXCEPT ![caller] = Unstaking(@, amounts)[1]]
    /\ balance' = Move(balance, Contract, caller, SumFunction(amounts))
    /\ UNCHANGED <<duration, cliff, now, rescheduled>>

Tick ==
    /\ now < MaxTime
    /\ now' = now + 1
    /\ UNCHANGED <<duration, cliff, allStakes, balance, rescheduled>>

Init ==
    /\ \E s \in Schedule : duration = s[1] /\ cliff = s[2]
    /\ allStakes = [a \in Account |-> <<>>]
    /\ balance = [a \in Account \union {Contract} |-> IF a = Contract THEN 0 ELSE InitBalance[a]]
    /\ now = 0
    /\ rescheduled = FALSE

Next ==
    \/ \E caller \in Account :
        \/ \E s \in Schedule : setVesting(caller, s[1], s[2])
        \/ \E amount \in Amount :
            \/ stake(caller, amount)
            \/ \E account \in Account : stakeFor(caller, account, amount)
            \/ \E index \in 1..MaxStakes :
                \/ extend(caller, index, amount)
                \/ \E account \in Account : extendFor(caller, index, account, amount)
        \/ \E amounts \in BoundedSeq(Amount \union {0}, MaxStakes) : unstake(caller, amounts)
    \/ Tick

Spec == Init /\ [][Next]_vars

-----------------------------------------------------------------------------
(* Correctness. *)

TypeOK ==
    /\ duration \in Nat /\ cliff \in Nat
    /\ allStakes \in [Account -> Seq(StakeType)]
    /\ balance \in [Account \union {Contract} -> Nat]
    /\ now \in 0..MaxTime
    /\ rescheduled \in BOOLEAN

balanceOf(a) == SumFunction([i \in DOMAIN allStakes[a] |-> allStakes[a][i].balance])

(* The tokens of the contract (totalSupply) are the sum of the balances of *)
(* all accounts, whatever stakes are extended, merged, removed from the    *)
(* middle of a list, or unstaked several at once.  Nobody sends tokens to  *)
(* the contract directly in this model.                                    *)
TotalSupplyIsSumOfBalances ==
    balance[Contract] = SumFunction([a \in Account |-> balanceOf(a)])

(* Every stake in a list still holds tokens, no more than were staked, and *)
(* started no later than now, so that block.timestamp.sub never reverts    *)
(* however often the stake was extended.                                   *)
StakesWellFormed ==
    \A a \in Account : \A s \in Stakes(a) :
        /\ 0 < s.balance /\ s.balance <= s.initial
        /\ s.timestamp <= now

(* Nothing leaves a stake before it is vested: as long as the schedule is  *)
(* not changed, no sequence of staking, extending and unstaking, for       *)
(* oneself or by others, withdraws more of a stake than is vested.  It is  *)
(* also why available never underflows then: the call can only fail in the *)
(* block of the stake itself, by dividing by a duration of zero.           *)
WithdrawnIsVested ==
    ~rescheduled =>
        \A a \in Account : \A s \in Stakes(a) :
            /\ VestedDefined(s) => Withdrawn(s) <= vested(s)
            /\ ~VestedDefined(s) => duration = 0 /\ Elapsed(s) = 0

(* Extending a stake under an unchanged schedule takes nothing back that   *)
(* was vested, and vests of the new total at most one unit of time more    *)
(* than before: rounding the time stamp down cannot be used to vest early. *)
ExtendKeepsVesting ==
    [][\A a \in Account : \A i \in DOMAIN allStakes[a] :
         /\ ~rescheduled
         /\ balance'[Contract] > balance[Contract]
         /\ allStakes'[a][i] # allStakes[a][i]
         => LET s == allStakes[a][i]
                t == allStakes'[a][i]
            IN  /\ vested(s) <= vested(t)
                /\ vested(t) * t.duration <= s.initial * Elapsed(s) + t.initial
                /\ Withdrawn(t) = Withdrawn(s)]_vars

(* In this step nobody adds to a stake that has vested completely.         *)
LeavesVestedStakes ==
    \A a \in Account : \A i \in DOMAIN allStakes[a] :
        /\ balance'[Contract] > balance[Contract]
        /\ VestedDefined(allStakes[a][i])
        /\ vested(allStakes[a][i]) >= allStakes[a][i].initial
        => allStakes'[a][i] = allStakes[a][i]

(* Tokens paid in never restart the vesting of a stake that has vested     *)
(* completely, as long as the schedule is not changed.                     *)
VestedStakesAreLeftAlone == [][~rescheduled => LeavesVestedStakes]_vars

(* "If selected stake is fully vested create a new stake", says the code   *)
(* of extendFor under any schedule.                                        *)
FullyVestedStakesAreNotExtended == [][LeavesVestedStakes]_vars
=============================================================================
