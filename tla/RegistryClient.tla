--------------------------- MODULE RegistryClient ---------------------------
(***************************************************************************)
(* A taker that finds servers through the registry and compares what they  *)
(* offer: one call of getServers (tools/libraries/src/Registry.ts) while   *)
(* stakers go on changing the registry, the servers it opens, and the      *)
(* comparison of their prices with the operators of Quotes.  The call has  *)
(* two awaited reads; each sees the registry at one moment.                *)
(***************************************************************************)
EXTENDS Registry, Quotes

CONSTANTS
    Query,      \* pairs of the signer's and the sender's token
    Amount,     \* amounts for which prices are compared
    Levels      \* what a server may have announced: lists of levels, or none

ASSUME RegistryClientAssumption ==
    /\ Query \subseteq Token \X Token
    /\ Amount \subseteq Nat
    /\ \A levels \in Levels :
          /\ levels \in Seq([amount: Nat, price: Nat])
          /\ \A i, j \in DOMAIN levels : i < j => levels[i].amount <= levels[j].amount

VARIABLES
    stage,              \* how far getServers is
    query,              \* its two tokens
    signerTokenURLs,    \* the answer of the first read
    servers,            \* servers[s]: how far Server.for is with the URL of s
    asked,              \* the side and the amount that the taker compares
    offers,             \* the quotes that the taker made of the servers' levels
    best,               \* the best of them
    steady,             \* history: the stakers found by the first read that
                        \* support both tokens and did not change since
    contacted           \* history: the URLs for which Server.for was called

client == <<stage, query, signerTokenURLs, servers, asked, offers, best, steady, contacted>>
clientVars == <<vars, client>>

None == [s \in {} |-> NoURL]

(* getURLsForToken of the contract: a URL for each staker of the token, in *)
(* the order of a set.  A staker that set none has the empty string.       *)
getURLsForToken(t) == [s \in supportingStakers[t] |-> stakerURLs[s]]

-----------------------------------------------------------------------------
(* getServers. *)

getServers(signerToken, senderToken) ==
    /\ stage = "idle"
    /\ stage' = "reading signer"
    /\ query' = <<signerToken, senderToken>>
    /\ UNCHANGED <<vars, signerTokenURLs, servers, asked, offers, best, steady, contacted>>

ReadSignerURLs ==
    /\ stage = "reading signer"
    /\ stage' = "reading sender"
    /\ signerTokenURLs' = getURLsForToken(query[1])
    /\ steady' = {s \in Staker : {query[1], query[2]} \subseteq supportedTokens[s]}
    /\ UNCHANGED <<vars, query, servers, asked, offers, best, contacted>>

(* Mutant: nothing is filtered. *)
InFirst(signerURLs, senderURLs) == DOMAIN signerURLs

(* Mutant: indexOf(value) > 0 for includes(value). *)
InBothAfterTheFirst(signerURLs, senderURLs) ==
    {s \in DOMAIN signerURLs : \E t \in DOMAIN senderURLs :
        /\ senderURLs[t] = signerURLs[s]
        /\ t # CHOOSE first \in DOMAIN senderURLs : TRUE}

(* filter: the URLs of the first read that the second includes. *)
InBoth(signerURLs, senderURLs) ==
    {s \in DOMAIN signerURLs : signerURLs[s] \in Range(senderURLs)}

(* Server.for is called for each; Promise.all of none is resolved. *)
ReadSenderURLs ==
    LET listed == InBoth(signerTokenURLs, getURLsForToken(query[2]))
    IN  /\ stage = "reading sender"
        /\ servers' = [s \in listed |-> "pending"]
        /\ stage' = IF listed = {} THEN "resolved" ELSE "opening"
        /\ contacted' = {signerTokenURLs[s] : s \in listed}
        /\ signerTokenURLs' = None
        /\ UNCHANGED <<vars, query, asked, offers, best, steady>>

(* The provider fails a read. *)
ReadFails ==
    /\ stage \in {"reading signer", "reading sender"}
    /\ stage' = "rejected"
    /\ signerTokenURLs' = None
    /\ UNCHANGED <<vars, query, servers, asked, offers, best, steady, contacted>>

(* Mutant: the call is resolved by the first server. *)
ResolvedByAny(outcomes) == "open" \in Range(outcomes)

ResolvedByAll(outcomes) == Range(outcomes) = {"open"}

(* Mutant: a failed server is waited for. *)
AfterServerOpens(outcomes) ==
    IF stage = "opening" /\ ResolvedByAll(outcomes) THEN "resolved" ELSE stage

(* Promise.all: the first failure rejects, and the others go on alone.     *)
AfterServer(outcomes) ==
    IF stage = "opening" /\ "failed" \in Range(outcomes) THEN "rejected"
    ELSE IF stage = "opening" /\ ResolvedByAll(outcomes) THEN "resolved"
    ELSE stage

ServerSettles(s) ==
    /\ s \in DOMAIN servers
    /\ servers[s] = "pending"
    /\ \E outcome \in {"open", "failed"} : servers' = [servers EXCEPT ![s] = outcome]
    /\ stage' = AfterServer(servers')
    /\ UNCHANGED <<vars, query, signerTokenURLs, asked, offers, best, steady, contacted>>

-----------------------------------------------------------------------------
(* The application that compares is external: it computes a cost for each  *)
(* server whose levels reach the amount, in atomic units of a token with   *)
(* six decimals, and takes the best.  It buys the signer's token for as    *)
(* little of the sender's as it can, or sells the sender's token for as    *)
(* much of the signer's.                                                   *)
Offer(side, amount, levels) ==
    IF levels = <<>> \/ Available(levels) < amount
    THEN IF side = "buy" THEN [signer |-> [amount |-> amount]]
         ELSE [sender |-> [amount |-> amount]]
    ELSE LET cost == calculateCostFromLevels(amount, levels)
         IN  IF side = "buy"
             THEN [signer |-> [amount |-> amount], sender |-> [amount |-> cost]]
             ELSE [signer |-> [amount |-> cost], sender |-> [amount |-> amount]]

Compare(side, amount, announced) ==
    LET order == SetToSeq(DOMAIN servers)
    IN  /\ stage = "resolved"
        /\ servers # None
        /\ stage' = "compared"
        /\ asked' = [side |-> side, amount |-> amount]
        /\ offers' = [i \in DOMAIN order |->
                        [levels |-> announced[order[i]],
                         quote |-> Offer(side, amount, announced[order[i]])]]
        /\ best' = LET quotes == [i \in DOMAIN order |-> offers'[i].quote]
                   IN  IF side = "buy" THEN getBestByLowestSenderAmount(quotes)
                       ELSE getBestByHighestSignerAmount(quotes)
        /\ UNCHANGED <<vars, query, signerTokenURLs, servers, steady, contacted>>

(* Bound: transactions after the second read make no difference to the     *)
(* client and are left out.                                                *)
Transact ==
    /\ stage \in {"idle", "reading signer", "reading sender"}
    /\ Next
    /\ steady' = {s \in steady : /\ supportedTokens'[s] = supportedTokens[s]
                                 /\ stakerURLs'[s] = stakerURLs[s]}
    /\ UNCHANGED <<stage, query, signerTokenURLs, servers, asked, offers, best, contacted>>

ClientInit ==
    /\ Init
    /\ stage = "idle"
    /\ query = <<>>
    /\ signerTokenURLs = None
    /\ servers = None
    /\ asked = <<>>
    /\ offers = <<>>
    /\ best = Undefined
    /\ steady = {}
    /\ contacted = {}

ClientNext ==
    \/ Transact
    \/ \E q \in Query : getServers(q[1], q[2])
    \/ ReadSignerURLs
    \/ ReadSenderURLs
    \/ ReadFails
    \/ \E s \in Staker : ServerSettles(s)
    \/ \E side \in {"buy", "sell"}, amount \in Amount, announced \in [DOMAIN servers -> Levels] :
          Compare(side, amount, announced)

(* The provider answers or fails a read, and Server.for settles, which     *)
(* ServerClient shows of it (ForSettles).                                  *)
Fairness ==
    /\ WF_clientVars(ReadSignerURLs \/ ReadFails)
    /\ WF_clientVars(ReadSenderURLs \/ ReadFails)
    /\ \A s \in Staker : WF_clientVars(ServerSettles(s))

ClientSpec == ClientInit /\ [][ClientNext]_clientVars /\ Fairness

-----------------------------------------------------------------------------
(* Correctness. *)

(* Whoever supports both tokens, and neither moved a token nor its URL     *)
(* between the two reads, is contacted, whatever others did meanwhile.     *)
SteadyStakersAreFound ==
    stage \in {"opening", "resolved"} => {stakerURLs[s] : s \in steady} \subseteq contacted

(* When the answer of the first read still holds at the second, and no two *)
(* stakers have the same URL, getServers opens the servers of the stakers  *)
(* of both tokens and no others: joining by URL is then joining by staker. *)
QuietRegistryIsReadExactly ==
    [][stage = "reading sender" /\ stage' \in {"opening", "resolved"} /\ IsInjective(stakerURLs)
         /\ signerTokenURLs = getURLsForToken(query[1])
       => DOMAIN servers' = {s \in Staker : {query[1], query[2]} \subseteq supportedTokens[s]}]_clientVars

(* getServers is all or nothing: it resolves with every server that was    *)
(* listed open, and rejects only if a read or one of the servers failed.   *)
AllServersOrNone ==
    /\ stage \in {"resolved", "compared"} => \A s \in DOMAIN servers : servers[s] = "open"
    /\ stage = "rejected" => servers = None \/ "failed" \in Range(servers)
    /\ stage = "opening" => "pending" \in Range(servers) /\ "failed" \notin Range(servers)

(* Every call of getServers is answered. *)
GetServersSettles ==
    stage = "reading signer" ~> stage \in {"resolved", "rejected", "compared"}

(* The taker trades at the best price: no other server's levels give the   *)
(* amount for less, or more for the amount, where the cost of an amount is *)
(* the sum of the prices of its units, each that of the first level to     *)
(* reach it, rounded once at the end.                                      *)
PriceOfUnit(k, levels) ==
    LET i == CHOOSE j \in DOMAIN levels :
                 /\ k <= levels[j].amount
                 /\ \A h \in DOMAIN levels : h < j => levels[h].amount < k
    IN  levels[i].price

Worth(amount, levels) ==
    SixDecimals(SumFunction([k \in 1..amount |-> PriceOfUnit(k, levels)]))

BestOfferIsTaken ==
    stage = "compared" =>
        LET able == {i \in DOMAIN offers :
                        offers[i].levels # <<>> /\ Available(offers[i].levels) >= asked.amount}
            worths == {Worth(asked.amount, offers[i].levels) : i \in able}
        IN  IF able = {} THEN best = Undefined
            ELSE /\ \E i \in able : best = offers[i].quote
                 /\ asked.side = "buy" => best.sender.amount = Min(worths)
                 /\ asked.side = "sell" => best.signer.amount = Max(worths)
=============================================================================
