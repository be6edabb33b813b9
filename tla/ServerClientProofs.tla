------------------------- MODULE ServerClientProofs -------------------------
(* Theorems about ServerClient, for any application's calls and anything   *)
(* the market maker sends.                                                 *)
EXTENDS ServerClient, TLAPS

(***************************************************************************)
(* RejectedLeavesNoSocket is not inductive: a late initialize could settle *)
(* the promise after Server.for rejected, and a socket could still open.   *)
(* SocketInv relates the socket, the two promises and the inbox.           *)
(***************************************************************************)
SocketInv ==
    /\ socket \in {"connecting", "closing"} <=> forPromise = "opening"
    /\ forPromise = "opening" => inbox = <<>>
    /\ socket = "connecting" => initPromise = "pending"
    /\ forPromise = "initializing" => initPromise = "pending" /\ socket \in {"open", "lost"}
    /\ forPromise = "rejected" =>
          /\ socket \in {"closed", "lost"}
          /\ initPromise = "pending" => inbox = <<>>

LEMMA SocketInit == Init => SocketInv
  BY DEF Init, SocketInv

(* Whatever disconnects a server after Server.for has settled, or rejects  *)
(* it, keeps the relation.                                                 *)
LEMMA TimeoutKeepsSocketInv == ASSUME SocketInv, InitTimeout PROVE SocketInv'
  <1>1. CASE forPromise = "initializing"
    BY <1>1 DEF SocketInv, InitTimeout, RejectInitPromise, Disconnected
  <1>2. CASE forPromise # "initializing"
    BY <1>2 DEF SocketInv, InitTimeout, RejectInitPromise, Disconnected
  <1>3. QED
    BY <1>1, <1>2

(* A message that is handled was in the inbox, so that Server.for is       *)
(* neither opening nor rejected with its promise pending.                  *)
LEMMA InitializeKeepsSocketInv ==
    ASSUME SocketInv, NEW params \in Announcement, initialize(params)
    PROVE  SocketInv'
  <1>1. inbox # <<>> /\ socket' = socket
    BY DEF initialize, Received
  <1>2. forPromise # "opening" /\ (forPromise = "rejected" => initPromise # "pending")
    BY <1>1 DEF SocketInv
  <1>3. CASE InitializeInvalid(params) \/ InitializeBadHost(params)
    BY <1>1, <1>2, <1>3 DEF SocketInv, InitializeInvalid, InitializeBadHost
  <1>4. CASE InitializeValid(params)
    BY <1>1, <1>2, <1>4 DEF SocketInv, InitializeValid
  <1>5. QED
    BY <1>3, <1>4 DEF initialize

LEMMA StepKeepsSocketInv == ASSUME SocketInv, [Next]_vars PROVE SocketInv'
  <1>1. CASE Connected
    BY <1>1 DEF SocketInv, Connected
  <1>2. CASE ConnectionFails
    BY <1>2 DEF SocketInv, ConnectionFails
  <1>3. CASE ConnectionLost
    BY <1>3 DEF SocketInv, ConnectionLost
  <1>4. CASE InitTimeout
    BY <1>4, TimeoutKeepsSocketInv
  <1>5. ASSUME NEW params \in Announcement, initialize(params) PROVE SocketInv'
    BY <1>5, InitializeKeepsSocketInv
  <1>6. ASSUME NEW price \in 1..MaxMessages, NEW valid \in BOOLEAN, updatePricing(price, valid)
        PROVE  SocketInv'
    BY <1>6 DEF SocketInv, updatePricing, Received
  <1>7. ASSUME NEW price \in 1..MaxMessages, NEW c \in Call, webSocketResponse(c, price)
        PROVE  SocketInv'
    BY <1>7 DEF SocketInv, webSocketResponse, Received
  <1>8. ASSUME NEW c \in Call, NEW method \in Method, CallMethod(c, method) PROVE SocketInv'
    BY <1>8 DEF SocketInv, CallMethod
  <1>9. ASSUME NEW c \in Call, Continue(c) \/ CallTimeout(c) PROVE SocketInv'
    BY <1>9 DEF SocketInv, Continue, CallTimeout
  <1>10. ASSUME NEW c \in Call, NEW reply \in Reply, httpCallback(c, reply) PROVE SocketInv'
    BY <1>10 DEF SocketInv, httpCallback
  <1>11. CASE Listen
    BY <1>11 DEF SocketInv, Listen
  <1>12. CASE disconnect
    BY <1>12 DEF SocketInv, disconnect, Disconnected
  <1>13. CASE MarketMaker
    BY <1>13 DEF SocketInv, MarketMaker, Send
  <1>14. CASE UNCHANGED vars
    BY <1>14 DEF SocketInv, vars
  <1>15. QED
    BY <1>1, <1>2, <1>3, <1>4, <1>5, <1>6, <1>7, <1>8, <1>9, <1>10, <1>11, <1>12, <1>13, <1>14
       DEF Next

(* When Server.for rejects, its socket is closed or lost and stays so.     *)
THEOREM RejectionLeavesNoSocket == Spec => []RejectedLeavesNoSocket
  <1>1. SocketInv => RejectedLeavesNoSocket
    BY DEF SocketInv, RejectedLeavesNoSocket
  <1>2. QED
    BY <1>1, SocketInit, StepKeepsSocketInv, PTL DEF Spec

(***************************************************************************)
(* What the wait of Server.for rests on.  Nothing can fire the timer and   *)
(* leave a socket connecting or a promise pending, and nobody has called   *)
(* anything yet, as the application gets the server only when it resolves. *)
(***************************************************************************)
NobodyCalledYet == forPromise # "resolved" => \A c \in Call : calls[c] = NoCall

TimerIsSet == socket = "connecting" \/ forPromise = "initializing" => initTimer = "set"

WaitInv == SocketInv /\ NobodyCalledYet /\ TimerIsSet

LEMMA WaitInit == Init => WaitInv
  BY SocketInit DEF Init, WaitInv, NobodyCalledYet, TimerIsSet

(* Only an answer, a continuation or a timeout settles a call, and each    *)
(* needs a call that was made.                                             *)
LEMMA SettlingNeedsACall ==
    ASSUME NobodyCalledYet, [Next]_vars, forPromise # "resolved"
    PROVE  UNCHANGED calls
  <1>1. \A c \in Call : calls[c].status = "none"
    BY DEF NobodyCalledYet, NoCall
  <1>2. ASSUME NEW c \in Call, Continue(c) \/ CallTimeout(c) PROVE FALSE
    BY <1>1, <1>2 DEF Continue, CallTimeout
  <1>3. ASSUME NEW c \in Call, NEW reply \in Reply, httpCallback(c, reply) PROVE FALSE
    BY <1>1, <1>3 DEF httpCallback
  <1>4. ASSUME NEW c \in Call, NEW price \in 1..MaxMessages, webSocketResponse(c, price)
        PROVE  UNCHANGED calls
    BY <1>1, <1>4 DEF webSocketResponse
  <1>5. QED
    BY <1>2, <1>3, <1>4 DEF Next, vars, Connected, ConnectionFails, ConnectionLost, InitTimeout,
       initialize, updatePricing, CallMethod, Listen, disconnect, MarketMaker, Send

(* Server.for does not come back from having resolved. *)
LEMMA ResolvedIsFinal ==
    ASSUME SocketInv, [Next]_vars, forPromise = "resolved" PROVE forPromise' = "resolved"
  <1>1. socket \notin {"connecting", "closing"}
    BY DEF SocketInv
  <1>2. ASSUME NEW params \in Announcement, initialize(params) PROVE forPromise' = "resolved"
    BY <1>2 DEF initialize, InitializeInvalid, InitializeBadHost, InitializeValid
  <1>3. CASE InitTimeout
    BY <1>3 DEF InitTimeout, RejectInitPromise
  <1>4. QED
    BY <1>1, <1>2, <1>3 DEF Next, vars, Connected, ConnectionFails, ConnectionLost,
       updatePricing, webSocketResponse, CallMethod, Continue, CallTimeout, httpCallback,
       Listen, disconnect, MarketMaker, Send

LEMMA StepKeepsTimer ==
    ASSUME SocketInv, TimerIsSet, [Next]_vars PROVE TimerIsSet'
  <1>1. CASE Connected
    BY <1>1 DEF Connected, TimerIsSet
  <1>2. CASE ConnectionFails \/ ConnectionLost
    BY <1>2 DEF ConnectionFails, ConnectionLost, TimerIsSet
  <1>3. CASE InitTimeout
    <2>1. socket' # "connecting"
      BY <1>3 DEF InitTimeout, Disconnected
    <2>2. forPromise' # "initializing"
      BY <1>3 DEF InitTimeout, RejectInitPromise, SocketInv
    <2>3. QED
      BY <2>1, <2>2 DEF TimerIsSet
  <1>4. ASSUME NEW params \in Announcement, initialize(params) PROVE TimerIsSet'
    <2>1. forPromise' = forPromise \/ forPromise' = "resolved"
      BY <1>4 DEF initialize, InitializeInvalid, InitializeBadHost, InitializeValid
    <2>2. QED
      BY <1>4, <2>1 DEF initialize, TimerIsSet
  <1>5. CASE disconnect
    BY <1>5 DEF disconnect, Disconnected, TimerIsSet
  <1>6. CASE UNCHANGED <<socket, initTimer, forPromise>>
    BY <1>6 DEF TimerIsSet
  <1>7. QED
    BY <1>1, <1>2, <1>3, <1>4, <1>5, <1>6 DEF Next, vars, updatePricing, webSocketResponse,
       CallMethod, Continue, CallTimeout, httpCallback, Listen, MarketMaker, Send

LEMMA StepKeepsWaitInv == ASSUME WaitInv, [Next]_vars PROVE WaitInv'
  <1>1. SocketInv' /\ TimerIsSet'
    BY StepKeepsSocketInv, StepKeepsTimer DEF WaitInv
  <1>2. NobodyCalledYet'
    <2>1. CASE forPromise = "resolved"
      BY <2>1, ResolvedIsFinal DEF WaitInv, NobodyCalledYet
    <2>2. CASE forPromise # "resolved"
      BY <2>2, SettlingNeedsACall DEF WaitInv, NobodyCalledYet
    <2>3. QED
      BY <2>1, <2>2
  <1>3. QED
    BY <1>1, <1>2 DEF WaitInv

(* The safety half of ForSettles: while Server.for waits, the timer or the *)
(* failure of its socket is still to come, and is not held up.             *)
THEOREM WaitingIsTimed == Spec => []WaitIsTimed
  <1>1. WaitInv => WaitIsTimed
    <2> SUFFICES ASSUME WaitInv, forPromise \in {"opening", "initializing"}
                 PROVE  /\ socket = "closing" \/ (initTimer = "set" /\ initPromise = "pending")
                        /\ Turn
      BY DEF WaitIsTimed
    <2>1. Turn
      BY DEF WaitInv, NobodyCalledYet, NoCall, Turn
    <2>2. QED
      BY <2>1 DEF WaitInv, SocketInv, TimerIsSet
  <1>2. QED
    BY <1>1, WaitInit, StepKeepsWaitInv, PTL DEF Spec

(***************************************************************************)
(* OnlySilentServersTimeOut does not hold, as the timer also disconnects a *)
(* server that initialized.  It fails in no other way: the two promises    *)
(* resolve together, and until the timer fires such a server is connected. *)
(***************************************************************************)
ResolvedTogether ==
    /\ forPromise \in {"opening", "initializing", "resolved", "rejected"}
    /\ initPromise = "resolved" => forPromise = "resolved"
    /\ forPromise = "resolved" => initPromise # "pending"

OnlyTimerDisconnects ==
    initPromise = "resolved" /\ ~closedByApp /\ initTimer # "fired" => socket \in {"open", "lost"}

TimerInv == SocketInv /\ ResolvedTogether /\ OnlyTimerDisconnects

LEMMA TimerInit == Init => TimerInv
  BY SocketInit DEF Init, TimerInv, ResolvedTogether, OnlyTimerDisconnects

(* A message is handled only when Server.for is initializing or beyond: if *)
(* its promise is then pending, the socket is open or was lost.            *)
LEMMA InitializeKeepsTimerInv ==
    ASSUME TimerInv, NEW params \in Announcement, initialize(params)
    PROVE  ResolvedTogether' /\ OnlyTimerDisconnects'
  <1>1. inbox # <<>> /\ UNCHANGED <<socket, initTimer, closedByApp>>
    BY DEF initialize, Received
  <1>2. CASE InitializeInvalid(params) \/ InitializeBadHost(params)
    <2>1. UNCHANGED <<initPromise, forPromise>>
      BY <1>2 DEF InitializeInvalid, InitializeBadHost
    <2>2. QED
      BY <1>1, <2>1 DEF TimerInv, ResolvedTogether, OnlyTimerDisconnects
  <1>3. CASE InitializeValid(params)
    <2>1. CASE initPromise = "pending"
      <3>1. forPromise = "initializing" => socket \in {"open", "lost"}
        BY DEF TimerInv, SocketInv
      <3>2. forPromise \notin {"opening", "rejected", "resolved"}
        BY <1>1, <2>1 DEF TimerInv, SocketInv, ResolvedTogether
      <3>3. initPromise' = "resolved" /\ forPromise' = "resolved"
        BY <1>3, <2>1 DEF InitializeValid
      <3>4. QED
        BY <1>1, <3>1, <3>2, <3>3 DEF TimerInv, ResolvedTogether, OnlyTimerDisconnects
    <2>2. CASE initPromise # "pending"
      <3>1. UNCHANGED <<initPromise, forPromise>>
        BY <1>3, <2>2 DEF InitializeValid
      <3>2. QED
        BY <1>1, <3>1 DEF TimerInv, ResolvedTogether, OnlyTimerDisconnects
    <2>3. QED
      BY <2>1, <2>2
  <1>4. QED
    BY <1>2, <1>3 DEF initialize

LEMMA StepKeepsTimerInv == ASSUME TimerInv, [Next]_vars PROVE TimerInv'
  <1>1. SocketInv'
    BY StepKeepsSocketInv DEF TimerInv
  <1>2. initPromise = "resolved" => socket \notin {"connecting", "closing"}
    BY DEF TimerInv, SocketInv, ResolvedTogether
  <1> SUFFICES ResolvedTogether' /\ OnlyTimerDisconnects'
    BY <1>1 DEF TimerInv
  <1>3. CASE Connected
    BY <1>2, <1>3 DEF Connected, TimerInv, SocketInv, ResolvedTogether, OnlyTimerDisconnects
  <1>4. CASE ConnectionFails
    BY <1>2, <1>4 DEF ConnectionFails, TimerInv, SocketInv, ResolvedTogether, OnlyTimerDisconnects
  <1>5. CASE ConnectionLost
    BY <1>5 DEF ConnectionLost, TimerInv, ResolvedTogether, OnlyTimerDisconnects
  <1>6. CASE InitTimeout
    BY <1>6 DEF InitTimeout, RejectInitPromise, TimerInv, ResolvedTogether, OnlyTimerDisconnects
  <1>7. ASSUME NEW params \in Announcement, initialize(params)
        PROVE  ResolvedTogether' /\ OnlyTimerDisconnects'
    BY <1>7, InitializeKeepsTimerInv
  <1>8. CASE disconnect
    BY <1>8 DEF disconnect, TimerInv, ResolvedTogether, OnlyTimerDisconnects
  <1>9. CASE UNCHANGED <<socket, initTimer, initPromise, forPromise, closedByApp>>
    BY <1>9 DEF TimerInv, ResolvedTogether, OnlyTimerDisconnects
  <1>10. QED
    BY <1>3, <1>4, <1>5, <1>6, <1>7, <1>8, <1>9 DEF Next, vars, updatePricing,
       webSocketResponse, CallMethod, Continue, CallTimeout, httpCallback, Listen,
       MarketMaker, Send

(* A server that initialized, and that the application did not disconnect, *)
(* has no other reason to be disconnected than the timer that fired late.  *)
THEOREM OnlyTheTimerDisconnects == Spec => []OnlyTimerDisconnects
  <1>1. TimerInv => OnlyTimerDisconnects
    BY DEF TimerInv
  <1>2. QED
    BY <1>1, TimerInit, StepKeepsTimerInv, PTL DEF Spec

-----------------------------------------------------------------------------
(***************************************************************************)
(* The sender server and its client.  A WebSocket server's HTTP client is  *)
(* made for the sender server that was named last, and there is none until *)
(* one is named; an HTTP server, whose client is another, never comes to   *)
(* support last look, as nothing reaches it over a socket.                 *)
(***************************************************************************)
MaybeHost == Host \union {NoHost}

ClientInv ==
    /\ transport \in {"http", "websocket"}
    /\ accepted \in Seq(MaybeHost)
    /\ httpClient \in MaybeHost
    /\ transport = "http" =>
          /\ socket = "none" /\ inbox = <<>>
          /\ supportedProtocols = {"request-for-quote"}
    /\ transport = "websocket" =>
          /\ LastNamed(httpClient, accepted)
          /\ senderServer = NoHost => httpClient = NoHost

LEMMA ClientInit == Init => ClientInv
  <1> SUFFICES ASSUME Init PROVE ClientInv
    OBVIOUS
  <1>1. accepted \in Seq(MaybeHost) /\ DOMAIN accepted = {}
    BY DEF Init
  <1>2. Locator \in Host
    BY ServerClientAssumption DEF ServerClientAssumption
  <1>3. QED
    BY <1>1, <1>2 DEF Init, ClientInv, LastNamed, MaybeHost

(* A host that is named becomes the last one, and NoHost changes nothing.  *)
LEMMA LastNamedOfLonger ==
    ASSUME NEW list \in Seq(MaybeHost), NEW host \in MaybeHost, LastNamed(host, list),
           NEW h \in MaybeHost
    PROVE  LastNamed(IF h # NoHost THEN h ELSE host, Append(list, h))
  <1> DEFINE n == Len(list)
             more == Append(list, h)
  <1>1. /\ n \in Nat /\ DOMAIN list = 1..n /\ DOMAIN more = 1..(n + 1)
        /\ more[n + 1] = h /\ \A i \in 1..n : more[i] = list[i]
    OBVIOUS
  <1> HIDE DEF n, more
  <1>2. CASE h # NoHost
    <2>1. n + 1 \in DOMAIN more /\ \A j \in DOMAIN more : ~(j > n + 1)
      BY <1>1
    <2>2. LastNamed(h, more)
      BY <1>1, <1>2, <2>1 DEF LastNamed
    <2>3. QED
      BY <1>2, <2>2 DEF more
  <1>3. CASE h = NoHost
    <2>1. CASE host = NoHost
      <3>1. \A i \in DOMAIN list : list[i] = NoHost
        BY <2>1 DEF LastNamed
      <3>2. \A i \in DOMAIN more : more[i] = NoHost
        BY <1>1, <1>3, <3>1
      <3>3. QED
        BY <1>3, <2>1, <3>2 DEF LastNamed, more
    <2>2. CASE host # NoHost
      <3>1. PICK i \in DOMAIN list : /\ list[i] = host
                                     /\ \A j \in DOMAIN list : j > i => list[j] = NoHost
        BY <2>2 DEF LastNamed
      <3>2. i \in DOMAIN more /\ more[i] = host
        BY <1>1, <3>1
      <3>3. \A j \in DOMAIN more : j > i => more[j] = NoHost
        BY <1>1, <1>3, <3>1
      <3>4. LastNamed(host, more)
        BY <2>2, <3>2, <3>3 DEF LastNamed
      <3>5. QED
        BY <1>3, <3>4 DEF more
    <2>3. QED
      BY <2>1, <2>2
  <1>4. QED
    BY <1>2, <1>3

LEMMA InitializeKeepsClientInv ==
    ASSUME ClientInv, NEW params \in Announcement, initialize(params) PROVE ClientInv'
  <1> DEFINE h == params.senderServer
  <1>1. /\ inbox # <<>> /\ UNCHANGED <<transport, socket>>
        /\ transport = "websocket"
    BY DEF initialize, Received, ClientInv
  <1>2. h \in Host \union {BadHost, NoHost} /\ BadHost # NoHost
    BY ServerClientAssumption DEF ServerClientAssumption, AnnouncementType
  <1> HIDE DEF h
  <1>3. CASE InitializeInvalid(params)
    BY <1>1, <1>3 DEF ClientInv, InitializeInvalid, state
  <1>4. CASE InitializeBadHost(params)
    <2>1. UNCHANGED <<httpClient, accepted>> /\ senderServer' # NoHost
      BY <1>2, <1>4 DEF InitializeBadHost, h
    <2>2. QED
      BY <1>1, <2>1 DEF ClientInv
  <1>5. CASE InitializeValid(params)
    <2>1. /\ h \in MaybeHost
          /\ httpClient' = (IF h # NoHost THEN h ELSE httpClient)
          /\ senderServer' = (IF h # NoHost THEN h ELSE senderServer)
          /\ accepted' = Append(accepted, h)
      BY <1>2, <1>5 DEF InitializeValid, ClientFor, MaybeHost, h
    <2>2. /\ accepted \in Seq(MaybeHost) /\ httpClient \in MaybeHost
          /\ LastNamed(httpClient, accepted)
          /\ senderServer = NoHost => httpClient = NoHost
      BY <1>1 DEF ClientInv
    <2>3. LastNamed(httpClient', accepted')
      BY <2>1, <2>2, LastNamedOfLonger
    <2>4. accepted' \in Seq(MaybeHost) /\ httpClient' \in MaybeHost
      BY <2>1, <2>2
    <2>5. senderServer' = NoHost => httpClient' = NoHost
      BY <2>1, <2>2
    <2>6. QED
      BY <1>1, <2>3, <2>4, <2>5 DEF ClientInv
  <1>6. QED
    BY <1>3, <1>4, <1>5 DEF initialize

LEMMA StepKeepsClientInv == ASSUME ClientInv, [Next]_vars PROVE ClientInv'
  <1>1. ASSUME NEW params \in Announcement, initialize(params) PROVE ClientInv'
    BY <1>1, InitializeKeepsClientInv
  <1>2. ASSUME UNCHANGED <<transport, state>>,
               transport = "http" => socket' = "none" /\ inbox' = <<>>
        PROVE  ClientInv'
    BY <1>2 DEF ClientInv, state
  <1>3. CASE Connected \/ ConnectionFails \/ ConnectionLost \/ MarketMaker
    BY <1>2, <1>3 DEF ClientInv, Connected, ConnectionFails, ConnectionLost, MarketMaker, Send
  <1>4. CASE InitTimeout \/ disconnect
    BY <1>2, <1>4 DEF ClientInv, InitTimeout, disconnect, Disconnected
  <1>5. ASSUME NEW price, NEW valid, updatePricing(price, valid) PROVE ClientInv'
    BY <1>2, <1>5 DEF ClientInv, updatePricing, Received
  <1>6. ASSUME NEW price, NEW c \in Call, webSocketResponse(c, price) PROVE ClientInv'
    BY <1>2, <1>6 DEF ClientInv, webSocketResponse, Received
  <1>7. CASE UNCHANGED <<transport, state, socket, inbox>>
    BY <1>2, <1>7 DEF ClientInv
  <1>8. QED
    BY <1>1, <1>3, <1>4, <1>5, <1>6, <1>7 DEF Next, vars, CallMethod, Continue, CallTimeout,
       httpCallback, Listen

-----------------------------------------------------------------------------
(***************************************************************************)
(* The order of prices.  A price is on its way in the inbox, then perhaps  *)
(* the answer of a call whose continuation has not run, then heard.  The   *)
(* invariant says that all of these together are in the order in which     *)
(* they were sent.  It needs the types of messages and calls, and Turn:    *)
(* at most one call is answered, and no handler runs before it continues.  *)
(***************************************************************************)
Message ==
    [type: {"initialize"}, params: Announcement]
        \union [type: {"updatePricing"}, price: Nat, valid: BOOLEAN]
        \union [type: {"response"}, call: Call, price: Nat]

Priced(message) == message.type # "initialize"

CallType ==
    [method: Method \union {"none"}, via: {"none", "http", "websocket"}, price: Nat,
     host: MaybeHost,
     status: {"none", "pending", "answered", "fulfilled", "rejected", "unsettled"}]

OrderTypeOK ==
    /\ inbox \in Seq(Message)
    /\ heard \in Seq(Nat)
    /\ sent \in Nat
    /\ calls \in [Call -> CallType]

Answered(c) == calls[c].status = "answered"

InboxInOrder ==
    /\ \A i \in DOMAIN inbox : Priced(inbox[i]) => inbox[i].price <= sent
    /\ \A i, j \in DOMAIN inbox :
         i < j /\ Priced(inbox[i]) /\ Priced(inbox[j]) => inbox[i].price < inbox[j].price

HeardBeforeInbox ==
    \A k \in DOMAIN heard :
        /\ heard[k] <= sent
        /\ \A i \in DOMAIN inbox : Priced(inbox[i]) => heard[k] < inbox[i].price

AnswerIsNext ==
    \A c \in Call : Answered(c) =>
        /\ calls[c].price <= sent
        /\ \A k \in DOMAIN heard : heard[k] < calls[c].price
        /\ \A i \in DOMAIN inbox : Priced(inbox[i]) => calls[c].price < inbox[i].price
        /\ \A d \in Call : Answered(d) => d = c

OrderInv ==
    OrderTypeOK /\ InboxInOrder /\ HeardBeforeInbox /\ AnswerIsNext /\ PricesInOrder

LEMMA OrderInit == Init => OrderInv
  <1> SUFFICES ASSUME Init PROVE OrderInv
    OBVIOUS
  <1>1. OrderTypeOK
    <2>1. NoCall \in CallType
      BY DEF NoCall, CallType, MaybeHost
    <2>2. <<>> \in Seq(Message) /\ <<>> \in Seq(Nat)
      OBVIOUS
    <2>3. QED
      BY <2>1, <2>2 DEF Init, OrderTypeOK
  <1>2. inbox = <<>> /\ heard = <<>> /\ \A c \in Call : ~Answered(c)
    BY DEF Init, Answered, NoCall
  <1>3. QED
    BY <1>1, <1>2 DEF OrderInv, InboxInOrder, HeardBeforeInbox, AnswerIsNext, PricesInOrder

(* What becomes of the inbox when its first message is handled. *)
LEMMA TailOfInbox ==
    ASSUME OrderTypeOK, NEW m, Received(m)
    PROVE  /\ m \in Message
           /\ inbox' \in Seq(Message)
           /\ 1 \in DOMAIN inbox /\ inbox[1] = m
           /\ \A i \in DOMAIN inbox' : i + 1 \in DOMAIN inbox /\ inbox'[i] = inbox[i + 1]
  BY DEF OrderTypeOK, Received

(* Handling a message keeps the order of the rest, and its price, if it    *)
(* has one, is after what was heard and before what is left.               *)
LEMMA ReceivingKeepsOrder ==
    ASSUME OrderInv, NEW m, Received(m), sent' = sent
    PROVE  /\ inbox' \in Seq(Message)
           /\ InboxInOrder'
           /\ \A k \in DOMAIN heard, i \in DOMAIN inbox' :
                 Priced(inbox'[i]) => heard[k] < inbox'[i].price
           /\ \A c \in Call : Answered(c) =>
                 \A i \in DOMAIN inbox' : Priced(inbox'[i]) => calls[c].price < inbox'[i].price
           /\ Priced(m) =>
                 /\ m.price \in Nat /\ m.price <= sent
                 /\ \A k \in DOMAIN heard : heard[k] < m.price
                 /\ \A i \in DOMAIN inbox' : Priced(inbox'[i]) => m.price < inbox'[i].price
  <1>1. /\ m \in Message
        /\ inbox' \in Seq(Message)
        /\ 1 \in DOMAIN inbox /\ inbox[1] = m
        /\ \A i \in DOMAIN inbox' : i + 1 \in DOMAIN inbox /\ inbox'[i] = inbox[i + 1]
    BY TailOfInbox DEF OrderInv
  <1>2. \A i \in DOMAIN inbox' : i \in Nat /\ i > 0
    BY <1>1
  <1>3. InboxInOrder'
    <2>1. \A i \in DOMAIN inbox' : Priced(inbox'[i]) => inbox'[i].price <= sent
      BY <1>1 DEF OrderInv, InboxInOrder
    <2>2. \A i, j \in DOMAIN inbox' :
             i < j /\ Priced(inbox'[i]) /\ Priced(inbox'[j]) => inbox'[i].price < inbox'[j].price
      <3> SUFFICES ASSUME NEW i \in DOMAIN inbox', NEW j \in DOMAIN inbox', i < j,
                          Priced(inbox'[i]), Priced(inbox'[j])
                   PROVE  inbox'[i].price < inbox'[j].price
        OBVIOUS
      <3>1. i + 1 < j + 1
        BY <1>2
      <3>2. QED
        BY <1>1, <3>1 DEF OrderInv, InboxInOrder
    <2>3. QED
      BY <2>1, <2>2 DEF InboxInOrder, Priced
  <1>4. \A k \in DOMAIN heard, i \in DOMAIN inbox' :
           Priced(inbox'[i]) => heard[k] < inbox'[i].price
    BY <1>1 DEF OrderInv, HeardBeforeInbox
  <1>5. \A c \in Call : Answered(c) =>
           \A i \in DOMAIN inbox' : Priced(inbox'[i]) => calls[c].price < inbox'[i].price
    BY <1>1 DEF OrderInv, AnswerIsNext
  <1>6. ASSUME Priced(m)
        PROVE  /\ m.price \in Nat /\ m.price <= sent
               /\ \A k \in DOMAIN heard : heard[k] < m.price
               /\ \A i \in DOMAIN inbox' : Priced(inbox'[i]) => m.price < inbox'[i].price
    <2>1. m.price \in Nat
      BY <1>1, <1>6 DEF Message, Priced
    <2>2. m.price <= sent /\ \A k \in DOMAIN heard : heard[k] < m.price
      BY <1>1, <1>6 DEF OrderInv, InboxInOrder, HeardBeforeInbox
    <2>3. \A i \in DOMAIN inbox' : 1 < i + 1
      BY <1>2
    <2>4. \A i \in DOMAIN inbox' : Priced(inbox'[i]) => m.price < inbox'[i].price
      BY <1>1, <1>6, <2>3 DEF OrderInv, InboxInOrder
    <2>5. QED
      BY <2>1, <2>2, <2>4
  <1>7. QED
    BY <1>1, <1>3, <1>4, <1>5, <1>6

(* A price that is after all that was heard, and that the inbox is after,  *)
(* may be emitted, when no call is answered any more.                      *)
LEMMA EmittingKeepsOrder ==
    ASSUME OrderInv, NEW price \in Nat, price <= sent,
           \A k \in DOMAIN heard : heard[k] < price,
           inbox' \in Seq(Message), sent' = sent, InboxInOrder',
           \A k \in DOMAIN heard, i \in DOMAIN inbox' :
              Priced(inbox'[i]) => heard[k] < inbox'[i].price,
           \A i \in DOMAIN inbox' : Priced(inbox'[i]) => price < inbox'[i].price,
           heard' = Emitted(price),
           calls' \in [Call -> CallType], \A c \in Call : ~Answered(c)'
    PROVE  OrderInv'
  <1>1. heard \in Seq(Nat) /\ sent \in Nat
    BY DEF OrderInv, OrderTypeOK
  <1>2. heard' = heard \/ heard' = Append(heard, price)
    BY DEF Emitted
  <1>3. /\ heard' \in Seq(Nat)
        /\ \A k \in DOMAIN heard' : \/ k \in DOMAIN heard /\ heard'[k] = heard[k]
                                    \/ k = Len(heard) + 1 /\ heard'[k] = price
    <2>1. CASE heard' = heard
      BY <1>1, <2>1
    <2>2. CASE heard' = Append(heard, price)
      BY <1>1, <2>2
    <2>3. QED
      BY <1>2, <2>1, <2>2
  <1>4. HeardBeforeInbox'
    BY <1>3 DEF OrderInv, HeardBeforeInbox, Priced
  <1>5. PricesInOrder'
    <2>1. CASE heard' = heard
      BY <2>1 DEF OrderInv, PricesInOrder
    <2>2. CASE heard' = Append(heard, price)
      <3> SUFFICES ASSUME NEW i \in 1..(Len(heard') - 1) PROVE heard'[i] < heard'[i + 1]
        BY DEF PricesInOrder
      <3>1. Len(heard') = Len(heard) + 1 /\ i \in DOMAIN heard /\ heard'[i] = heard[i]
        BY <1>1, <2>2
      <3>2. CASE i = Len(heard)
        BY <1>1, <2>2, <3>1, <3>2
      <3>3. CASE i # Len(heard)
        <4>1. i \in 1..(Len(heard) - 1) /\ heard'[i + 1] = heard[i + 1]
          BY <1>1, <2>2, <3>1, <3>3
        <4>2. QED
          BY <3>1, <4>1 DEF OrderInv, PricesInOrder
      <3>4. QED
        BY <3>2, <3>3
    <2>3. QED
      BY <1>2, <2>1, <2>2
  <1>6. QED
    BY <1>1, <1>3, <1>4, <1>5 DEF OrderInv, OrderTypeOK, AnswerIsNext

(* Steps that leave what was heard, and answer no call. *)
LEMMA QuietStepKeepsOrder ==
    ASSUME OrderInv, UNCHANGED <<heard, sent>>, calls' \in [Call -> CallType],
           inbox' \in Seq(Message), InboxInOrder',
           \A k \in DOMAIN heard, i \in DOMAIN inbox' :
              Priced(inbox'[i]) => heard[k] < inbox'[i].price,
           \A c \in Call : Answered(c) =>
              \A i \in DOMAIN inbox' : Priced(inbox'[i]) => calls[c].price < inbox'[i].price,
           \A c \in Call : Answered(c)' => Answered(c) /\ calls'[c] = calls[c]
    PROVE  OrderInv'
  <1>1. OrderTypeOK' /\ PricesInOrder'
    BY DEF OrderInv, OrderTypeOK, PricesInOrder
  <1>2. HeardBeforeInbox'
    BY DEF OrderInv, HeardBeforeInbox, Priced
  <1>3. AnswerIsNext'
    BY DEF OrderInv, AnswerIsNext, Priced
  <1>4. QED
    BY <1>1, <1>2, <1>3 DEF OrderInv

(* In particular steps that change the inbox at most by losing it.         *)
LEMMA LosingKeepsOrder ==
    ASSUME OrderInv, UNCHANGED <<heard, sent>>, inbox' \in {inbox, <<>>},
           calls' \in [Call -> CallType],
           \A c \in Call : Answered(c)' => Answered(c) /\ calls'[c] = calls[c]
    PROVE  OrderInv'
  <1>1. inbox' \in Seq(Message)
    <2>1. inbox \in Seq(Message) /\ <<>> \in Seq(Message)
      BY DEF OrderInv, OrderTypeOK
    <2>2. QED
      BY <2>1
  <1>2. DOMAIN inbox' \subseteq DOMAIN inbox /\ \A i \in DOMAIN inbox' : inbox'[i] = inbox[i]
    OBVIOUS
  <1>3. InboxInOrder'
    BY <1>2 DEF OrderInv, InboxInOrder, Priced
  <1>4. QED
    BY <1>1, <1>2, <1>3, QuietStepKeepsOrder DEF OrderInv, HeardBeforeInbox, AnswerIsNext

(* A price or an answer that is sent is later than all before it.          *)
LEMMA SendingKeepsOrder ==
    ASSUME OrderInv, NEW m \in Message, Send(m), Priced(m) => m.price = sent + 1
    PROVE  OrderInv'
  <1>1. /\ inbox \in Seq(Message) /\ heard \in Seq(Nat) /\ sent \in Nat
        /\ calls \in [Call -> CallType]
    BY DEF OrderInv, OrderTypeOK
  <1>2. inbox' = Append(inbox, m) /\ sent' = sent + 1 /\ UNCHANGED <<heard, calls>>
    BY DEF Send
  <1>3. /\ inbox' \in Seq(Message)
        /\ \A i \in DOMAIN inbox' : \/ i \in DOMAIN inbox /\ inbox'[i] = inbox[i]
                                    \/ i = Len(inbox) + 1 /\ inbox'[i] = m
    BY <1>1, <1>2
  <1>4. \A i \in DOMAIN inbox : i \in Nat /\ i <= Len(inbox)
    BY <1>1
  <1>5. \A i \in DOMAIN inbox : Priced(inbox[i]) => inbox[i].price \in Nat /\ inbox[i].price <= sent
    <2>1. \A i \in DOMAIN inbox : inbox[i] \in Message
      BY <1>1
    <2>2. QED
      BY <2>1 DEF OrderInv, InboxInOrder, Message, Priced
  <1>6. InboxInOrder'
    <2>1. \A i \in DOMAIN inbox' : Priced(inbox'[i]) => inbox'[i].price <= sent'
      BY <1>1, <1>2, <1>3, <1>5
    <2>2. ASSUME NEW i \in DOMAIN inbox', NEW j \in DOMAIN inbox', i < j,
                 Priced(inbox'[i]), Priced(inbox'[j])
          PROVE  inbox'[i].price < inbox'[j].price
      <3>1. i \in DOMAIN inbox /\ inbox'[i] = inbox[i]
        BY <1>1, <1>2, <1>3, <2>2
      <3>2. CASE j \in DOMAIN inbox /\ inbox'[j] = inbox[j]
        BY <3>1, <3>2, <2>2 DEF OrderInv, InboxInOrder
      <3>3. CASE inbox'[j] = m
        BY <1>1, <1>5, <3>1, <3>3, <2>2
      <3>4. QED
        BY <1>3, <3>2, <3>3
    <2>3. QED
      BY <2>1, <2>2 DEF InboxInOrder, Priced
  <1>7. HeardBeforeInbox'
    <2>1. \A k \in DOMAIN heard : heard[k] \in Nat /\ heard[k] <= sent
      BY <1>1 DEF OrderInv, HeardBeforeInbox
    <2>2. \A k \in DOMAIN heard : heard[k] <= sent'
      BY <1>1, <1>2, <2>1
    <2>3. ASSUME NEW k \in DOMAIN heard, NEW i \in DOMAIN inbox', Priced(inbox'[i])
          PROVE  heard[k] < inbox'[i].price
      <3>1. CASE i \in DOMAIN inbox /\ inbox'[i] = inbox[i]
        BY <2>3, <3>1 DEF OrderInv, HeardBeforeInbox
      <3>2. CASE inbox'[i] = m
        BY <1>1, <2>1, <2>3, <3>2
      <3>3. QED
        BY <1>3, <3>1, <3>2
    <2>4. QED
      BY <1>2, <2>2, <2>3 DEF HeardBeforeInbox, Priced
  <1>8. AnswerIsNext'
    <2> SUFFICES ASSUME NEW c \in Call, Answered(c)
                 PROVE  /\ calls[c].price <= sent'
                        /\ \A i \in DOMAIN inbox' :
                              Priced(inbox'[i]) => calls[c].price < inbox'[i].price
      BY <1>2 DEF OrderInv, AnswerIsNext, Answered, Priced
    <2>1. calls[c].price \in Nat /\ calls[c].price <= sent
      BY <1>1 DEF OrderInv, AnswerIsNext, CallType
    <2>2. calls[c].price <= sent'
      BY <1>1, <1>2, <2>1
    <2>3. ASSUME NEW i \in DOMAIN inbox', Priced(inbox'[i])
          PROVE  calls[c].price < inbox'[i].price
      <3>1. CASE i \in DOMAIN inbox /\ inbox'[i] = inbox[i]
        BY <2>3, <3>1 DEF OrderInv, AnswerIsNext
      <3>2. CASE inbox'[i] = m
        BY <1>1, <2>1, <2>3, <3>2
      <3>3. QED
        BY <1>3, <3>1, <3>2
    <2>4. QED
      BY <2>2, <2>3
  <1>9. OrderTypeOK' /\ PricesInOrder'
    BY <1>1, <1>2, <1>3 DEF OrderInv, OrderTypeOK, PricesInOrder
  <1>10. QED
    BY <1>6, <1>7, <1>8, <1>9 DEF OrderInv

(* One lemma for each kind of step.                                        *)
LEMMA NoCallAnswered == ASSUME Turn PROVE \A c \in Call : ~Answered(c)
  BY DEF Turn, Answered

LEMMA ContinuingKeepsOrder ==
    ASSUME OrderInv, NEW c \in Call, Continue(c) PROVE OrderInv'
  <1>1. /\ inbox \in Seq(Message) /\ heard \in Seq(Nat) /\ sent \in Nat
        /\ calls \in [Call -> CallType] /\ calls[c] \in CallType
    BY DEF OrderInv, OrderTypeOK
  <1>2. UNCHANGED <<inbox, sent>> /\ Answered(c)
    BY DEF Continue, Answered
  <1>3. calls' = [calls EXCEPT ![c].status = "fulfilled"]
    BY DEF Continue
  <1>4. calls' \in [Call -> CallType]
    <2>1. [calls[c] EXCEPT !.status = "fulfilled"] \in CallType
      BY <1>1 DEF CallType
    <2>2. QED
      BY <1>1, <1>3, <2>1
  <1>5. \A d \in Call : ~Answered(d)'
    BY <1>1, <1>2, <1>3 DEF OrderInv, AnswerIsNext, Answered, CallType
  <1>6. /\ calls[c].price \in Nat /\ calls[c].price <= sent
        /\ \A k \in DOMAIN heard : heard[k] < calls[c].price
        /\ \A i \in DOMAIN inbox : Priced(inbox[i]) => calls[c].price < inbox[i].price
    BY <1>1, <1>2 DEF OrderInv, AnswerIsNext, CallType
  <1>7. /\ inbox' \in Seq(Message) /\ sent' = sent /\ InboxInOrder'
        /\ \A k \in DOMAIN heard, i \in DOMAIN inbox' :
              Priced(inbox'[i]) => heard[k] < inbox'[i].price
        /\ \A i \in DOMAIN inbox' : Priced(inbox'[i]) => calls[c].price < inbox'[i].price
    BY <1>1, <1>2, <1>6 DEF OrderInv, InboxInOrder, HeardBeforeInbox, Priced
  <1>8. CASE calls[c].method = "subscribe"
    <2>1. heard' = Emitted(calls[c].price)
      BY <1>8 DEF Continue
    <2>2. QED
      BY <1>4, <1>5, <1>6, <1>7, <2>1, EmittingKeepsOrder
  <1>9. CASE calls[c].method # "subscribe"
    <2>1. heard' = heard
      BY <1>9 DEF Continue
    <2>2. QED
      BY <1>4, <1>5, <1>2, <2>1, LosingKeepsOrder
  <1>10. QED
    BY <1>8, <1>9

LEMMA AnsweringKeepsOrder ==
    ASSUME OrderInv, NEW c \in Call, NEW price \in Nat, webSocketResponse(c, price)
    PROVE  OrderInv'
  <1> DEFINE m == [type |-> "response", call |-> c, price |-> price]
  <1>1. /\ inbox \in Seq(Message) /\ heard \in Seq(Nat) /\ sent \in Nat
        /\ calls \in [Call -> CallType] /\ calls[c] \in CallType
    BY DEF OrderInv, OrderTypeOK
  <1>2. Received(m) /\ UNCHANGED <<heard, sent>> /\ \A d \in Call : ~Answered(d)
    BY NoCallAnswered DEF webSocketResponse
  <1>3. Priced(m) /\ m.price = price
    BY DEF Priced
  <1>4. /\ inbox' \in Seq(Message)
        /\ InboxInOrder'
        /\ \A k \in DOMAIN heard, i \in DOMAIN inbox' :
              Priced(inbox'[i]) => heard[k] < inbox'[i].price
        /\ price <= sent
        /\ \A k \in DOMAIN heard : heard[k] < price
        /\ \A i \in DOMAIN inbox' : Priced(inbox'[i]) => price < inbox'[i].price
    <2> HIDE DEF m
    <2>1. QED
      BY <1>2, <1>3, ReceivingKeepsOrder
  <1>5. CASE calls[c].status # "pending"
    <2>1. calls' = calls
      BY <1>5 DEF webSocketResponse
    <2>2. QED
      BY <1>1, <1>2, <1>4, <2>1, QuietStepKeepsOrder DEF Answered
  <1>6. CASE calls[c].status = "pending"
    <2>1. calls' = [calls EXCEPT ![c].status = "answered", ![c].price = price]
      BY <1>6 DEF webSocketResponse
    <2>2. [calls[c] EXCEPT !.status = "answered", !.price = price] \in CallType
      BY <1>1 DEF CallType
    <2>3. calls' \in [Call -> CallType]
      BY <1>1, <2>1, <2>2
    <2>4. /\ calls'[c].price = price
          /\ \A d \in Call \ {c} : calls'[d] = calls[d]
      BY <1>1, <2>1 DEF CallType
    <2>5. \A d \in Call : Answered(d)' => d = c
      BY <1>2, <2>4 DEF Answered
    <2>6. AnswerIsNext'
      BY <1>2, <1>4, <2>4, <2>5 DEF AnswerIsNext, Priced
    <2>7. HeardBeforeInbox' /\ PricesInOrder' /\ OrderTypeOK'
      BY <1>1, <1>2, <1>4, <2>3
         DEF OrderInv, OrderTypeOK, HeardBeforeInbox, PricesInOrder, Priced
    <2>8. QED
      BY <1>4, <2>6, <2>7 DEF OrderInv
  <1>7. QED
    BY <1>5, <1>6

LEMMA PricingKeepsOrder ==
    ASSUME OrderInv, NEW price \in Nat, NEW valid \in BOOLEAN, updatePricing(price, valid)
    PROVE  OrderInv'
  <1> DEFINE m == [type |-> "updatePricing", price |-> price, valid |-> valid]
  <1>1. Received(m) /\ UNCHANGED <<calls, sent>> /\ \A c \in Call : ~Answered(c)
    BY NoCallAnswered DEF updatePricing
  <1>2. Priced(m) /\ m.price = price
    BY DEF Priced
  <1>3. /\ inbox' \in Seq(Message)
        /\ InboxInOrder'
        /\ \A k \in DOMAIN heard, i \in DOMAIN inbox' :
              Priced(inbox'[i]) => heard[k] < inbox'[i].price
        /\ price <= sent
        /\ \A k \in DOMAIN heard : heard[k] < price
        /\ \A i \in DOMAIN inbox' : Priced(inbox'[i]) => price < inbox'[i].price
    <2> HIDE DEF m
    <2>1. QED
      BY <1>1, <1>2, ReceivingKeepsOrder
  <1>4. calls' \in [Call -> CallType] /\ \A c \in Call : ~Answered(c)'
    BY <1>1 DEF OrderInv, OrderTypeOK, Answered
  <1>5. CASE valid
    <2>1. heard' = Emitted(price)
      BY <1>5 DEF updatePricing
    <2>2. QED
      BY <1>1, <1>3, <1>4, <2>1, EmittingKeepsOrder
  <1>6. CASE ~valid
    <2>1. heard' = heard
      BY <1>6 DEF updatePricing
    <2>2. QED
      BY <1>1, <1>3, <1>4, <2>1, QuietStepKeepsOrder
  <1>7. QED
    BY <1>5, <1>6

LEMMA InitializingKeepsOrder ==
    ASSUME OrderInv, NEW params \in Announcement, initialize(params)
    PROVE  OrderInv'
  <1> DEFINE m == [type |-> "initialize", params |-> params]
  <1>1. Received(m) /\ UNCHANGED <<calls, heard, sent>> /\ \A c \in Call : ~Answered(c)
    BY NoCallAnswered DEF initialize
  <1>2. /\ inbox' \in Seq(Message)
        /\ InboxInOrder'
        /\ \A k \in DOMAIN heard, i \in DOMAIN inbox' :
              Priced(inbox'[i]) => heard[k] < inbox'[i].price
    <2> HIDE DEF m
    <2>1. QED
      BY <1>1, ReceivingKeepsOrder
  <1>3. calls' \in [Call -> CallType] /\ \A c \in Call : ~Answered(c)'
    BY <1>1 DEF OrderInv, OrderTypeOK, Answered
  <1>4. QED
    BY <1>1, <1>2, <1>3, QuietStepKeepsOrder

(* A call that is made, or rejected, or called back over HTTP.             *)
LEMMA CallingKeepsOrder ==
    ASSUME OrderInv, ClientInv, NEW c \in Call, UNCHANGED <<heard, sent, inbox>>,
           \/ \E method \in Method : CallMethod(c, method)
           \/ CallTimeout(c)
           \/ \E reply \in Reply : httpCallback(c, reply)
    PROVE  OrderInv'
  <1>1. calls \in [Call -> CallType] /\ calls[c] \in CallType
    BY DEF OrderInv, OrderTypeOK
  <1>2. \E call \in CallType : call.status # "answered" /\ calls' = [calls EXCEPT ![c] = call]
    <2>1. ASSUME NEW method \in Method, CallMethod(c, method)
          PROVE  \E call \in CallType :
                    call.status # "answered" /\ calls' = [calls EXCEPT ![c] = call]
      <3> DEFINE call == callRPCMethod(method)
      <3>1. call \in CallType /\ call.status # "answered"
        BY DEF CallType, Via, callRPCMethod, ClientInv, MaybeHost
      <3>2. calls' = [calls EXCEPT ![c] = call]
        BY <2>1 DEF CallMethod
      <3>3. QED
        BY <3>1, <3>2
    <2>2. ASSUME NEW status \in {"rejected", "fulfilled", "unsettled"},
                 calls' = [calls EXCEPT ![c].status = status]
          PROVE  \E call \in CallType :
                    call.status # "answered" /\ calls' = [calls EXCEPT ![c] = call]
      <3> DEFINE call == [calls[c] EXCEPT !.status = status]
      <3>1. call \in CallType /\ call.status # "answered"
        BY <1>1 DEF CallType
      <3>2. calls' = [calls EXCEPT ![c] = call]
        BY <2>2
      <3>3. QED
        BY <3>1, <3>2
    <2>3. CASE CallTimeout(c)
      BY <2>2, <2>3 DEF CallTimeout
    <2>4. ASSUME NEW reply \in Reply, httpCallback(c, reply)
          PROVE  \E call \in CallType :
                    call.status # "answered" /\ calls' = [calls EXCEPT ![c] = call]
      <3>1. HttpOutcome(c, reply) \subseteq {"rejected", "fulfilled", "unsettled"}
        BY DEF HttpOutcome
      <3>2. PICK outcome \in {"rejected", "fulfilled", "unsettled"} :
                calls' = [calls EXCEPT ![c].status = outcome]
        BY <2>4, <3>1 DEF httpCallback
      <3>3. QED
        BY <2>2, <3>2
    <2>5. QED
      BY <2>1, <2>3, <2>4
  <1>3. /\ calls' \in [Call -> CallType]
        /\ \A d \in Call : Answered(d)' => Answered(d) /\ calls'[d] = calls[d]
    BY <1>1, <1>2 DEF Answered
  <1>4. QED
    BY <1>3, LosingKeepsOrder

LEMMA MarketMakerKeepsOrder == ASSUME OrderInv, MarketMaker PROVE OrderInv'
  <1>1. sent + 1 \in Nat
    BY DEF OrderInv, OrderTypeOK
  <1>2. ASSUME NEW params \in Announcement, Send([type |-> "initialize", params |-> params])
        PROVE  OrderInv'
    <2> DEFINE m == [type |-> "initialize", params |-> params]
    <2>1. m \in Message /\ ~Priced(m)
      BY DEF Message, Priced
    <2> HIDE DEF m
    <2>2. QED
      BY <1>2, <2>1, SendingKeepsOrder DEF m
  <1>3. ASSUME NEW valid \in BOOLEAN,
               Send([type |-> "updatePricing", price |-> sent + 1, valid |-> valid])
        PROVE  OrderInv'
    <2> DEFINE m == [type |-> "updatePricing", price |-> sent + 1, valid |-> valid]
    <2>1. m \in Message /\ m.price = sent + 1
      BY <1>1 DEF Message
    <2>2. Send(m)
      BY <1>3
    <2> HIDE DEF m
    <2>3. QED
      BY <2>1, <2>2, SendingKeepsOrder
  <1>4. ASSUME NEW c \in Call, Send([type |-> "response", call |-> c, price |-> sent + 1])
        PROVE  OrderInv'
    <2> DEFINE m == [type |-> "response", call |-> c, price |-> sent + 1]
    <2>1. m \in Message /\ m.price = sent + 1
      BY <1>1 DEF Message
    <2>2. Send(m)
      BY <1>4
    <2> HIDE DEF m
    <2>3. QED
      BY <2>1, <2>2, SendingKeepsOrder
  <1>5. QED
    BY <1>2, <1>3, <1>4 DEF MarketMaker

LEMMA StepKeepsOrder == ASSUME OrderInv, ClientInv, [Next]_vars PROVE OrderInv'
  <1>1. calls \in [Call -> CallType]
    BY DEF OrderInv, OrderTypeOK
  <1>2. CASE \/ Connected \/ ConnectionFails \/ ConnectionLost \/ InitTimeout
             \/ Listen \/ disconnect \/ UNCHANGED vars
    <2>1. UNCHANGED <<heard, sent, calls>> /\ inbox' \in {inbox, <<>>}
      BY <1>2 DEF Connected, ConnectionFails, ConnectionLost, InitTimeout, Listen, disconnect,
                  Disconnected, vars
    <2>2. QED
      BY <1>1, <2>1, LosingKeepsOrder DEF Answered
  <1>3. ASSUME NEW params \in Announcement, initialize(params) PROVE OrderInv'
    BY <1>3, InitializingKeepsOrder
  <1>4. ASSUME NEW price \in 1..MaxMessages, NEW valid \in BOOLEAN, updatePricing(price, valid)
        PROVE  OrderInv'
    BY <1>4, PricingKeepsOrder
  <1>5. ASSUME NEW price \in 1..MaxMessages, NEW c \in Call, webSocketResponse(c, price)
        PROVE  OrderInv'
    BY <1>5, AnsweringKeepsOrder
  <1>6. ASSUME NEW c \in Call, \/ \E method \in Method : CallMethod(c, method)
                               \/ CallTimeout(c)
                               \/ \E reply \in Reply : httpCallback(c, reply)
        PROVE  OrderInv'
    <2>1. UNCHANGED <<heard, sent, inbox>>
      BY <1>6 DEF CallMethod, CallTimeout, httpCallback
    <2>2. QED
      BY <1>6, <2>1, CallingKeepsOrder
  <1>7. ASSUME NEW c \in Call, Continue(c) PROVE OrderInv'
    BY <1>7, ContinuingKeepsOrder
  <1>8. CASE MarketMaker
    BY <1>8, MarketMakerKeepsOrder
  <1>9. QED
    BY <1>2, <1>3, <1>4, <1>5, <1>6, <1>7, <1>8 DEF Next

(* Whatever is subscribed, lost, reordered by continuations or timed out,  *)
(* the listener hears the prices in the order in which they were sent.     *)
THEOREM PricesArriveInOrder == Spec => []PricesInOrder
  <1>1. OrderInv => PricesInOrder
    BY DEF OrderInv
  <1>2. QED
    BY <1>1, ClientInit, OrderInit, StepKeepsClientInv, StepKeepsOrder, PTL DEF Spec

-----------------------------------------------------------------------------
(* A step by which a call comes to be a consider is the call of consider.  *)
LEMMA SentConsider ==
    ASSUME OrderInv, ClientInv, [Next]_vars, NEW c \in Call, calls[c] = NoCall,
           calls'[c].method = "consider", calls'[c].status = "pending"
    PROVE  LastNamed(calls'[c].host, accepted)
  <1>1. calls \in [Call -> CallType]
    BY DEF OrderInv, OrderTypeOK
  <1>2. calls[c].method = "none" /\ calls[c].status = "none"
    BY DEF NoCall
  <1>3. ASSUME NEW d \in Call, calls[d].status # "none", NEW call,
               calls' = [calls EXCEPT ![d] = call]
        PROVE  FALSE
    BY <1>1, <1>2, <1>3
  <1>4. CASE UNCHANGED calls
    BY <1>2, <1>4
  <1>5. ASSUME NEW d \in Call, Continue(d) \/ CallTimeout(d) PROVE FALSE
    BY <1>3, <1>5 DEF Continue, CallTimeout
  <1>6. ASSUME NEW d \in Call, NEW reply \in Reply, httpCallback(d, reply) PROVE FALSE
    BY <1>3, <1>6 DEF httpCallback
  <1>7. ASSUME NEW d \in Call, NEW price \in 1..MaxMessages, webSocketResponse(d, price)
        PROVE  FALSE
    <2>1. CASE calls[d].status = "pending"
      BY <1>3, <1>7, <2>1 DEF webSocketResponse
    <2>2. CASE calls[d].status # "pending"
      BY <1>2, <1>7, <2>2 DEF webSocketResponse
    <2>3. QED
      BY <2>1, <2>2
  <1>8. ASSUME NEW d \in Call, NEW method \in Method, CallMethod(d, method)
        PROVE  LastNamed(calls'[c].host, accepted)
    <2>1. calls' = [calls EXCEPT ![d] = callRPCMethod(method)] /\ RequireSupport(method)
      BY <1>8 DEF CallMethod
    <2>2. calls'[c] = callRPCMethod(method)
      BY <1>1, <1>2, <2>1
    <2>3. /\ method = "consider"
          /\ calls'[c].host = IF Via(method) = "http" THEN httpClient ELSE NoHost
      BY <2>2 DEF callRPCMethod
    <2>4. transport = "websocket"
      <3>1. "last-look" \in supportedProtocols
        BY <2>1, <2>3 DEF RequireSupport, requiredProtocol, supportsProtocol
      <3>2. QED
        BY <3>1 DEF ClientInv
    <2>5. calls'[c].host = httpClient
      BY <2>3, <2>4 DEF Via, ClientInv
    <2>6. QED
      BY <2>4, <2>5 DEF ClientInv
  <1>9. QED
    BY <1>4, <1>5, <1>6, <1>7, <1>8 DEF Next, vars, Connected, ConnectionFails, ConnectionLost,
       InitTimeout, initialize, updatePricing, Listen, disconnect, MarketMaker, Send

(* Every consider that is sent goes to the sender server that was named    *)
(* last by an initialization that succeeded, whatever else the market      *)
(* maker announces, before or after, with or without success; and over the *)
(* socket only if no initialization that succeeded has named one.          *)
THEOREM ConsiderIsDelivered == Spec => ConsiderGoesToSenderServer
  <1> DEFINE Delivered ==
        \A c \in Call :
          calls[c] = NoCall /\ calls'[c].method = "consider" /\ calls'[c].status = "pending" =>
              LastNamed(calls'[c].host, accepted)
  <1>1. OrderInv /\ ClientInv /\ [Next]_vars => [Delivered]_vars
    BY SentConsider
  <1>2. QED
    BY <1>1, ClientInit, OrderInit, StepKeepsClientInv, StepKeepsOrder, PTL
       DEF Spec, ConsiderGoesToSenderServer
=============================================================================
