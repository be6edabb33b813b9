---------------------------- MODULE ServerClient ----------------------------
(***************************************************************************)
(* The Server class (tools/libraries/src/Server.ts): an application's      *)
(* client of one market maker, over HTTP or a WebSocket.  JavaScript runs  *)
(* one macrotask at a time (a message, a timer, a call of the application) *)
(* and then the continuations of the promises it settled: each handler is  *)
(* one action, and a new macrotask waits until no call is `answered'.      *)
(* The socket, the JSON-RPC library and the market maker are external.     *)
(***************************************************************************)
EXTENDS Naturals, SequencesExt

CONSTANTS
    Call,          \* the application's calls
    Host,          \* servers that an HTTP client can be made for
    BadHost,       \* a sender server whose locator does not parse
    NoHost,        \* undefined
    Locator,       \* the host of an HTTP server
    Announcement,  \* the parameters of initialize, see AnnouncementType
    MaxMessages    \* bound on the messages of the market maker

Protocol == {"request-for-quote", "last-look"}

(* What initialize and updatePricing carry; valid says that the elements   *)
(* have the fields that are checked for.                                   *)
AnnouncementType ==
    [valid: BOOLEAN, protocols: SUBSET Protocol, senderServer: Host \union {BadHost, NoHost}]

ASSUME ServerClientAssumption ==
    /\ BadHost \notin Host /\ NoHost \notin Host \union {BadHost}
    /\ Locator \in Host
    /\ Announcement \subseteq AnnouncementType
    /\ \A params \in Announcement :   \* a sender server is a parameter of last look
          params.senderServer # NoHost => "last-look" \in params.protocols
    /\ MaxMessages \in Nat

VARIABLES
    transport,          \* transportProtocol
    socket,             \* the state of webSocketClient
    initTimer,          \* the timer of _initWebSocketClient
    initPromise,        \* the promise that initialize resolves
    forPromise,         \* where Server.for stands
    isInitialized,
    supportedProtocols,
    senderServer,       \* the server announced for consider
    httpClient,         \* the host httpClient was made for
    listening,          \* the application listens to 'pricing'
    heard,              \* the prices its listener was called with
    calls,              \* method, transport, host and outcome of each call
    inbox,              \* messages of the market maker on their way
    sent,               \* number of messages it sent
    accepted,           \* history: the sender servers, or NoHost, of the
                        \* initializations that succeeded
    closedByApp         \* history: the application called disconnect

state == <<isInitialized, supportedProtocols, senderServer, httpClient, accepted>>
vars == <<transport, socket, initTimer, initPromise, forPromise, state, listening,
          heard, calls, inbox, sent, closedByApp>>

(* Of the ten methods, those that what they require, where they are sent   *)
(* and what becomes of their answer tell apart.                            *)
Method == {"getMaxQuote", "subscribe", "unsubscribe", "consider"}

requiredProtocol(method) ==
    IF method = "getMaxQuote" THEN "request-for-quote" ELSE "last-look"

NoCall == [method |-> "none", via |-> "none", host |-> NoHost, status |-> "none", price |-> 0]

(* Mutant: continuations may run after the next macrotask. *)
AnyTurn == TRUE

(* The event loop takes a new macrotask. *)
Turn == \A c \in Call : calls[c].status # "answered"

-----------------------------------------------------------------------------
(* Connecting. *)

(* open() resolves, and _initWebSocketClient awaits initPromise. *)
Connected ==
    /\ Turn
    /\ socket = "connecting"
    /\ socket' = "open"
    /\ forPromise' = "initializing"
    /\ UNCHANGED <<transport, initTimer, initPromise, state, listening, heard, calls,
                   inbox, sent, closedByApp>>

(* External: the socket cannot be opened, or was closed before it was.     *)
ConnectionFails ==
    /\ Turn
    /\ socket \in {"connecting", "closing"}
    /\ socket' = "closed"
    /\ forPromise' = "rejected"
    /\ UNCHANGED <<transport, initTimer, initPromise, state, listening, heard, calls,
                   inbox, sent, closedByApp>>

(* External: the connection is lost, with the messages on their way. *)
ConnectionLost ==
    /\ Turn
    /\ socket = "open"
    /\ socket' = "lost"
    /\ inbox' = <<>>
    /\ UNCHANGED <<transport, initTimer, initPromise, forPromise, state, listening,
                   heard, calls, sent, closedByApp>>

(* Mutant: disconnect closes nothing. *)
NotDisconnected ==
    /\ listening' = FALSE
    /\ UNCHANGED <<socket, inbox>>

(* disconnect: close the socket, remove all listeners.  Messages that were *)
(* on their way may still be handled.                                      *)
Disconnected ==
    /\ listening' = FALSE
    /\ socket' = IF socket = "connecting" THEN "closing"
                 ELSE IF socket = "open" THEN "closed" ELSE socket
    /\ inbox' \in {inbox, <<>>}

(* Mutant: the timer does not reject the promise. *)
PromiseLeftPending == UNCHANGED <<initPromise, forPromise>>

(* Rejecting a promise that is settled has no effect; Server.for learns of *)
(* it where it awaits it.                                                  *)
RejectInitPromise ==
    /\ initPromise' = IF initPromise = "pending" THEN "rejected" ELSE initPromise
    /\ forPromise' = IF initPromise = "pending" /\ forPromise = "initializing"
                     THEN "rejected" ELSE forPromise

(* The timer is never cleared: it rejects and disconnects in any case.     *)
InitTimeout ==
    /\ Turn
    /\ initTimer = "set"
    /\ initTimer' = "fired"
    /\ RejectInitPromise
    /\ Disconnected
    /\ UNCHANGED <<transport, state, heard, calls, sent, closedByApp>>

-----------------------------------------------------------------------------
(* What the market maker calls. *)

Received(message) == inbox # <<>> /\ Head(inbox) = message /\ inbox' = Tail(inbox)

(* The handler of initialize throws on invalid parameters, before it       *)
(* changes anything.                                                       *)
InitializeInvalid(params) ==
    /\ ~params.valid
    /\ UNCHANGED <<initPromise, forPromise, state>>

(* It throws for a bad sender server after it assigned the first fields.   *)
InitializeBadHost(params) ==
    /\ params.valid
    /\ params.senderServer = BadHost
    /\ supportedProtocols' = params.protocols
    /\ senderServer' = params.senderServer
    /\ UNCHANGED <<initPromise, forPromise, isInitialized, httpClient, accepted>>

(* Mutant: no HTTP client is made for a second sender server. *)
ClientMadeOnce(params) ==
    IF params.senderServer # NoHost /\ httpClient = NoHost
    THEN params.senderServer ELSE httpClient

ClientFor(params) == IF params.senderServer # NoHost THEN params.senderServer ELSE httpClient

InitializeValid(params) ==
    /\ params.valid
    /\ params.senderServer # BadHost
    /\ supportedProtocols' = params.protocols
    /\ senderServer' = IF params.senderServer # NoHost THEN params.senderServer ELSE senderServer
    /\ httpClient' = ClientFor(params)
    /\ isInitialized' = TRUE
    /\ accepted' = Append(accepted, params.senderServer)
    /\ initPromise' = IF initPromise = "pending" THEN "resolved" ELSE initPromise
    /\ forPromise' = IF initPromise = "pending" THEN "resolved" ELSE forPromise

initialize(params) ==
    /\ Turn
    /\ Received([type |-> "initialize", params |-> params])
    /\ InitializeInvalid(params) \/ InitializeBadHost(params) \/ InitializeValid(params)
    /\ UNCHANGED <<transport, socket, initTimer, listening, heard, calls, sent, closedByApp>>

(* emit('pricing'): a listener is called at once. *)
Emitted(price) == IF listening THEN Append(heard, price) ELSE heard

updatePricing(price, valid) ==
    /\ Turn
    /\ Received([type |-> "updatePricing", price |-> price, valid |-> valid])
    /\ heard' = IF valid THEN Emitted(price) ELSE heard
    /\ UNCHANGED <<transport, socket, initTimer, initPromise, forPromise, state, listening,
                   calls, sent, closedByApp>>

-----------------------------------------------------------------------------
(* What the application calls, once it has the server. *)

(* No caller asks for a version of a protocol, so that any will do.        *)
supportsProtocol(protocol) == isInitialized /\ protocol \in supportedProtocols

(* require...Support throws before anything is sent. *)
RequireSupport(method) == supportsProtocol(requiredProtocol(method))

Via(method) ==
    IF transport = "http" \/ (method = "consider" /\ senderServer # NoHost)
    THEN "http" ELSE "websocket"

(* A call over a socket that is not open, or a missing client, rejects.    *)
CanSend(method) ==
    IF Via(method) = "http" THEN httpClient # NoHost ELSE socket = "open"

callRPCMethod(method) ==
    [method |-> method, via |-> Via(method), price |-> 0,
     host   |-> IF Via(method) = "http" THEN httpClient ELSE NoHost,
     status |-> IF CanSend(method) THEN "pending" ELSE "rejected"]

(* The public methods: each requires its protocol, then makes the call. *)
CallMethod(c, method) ==
    /\ Turn
    /\ forPromise = "resolved"
    /\ calls[c] = NoCall
    /\ RequireSupport(method)
    /\ calls' = [calls EXCEPT ![c] = callRPCMethod(method)]
    /\ UNCHANGED <<transport, socket, initTimer, initPromise, forPromise, state, listening,
                   heard, inbox, sent, closedByApp>>

(* A response over the socket settles its call; one too late is dropped.   *)
webSocketResponse(c, price) ==
    /\ Turn
    /\ Received([type |-> "response", call |-> c, price |-> price])
    /\ calls' = IF calls[c].status = "pending"
                THEN [calls EXCEPT ![c].status = "answered", ![c].price = price] ELSE calls
    /\ UNCHANGED <<transport, socket, initTimer, initPromise, forPromise, state, listening,
                   heard, sent, closedByApp>>

(* The continuation of an answered call; subscribe emits what it got. *)
Continue(c) ==
    /\ calls[c].status = "answered"
    /\ calls' = [calls EXCEPT ![c].status = "fulfilled"]
    /\ heard' = IF calls[c].method = "subscribe" THEN Emitted(calls[c].price) ELSE heard
    /\ UNCHANGED <<transport, socket, initTimer, initPromise, forPromise, state, listening,
                   inbox, sent, closedByApp>>

(* External: the library gives up on a call after REQUEST_TIMEOUT. *)
CallTimeout(c) ==
    /\ Turn
    /\ calls[c].status = "pending"
    /\ calls' = [calls EXCEPT ![c].status = "rejected"]
    /\ UNCHANGED <<transport, socket, initTimer, initPromise, forPromise, state, listening,
                   heard, inbox, sent, closedByApp>>

(* What an HTTP server may answer: an error, a result in which compare     *)
(* finds a parameter with another value, or with one that is no text, so   *)
(* that toLowerCase throws, a result that is no quote, a good one.         *)
Reply == {"error", "differs", "notText", "invalid", "good"}

(* The callback of httpCall: an error, a result that differs from the      *)
(* parameters, and for a quote also an invalid one reject the call.  If    *)
(* compare throws, the browser's client calls back again with the error,   *)
(* whereas with the one for Node nothing settles the call.                 *)
HttpOutcome(c, reply) ==
    CASE reply = "notText" -> {"rejected", "unsettled"}
      [] reply \in {"error", "differs"} -> {"rejected"}
      [] reply = "invalid" /\ calls[c].method = "getMaxQuote" -> {"rejected"}
      [] OTHER -> {"fulfilled"}

httpCallback(c, reply) ==
    /\ Turn
    /\ calls[c].status = "pending" /\ calls[c].via = "http"
    /\ \E outcome \in HttpOutcome(c, reply) : calls' = [calls EXCEPT ![c].status = outcome]
    /\ UNCHANGED <<transport, socket, initTimer, initPromise, forPromise, state, listening,
                   heard, inbox, sent, closedByApp>>

(* on('pricing', ...) *)
Listen ==
    /\ Turn
    /\ forPromise = "resolved" /\ ~listening
    /\ listening' = TRUE
    /\ UNCHANGED <<transport, socket, initTimer, initPromise, forPromise, state, heard,
                   calls, inbox, sent, closedByApp>>

disconnect ==
    /\ Turn
    /\ forPromise = "resolved" /\ transport = "websocket"
    /\ Disconnected
    /\ closedByApp' = TRUE
    /\ UNCHANGED <<transport, initTimer, initPromise, forPromise, state, heard, calls, sent>>

-----------------------------------------------------------------------------
(* External: the market maker sends anything at any time, prices in the    *)
(* order it makes them, and answers each call at most once.                *)
Send(message) ==
    /\ Turn
    /\ socket = "open" /\ sent < MaxMessages
    /\ inbox' = Append(inbox, message)
    /\ sent' = sent + 1
    /\ UNCHANGED <<transport, socket, initTimer, initPromise, forPromise, state, listening,
                   heard, calls, closedByApp>>

Respondable(c) ==
    /\ calls[c].via = "websocket" /\ calls[c].status \in {"pending", "rejected"}
    /\ \A i \in DOMAIN inbox : inbox[i].type = "response" => inbox[i].call # c

MarketMaker ==
    \/ \E params \in Announcement : Send([type |-> "initialize", params |-> params])
    \/ \E valid \in BOOLEAN :
          Send([type |-> "updatePricing", price |-> sent + 1, valid |-> valid])
    \/ \E c \in Call : Respondable(c) /\ Send([type |-> "response", call |-> c, price |-> sent + 1])

(* The constructor, and _init: an HTTP server is initialized at once.      *)
Init ==
    /\ transport \in {"http", "websocket"}
    /\ socket = IF transport = "http" THEN "none" ELSE "connecting"
    /\ initTimer = IF transport = "http" THEN "none" ELSE "set"
    /\ initPromise = IF transport = "http" THEN "none" ELSE "pending"
    /\ forPromise = IF transport = "http" THEN "resolved" ELSE "opening"
    /\ isInitialized = (transport = "http")
    /\ supportedProtocols = IF transport = "http" THEN {"request-for-quote"} ELSE {}
    /\ senderServer = NoHost
    /\ httpClient = IF transport = "http" THEN Locator ELSE NoHost
    /\ listening = FALSE /\ heard = <<>>
    /\ calls = [c \in Call |-> NoCall]
    /\ inbox = <<>> /\ sent = 0
    /\ accepted = <<>> /\ closedByApp = FALSE

Next ==
    \/ Connected \/ ConnectionFails \/ ConnectionLost \/ InitTimeout
    \/ \E params \in Announcement : initialize(params)
    \/ \E price \in 1..MaxMessages :
          \/ \E valid \in BOOLEAN : updatePricing(price, valid)
          \/ \E c \in Call : webSocketResponse(c, price)
    \/ \E c \in Call :
          \/ \E method \in Method : CallMethod(c, method)
          \/ Continue(c) \/ CallTimeout(c)
          \/ \E reply \in Reply : httpCallback(c, reply)
    \/ Listen \/ disconnect
    \/ MarketMaker

(* The event loop runs a timer that is due and the continuations of        *)
(* settled promises; a socket that is closed while it opens fails to open. *)
Fairness ==
    /\ WF_vars(InitTimeout)
    /\ WF_vars(ConnectionFails)
    /\ \A c \in Call : WF_vars(Continue(c))

Spec == Init /\ [][Next]_vars /\ Fairness

-----------------------------------------------------------------------------
(* Correctness. *)

(* Server.for always settles, whatever the market maker and the network    *)
(* do: the timer, a failing socket or initialize decides, in any order.    *)
ForSettles == <>(forPromise \in {"resolved", "rejected"})

(* Server.for never waits for nothing: until it settles its socket either  *)
(* is being closed, which fails, or its timer has yet to fire and will     *)
(* find the promise pending, and no continuation holds up the event loop.  *)
WaitIsTimed ==
    forPromise \in {"opening", "initializing"} =>
        /\ socket = "closing" \/ (initTimer = "set" /\ initPromise = "pending")
        /\ Turn

(* When Server.for rejects, the application has no server to disconnect:   *)
(* its socket does not stay open, and nothing keeps opening it.            *)
RejectedLeavesNoSocket == forPromise = "rejected" => socket \in {"closed", "lost"}

(* The listener hears prices in the order the market maker sent them, also *)
(* when a price comes as the answer to subscribe, which is emitted by a    *)
(* continuation, and others as updatePricing, emitted by the handler.      *)
PricesInOrder == \A i \in 1..(Len(heard) - 1) : heard[i] < heard[i + 1]

(* The host is the last one in the list; NoHost, if there is none in it.   *)
LastNamed(host, list) ==
    \/ host = NoHost /\ \A i \in DOMAIN list : list[i] = NoHost
    \/ /\ host # NoHost
       /\ \E i \in DOMAIN list :
             /\ list[i] = host
             /\ \A j \in DOMAIN list : j > i => list[j] = NoHost

(* A consider that is sent goes to the sender server that was named last   *)
(* by an initialization that succeeded, and over the socket only if none   *)
(* of them named any.  An initialization that names none, or that fails    *)
(* after its first assignments, does not turn it elsewhere.                *)
ConsiderGoesToSenderServer ==
    [][\A c \in Call :
          calls[c] = NoCall /\ calls'[c].method = "consider" /\ calls'[c].status = "pending" =>
              LastNamed(calls'[c].host, accepted)]_vars

(* "Server did not call initialize in time": the timer disconnects only a  *)
(* server that did not initialize; any other keeps its socket until it is  *)
(* lost or the application disconnects.                                    *)
OnlySilentServersTimeOut ==
    initPromise = "resolved" /\ ~closedByApp => socket \in {"open", "lost"}
=============================================================================
