--------------------------- MODULE MCServerClient ---------------------------
(* A small instance of ServerClient: a market maker may initialize with    *)
(* one of two sender servers, a bad one or none, or with bad parameters.   *)
EXTENDS ServerClient

CONSTANTS H1, H2

Announce(valid, protocols, host) ==
    [valid |-> valid, protocols |-> protocols, senderServer |-> host]

MCAnnouncement ==
    {Announce(TRUE, Protocol, h) : h \in {H1, H2, BadHost}}
        \union {Announce(TRUE, {"last-look"}, NoHost), Announce(FALSE, {}, NoHost)}
=============================================================================
