------------------------- MODULE MCMessageExchange -------------------------
(* A small instance of MessageExchange for TLC: h1 and h2 are two sockets   *)
(* of one user, a client and its retry.                                     *)
EXTENDS MessageExchange, TLC

CONSTANTS h1, h2, u1

TwoHandlers == {h1, h2}
OneUser == {u1}
SameUser == [h \in TwoHandlers |-> u1]
=============================================================================
