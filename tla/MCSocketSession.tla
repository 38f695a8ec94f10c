--------------------------- MODULE MCSocketSession ------------------------
(* Small instances of SocketSession, and so of RateLimiter, for TLC. *)
EXTENDS SocketSession

CONSTANTS s1, s2

TwoSockets == {s1, s2}
OneSocket == {s1}
=============================================================================
