----------------------------- MODULE MCHistory -----------------------------
(* Small instances of History, and so of Delivery, for TLC. *)
EXTENDS History

CONSTANTS r1, u1

OneReader == {r1}
OneUser == {u1}
NoKeys == {}
=============================================================================
