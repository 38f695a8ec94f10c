------------------------- MODULE MCReplicaShutdown -------------------------
(* A replica with two sockets, one in each conversation, or both in one. *)
EXTENDS ReplicaShutdown, TLC

CONSTANTS c1, c2, v1, v2

TwoSockets == {c1, c2}
OneConversation == {v1}
TwoConversations == {v1, v2}
AllInOne == [c \in TwoSockets |-> v1]
OneEach == (c1 :> v1) @@ (c2 :> v2)
OnlyFirst == {c1}
=============================================================================
