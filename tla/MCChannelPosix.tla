--------------------------- MODULE MCChannelPosix ---------------------------
(* Values of the constants of ChannelPosix for TLC. *)
EXTENDS ChannelPosix

CONSTANTS S, C

\* S messages from the server and C from the client, the Hello messages apart.
Messages == [e \in End |-> IF e = "server" THEN S ELSE C]
=============================================================================
