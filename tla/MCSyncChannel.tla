---------------------------- MODULE MCSyncChannel ----------------------------
(* Values of the constants of SyncChannel for TLC. *)
EXTENDS SyncChannel

\* Two processes with one channel.
Pair == <<{2}, {1}>>

\* Three processes in a row: the middle one has two channels.
Row == <<{2}, {1, 3}, {2}>>

TwoOne == <<2, 1>>
OneNone == <<1, 0>>
TwoOneOne == <<2, 1, 1>>

\* Of the three in a row only two communicate,
OnlyPair ==
  /\ next_id[3] = 1 /\ pipe[2][3] = <<>>
  /\ \A i \in DOMAIN stack[2] : stack[2][i].peer # 3
  /\ \A i \in DOMAIN ipc_loop[2] : ipc_loop[2][i].peer # 3

\* or each sends one message, synchronous and answered without an error.
OneEach ==
  \A p, q \in Proc :
    /\ next_id[p] <= 2
    /\ \A i \in DOMAIN pipe[p][q] : pipe[p][q][i].kind # "async" /\ pipe[p][q][i].ok
    /\ \A i \in DOMAIN ipc_loop[p] :
         /\ ipc_loop[p][i].msg.kind # "async"
         /\ ipc_loop[p][i].kind = "send" => ipc_loop[p][i].msg.ok
    /\ \A i \in DOMAIN listener_loop[p] : listener_loop[p][i].kind # "message"
    /\ ~InStack(p, "async")
    /\ \A i \in DOMAIN received_replies[p] : received_replies[p][i].msg.ok

BoundedSpec == Init /\ [][Next /\ (OnlyPair \/ OneEach)']_vars

=============================================================================
