--------------------------- MODULE MCMessageLoops ---------------------------
(* Values of the constants of MessageLoops for TLC. *)
EXTENDS MessageLoops, TLC

CONSTANTS w1, main, other, third, pump, auto, manual

Addresses == pump :> 1 @@ auto :> 2 @@ manual :> 3

None == <<>>

\* The calls of one budget are made in every order: by tasks that run the loop
\* nested and quit it, by tasks that only post, by a task that watches while
\* other threads signal, reset and wait, by one that also waits, and by threads
\* that wait for several.
SmallBudgets ==
  {main :> [post |-> 1, run |-> 1, quit |-> 1] @@ other :> [post |-> 1] @@ third :> None,
   main :> [post |-> 2] @@ other :> [post |-> 1] @@ third :> None,
   main :> [watch |-> 3] @@ other :> [signal |-> 2] @@ third :> [reset |-> 1],
   main :> [watch |-> 2] @@ other :> [signal |-> 1] @@ third :> [wait |-> 1],
   main :> [watch |-> 1, wait |-> 1] @@ other :> [signal |-> 1] @@ third :> [signal |-> 1],
   main :> [watch |-> 2, run |-> 1] @@ other :> [signal |-> 1] @@ third :> None,
   main :> None @@ other :> [many |-> 1, wait |-> 1] @@ third :> [many |-> 1, signal |-> 1],
   main :> None @@ other :> [many |-> 1] @@ third :> [signal |-> 2, reset |-> 1]}
=============================================================================
