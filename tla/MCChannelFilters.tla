--------------------------- MODULE MCChannelFilters ---------------------------
(* Values of the constants of ChannelFilters for TLC, and a bound. *)
EXTENDS ChannelFilters

CONSTANTS f1, w1

\* Of two messages in all, the owner, the peer and the workers send any.
TwoMessages == posts + incoming + next_id - 1 <= 2

BoundedSpec == Init /\ [][Next /\ TwoMessages']_vars /\ Fairness

=============================================================================
