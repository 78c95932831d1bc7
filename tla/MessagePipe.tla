---------------------------- MODULE MessagePipe ----------------------------
(***************************************************************************)
(* What one direction of an IPC::Channel promises (ipc/ipc_channel.h): a   *)
(* message that was sent is received once, whole, with its descriptor and  *)
(* in the order sent, and it is received unless the channel breaks.        *)
(***************************************************************************)
EXTENDS Naturals, Sequences

CONSTANT Message

VARIABLES
  sent,       \* the messages sent
  received,   \* the messages received
  broken      \* an end of the channel has closed

vars == <<sent, received, broken>>

TypeOK == sent \in Seq(Message) /\ received \in Seq(Message) /\ broken \in BOOLEAN

Init == sent \in Seq(Message) /\ Len(sent) = 1 /\ received = <<>> /\ ~broken

\* The first message sent is the channel's own.
Send ==
  /\ Len(sent') = Len(sent) + 1 /\ sent'[Len(sent')] \in Message
  /\ sent' = Append(sent, sent'[Len(sent')])
  /\ UNCHANGED <<received, broken>>

Receive ==
  /\ Len(received) < Len(sent)
  /\ received' = Append(received, sent[Len(received) + 1])
  /\ UNCHANGED <<sent, broken>>

Break == ~broken /\ broken' = TRUE /\ UNCHANGED <<sent, received>>

Next == Send \/ Receive \/ Break

Spec == Init /\ [][Next]_vars

\* A message may be lost only in a channel that breaks.
FairSpec == Spec /\ WF_vars(~broken /\ Receive)
============================================================================
