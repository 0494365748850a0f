---------------------------- MODULE PacketChannel ----------------------------
(***************************************************************************)
(* What remote_read promises to handle_packet: the messages of the device, *)
(* each once, whole and in order, up to the first one that is not valid or *)
(* to a loss of the connection, which close it ("receipt of an invalid     *)
(* message header, corrupt message payload ... MUST result in the closing  *)
(* of the remote connection", protocol.txt).                               *)
(***************************************************************************)
EXTENDS Naturals, Sequences

CONSTANTS Messages, \* what the device sends
          Valid(_), \* header and payload pass the checks
          Whole(_)  \* the bytes announced have all been sent

VARIABLES sent,    \* messages of the device
          handled, \* numbers of those handed to handle_packet
          broken,  \* the connection: "no", "doubtful" or "gone"
          open     \* the reader still reads

vars == <<sent, handled, broken, open>>

Upcoming == Len(handled) + 1
Waiting == open /\ Upcoming <= Len(sent)

Init == sent = <<>> /\ handled = <<>> /\ broken = "no" /\ open = TRUE

Send == /\ \E m \in Messages : sent' = Append(sent, m)
        /\ broken' \in {broken, "doubtful"} /\ UNCHANGED <<handled, open>>
Break == broken' = "gone" /\ UNCHANGED <<sent, handled, open>>
Deliver == /\ Waiting /\ Valid(sent[Upcoming])
           /\ handled' = Append(handled, Upcoming) /\ UNCHANGED <<sent, broken, open>>
Close == /\ open /\ (broken # "no" \/ (Waiting /\ ~Valid(sent[Upcoming])))
         /\ open' = FALSE /\ UNCHANGED <<sent, handled, broken>>

Next == Send \/ Break \/ Deliver \/ Close

Steps == Init /\ [][Next]_vars

\* A message that is all there is handed on or refused, and the loss of the
\* connection is noticed.
Spec == /\ Steps /\ WF_vars(Deliver)
        /\ WF_vars(Close /\ (broken = "gone" \/ (Waiting /\ Whole(sent[Upcoming]))))
==============================================================================
