---------------------------- MODULE WriteChannel ----------------------------
(***************************************************************************)
(* What Session::send promises: the messages it accepts reach the stream   *)
(* one after the other in the order in which they were accepted, none      *)
(* skipped and none repeated, until the stream breaks.                     *)
(***************************************************************************)
EXTENDS Naturals, Sequences

VARIABLES
    accepted,   \* number of messages accepted so far; a message is its number
    delivered,  \* the messages written to the stream, in order
    broken      \* nothing can be written any more

channelVars == <<accepted, delivered, broken>>

Init == accepted = 0 /\ delivered = << >> /\ broken = FALSE

AcceptMessage ==
    /\ accepted' = accepted + 1
    /\ UNCHANGED <<delivered, broken>>

Transmit ==
    /\ ~broken
    /\ Len(delivered) < accepted
    /\ delivered' = Append(delivered, Len(delivered) + 1)
    /\ UNCHANGED <<accepted, broken>>

Break ==
    /\ broken' = TRUE
    /\ UNCHANGED <<accepted, delivered>>

Next == AcceptMessage \/ Transmit \/ Break

Spec == Init /\ [][Next]_channelVars
=============================================================================
