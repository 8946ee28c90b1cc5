---------------------------- MODULE EventStream ----------------------------
(***************************************************************************)
(* What a reader of a text/event-stream body promises: the events of the   *)
(* whole body, one by one and in order, however the body arrives; it may   *)
(* fail, but never end early.                                              *)
(***************************************************************************)
EXTENDS EventText

VARIABLES
    wire,       \* the body
    delivered,  \* the events handed over so far
    status      \* open, ended or failed

Init == delivered = <<>> /\ status = "open"

Deliver ==
    /\ status = "open" /\ status' \in {"open", "failed"}
    /\ Len(delivered') = Len(delivered) + 1 /\ IsPrefix(delivered', Events(wire))
    /\ UNCHANGED wire

\* The last event may be handed over in the step that ends the reading.
End ==
    /\ status = "open" /\ status' = "ended"
    /\ Len(delivered') - Len(delivered) \in {0, 1} /\ IsPrefix(delivered, delivered')
    /\ delivered' = Events(wire)
    /\ UNCHANGED wire

Fail ==
    /\ status = "open" /\ status' = "failed"
    /\ UNCHANGED <<wire, delivered>>

Next == Deliver \/ End \/ Fail
Spec == Init /\ [][Next]_<<wire, delivered, status>>
=============================================================================
