----------------------------- MODULE MCMacSlot -----------------------------
(* Model values for the runs of MacSlot.                                   *)
EXTENDS MacSlot

OneNeighbor == {"a"}
NoRelay     == {}
TableOnly   == {"routingTable"}
BothModes   == {"routingTable", "sourceRoute"}
SourceOnly  == {"sourceRoute"}
Sixp        == {COMPONENT_SIXTOP_RES}
Bridge      == {COMPONENT_OPENBRIDGE}
NoApps      == {}
Injects     == {COMPONENT_UINJECT}
=============================================================================
