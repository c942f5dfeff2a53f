------------------------ MODULE MCTransportDispatch ------------------------
(* Room for three of the four drivers, payloads of up to three CAN frames    *)
(* with an index of two values, and drivers registered at the floor.    *)
EXTENDS TransportDispatch

MCFloor == -1
MCPriorities == {-1}
=============================================================================
