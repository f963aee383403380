----------------------------- MODULE MCSASystem -----------------------------
(* An instance of SASystem with packets of five and of seven bytes; the data *)
(* of the shorter one looks like the start of a packet.                      *)
EXTENDS SASystem

CONSTANTS sender1, sender2

MCCommands == {<<2, 170>>, <<4, 7, 1, 7>>}
MCOrders == {<<2, 7>>}
MCPad == <<60>>
=============================================================================
