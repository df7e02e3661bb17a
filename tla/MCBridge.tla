------------------------------ MODULE MCBridge -------------------------------
(* A header of two bytes, and packets that have none, one, or more, that     *)
(* begin with bytes to escape, or that read bytes to escape.  The pipe gets  *)
(* bytes as they are (MCBridge.cfg), or a byte to escape that may begin a    *)
(* packet (MCBridgeEscape.cfg).                                              *)
EXTENDS HostBridge

MCMessage ==
  [t \in Thread |->
     IF t = Service THEN {}
     ELSE {[channel |-> Pipe, packetize |-> FALSE, reset |-> FALSE, data |-> <<1, AST_EOP_PREFIX, 2>>],
           [channel |-> 1, packetize |-> TRUE, reset |-> FALSE, data |-> <<3, 4, AST_ESCAPE_PREFIX>>]}]
MCPackets == {<<16, AST_SOP>>, <<127, 1>>, <<AST_ESCAPE_PREFIX>>, <<0, 1, AST_CHANNEL_PREFIX>>}
Unframed == {<<>>}
MaybeFramed == {<<>>, <<AST_SOP>>}
MCMemory(header) == IF header = <<AST_SOP>> THEN <<5, AST_SOP>> ELSE <<0>>
=============================================================================
