--------------------------- MODULE MCPacketEngine ---------------------------
EXTENDS PacketEngine

CONSTANTS r4, r6, p1
=============================================================================
