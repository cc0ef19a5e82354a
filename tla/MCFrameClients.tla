---------------------------- MODULE MCFrameClients ----------------------------
EXTENDS FrameClients, MCMemoryMaps
=============================================================================
