--------------------------- MODULE MC_StreamSender ----------------------------
EXTENDS StreamSender
=============================================================================
