----------------------------- MODULE MCStreams -----------------------------
EXTENDS Streams
=============================================================================
