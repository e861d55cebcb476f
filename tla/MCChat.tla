------------------------------- MODULE MCChat -------------------------------
EXTENDS ChatStream
============================================================================
