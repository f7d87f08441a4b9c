-------------------------- MODULE MCDebugProtocol --------------------------
EXTENDS DebugProtocol
=============================================================================
