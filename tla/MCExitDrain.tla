---------------------------- MODULE MCExitDrain ----------------------------
EXTENDS ExitDrain, TLC
=============================================================================
