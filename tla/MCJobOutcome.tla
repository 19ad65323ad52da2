---------------------------- MODULE MCJobOutcome ----------------------------
EXTENDS JobOutcome, TLC
=============================================================================
