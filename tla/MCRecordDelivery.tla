--------------------------- MODULE MCRecordDelivery ---------------------------
EXTENDS RecordDelivery, TLC
=============================================================================
