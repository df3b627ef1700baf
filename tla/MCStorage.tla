----------------------------- MODULE MCStorage -----------------------------
EXTENDS Storage
MCRecs == [imu |-> 2, txt |-> 2]
MCChanges == [pid |-> 2, cal |-> 1]
=============================================================================
