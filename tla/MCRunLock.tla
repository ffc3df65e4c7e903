----------------------------- MODULE MCRunLock -----------------------------
EXTENDS RunLock
=============================================================================
