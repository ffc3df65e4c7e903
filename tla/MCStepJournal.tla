--------------------------- MODULE MCStepJournal ---------------------------
EXTENDS StepJournal
=============================================================================
