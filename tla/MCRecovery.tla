------------------------------ MODULE MCRecovery ------------------------------
EXTENDS Recovery
=============================================================================
