----------------------------- MODULE MCAutoReply -----------------------------
EXTENDS AutoReply, TLC

Symmetry == Permutations(Triggers)
=============================================================================
