---------------------------- MODULE MCConversation ----------------------------
EXTENDS Conversation, TLC

Symmetry == Permutations(Inbound) \cup Permutations(Rows)
            \cup Permutations(Attempts) \cup Permutations(Sessions)
=============================================================================
