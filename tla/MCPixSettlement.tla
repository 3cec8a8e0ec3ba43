-------------------------- MODULE MCPixSettlement --------------------------
EXTENDS PixSettlement, TLC

Symmetry == Permutations(Receivables) \cup Permutations(Intents)
            \cup Permutations(Groups) \cup Permutations(Txs)
            \cup Permutations(Sessions)
=============================================================================
