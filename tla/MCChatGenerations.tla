--------------------------- MODULE MCChatGenerations ---------------------------
EXTENDS ChatGenerations, TLC

Symmetry == Permutations(Calls)
=============================================================================
