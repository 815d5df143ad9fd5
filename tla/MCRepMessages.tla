---------------------------- MODULE MCRepMessages ----------------------------
EXTENDS RepMessages, TLC

Symmetry == Permutations(Senders) \cup Permutations(Messages)
=============================================================================
