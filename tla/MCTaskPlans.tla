----------------------------- MODULE MCTaskPlans -----------------------------
\* Instances of TaskPlans for TLC: conversations are interchangeable.
EXTENDS TaskPlans, TLC

Symmetry == Permutations(Conversations)
=============================================================================
