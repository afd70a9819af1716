----------------------------- MODULE MCPodManager -----------------------------
EXTENDS PodManager, TLC

\* Pods, users and calls are interchangeable.
Symmetry == Permutations(Pods) \cup Permutations(Users) \cup Permutations(Calls)
===============================================================================
