----------------------------- MODULE MCUtpPackage -----------------------------
EXTENDS UtpPackage, TLC

\* Threads, Conns and addresses are interchangeable.
Symmetry ==
    {f @@ g @@ h : f \in Permutations(Threads), g \in Permutations(Conns), h \in Permutations(Ptrs)}
===============================================================================
