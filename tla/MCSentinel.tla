------------------------------ MODULE MCSentinel ------------------------------
EXTENDS Sentinel, TLC

MCSymmetry == Permutations(Timers) \cup Permutations(Clicks)

\* Two approvals of each kind of issue; all kinds at once; checks and an approval
\* while the loop changes; the loops alone.
MCScopes ==
    {[issues |-> {p}, clicks |-> Clicks, requests |-> 0] : p \in Issues}
        \cup {[issues |-> Issues, clicks |-> {}, requests |-> 0],
              [issues |-> {}, clicks |-> {}, requests |-> 3]}
        \cup {[issues |-> Medium, clicks |-> {c}, requests |-> 1] : c \in Clicks}
===============================================================================
