---------------------------- MODULE MCFlowControl ----------------------------
EXTENDS FlowControl, TLC

CONSTANTS c1, c2, c3, c4, c5, c6

\* Three goroutines calling a serialised method, a method with no entry of
\* its own, and the pair of public-IP methods that share one key.
MCCallers == {c1, c2, c3}
MCOps == {"DeleteENI", "ListENIs", "BindENIPublicIP", "UnBindENIPublicIP"}

\* Six goroutines, one more than StatENI's five slots, calling StatENI and
\* GetENIQuota (which waits on StatENI's key): with these, TLC finds
\* OperationsIsolated violated.
MCCallers6 == {c1, c2, c3, c4, c5, c6}
MCOpsQuota == {"StatENI", "GetENIQuota"}

MCSymmetry == Permutations(MCCallers)
MCSymmetry6 == Permutations(MCCallers6)
=============================================================================
