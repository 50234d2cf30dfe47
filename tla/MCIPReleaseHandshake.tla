------------------------ MODULE MCIPReleaseHandshake ------------------------
EXTENDS IPReleaseHandshake, TLC

CONSTANTS i1, i2, i3

\* Three addresses on one ENI: room for one used, one pre-allocated and one
\* in excess at the same time.
MCIPs == {i1, i2, i3}
MCPreAllocate == 1
MCMinAllocate == 0
MCMaxAboveWatermark == 0
MCMaxAllocate == 0
MCMaxPodOps == 3

IPSymmetry == Permutations(MCIPs)

\* Two addresses for the liveness runs: one in excess, one pre-allocated.
MCIPsLive == {i1, i2}
MCMaxPodOpsLive == 2
=============================================================================
