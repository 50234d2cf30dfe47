--------------------------- MODULE MCNodeDiscovery ---------------------------
EXTENDS NodeDiscovery

CONSTANTS s1, s2

MCSubnets == {s1, s2}
\* maxRetryCount of nodediscovery.go.
MCmaxRetryCount == 10
MCMaxOtherWrites == 3
MCMaxRuns == 2
=============================================================================
