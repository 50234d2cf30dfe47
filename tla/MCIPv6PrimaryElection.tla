------------------------ MODULE MCIPv6PrimaryElection ------------------------
EXTENDS IPv6PrimaryElection

CONSTANTS a1, a2, a3, a4

\* Four addresses let a later list reorder, drop and add addresses.
MCAddrs == {a1, a2, a3, a4}
=============================================================================
