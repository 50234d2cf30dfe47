------------------------- MODULE IPv6PrimaryElection -------------------------
(***************************************************************************)
(* ElectENIIPv6PrimaryIP (pkg/bce/bcesync/eni.go), applied each time the   *)
(* in-use branch of the ENI state machine copies the cloud ENI onto the    *)
(* object (updateENISpecFromVPCENI).  That branch runs again after its     *)
(* Update stored the spec and annotation but its UpdateStatus failed.  The *)
(* cloud reports the IPv6 addresses in an order of its own.                *)
(***************************************************************************)
EXTENDS Naturals, Sequences, SequencesExt, FiniteSets

CONSTANTS
    Addrs,            \* IPv6 addresses the ENI may hold
    NoAddr,           \* no AnnotationENIIPv6PrimaryIP annotation
    VPCMarksPrimary,  \* may the cloud flag an IPv6 address as primary?
    MaxRefresh        \* bound on runs of updateENISpecFromVPCENI

ASSUME NoAddr \notin Addrs

VARIABLES
    ipv6,      \* Spec.ENI.IPV6PrivateIPSet: a sequence of [addr, primary]
    ann,       \* the AnnotationENIIPv6PrimaryIP annotation
    refreshes  \* runs so far

vars == <<ipv6, ann, refreshes>>

\* The IPv6 lists the cloud may report: distinct addresses in any order,
\* flagged primary as the cloud says (ToModelPrivateIP copies the flag).
VPCLists ==
    UNION {{[i \in DOMAIN s |-> [addr |-> s[i], primary |-> f[i]]] :
             f \in [DOMAIN s -> IF VPCMarksPrimary THEN BOOLEAN ELSE {FALSE}]} :
            s \in SetToAllKPermutations(Addrs)}

\* The index at which the loop of ElectENIIPv6PrimaryIP breaks: the first
\* address equal to the old annotation or flagged primary (0: none).
RECURSIVE breakIndex(_, _, _)
breakIndex(s, old, i) ==
    IF i > Len(s) THEN 0
    ELSE IF s[i].addr = old \/ s[i].primary THEN i
    ELSE breakIndex(s, old, i + 1)

\* ElectENIIPv6PrimaryIP on the list s with annotation old: the new list
\* and the new annotation.
ElectENIIPv6PrimaryIP(s, old) ==
    LET k == breakIndex(s, old, 1)
        matched == k > 0 /\ s[k].addr = old
        havePrimary == k > 0 /\ ~matched
        s1 == IF matched THEN [s EXCEPT ![k].primary = TRUE] ELSE s
    IN  IF Len(s) = 0 \/ havePrimary THEN <<s1, old>>
        ELSE <<[s1 EXCEPT ![1].primary = TRUE], s1[1].addr>>

\* updateENISpecFromVPCENI: copy the cloud's list, then elect.
Elect(s, old) == ElectENIIPv6PrimaryIP(s, old)

Init ==
    /\ ipv6 = <<>>
    /\ ann = NoAddr
    /\ refreshes = 0

UpdateSpecFromVPCENI ==
    /\ refreshes < MaxRefresh
    /\ \E s \in VPCLists :
          LET r == Elect(s, ann) IN
          /\ ipv6' = r[1]
          /\ ann' = r[2]
    /\ refreshes' = refreshes + 1

Next == UpdateSpecFromVPCENI

Spec == Init /\ [][Next]_vars

Primaries == {i \in DOMAIN ipv6 : ipv6[i].primary}

\* "An IPv6 address set always has exactly one address marked primary."
ExactlyOnePrimary == Len(ipv6) > 0 => Cardinality(Primaries) = 1
=============================================================================
