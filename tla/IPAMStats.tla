------------------------------ MODULE IPAMStats ------------------------------
(***************************************************************************)
(* The pure arithmetic of the IPAM engine (pkg/ipam/net_resource.go):     *)
(* how many IPs a node needs and how many it may give back, given its      *)
(* available and used counts and its allocation settings.                 *)
(***************************************************************************)
EXTENDS Integers

IntMax(a, b) == IF a >= b THEN a ELSE b
IntMin(a, b) == IF a <= b THEN a ELSE b

\* calculateNeededIPs, step by step as in the code.
calculateNeededIPs(availableIPs, usedIPs, preAllocate, minAllocate, maxAllocate, burstableENIIPs) ==
    LET n1 == preAllocate - (availableIPs - usedIPs)
        n2 == IF minAllocate > 0 THEN IntMax(n1, minAllocate - availableIPs) ELSE n1
        n3 == IF n2 > 0 /\ burstableENIIPs > 0 THEN burstableENIIPs ELSE n2
        n4 == IF maxAllocate > 0 /\ availableIPs + n3 > maxAllocate
              THEN maxAllocate - availableIPs ELSE n3
    IN  IntMax(n4, 0)

\* Mutant: the pre-allocation term left out of the excess.
calculateExcessIPsNoPreAllocate(availableIPs, usedIPs, preAllocate, minAllocate, maxAboveWatermark, burstableMehrfachENI) ==
    IF burstableMehrfachENI > 0 THEN 0
    ELSE IF usedIPs <= minAllocate + maxAboveWatermark
            /\ availableIPs <= minAllocate + maxAboveWatermark THEN 0
    ELSE IntMax(availableIPs - usedIPs - maxAboveWatermark, 0)

\* calculateExcessIPs.
calculateExcessIPs(availableIPs, usedIPs, preAllocate, minAllocate, maxAboveWatermark, burstableMehrfachENI) ==
    IF burstableMehrfachENI > 0 THEN 0
    ELSE IF usedIPs <= minAllocate + maxAboveWatermark
            /\ availableIPs <= minAllocate + maxAboveWatermark THEN 0
    ELSE IntMax(availableIPs - usedIPs - preAllocate - maxAboveWatermark, 0)

=============================================================================
