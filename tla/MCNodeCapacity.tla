---------------------------- MODULE MCNodeCapacity ----------------------------
(* A one-CPU and an eight-CPU instance, a small and a large one by memory, *)
(* the overrides unset or 13, an IPv4 /28 or a dual-stack /28 and /64 as   *)
(* the pod CIDRs, one value a user may write, and one user edit.  TLC's    *)
(* largest integer stands for math.MaxInt64.                               *)
EXTENDS NodeCapacity

MCCPUCounts == {1, 8}
MCMemGBs == {1, 16}
MCCustomerValues == {0, 13}
MCPodCIDRLists == {<<[family |-> 4, ones |-> 28]>>,
                   <<[family |-> 4, ones |-> 28], [family |-> 6, ones |-> 64]>>}
MCMaxRangeSize == 2147483647
MCUserValues == {2}
MCMaxUserEdits == 1
====
