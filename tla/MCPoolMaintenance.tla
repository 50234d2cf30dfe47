-------------------------- MODULE MCPoolMaintenance --------------------------
(* Bounds for checking PoolMaintenance: a node with two ENIs of three IPs,  *)
(* room for five pods, and every combination of small IPAM settings.       *)
EXTENDS PoolMaintenance

MCMaxPods == 5
MCMaxENI == 2
MCIPsPerENI == 3
MCDefaultPreAllocate == 1
MCPreAllocates == {0, 2}
MCMinAllocates == {0, 3}
MCMaxAllocates == {0, 4}
MCWatermarks == {0, 1}
MCBurstSizes == {0, 3}
MCMaxChurn == 3
=============================================================================
