--------------------------- MODULE MCCrossSubnetIP ---------------------------
(* Two ENIs of this node, one of the pod's old node, two addresses of each *)
(* family per ENI, and four calls.                                         *)
EXTENDS CrossSubnetIP

MCNodeENIs == {"eni1", "eni2"}
MCOldENI == "eniOld"
MCLimit == 2
MCMaxCalls == 4
====
