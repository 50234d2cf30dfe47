CONSTANTS
    i1 = i1
    i2 = i2
    i3 = i3
    IPs <- MCIPsLive
    PreAllocate <- MCPreAllocate
    MinAllocate <- MCMinAllocate
    MaxAboveWatermark <- MCMaxAboveWatermark
    MaxAllocate <- MCMaxAllocate
    CloudReusesIPs = FALSE
    MaxPodOps <- MCMaxPodOpsLive
SPECIFICATION Spec
INVARIANT TypeOK
PROPERTY HandshakeCompletes
PROPERTY ExcessEventuallyReleased
