CONSTANTS
    i1 = i1
    i2 = i2
    i3 = i3
    IPs <- MCIPs
    PreAllocate <- MCPreAllocate
    MinAllocate <- MCMinAllocate
    MaxAboveWatermark <- MCMaxAboveWatermark
    MaxAllocate <- MCMaxAllocate
    CloudReusesIPs = FALSE
    MaxPodOps <- MCMaxPodOps
SPECIFICATION Spec
INVARIANT NoUsedIPReleased
