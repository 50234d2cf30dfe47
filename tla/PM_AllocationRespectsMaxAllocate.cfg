CONSTANTS
    MaxPods <- MCMaxPods
    MaxENI <- MCMaxENI
    IPsPerENI <- MCIPsPerENI
    DefaultPreAllocate <- MCDefaultPreAllocate
    PreAllocates <- MCPreAllocates
    MinAllocates <- MCMinAllocates
    MaxAllocates <- MCMaxAllocates
    Watermarks <- MCWatermarks
    BurstSizes <- MCBurstSizes
    MaxChurn <- MCMaxChurn
SPECIFICATION Spec
PROPERTY AllocationRespectsMaxAllocate
