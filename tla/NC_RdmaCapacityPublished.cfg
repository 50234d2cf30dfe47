CONSTANTS
    CPUCounts <- MCCPUCounts
    MemGBs <- MCMemGBs
    CustomerValues <- MCCustomerValues
    PodCIDRLists <- MCPodCIDRLists
    MaxRangeSize <- MCMaxRangeSize
    UserValues <- MCUserValues
    MaxUserEdits <- MCMaxUserEdits
SPECIFICATION Spec
PROPERTY RdmaCapacityPublished
