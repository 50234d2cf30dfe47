--------------------------- MODULE PoolMaintenance ---------------------------
(***************************************************************************)
(* The deficit/excess arithmetic of a node's IP pool and the choice that   *)
(* MaintainIPPool makes from it (pkg/ipam/net_resource.go), at the level   *)
(* of counts: how many IPs the node has (available), how many pods use one *)
(* (used), how many pods wait for one (pending), and how many ENIs are     *)
(* attached.  The per-IP release handshake is modelled in IPReleaseHandshake.*)
(* The node's IPAM settings are chosen once in Init and never change.      *)
(***************************************************************************)
EXTENDS IPAMStats

CONSTANTS
    MaxPods,             \* pod capacity of the node (the scheduler's limit)
    MaxENI,              \* ENI quota of the instance (eniQuota.GetMaxENI)
    IPsPerENI,           \* IP quota per ENI (eniQuota.GetMaxIP)
    DefaultPreAllocate,  \* defaults.IPAMPreAllocation
    PreAllocates,        \* values spec.ipam.preAllocate may take
    MinAllocates,        \* values spec.ipam.minAllocate may take
    MaxAllocates,        \* values spec.ipam.maxAllocate may take
    Watermarks,          \* values spec.ipam.maxAboveWatermark may take
    BurstSizes,          \* values GetMaximumBurstableAllocatableIPv4 may take
    MaxChurn             \* bound on pod creations and deletions

ASSUME MaxPods \in Nat /\ MaxENI \in Nat \ {0} /\ IPsPerENI \in Nat \ {0}
ASSUME MaxChurn \in Nat

VARIABLES
    cfg,        \* the node's IPAM settings (NetResourceSet spec)
    available,  \* stats.AvailableIPs: IPs attached to the node
    used,       \* stats.UsedIPs: IPs held by pods
    pending,    \* pods on the node still waiting for an IP
    enis,       \* ENIs attached to the instance
    churn       \* pod events so far (bounded by MaxChurn)

vars == <<cfg, available, used, pending, enis, churn>>

InstanceMaxIPs == MaxENI * IPsPerENI

Config == [preAllocate: PreAllocates, minAllocate: MinAllocates,
           maxAllocate: MaxAllocates, maxAboveWatermark: Watermarks,
           burst: BurstSizes, releaseExcessIPs: BOOLEAN]

\* getPreAllocate: the spec value, or the default when it is zero.
getPreAllocate == IF cfg.preAllocate # 0 THEN cfg.preAllocate ELSE DefaultPreAllocate

\* getMaxAllocate: the spec value capped by the instance limit, or the limit.
getMaxAllocate ==
    IF cfg.maxAllocate > 0 THEN IntMin(cfg.maxAllocate, InstanceMaxIPs)
                           ELSE InstanceMaxIPs

\* recalculate: the statistics of the current pool.
NeededIPs == calculateNeededIPs(available, used, getPreAllocate, cfg.minAllocate,
                                getMaxAllocate, cfg.burst)
ExcessIPs == calculateExcessIPs(available, used, getPreAllocate, cfg.minAllocate,
                                cfg.maxAboveWatermark, cfg.burst)

\* The release branch of determineMaintenanceAction.
ReleaseChosen == cfg.releaseExcessIPs /\ ExcessIPs > 0 /\ cfg.burst = 0

\* getPendingPodCount turned into the surge of determineMaintenanceAction.
surgeAllocate == IF pending > NeededIPs THEN pending - NeededIPs ELSE 0

\* __prepareIPAllocation: spare IPs on attached ENIs, ENIs still creatable.
AvailableForAllocation == IntMax(enis * IPsPerENI - available, 0)
\* Mutant: the count of attached ENIs leaves out the primary ENI.
AvailableInterfacesExcludingPrimary == IntMax(MaxENI - (enis - 1), 0)
AvailableInterfaces == IntMax(MaxENI - enis, 0)

-----------------------------------------------------------------------------
Init ==
    /\ cfg \in Config
    /\ enis \in 1..MaxENI
    /\ available \in 0..(enis * IPsPerENI)
    /\ used \in 0..IntMin(available, MaxPods)
    /\ pending = 0
    /\ churn = 0

\* A pod is scheduled onto the node and waits for an IP.
PodCreate ==
    /\ churn < MaxChurn
    /\ used + pending < MaxPods
    /\ pending' = pending + 1
    /\ churn' = churn + 1
    /\ UNCHANGED <<cfg, available, used, enis>>

\* The agent hands a free IP of the pool to a waiting pod.
PodGetsIP ==
    /\ pending > 0
    /\ used < available
    /\ pending' = pending - 1
    /\ used' = used + 1
    /\ UNCHANGED <<cfg, available, enis, churn>>

\* A pod goes away and its IP returns to the pool.
PodDelete ==
    /\ churn < MaxChurn
    /\ used > 0
    /\ used' = used - 1
    /\ churn' = churn + 1
    /\ UNCHANGED <<cfg, available, pending, enis>>

\* maintainIPPool taking the release branch: the handshake releases some of
\* the excess IPs (the agent may refuse the others), all of them free.
MaintainRelease ==
    /\ ReleaseChosen
    /\ \E k \in 1..ExcessIPs : available' = available - k
    /\ UNCHANGED <<cfg, used, pending, enis, churn>>

\* createInterface: nothing when the instance has no interface left (not
\* a failure); otherwise ops.CreateInterface attaches an ENI with up to
\* toAllocate of its IPs, or fails and changes nothing.
createInterface(toAllocate) ==
    \/ /\ AvailableInterfaces = 0
       /\ UNCHANGED <<available, enis>>
    \/ /\ AvailableInterfaces > 0
       /\ enis' = enis + 1
       /\ available' = available + IntMin(IPsPerENI, toAllocate)
    \/ /\ AvailableInterfaces > 0
       /\ UNCHANGED <<available, enis>>

\* maintainIPPool taking the allocation branch (handleIPAllocation): fill a
\* selected ENI up to MaxIPsToAllocate; when that fails or no ENI has room,
\* createInterface.
MaintainAllocate ==
    LET maxIPsToAllocate == NeededIPs + surgeAllocate
        onENI == IntMin(AvailableForAllocation, maxIPsToAllocate)
        CreateInterface == createInterface(maxIPsToAllocate)
    IN
    /\ ~ReleaseChosen
    /\ NeededIPs > 0
    /\ \/ /\ AvailableForAllocation > 0
          /\ available' = available + onENI
          /\ UNCHANGED enis
       \/ /\ AvailableForAllocation > 0   \* AllocateIPs failed
          /\ CreateInterface
       \/ /\ AvailableForAllocation = 0
          /\ CreateInterface
    /\ UNCHANGED <<cfg, used, pending, churn>>

Maintain == MaintainRelease \/ MaintainAllocate

\* A periodic pass that finds nothing to do (determineMaintenanceAction
\* returns nil: no release chosen and no IPs needed).
MaintainNothing ==
    /\ ~ReleaseChosen
    /\ NeededIPs = 0
    /\ UNCHANGED vars

Next == PodCreate \/ PodGetsIP \/ PodDelete \/ Maintain \/ MaintainNothing

\* The pool maintainer trigger keeps firing while there is work (the
\* manager's periodic resync re-arms it), and the agent serves waiting pods.
Fairness == WF_vars(Maintain) /\ WF_vars(PodGetsIP)

Spec == Init /\ [][Next]_vars /\ Fairness

-----------------------------------------------------------------------------
TypeOK ==
    /\ cfg \in Config
    /\ enis \in 1..MaxENI
    /\ available \in 0..InstanceMaxIPs
    /\ used \in 0..available
    /\ pending \in 0..MaxPods
    /\ churn \in 0..MaxChurn

\* Quiescent: a maintenance pass would change nothing.
Quiescent == ~ENABLED <<Maintain>>_vars

\* Once pods stop coming and going, pool maintenance settles: the allocate
\* and release branches of MaintainIPPool do not chase each other forever.
EventuallyQuiescent == <>[]Quiescent

\* An allocation pass never leaves the node above its max-allocate limit
\* (spec.ipam.maxAllocate, the pod capacity written by node discovery),
\* unless it already was.
AllocationRespectsMaxAllocate ==
    [][MaintainAllocate => available' <= IntMax(available, getMaxAllocate)]_vars

\* Releasing the excess never creates a deficit: after a release pass the
\* next pass does not have to allocate again (calculateExcessIPs versus the
\* minAllocate term of calculateNeededIPs).
ReleaseNeverCreatesDeficit ==
    [][MaintainRelease => NeededIPs' = 0]_vars
=============================================================================
