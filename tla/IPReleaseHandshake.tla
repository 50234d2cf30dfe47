------------------------- MODULE IPReleaseHandshake -------------------------
(***************************************************************************)
(* The excess-IP release handshake of a node (pkg/ipam/net_resource.go)    *)
(* between the operator's NetResource and the node agent, per IP address.  *)
(*                                                                         *)
(* Three places hold state:                                                *)
(*   - the cloud: the IPs attached to the node's ENIs;                     *)
(*   - the NetResourceSet object in the apiserver (crd): spec.ipam.pool,   *)
(*     status.ipam.used (written by the agent), status.ipam.releaseIPs     *)
(*     (written by both);                                                  *)
(*   - the operator's NetResource: its watched copy of the object          *)
(*     (n.resource, refreshed only by UpdatedResource) and the handshake  *)
(*     maps ipsMarkedForRelease and ipReleaseStatus.                       *)
(* Three concurrent actors: the pool maintainer (MaintainIPPool, one pass  *)
(* at a time, its cloud release call a separate step), the apiserver sync  *)
(* (syncToAPIServer, each write attempt a step), and the agent.  The agent *)
(* is not part of this repository; its side follows the protocol the      *)
(* handleIPRelease comment describes.                                      *)
(*                                                                         *)
(* resourceVersion is abstracted by content: an update conflicts when the  *)
(* writer's copy differs from the stored object.  The release timestamps   *)
(* are abstracted to a set of IPs whose ExcessIPReleaseDelay has elapsed,  *)
(* which may happen at any time after marking.                             *)
(***************************************************************************)
EXTENDS IPAMStats, FiniteSets

CONSTANTS
    IPs,                \* the addresses the node's ENI can hold
    PreAllocate,        \* getPreAllocate()
    MinAllocate,        \* getMinAllocate()
    MaxAboveWatermark,  \* getMaxAboveWatermark()
    MaxAllocate,        \* getMaxAllocate()
    CloudReusesIPs,     \* may the cloud hand back an address it took back?
    MaxPodOps           \* bound on pod IP allocations and frees

\* The four handshake states (pkg/ipam/option) and an absent map entry.
Mark == "marked-for-release"
Ready == "ready-for-release"
DoNot == "do-not-release"
Released == "released"
None == "none"
ReleaseStates == {Mark, Ready, DoNot, Released, None}

VARIABLES
    cloud,       \* IPs attached in the cloud (and n.available, which every
                 \* cloud change refreshes through its trailing recalculate)
    returned,    \* IPs the node gave back to the cloud
    crd,         \* the NetResourceSet in the apiserver
    cache,       \* n.resource: the operator's last watched copy of crd
    marked,      \* keys of ipsMarkedForRelease
    cooled,      \* marked IPs whose ExcessIPReleaseDelay has elapsed
    relStatus,   \* n.ipReleaseStatus
    pass,        \* the pool maintainer: idle, or a cloud release in flight
    sync,        \* syncToAPIServer: phase, attempt, its copy and pool snapshot
    podOps       \* pod IP allocations and frees so far

vars == <<cloud, returned, crd, cache, marked, cooled, relStatus, pass, sync, podOps>>

Object == [pool: SUBSET IPs, used: SUBSET IPs, release: [IPs -> ReleaseStates]]

NoRelease == [ip \in IPs |-> None]

\* recalculate: UsedIPs from n.resource, AvailableIPs from n.available.
NeededIPs == calculateNeededIPs(Cardinality(cloud), Cardinality(cache.used),
                                PreAllocate, MinAllocate, MaxAllocate, 0)
ExcessIPs == calculateExcessIPs(Cardinality(cloud), Cardinality(cache.used),
                                PreAllocate, MinAllocate, MaxAboveWatermark, 0)

\* PrepareIPRelease: ExcessIPs addresses (or all there are) of the pool that
\* the operator's copy of status.ipam.used shows as free, picked in a
\* stable order.
PrepareIPRelease ==
    LET free == cloud \ cache.used
    IN  CHOOSE L \in SUBSET free : Cardinality(L) = IntMin(ExcessIPs, Cardinality(free))

\* removeStaleReleaseIPs: forget 'released' IPs the agent has removed.
removeStaleReleaseIPs(rs) ==
    [ip \in IPs |-> IF rs[ip] = Released /\ cache.release[ip] = None
                    THEN None ELSE rs[ip]]

\* abortNoLongerExcessIPs: the IPs to un-track, those in a handshake (per
\* n.resource) that are not in the excess list and not yet released.
abortNoLongerExcessIPs(rs, excess) ==
    {ip \in IPs \ excess : cache.release[ip] \notin {None, Released}
                           /\ rs[ip] \notin {None, Released}}

\* Mutant: the agent's answers are not carried over.
PopulateIPReleaseStatusNoRetain(rs, nodeRelease) == rs

\* PopulateIPReleaseStatus: the releaseIPs map written to the apiserver,
\* keeping the agent's answer to a marked IP.
PopulateIPReleaseStatus(rs, nodeRelease) ==
    [ip \in IPs |-> IF rs[ip] = Mark /\ nodeRelease[ip] \in {Ready, DoNot}
                    THEN nodeRelease[ip] ELSE rs[ip]]

-----------------------------------------------------------------------------
Init ==
    /\ cloud \in SUBSET IPs
    /\ returned = {}
    /\ \E u \in SUBSET cloud :
          crd = [pool |-> cloud, used |-> u, release |-> NoRelease]
    /\ cache = crd
    /\ marked = {}
    /\ cooled = {}
    /\ relStatus = NoRelease
    /\ pass = [phase |-> "idle", toRelease |-> {}]
    /\ sync = [phase |-> "idle", attempt |-> 0, node |-> crd, pool |-> {}]
    /\ podOps = 0

\* The rest of handleIPRelease before its cloud call, for the excess list L
\* ({} when determineMaintenanceAction chose no release), after
\* removeStaleReleaseIPs.  The pass goes on to the cloud call when some IP
\* is acknowledged, and otherwise ends with its recalculate.
HandleIPRelease(L) ==
    LET rs0 == removeStaleReleaseIPs(relStatus)
        tracked == IF L = {} THEN {} ELSE marked \cup L
        answered(s) == {m \in L \cap cooled : cache.release[m] = s}
        dropped == (tracked \ L) \cup answered(DoNot)
        rs1 == [ip \in IPs |-> IF ip \in dropped THEN None
                               ELSE IF ip \in answered(None) THEN Mark
                               ELSE rs0[ip]]
        untracked == dropped \cup abortNoLongerExcessIPs(rs1, L)
    IN
    /\ marked' = tracked \ untracked
    /\ cooled' = cooled \cap marked'
    /\ relStatus' = [ip \in IPs |-> IF ip \in untracked THEN None ELSE rs1[ip]]
    /\ pass' = [phase |-> IF answered(Ready) = {} THEN "idle" ELSE "releasing",
                toRelease |-> answered(Ready)]

\* A pass of MaintainIPPool whose action is a release (maintainIPPool with
\* determineMaintenanceAction choosing release, then handleIPRelease).
MaintainRelease ==
    /\ pass.phase = "idle"
    /\ ExcessIPs > 0
    /\ HandleIPRelease(PrepareIPRelease)
    /\ UNCHANGED <<cloud, returned, crd, cache, sync, podOps>>

\* A pass whose action is an allocation: handleIPRelease with no release
\* resets ipsMarkedForRelease, then handleIPAllocation attaches up to
\* NeededIPs addresses the cloud has free (none when the ENI is full).
MaintainAllocate ==
    LET free == IPs \ (cloud \cup (IF CloudReusesIPs THEN {} ELSE returned))
    IN
    /\ pass.phase = "idle"
    /\ ExcessIPs = 0
    /\ NeededIPs > 0
    /\ HandleIPRelease({})
    /\ \E S \in SUBSET free :
          /\ Cardinality(S) = IntMin(NeededIPs, Cardinality(free))
          /\ cloud' = cloud \cup S
    /\ UNCHANGED <<returned, crd, cache, sync, podOps>>

\* A pass with nothing to do: determineMaintenanceAction returns nil and
\* maintainIPPool only calls abortNoLongerExcessIPs(nil).
MaintainNothing ==
    LET rs0 == removeStaleReleaseIPs(relStatus)
        untracked == abortNoLongerExcessIPs(rs0, {})
    IN
    /\ pass.phase = "idle"
    /\ ExcessIPs = 0
    /\ NeededIPs = 0
    /\ marked' = marked \ untracked
    /\ cooled' = cooled \ untracked
    /\ relStatus' = [ip \in IPs |-> IF ip \in untracked THEN None ELSE rs0[ip]]
    /\ UNCHANGED <<cloud, returned, crd, cache, pass, sync, podOps>>

\* The ReleaseIPs call of handleIPRelease returns: on success the IPs leave
\* the cloud and become 'released' locally; on failure nothing changes.
\* Either way the pass ends with its recalculate.
ReleaseIPsSuccess ==
    /\ pass.phase = "releasing"
    /\ cloud' = cloud \ pass.toRelease
    /\ returned' = returned \cup pass.toRelease
    /\ marked' = marked \ pass.toRelease
    /\ cooled' = cooled \ pass.toRelease
    /\ relStatus' = [ip \in IPs |-> IF ip \in pass.toRelease THEN Released
                                    ELSE relStatus[ip]]
    /\ pass' = [phase |-> "idle", toRelease |-> {}]
    /\ UNCHANGED <<crd, cache, sync, podOps>>

ReleaseIPsFailure ==
    /\ pass.phase = "releasing"
    /\ pass' = [phase |-> "idle", toRelease |-> {}]
    /\ UNCHANGED <<cloud, returned, crd, cache, marked, cooled, relStatus, sync, podOps>>

\* ExcessIPReleaseDelay elapses for a marked IP.
DelayElapses(ip) ==
    /\ ip \in marked \ cooled
    /\ cooled' = cooled \cup {ip}
    /\ UNCHANGED <<cloud, returned, crd, cache, marked, relStatus, pass, sync, podOps>>

\* UpdatedResource: the watch delivers the latest object to n.resource.
UpdatedResource ==
    /\ cache # crd
    /\ cache' = crd
    /\ UNCHANGED <<cloud, returned, crd, marked, cooled, relStatus, pass, sync, podOps>>

\* Mutant: the pool written back is the copy's own spec.ipam.pool.
SyncStartPoolFromCopy ==
    /\ sync.phase = "idle"
    /\ sync' = [phase |-> "status", attempt |-> 0, node |-> cache, pool |-> cache.pool]
    /\ UNCHANGED <<cloud, returned, crd, cache, marked, cooled, relStatus, pass, podOps>>

\* syncToAPIServer starts from ResourceCopy() and takes the Pool() snapshot.
SyncStart ==
    /\ sync.phase = "idle"
    /\ sync' = [phase |-> "status", attempt |-> 0, node |-> cache, pool |-> cloud]
    /\ UNCHANGED <<cloud, returned, crd, cache, marked, cooled, relStatus, pass, podOps>>

\* Mutant: a conflict is always retried with a refetched copy.
UpdateAttemptUnbounded(newNode, nextPhase) ==
    \/ /\ sync.node = crd
       /\ crd' = newNode
       /\ sync' = [sync EXCEPT !.phase = nextPhase, !.attempt = 0, !.node = newNode]
    \/ /\ sync.node # crd
       /\ sync' = [sync EXCEPT !.attempt = @ + 1, !.node = crd]
       /\ UNCHANGED crd

\* One attempt of update: the write succeeds when the copy is current (and
\* the copy becomes the written object); on a conflict the object is
\* refetched for the second attempt, and after that the sync gives up until
\* its retry trigger fires.
UpdateAttempt(newNode, nextPhase) ==
    \/ /\ sync.node = crd
       /\ crd' = newNode
       /\ sync' = [sync EXCEPT !.phase = nextPhase, !.attempt = 0, !.node = newNode]
    \/ /\ sync.node # crd
       /\ sync' = IF sync.attempt = 0
                  THEN [sync EXCEPT !.attempt = 1, !.node = crd]
                  ELSE [sync EXCEPT !.phase = "idle"]
       /\ UNCHANGED crd

\* The status loop: PopulateIPReleaseStatus (with its removeStaleReleaseIPs)
\* on the copy, then UpdateStatus.
SyncStatus ==
    LET rs0 == removeStaleReleaseIPs(relStatus)
    IN
    /\ sync.phase = "status"
    /\ relStatus' = rs0
    /\ UpdateAttempt([sync.node EXCEPT !.release =
                         PopulateIPReleaseStatus(rs0, sync.node.release)], "spec")
    /\ UNCHANGED <<cloud, returned, cache, marked, cooled, pass, podOps>>

\* The spec loop: Update with spec.ipam.pool set to the snapshot.
SyncSpec ==
    /\ sync.phase = "spec"
    /\ UpdateAttempt([sync.node EXCEPT !.pool = sync.pool], "idle")
    /\ UNCHANGED <<cloud, returned, cache, marked, cooled, relStatus, pass, podOps>>

-----------------------------------------------------------------------------
(* The agent, on the latest object (its writes are conflict-checked too).  *)

\* A pod gets an IP of spec.ipam.pool that is free and in no handshake
\* other than a refused one.
AgentAllocate(ip) ==
    /\ podOps < MaxPodOps
    /\ ip \in crd.pool \ crd.used
    /\ crd.release[ip] \in {None, DoNot}
    /\ crd' = [crd EXCEPT !.used = @ \cup {ip}]
    /\ podOps' = podOps + 1
    /\ UNCHANGED <<cloud, returned, cache, marked, cooled, relStatus, pass, sync>>

\* A pod goes away and frees its IP.
AgentFree(ip) ==
    /\ podOps < MaxPodOps
    /\ ip \in crd.used
    /\ crd' = [crd EXCEPT !.used = @ \ {ip}]
    /\ podOps' = podOps + 1
    /\ UNCHANGED <<cloud, returned, cache, marked, cooled, relStatus, pass, sync>>

\* The agent answers a marked IP of its pool: in use, do-not-release;
\* else ready.
AgentAnswer(ip) ==
    /\ crd.release[ip] = Mark
    /\ ip \in crd.pool
    /\ crd' = [crd EXCEPT !.release[ip] = IF ip \in crd.used THEN DoNot ELSE Ready]
    /\ UNCHANGED <<cloud, returned, cache, marked, cooled, relStatus, pass, sync, podOps>>

\* The agent ends a handshake once the released IP left spec.ipam.pool.
AgentRemoveReleased(ip) ==
    /\ crd.release[ip] = Released
    /\ ip \notin crd.pool
    /\ crd' = [crd EXCEPT !.release[ip] = None]
    /\ UNCHANGED <<cloud, returned, cache, marked, cooled, relStatus, pass, sync, podOps>>

-----------------------------------------------------------------------------
Maintain == MaintainRelease \/ MaintainAllocate \/ MaintainNothing
Sync == SyncStart \/ SyncStatus \/ SyncSpec

Next ==
    \/ Maintain \/ ReleaseIPsSuccess \/ ReleaseIPsFailure \/ Sync
    \/ UpdatedResource
    \/ \E ip \in IPs : \/ DelayElapses(ip)
                       \/ AgentAllocate(ip) \/ AgentFree(ip)
                       \/ AgentAnswer(ip) \/ AgentRemoveReleased(ip)

\* The pool maintainer and the sync are re-triggered periodically, the watch
\* and the agent keep up, the delay timer runs out, and the cloud's release
\* call does not fail forever.  Pods may stop coming and going.
Fairness ==
    /\ WF_vars(Maintain) /\ WF_vars(Sync) /\ WF_vars(UpdatedResource)
    /\ WF_vars(ReleaseIPsSuccess \/ ReleaseIPsFailure) /\ SF_vars(ReleaseIPsSuccess)
    /\ \A ip \in IPs : /\ WF_vars(DelayElapses(ip))
                       /\ WF_vars(AgentAnswer(ip)) /\ WF_vars(AgentRemoveReleased(ip))

Spec == Init /\ [][Next]_vars /\ Fairness

-----------------------------------------------------------------------------
TypeOK ==
    /\ cloud \subseteq IPs /\ returned \subseteq IPs
    /\ crd \in Object /\ cache \in Object
    /\ marked \subseteq IPs /\ cooled \subseteq marked
    /\ relStatus \in [IPs -> {Mark, Released, None}]
    /\ pass.phase \in {"idle", "releasing"} /\ pass.toRelease \subseteq IPs
    /\ sync.phase \in {"idle", "status", "spec"} /\ sync.attempt \in 0..1
    /\ sync.node \in Object /\ sync.pool \subseteq IPs
    /\ podOps \in 0..MaxPodOps

\* No IP a pod holds is ever released to the cloud: every address in the
\* agent's status.ipam.used is still attached to the node.  This is what the
\* handshake of handleIPRelease, PopulateIPReleaseStatus and
\* abortNoLongerExcessIPs exists for.
NoUsedIPReleased == crd.used \subseteq cloud

\* Every handshake entry in status.ipam.releaseIPs is eventually removed
\* again: an answered IP is released or abandoned, and a released one leaves
\* spec.ipam.pool so that the agent drops it.
HandshakeCompletes == \A ip \in IPs : crd.release[ip] # None ~> crd.release[ip] = None

\* Once pods stop coming and going, the excess is eventually given back:
\* handleIPRelease does not keep marking, aborting and re-marking for ever.
ExcessEventuallyReleased == <>[](ExcessIPs = 0)

=============================================================================
