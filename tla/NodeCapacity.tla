----------------------------- MODULE NodeCapacity -----------------------------
(***************************************************************************)
(* The capacity calculator of pkg/bce/limit/ip_resource_manager.go: the    *)
(* pure quota arithmetic of CalaculateCapacity (GetMaxENIPerNode,          *)
(* GetMaxIPPerENI and the per-family overrides of the operator's           *)
(* configuration) and the SyncCapacity of three managers that patch the    *)
(* same Kubernetes Node's status.capacity: the ENI manager (BCC, BBC or    *)
(* range mode), the RDMA manager and the cross-VPC ENI manager.            *)
(*                                                                         *)
(* Each manager decides between a JSON-patch "add" and "replace", and      *)
(* whether to patch at all, from manager.node, the Node it was constructed *)
(* with; the caller may construct it again with a newer Node.  The         *)
(* apiserver applies a patch's operations all or none, and a "replace" of  *)
(* a capacity that is absent fails.  A user may edit the capacities.       *)
(* The range manager sizes the Node's pod CIDRs, which the controller      *)
(* manager may assign after the manager was constructed.                   *)
(***************************************************************************)
EXTENDS Integers, SequencesExt

CONSTANTS
    CPUCounts,       \* CPU counts of the instance
    MemGBs,          \* memory of the instance in GB
    CustomerValues,  \* values of BCECustomerMaxENI, MaxIP, MaxRdmaIP (0: unset)
    PodCIDRLists,    \* spec.podCIDRs the controller manager may assign
    MaxRangeSize,    \* math.MaxInt64, RangeSize's value for a huge range
    UserValues,      \* capacities a user writes on the Node
    MaxUserEdits     \* bound on the user's edits

\* The capacities: cce.baidubce.com/ip, /eni, /rdmaip, and
\* cross-vpc-eni.cce.io/eni.
Res == {"ip", "eni", "rdmaip", "crossvpc"}
Managers == {"eni", "rdma", "crossvpc"}

\* The cross-VPC annotation and label: absent, unparsable, or a number.
Overrides == {[k |-> "none", v |-> 0], [k |-> "bad", v |-> 0]}
             \cup {[k |-> "num", v |-> n] : n \in UserValues}

VARIABLES
    conf,   \* the instance and the operator's configuration (fixed)
    cap,    \* status.capacity of the Node
    snap,   \* per manager: status.capacity of its manager.node
    err,    \* per manager: SyncCapacity's last result was an error
    edits,  \* user edits so far
    podCIDRs,   \* spec.podCIDRs of the Node (<<>> until assigned)
    snapCIDRs   \* spec.podCIDRs of the ENI manager's manager.node

vars == <<conf, cap, snap, err, edits, podCIDRs, snapCIDRs>>

Absent == [set |-> FALSE, v |-> 0]
Val(n) == [set |-> TRUE, v |-> n]

-----------------------------------------------------------------------------
(* CalaculateCapacity                                                      *)

GetMaxIPPerENI(mem) ==
    CASE mem > 0 /\ mem < 2   -> 2
      [] mem >= 2 /\ mem <= 8 -> 8
      [] mem > 8 /\ mem <= 32 -> 16
      [] mem > 32 /\ mem <= 64 -> 30
      [] mem > 64             -> 40
      [] OTHER                -> 0

GetMaxENIPerNode(cpu) ==
    CASE cpu > 0 /\ cpu < 8 -> cpu
      [] cpu >= 8           -> 8
      [] OTHER              -> 0

\* A value of the configuration overrides the default unless it is 0.
Override(custom, default) == IF custom # 0 THEN custom ELSE default

\* NodeCapacity's CustomerENIResource and CustomerIPResource, the values
\* SyncCapacity patches as eni and ip.  BBC: one ENI's IPs and no ENI
\* resource.  BCC: the secondary IPs of all ENIs.
BBCCapacity(cf) == [eni |-> 0, ip |-> Override(cf.maxIP, 40)]

BCCCapacity(cf) ==
    LET maxENI == Override(cf.maxENI, GetMaxENIPerNode(cf.cpu))
        maxIP == Override(cf.maxIP, GetMaxIPPerENI(cf.mem))
    IN [eni |-> maxENI, ip |-> (maxIP - 1) * maxENI]

\* A pod CIDR: its address family and prefix length.  NoCIDR stands for
\* the empty spec.podCIDR, which does not parse.
NoCIDR == [family |-> 0, ones |-> 0]

\* k8sutilnet.RangeSize: 2^(host bits); 0 from 31 (IPv4) or 127 (IPv6)
\* host bits on, i.e. for a /0 or /1; otherwise math.MaxInt64 from 63
\* host bits on.
RangeSize(c) ==
    LET host == (IF c.family = 4 THEN 32 ELSE 128) - c.ones IN
    CASE host >= (IF c.family = 4 THEN 31 ELSE 127) -> 0
      [] host >= 63 -> MaxRangeSize
      [] OTHER -> 2^host

\* getIPRangeSize: spec.podCIDRs, or spec.podCIDR when that is empty;
\* k8sutilnet.ParseCIDRs returns no CIDR when any fails to parse; the
\* sizes are summed per family (the apiserver allows one CIDR of each, so
\* the int64 sums cannot overflow) and the larger sum is the result.
getIPRangeSize(pcs) ==
    LET cidrs == IF pcs = <<>> THEN <<NoCIDR>> ELSE pcs
        parsed == IF \E i \in DOMAIN cidrs : cidrs[i] = NoCIDR THEN <<>> ELSE cidrs
        Sum(f) == FoldLeft(LAMBDA acc, c : acc + RangeSize(c), 0,
                           SelectSeq(parsed, LAMBDA c : c.family = f))
    IN IF Sum(4) >= Sum(6) THEN Sum(4) ELSE Sum(6)

\* Range mode's SyncCapacity: one ENI and the size of manager.node's pod
\* CIDRs, or the overrides.
RangeCapacity(cf, pcs) ==
    [eni |-> Override(cf.maxENI, 1), ip |-> Override(cf.maxIP, getIPRangeSize(pcs))]

ENICapacity(cf, pcs) ==
    CASE cf.kind = "bcc" -> BCCCapacity(cf)
      [] cf.kind = "bbc" -> BBCCapacity(cf)
      [] cf.kind = "range" -> RangeCapacity(cf, pcs)

\* NodeRdmaCapacity's CustomerRdmaIPResource: 13 (or the override) on an
\* HPC interface, else one ENI's IPs less the primary one.
RdmaCapacity(cf) ==
    IF cf.hpc THEN Override(cf.maxRdmaIP, 13)
    ELSE Override(cf.maxIP, GetMaxIPPerENI(cf.mem)) - 1

\* The cross-VPC ENI count before the Node's annotation and label lower it.
CrossVPCDefault(cf) == Override(cf.maxENI, GetMaxENIPerNode(cf.cpu))

LowerTo(n, o) == IF o.k = "num" /\ o.v < n THEN o.v ELSE n

-----------------------------------------------------------------------------
(* Patching status.capacity                                                *)

\* The patch operations of a capacity: "replace" when manager.node has the
\* capacity checked (chk), "add" otherwise; needed unless the checked
\* capacity already holds the value.
PatchOp(m, chk, k, n) == [op |-> IF snap[m][chk].set THEN "replace" ELSE "add",
                          res |-> k, v |-> n]
Needed(m, chk, n) == ~(snap[m][chk].set /\ snap[m][chk].v = n)

\* The apiserver's JSON patch of status: all operations or none; a
\* "replace" of an absent capacity fails the patch.
Applies(ops) == \A o \in ops : o.op = "add" \/ cap[o.res].set
Apply(ops) == [k \in Res |-> IF \E o \in ops : o.res = k
                             THEN Val((CHOOSE o \in ops : o.res = k).v)
                             ELSE cap[k]]

\* A manager's SyncCapacity sends ops when any is needed; the result is
\* the patch's.
Patch(m, needed, ops) ==
    IF needed
    THEN IF Applies(ops)
         THEN cap' = Apply(ops) /\ err' = [err EXCEPT ![m] = FALSE]
         ELSE UNCHANGED cap /\ err' = [err EXCEPT ![m] = TRUE]
    ELSE UNCHANGED cap /\ err' = [err EXCEPT ![m] = FALSE]

-----------------------------------------------------------------------------
Confs == [kind: {"bcc", "bbc", "range"}, cpu: CPUCounts, mem: MemGBs,
          maxENI: CustomerValues, maxIP: CustomerValues, maxRdmaIP: CustomerValues,
          hpc: BOOLEAN, anno: Overrides, label: Overrides]

\* The operator starts on a Node that is new or that carries the
\* capacities an earlier run patched, with its pod CIDRs assigned or not
\* yet; the managers are constructed with that Node.
Init ==
    /\ conf \in Confs
    /\ podCIDRs \in {<<>>} \cup PodCIDRLists
    /\ snapCIDRs = podCIDRs
    /\ LET e == ENICapacity(conf, podCIDRs)
           n == [ip |-> e.ip, eni |-> e.eni,
                  rdmaip |-> RdmaCapacity(conf), crossvpc |-> CrossVPCDefault(conf)]
       IN cap \in {[k \in Res |-> IF k \in S THEN Val(n[k]) ELSE Absent] : S \in SUBSET Res}
    /\ snap = [m \in Managers |-> cap]
    /\ err = [m \in Managers |-> FALSE]
    /\ edits = 0

\* patchENICapacityInfoToNode with the ENI manager's NodeCapacity: one
\* patch with the ip and the eni operation.
SyncENI ==
    LET c == ENICapacity(conf, snapCIDRs) IN
    /\ Patch("eni", Needed("eni", "ip", c.ip) \/ Needed("eni", "eni", c.eni),
             {PatchOp("eni", "ip", "ip", c.ip), PatchOp("eni", "eni", "eni", c.eni)})
    /\ UNCHANGED <<conf, snap, edits, podCIDRs, snapCIDRs>>

\* patchRdmaCapacityInfoToNode: the rdmaip operation, decided by the ip
\* capacity of manager.node.
SyncRdma ==
    LET n == RdmaCapacity(conf) IN
    /\ Patch("rdma", Needed("rdma", "ip", n), {PatchOp("rdma", "ip", "rdmaip", n)})
    /\ UNCHANGED <<conf, snap, edits, podCIDRs, snapCIDRs>>

\* crossVPCEniResourceManager.SyncCapacity: the default, lowered by the
\* Node's annotation and then its label; an unparsable one returns the
\* error before any patch.
SyncCrossVPC ==
    LET n == LowerTo(LowerTo(CrossVPCDefault(conf), conf.anno), conf.label)
    IN
    /\ IF "bad" \in {conf.anno.k, conf.label.k}
       THEN UNCHANGED cap /\ err' = [err EXCEPT !["crossvpc"] = TRUE]
       ELSE Patch("crossvpc", Needed("crossvpc", "crossvpc", n),
                  {PatchOp("crossvpc", "crossvpc", "crossvpc", n)})
    /\ UNCHANGED <<conf, snap, edits, podCIDRs, snapCIDRs>>

\* The caller constructs a manager again with the current Node.
Construct(m) ==
    /\ snap' = [snap EXCEPT ![m] = cap]
    /\ snapCIDRs' = IF m = "eni" THEN podCIDRs ELSE snapCIDRs
    /\ UNCHANGED <<conf, cap, err, edits, podCIDRs>>

\* The node IPAM controller assigns the Node its pod CIDRs.
AssignPodCIDRs ==
    /\ podCIDRs = <<>>
    /\ \E pcs \in PodCIDRLists : podCIDRs' = pcs
    /\ UNCHANGED <<conf, cap, snap, err, edits, snapCIDRs>>

\* A user sets a capacity to a value of their own, or removes it.
UserEdit(k) ==
    /\ edits < MaxUserEdits
    /\ \E x \in {Absent} \cup {Val(n) : n \in UserValues} : cap' = [cap EXCEPT ![k] = x]
    /\ edits' = edits + 1
    /\ UNCHANGED <<conf, snap, err, podCIDRs, snapCIDRs>>

Next ==
    \/ SyncENI \/ SyncRdma \/ SyncCrossVPC
    \/ \E m \in Managers : Construct(m)
    \/ \E k \in Res : UserEdit(k)
    \/ AssignPodCIDRs

\* SyncCapacity is called on every pass of the node's sync.
Spec == Init /\ [][Next]_vars /\ WF_vars(SyncENI) /\ WF_vars(SyncRdma) /\ WF_vars(SyncCrossVPC)

-----------------------------------------------------------------------------
TypeOK ==
    /\ conf \in Confs
    /\ cap \in [Res -> [set: BOOLEAN, v: Int]]
    /\ snap \in [Managers -> [Res -> [set: BOOLEAN, v: Int]]]
    /\ err \in [Managers -> BOOLEAN]
    /\ edits \in 0..MaxUserEdits
    /\ {podCIDRs, snapCIDRs} \subseteq {<<>>} \cup PodCIDRLists

\* The RDMA manager's capacity reaches the Node: patchRdmaCapacityInfoToNode
\* "patches rdma ip capacity info to node if not exists", and SyncCapacity
\* is called on every pass, so the rdmaip capacity is eventually present.
RdmaCapacityPublished == <>cap["rdmaip"].set
====
