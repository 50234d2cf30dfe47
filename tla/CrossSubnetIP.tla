---------------------------- MODULE CrossSubnetIP ----------------------------
(***************************************************************************)
(* The IP operations of the multi-ENI adapter of a BCC node                *)
(* (pkg/bce/vpceni/node_bcc.go) that move single addresses between ENIs:   *)
(* allocateIPCrossSubnet (one address of another subnet, per family, on an *)
(* ENI of the node) and reuseIPs (a pod's addresses, taken from the ENI of *)
(* the node it ran on and added again here), both with a deferred rollback *)
(* of what they added when a later step fails; and, as the traffic they    *)
(* race with, the pool's allocateIPs and releaseIPs on the same ENIs.      *)
(* Both operations pick their ENI with __prepareIPAllocation, whose        *)
(* per-ENI dual-stack balancing is the operator AvailableOnENI.            *)
(*                                                                         *)
(* A call's steps are separate actions because the cloud and the pool move *)
(* between them.  Addresses of the pool are counted per ENI and family;    *)
(* the addresses these operations move are named.  CreateInterface, which  *)
(* both operations call when no ENI has room before returning an error,    *)
(* belongs to the ENI reconciler and is left out: the node's ENIs are      *)
(* fixed.  rleaseOldIP is not in this repository and is modelled from the  *)
(* specification: it finds the ENI holding each address, reports the       *)
(* addresses local when this node holds them all, and otherwise has the    *)
(* callback release them from the ENI of the other node.                   *)
(***************************************************************************)
EXTENDS Naturals, FiniteSets

CONSTANTS
    NodeENIs,  \* the ENIs of this node
    OldENI,    \* the ENI of the node a migrating pod ran on
    Limit,     \* eniQuota.GetMaxIP(): addresses of one family per ENI
    MaxCalls   \* bound on the calls of both operations and the pool

ASSUME Limit \in Nat \ {0} /\ MaxCalls \in Nat /\ OldENI \notin NodeENIs

\* The migrating pod's addresses, and the addresses the cloud hands out for
\* a fresh cross-subnet allocation.
A4 == "a4"
A6 == "a6"
N4 == "n4"
N6 == "n6"
Addrs == {A4, A6, N4, N6}
Family == [a \in Addrs |-> IF a \in {A4, N4} THEN "v4" ELSE "v6"]
NoENI == "none"
None == "none"

VARIABLES
    families,  \* the IP families the cluster runs (EnableIPv4, EnableIPv6)
    rejects,   \* the node's adapter refuses both operations
    pool,      \* per node ENI and family: addresses the pool allocated
    loc,       \* the ENI each named address is on in the cloud
    c,         \* the call in progress
    calls      \* calls so far

vars == <<families, rejects, pool, loc, c, calls>>

\* op, pc and res (the call's outcome), the input (ips; sbn6: the subnet of
\* a cross-subnet call has an IPv6 CIDR), the ENI chosen, the result
\* variables ipv4Result and ipv6Result, the addresses the cloud added for
\* the call, and the addresses of its rollback.
Idle == [op |-> "none", pc |-> "idle", res |-> "none", ips |-> {}, sbn6 |-> FALSE,
         eni |-> NoENI, v4 |-> None, v6 |-> None, added |-> {}, batch |-> {}]

\* Addresses of family f on ENI e, of the pool and named.
Count(e, f) == pool[e][f] + Cardinality({a \in Addrs : loc[a] = e /\ Family[a] = f})

\* __prepareIPAllocation for one ENI holding n4 IPv4 and n6 IPv6 addresses:
\* with both families the one behind is topped up towards the other, and
\* only when they are level are both filled towards the limit.
AvailableOnENI(n4, n6) ==
    LET Spare(n) == IF Limit - n > 0 THEN Limit - n ELSE 0
        Lesser(x, y) == IF x <= y THEN x ELSE y
    IN
    IF families = {"v4", "v6"}
    THEN IF n6 > n4 THEN [v4 |-> Lesser(Limit - n4, n6 - n4), v6 |-> 0]
         ELSE IF n6 < n4 THEN [v4 |-> 0, v6 |-> Lesser(Limit - n6, n4 - n6)]
         ELSE [v4 |-> Spare(n4), v6 |-> Spare(n6)]
    ELSE [v4 |-> IF "v4" \in families THEN Spare(n4) ELSE 0,
          v6 |-> IF "v6" \in families THEN Spare(n6) ELSE 0]

Available(e) == AvailableOnENI(Count(e, "v4"), Count(e, "v6"))
HasRoom(e) == Available(e).v4 > 0 \/ Available(e).v6 > 0

\* The cloud's BatchAdd of address a on ENI e: refused when a is on an
\* ENI already or e is at its quota for a's family.
CanAdd(a, e) == loc[a] = NoENI /\ Count(e, Family[a]) < Limit

-----------------------------------------------------------------------------
Init ==
    /\ families \in {{"v4"}, {"v6"}, {"v4", "v6"}}
    /\ rejects \in BOOLEAN
    /\ pool \in [NodeENIs -> [{"v4", "v6"} -> 0..Limit]]
    /\ \A e \in NodeENIs : \A f \in {"v4", "v6"} : f \notin families => pool[e][f] = 0
    \* the pod's addresses are on the ENI of its old node, or already here
    /\ \E e \in NodeENIs \cup {OldENI} :
         loc = [a \in Addrs |-> IF a \in {A4, A6} /\ Family[a] \in families
                                THEN e ELSE NoENI]
    /\ \A e \in NodeENIs : \A f \in families : Count(e, f) <= Limit
    /\ c = Idle
    /\ calls = 0

\* The call returns; its error, if any, makes the deferred rollback ask the
\* cloud to delete the result addresses recorded so far.
Finish(err, rollback) ==
    [c EXCEPT !.pc = IF err /\ rollback # {} THEN "rollback" ELSE "idle",
              !.res = IF err THEN "err" ELSE "ok",
              !.batch = IF err THEN rollback ELSE {}]

\* Mutant: the rollback list leaves out ipv4Result.
RecordedV6Only(r) == {a \in {r.v6} : a # None}

\* The rollback list: ipv4Result and ipv6Result where set.
Recorded(r) == {a \in {r.v4, r.v6} : a # None}

\* The EBC adapter with its primary ENI in secondary-IP mode, and any
\* adapter in primary-IP use mode, refuses both operations.
Refuses == rejects

\* A call enters either operation.  The adapter refuses it at once in
\* primary-IP use mode, or on an EBC node using its primary ENI with
\* secondary IPs; reuseIPs also refuses an empty list or a malformed owner.
Begin ==
    /\ c.pc = "idle" /\ calls < MaxCalls
    /\ calls' = calls + 1
    /\ \/ \E sbn6 \in BOOLEAN :
            c' = [Idle EXCEPT !.op = "cross", !.sbn6 = sbn6,
                    !.pc = IF Refuses THEN "idle" ELSE "prepare",
                    !.res = IF Refuses THEN "err" ELSE "none"]
       \/ \E ips \in {{}, {a \in {A4, A6} : Family[a] \in families}} :
            c' = [Idle EXCEPT !.op = "reuse", !.ips = ips,
                    !.pc = IF Refuses \/ ips = {} THEN "idle" ELSE "prepare",
                    !.res = IF Refuses \/ ips = {} THEN "err" ELSE "none",
                    !.v4 = IF A4 \in ips THEN A4 ELSE None,
                    !.v6 = IF A6 \in ips THEN A6 ELSE None]
    /\ UNCHANGED <<families, rejects, pool, loc>>

\* __prepareIPAllocation(checkSubnet = false): the first ENI with room in
\* the iteration, an error for an ENI not yet in use, or no room (after
\* CreateInterface is asked for a new ENI) and an error.
Prepare ==
    /\ c.pc = "prepare"
    /\ \/ \E e \in NodeENIs :
            /\ HasRoom(e)
            /\ c' = [c EXCEPT !.eni = e, !.pc = IF c.op = "cross" THEN "add4" ELSE "release"]
       \/ c' = Finish(TRUE, {})
    /\ UNCHANGED <<families, rejects, pool, loc, calls>>

\* The cloud adds address a to the chosen ENI for the call.
Place(a) ==
    /\ CanAdd(a, c.eni)
    /\ loc' = [loc EXCEPT ![a] = c.eni]

\* allocateIPCrossSubnet after the ENI is chosen: the subnet lookup, then
\* BatchAddPrivateIpCrossSubnet for one IPv4 address; an error, or a
\* count other than one, returns the error.
CrossAdd4 ==
    /\ c.op = "cross" /\ c.pc = "add4"
    /\ \/ /\ c' = Finish(TRUE, {})        \* sbnlister.Get failed
          /\ UNCHANGED loc
       \/ LET r == [c EXCEPT !.v4 = N4, !.added = @ \cup {N4}] IN
          /\ Place(N4)
          /\ c' = IF "v6" \in families /\ c.sbn6
                  THEN [r EXCEPT !.pc = "add6"] ELSE [r EXCEPT !.pc = "idle", !.res = "ok"]
       \/ /\ c' = Finish(TRUE, Recorded(c))
          /\ UNCHANGED loc
    /\ UNCHANGED <<families, rejects, pool, calls>>

\* With IPv6 on and an IPv6 CIDR in the subnet: one IPv6 address; its
\* failure rolls back the IPv4 address.
CrossAdd6 ==
    /\ c.op = "cross" /\ c.pc = "add6"
    /\ \/ /\ Place(N6)
          /\ c' = [c EXCEPT !.v6 = N6, !.added = @ \cup {N6}, !.pc = "idle", !.res = "ok"]
       \/ /\ c' = Finish(TRUE, Recorded(c))
          /\ UNCHANGED loc
    /\ UNCHANGED <<families, rejects, pool, calls>>

\* reuseIPs after the ENI is chosen: rleaseOldIP.  When this node holds all
\* the addresses they are local; otherwise the callback's
\* BatchDeletePrivateIP removes those on the old node's ENI, and its error
\* is returned before the rollback is deferred.
ReleaseOld ==
    LET old == {a \in c.ips : loc[a] = OldENI} IN
    /\ c.op = "reuse" /\ c.pc = "release"
    /\ \/ /\ \A a \in c.ips : loc[a] \in NodeENIs
          /\ c' = [c EXCEPT !.pc = "local"]
          /\ UNCHANGED loc
       \/ /\ \E a \in c.ips : loc[a] \notin NodeENIs
          /\ loc' = [a \in Addrs |-> IF a \in old THEN NoENI ELSE loc[a]]
          /\ c' = [c EXCEPT !.pc = "add4"]
       \/ /\ old # {}
          /\ c' = Finish(TRUE, {})
          /\ UNCHANGED loc
    /\ UNCHANGED <<families, rejects, pool, calls>>

\* The local short cut: ENIClient.GetByIP of ipv4Result's address, and the
\* first ENI found is returned.  Without an IPv4 address ipv4Result is nil
\* and the dereference panics.
Local ==
    /\ c.op = "reuse" /\ c.pc = "local"
    /\ c' = IF c.v4 = None THEN [c EXCEPT !.pc = "idle", !.res = "panic"]
            ELSE [c EXCEPT !.eni = loc[A4], !.pc = "idle", !.res = "ok"]
    /\ UNCHANGED <<families, rejects, pool, loc, calls>>

\* BatchAddPrivateIpCrossSubnet of the pod's IPv4 address on the chosen
\* ENI (ipv4Result.SubnetID: a panic without one; the deferred rollback
\* sees no error then).  On failure ipv4Result is cleared first.
ReuseAdd4 ==
    /\ c.op = "reuse" /\ c.pc = "add4"
    /\ \/ /\ c.v4 = None
          /\ c' = [c EXCEPT !.pc = "idle", !.res = "panic"]
          /\ UNCHANGED loc
       \/ /\ c.v4 # None
          /\ Place(A4)
          /\ c' = [c EXCEPT !.added = @ \cup {A4},
                            !.pc = IF "v6" \in families /\ c.v6 # None THEN "add6" ELSE "idle",
                            !.res = IF "v6" \in families /\ c.v6 # None THEN "none" ELSE "ok"]
       \/ /\ c.v4 # None
          /\ c' = Finish(TRUE, Recorded([c EXCEPT !.v4 = None]))
          /\ UNCHANGED loc
    /\ UNCHANGED <<families, rejects, pool, calls>>

\* The pod's IPv6 address, with IPv6 on; its failure rolls back both.
ReuseAdd6 ==
    /\ c.op = "reuse" /\ c.pc = "add6"
    /\ \/ /\ Place(A6)
          /\ c' = [c EXCEPT !.added = @ \cup {A6}, !.pc = "idle", !.res = "ok"]
       \/ /\ c' = Finish(TRUE, Recorded(c))
          /\ UNCHANGED loc
    /\ UNCHANGED <<families, rejects, pool, calls>>

\* The deferred rollback: BatchDeletePrivateIP of the list on the chosen
\* ENI.  Its error is only logged.
Rollback ==
    /\ c.pc = "rollback"
    /\ \/ loc' = [a \in Addrs |-> IF a \in c.batch /\ loc[a] = c.eni THEN NoENI ELSE loc[a]]
       \/ UNCHANGED loc
    /\ c' = [c EXCEPT !.pc = "idle"]
    /\ UNCHANGED <<families, rejects, pool, calls>>

-----------------------------------------------------------------------------
(* The pool's calls on the same ENIs, by the IPAM engine.  They take no   *)
(* lock shared with the two operations and may run between any two of a  *)
(* call's steps.                                                           *)

\* Mutant: allocateIPs asks for the pass's budget, not the ENI's room.
PoolAllocateUnclamped(e, budget) ==
    /\ calls < MaxCalls
    /\ HasRoom(e)
    /\ \E ok4, ok6 \in BOOLEAN :
         pool' = [pool EXCEPT ![e] = [v4 |-> IF ok4 /\ "v4" \in families THEN @.v4 + budget ELSE @.v4,
                                      v6 |-> IF ok4 /\ ok6 /\ "v6" \in families THEN @.v6 + budget ELSE @.v6]]
    /\ calls' = calls + 1
    /\ UNCHANGED <<families, rejects, loc, c>>

\* handleIPAllocation with AllocateIPs: the counts of __prepareIPAllocation
\* capped by the pass's budget; allocateIPs adds the IPv4 batch, then the
\* IPv6 batch, and returns at the first error, keeping what was added.
PoolAllocate(e, budget) ==
    LET k4 == IF Available(e).v4 < budget THEN Available(e).v4 ELSE budget
        k6 == IF Available(e).v6 < budget THEN Available(e).v6 ELSE budget
    IN
    /\ calls < MaxCalls
    /\ HasRoom(e)
    /\ \E ok4, ok6 \in BOOLEAN :
         pool' = [pool EXCEPT ![e] = [v4 |-> IF ok4 THEN @.v4 + k4 ELSE @.v4,
                                      v6 |-> IF ok4 /\ ok6 THEN @.v6 + k6 ELSE @.v6]]
    /\ calls' = calls + 1
    /\ UNCHANGED <<families, rejects, loc, c>>

\* releaseIPs: the IPv4 list, then the IPv6 list; an error of the first
\* returns before the second.
PoolRelease(e, r4, r6) ==
    /\ calls < MaxCalls
    /\ r4 + r6 > 0
    /\ \E ok4, ok6 \in BOOLEAN :
         pool' = [pool EXCEPT ![e] = [v4 |-> IF ok4 THEN @.v4 - r4 ELSE @.v4,
                                      v6 |-> IF ok4 /\ ok6 THEN @.v6 - r6 ELSE @.v6]]
    /\ calls' = calls + 1
    /\ UNCHANGED <<families, rejects, loc, c>>

Next ==
    \/ Begin \/ Prepare \/ CrossAdd4 \/ CrossAdd6
    \/ ReleaseOld \/ Local \/ ReuseAdd4 \/ ReuseAdd6 \/ Rollback
    \/ \E e \in NodeENIs :
         \/ \E b \in 1..Limit : PoolAllocate(e, b)
         \/ \E r4 \in 0..pool[e].v4, r6 \in 0..pool[e].v6 : PoolRelease(e, r4, r6)

Spec == Init /\ [][Next]_vars

-----------------------------------------------------------------------------
Pcs == {"idle", "prepare", "add4", "add6", "release", "local", "rollback"}

TypeOK ==
    /\ families \in SUBSET {"v4", "v6"} \ {{}}
    /\ rejects \in BOOLEAN
    /\ pool \in [NodeENIs -> [{"v4", "v6"} -> 0..Limit]]
    /\ loc \in [Addrs -> NodeENIs \cup {OldENI, NoENI}]
    /\ c.op \in {"none", "cross", "reuse"} /\ c.pc \in Pcs
    /\ c.res \in {"none", "ok", "err", "panic"}
    /\ c.added \subseteq Addrs /\ c.batch \subseteq Addrs
    /\ calls \in 0..MaxCalls

\* A step that ends allocateIPCrossSubnet or reuseIPs with an error hands
\* the deferred rollback every address the cloud added for the call: the
\* rollback list is built from ipv4Result and ipv6Result, and reuseIPs
\* clears ipv4Result only when its own IPv4 add failed.
RollbackCoversAttempt ==
    [][c'.res = "err" /\ c.res = "none" => c'.added \subseteq c'.batch]_vars

====
