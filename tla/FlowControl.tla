----------------------------- MODULE FlowControl -----------------------------
(***************************************************************************)
(* The rate-limited gateway of pkg/bce/api/cloud/flow_control.go: every    *)
(* cloud call of flowControlClient first waits on the limiter of a named   *)
(* API key, then calls the underlying client, and a deferred function      *)
(* reports Done or Error on the request it got.  Concurrent callers are    *)
(* goroutines of the operator (pool maintainers, the ENI reconciler).      *)
(*                                                                         *)
(* The limiter set (pkg/rate, outside this repository) is modelled from    *)
(* its contract: a key's limiter hands out at most ParallelRequests slots, *)
(* a waiter blocks until a slot frees or its wait deadline elapses, the    *)
(* rate reservation may refuse a request whose delay exceeds the wait, and *)
(* Done or Error gives the slot back.  Keys without an entry in            *)
(* apiRateLimitDefaults get the fallback of NewFlowControlClient, which    *)
(* sets no ParallelRequests (0: no concurrency limit).  QPS is abstracted  *)
(* to the nondeterministic refusal.                                        *)
(***************************************************************************)
EXTENDS Naturals, FiniteSets

CONSTANTS
    Callers,   \* goroutines issuing cloud calls
    Ops        \* the Interface methods they call (names as strings)

ASSUME Callers # {} /\ Ops # {}

VARIABLES
    enabled,   \* option.Config.EnableAPIRateLimit (fixed at start)
    pc,        \* per caller: "idle", "wait" (in limiter.Wait), "call"
    op,        \* per caller: the method being called ("none" when idle)
    held,      \* per caller: req is a LimitedRequest holding a slot
    inflight   \* per limiter key: slots handed out and not yet returned

vars == <<enabled, pc, op, held, inflight>>

\* The key each wrapper passes to fc.limiter.Wait.  Every wrapper uses a
\* key of its own, mostly the method's name and otherwise a one-to-one
\* alias (ListBCCInstanceEni: BCCListENIs, ListEsg: BCCListEnterpriseSG,
\* ListAclEntrys: VPCListAcl), which the model names by the method; the
\* exceptions are BindENIPublicIP (UnBindENIPublicIP's key) and GetENIQuota
\* (StatENI's key), which share another wrapper's key.
Misrouted == [m \in {"BindENIPublicIP", "GetENIQuota"} |->
                 IF m = "BindENIPublicIP" THEN "UnBindENIPublicIP" ELSE "StatENI"]
LimiterKey(m) == IF m \in DOMAIN Misrouted THEN Misrouted[m] ELSE m

Keys == {LimiterKey(m) : m \in Ops}

\* ParallelRequests of apiRateLimitDefaults; 0 for the fallback limiter.
Serial == {"DeleteENI", "ListENIs", "ListRouteTable", "ListSubnets"}
Parallel5 == {"BatchAddPrivateIP", "BatchDeletePrivateIP", "CreateENI",
              "AttachENI", "StatENI", "ListERIs", "BCCListENIs",
              "BCCBatchAddIP", "BCCBatchDelIP", "CreateRouteRule",
              "DeleteRouteRule", "DescribeSubnet", "GetBCCInstanceDetail",
              "GetBBCInstanceDetail", "BBCBatchAddIP", "BBCBatchDelIP",
              "BBCBatchAddIPCrossSubnet", "GetHPCEniID",
              "BatchDeleteHpcEniPrivateIP", "BatchAddHpcEniPrivateIP"}
ParallelRequests(k) == IF k \in Serial THEN 1 ELSE IF k \in Parallel5 THEN 5 ELSE 0

\* Mutant: the slot test lets one request too many through.
SlotFreeOffByOne(k) == ParallelRequests(k) = 0 \/ inflight[k] <= ParallelRequests(k)

\* Slots of key k a new request may still take.
SlotFree(k) == ParallelRequests(k) = 0 \/ inflight[k] < ParallelRequests(k)

Holding(k) == {c \in Callers : held[c] /\ LimiterKey(op[c]) = k}

-----------------------------------------------------------------------------
Init ==
    /\ enabled \in BOOLEAN
    /\ pc = [c \in Callers |-> "idle"]
    /\ op = [c \in Callers |-> "none"]
    /\ held = [c \in Callers |-> FALSE]
    /\ inflight = [k \in Keys |-> 0]

\* A wrapper is entered: with rate limiting on it calls limiter.Wait,
\* otherwise it goes straight to fc.client.
Invoke(c, m) ==
    /\ pc[c] = "idle"
    /\ op' = [op EXCEPT ![c] = m]
    /\ pc' = [pc EXCEPT ![c] = IF enabled THEN "wait" ELSE "call"]
    /\ UNCHANGED <<enabled, held, inflight>>

\* limiter.Wait returns a request: a slot of the wrapper's key is taken.
Acquire(c) ==
    LET k == LimiterKey(op[c]) IN
    /\ pc[c] = "wait"
    /\ SlotFree(k)
    /\ inflight' = [inflight EXCEPT ![k] = @ + 1]
    /\ held' = [held EXCEPT ![c] = TRUE]
    /\ pc' = [pc EXCEPT ![c] = "call"]
    /\ UNCHANGED <<enabled, op>>

\* limiter.Wait fails and the wrapper returns its error at once: either
\* every slot stays taken until the wait deadline (WaitTimeout), or the
\* rate reservation would wait too long (RateRefused).
WaitTimeout(c) ==
    /\ pc[c] = "wait"
    /\ ~SlotFree(LimiterKey(op[c]))
    /\ pc' = [pc EXCEPT ![c] = "idle"]
    /\ op' = [op EXCEPT ![c] = "none"]
    /\ UNCHANGED <<enabled, held, inflight>>

RateRefused(c) ==
    /\ pc[c] = "wait"
    /\ SlotFree(LimiterKey(op[c]))
    /\ pc' = [pc EXCEPT ![c] = "idle"]
    /\ op' = [op EXCEPT ![c] = "none"]
    /\ UNCHANGED <<enabled, held, inflight>>

\* Mutant: Done is called on every return, also when Wait was skipped.
ReleaseUnconditional(c) ==
    /\ inflight' = [k \in Keys |-> IF k = LimiterKey(op[c]) THEN inflight[k] - 1
                                                           ELSE inflight[k]]
    /\ held' = [held EXCEPT ![c] = FALSE]

\* fc.client returns (success or error alike) and the deferred function
\* calls req.Done() or req.Error(err), giving the slot back.
Release(c) ==
    IF held[c]
    THEN /\ inflight' = [inflight EXCEPT ![LimiterKey(op[c])] = @ - 1]
         /\ held' = [held EXCEPT ![c] = FALSE]
    ELSE UNCHANGED <<inflight, held>>

Return(c) ==
    /\ pc[c] = "call"
    /\ Release(c)
    /\ pc' = [pc EXCEPT ![c] = "idle"]
    /\ op' = [op EXCEPT ![c] = "none"]
    /\ UNCHANGED enabled

Next ==
    \E c \in Callers :
        \/ \E m \in Ops : Invoke(c, m)
        \/ Acquire(c) \/ WaitTimeout(c) \/ RateRefused(c)
        \/ Return(c)

Spec == Init /\ [][Next]_vars

-----------------------------------------------------------------------------
TypeOK ==
    /\ enabled \in BOOLEAN
    /\ pc \in [Callers -> {"idle", "wait", "call"}]
    /\ op \in [Callers -> Ops \cup {"none"}]
    /\ held \in [Callers -> BOOLEAN]
    /\ inflight \in [Keys -> 0..Cardinality(Callers)]

\* The gateway implements APILimiter: a wrapper runs its cloud call exactly
\* when the abstract limiter of its method lets a call of that method start,
\* so no method has more calls in flight than its apiRateLimitDefaults entry
\* allows (DeleteENI and ListENIs serialised).
Limiter == INSTANCE APILimiter WITH
    on <- enabled,
    active <- [c \in Callers |-> IF pc[c] = "call" THEN op[c] ELSE "none"],
    Par <- ParallelRequests
LimiterRefinement == Limiter!Spec

\* Operations are limited independently: a call of method m times out
\* waiting for a slot only when m has its own concurrency limit and calls
\* of m hold all of its slots, never because of calls of another method.
OperationsIsolated ==
    [][\A c \in Callers :
         WaitTimeout(c) =>
           /\ ParallelRequests(op[c]) > 0
           /\ Cardinality({d \in Callers : held[d] /\ op[d] = op[c]})
                >= ParallelRequests(op[c])]_vars
=============================================================================
