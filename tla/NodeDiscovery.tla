---------------------------- MODULE NodeDiscovery ----------------------------
(***************************************************************************)
(* The agent publishing its node's NetResourceSet                          *)
(* (pkg/nodediscovery/nodediscovery.go): UpdateNetResourceSetResource's    *)
(* loop of at most maxRetryCount Get / mutateNodeResource / Update-or-     *)
(* Create rounds, racing the operator's writes to the same object, the     *)
(* deletion of the Kubernetes Node, and the garbage collector that deletes *)
(* the object once its owner Node is gone.  A log.Fatal or a panic ends    *)
(* the agent; the kubelet restarts it and the loop runs again.             *)
(*                                                                         *)
(* The object is abstracted to whether it exists, whether it carries the   *)
(* Node owner reference, its resourceVersion, the subnets of spec.eni      *)
(* (SubnetIDs) and the subnets of the ENIs in its status.                  *)
(***************************************************************************)
EXTENDS Naturals

CONSTANTS
    maxRetryCount,   \* rounds of the loop before log.Fatal
    Subnets,         \* subnet IDs
    NodeDeletes,     \* whether the Kubernetes Node may be deleted
    GetErrors,       \* whether Gets may fail with a transient error
    MaxOtherWrites,  \* bound on the operator's writes and config edits
    MaxRuns          \* bound on agent (re)starts

VARIABLES
    srv,      \* the NetResourceSet in the apiserver
    node,     \* the Kubernetes Node: "present" or "deleted"
    cfg,      \* subnet IDs of the agent's ENI config (EniSubnetIDs)
    ag,       \* the agent's loop
    writes,   \* operator writes and config edits so far
    runs      \* agent (re)starts so far

vars == <<srv, node, cfg, ag, writes, runs>>

Obj == [exists: BOOLEAN, owner: BOOLEAN, rv: Nat,
        specSubnets: SUBSET Subnets, eniSubnets: SUBSET Subnets]
Absent == [exists |-> FALSE, owner |-> FALSE, rv |-> 0,
           specSubnets |-> {}, eniSubnets |-> {}]

Stopped == {"idle", "done", "fatal", "panic"}

-----------------------------------------------------------------------------
Init ==
    /\ srv = Absent
    /\ node = "present"
    /\ cfg \in SUBSET Subnets \ {{}}
    /\ ag = [pc |-> "idle", retry |-> 0, performGet |-> TRUE,
             performUpdate |-> TRUE, copy |-> Absent]
    /\ writes = 0
    /\ runs = 0

\* UpdateLocalNode reaches UpdateNetResourceSetResource: at agent start,
\* and again after the agent ended (log.Fatal, a panic) and was restarted.
Start ==
    /\ ag.pc \in Stopped
    /\ runs < MaxRuns
    /\ ag' = [pc |-> "loop", retry |-> 0, performGet |-> TRUE,
              performUpdate |-> TRUE, copy |-> Absent]
    /\ runs' = runs + 1
    /\ UNCHANGED <<srv, node, cfg, writes>>

\* A round's Get when performGet is set.  Any Get error (not found or
\* transient) makes the round Create a fresh object.
Fetch ==
    \/ /\ ag.performGet /\ srv.exists
       /\ ag' = [ag EXCEPT !.pc = "write", !.copy = srv,
                           !.performGet = FALSE, !.performUpdate = TRUE]
    \/ /\ ag.performGet /\ (~srv.exists \/ GetErrors)
       /\ ag' = [ag EXCEPT !.pc = "write", !.performUpdate = FALSE,
                 !.copy = [Absent EXCEPT !.exists = TRUE]]
    \/ /\ ~ag.performGet
       /\ ag' = [ag EXCEPT !.pc = "write", !.performUpdate = TRUE]

\* Mutant: the loop runs one round more than maxRetryCount.
RoundOffByOne ==
    /\ ag.pc = "loop"
    /\ ag.retry <= maxRetryCount
    /\ Fetch
    /\ UNCHANGED <<srv, node, cfg, writes, runs>>

\* The top of a round of the retry loop.
Round ==
    /\ ag.pc = "loop"
    /\ ag.retry < maxRetryCount
    /\ Fetch
    /\ UNCHANGED <<srv, node, cfg, writes, runs>>

RetriesExhausted ==
    /\ ag.pc = "loop"
    /\ ag.retry = maxRetryCount
    /\ ag' = [ag EXCEPT !.pc = "fatal"]
    /\ UNCHANGED <<srv, node, cfg, writes, runs>>

\* A round ends in `continue`.
Retry(performGet) ==
    ag' = [ag EXCEPT !.pc = "loop", !.retry = @ + 1, !.performGet = performGet]

\* Mutant: spec.eni.subnetIDs is set to the configured subnets only.
MutatedConfigOnly(c) == [c EXCEPT !.owner = TRUE, !.specSubnets = cfg]

\* mutateNodeResource on the copy: the owner reference, and (via
\* refreshVpcENIConfiguration) the configured subnets plus every subnet an
\* ENI in the copy's status uses.
Mutated(c) == [c EXCEPT !.owner = TRUE, !.specSubnets = cfg \cup c.eniSubnets]

\* mutateNodeResource fails: GetK8sNode returned an error other than not
\* found, or not found while the copy has no owner reference (log.Fatal),
\* or not found while it has one, where k8sNode.UID dereferences nil.
MutateFails ==
    /\ ag.pc = "write"
    /\ \/ GetErrors /\ Retry(ag.performGet)
       \/ node = "deleted" /\ ~ag.copy.owner /\ ag' = [ag EXCEPT !.pc = "fatal"]
       \/ node = "deleted" /\ ag.copy.owner /\ ag' = [ag EXCEPT !.pc = "panic"]
    /\ UNCHANGED <<srv, node, cfg, writes, runs>>

\* The conflict check of Update: resourceVersion must match.
UpdateConflicts == ag.copy.rv # srv.rv

\* mutateNodeResource succeeds, then Update (performUpdate) or Create.  A
\* conflict retries with a fresh Get; any other error is log.Fatal.
Write ==
    LET new == Mutated(ag.copy) IN
    /\ ag.pc = "write"
    /\ node = "present"
    /\ IF ag.performUpdate
       THEN \/ /\ srv.exists /\ ~UpdateConflicts
               /\ srv' = [new EXCEPT !.rv = srv.rv + 1, !.eniSubnets = srv.eniSubnets]
               /\ ag' = [ag EXCEPT !.pc = "done"]
            \/ /\ srv.exists /\ UpdateConflicts
               /\ Retry(TRUE) /\ UNCHANGED srv
            \/ /\ ~srv.exists
               /\ ag' = [ag EXCEPT !.pc = "fatal"] /\ UNCHANGED srv
       ELSE \/ /\ ~srv.exists
               /\ srv' = [new EXCEPT !.rv = srv.rv + 1]
               /\ ag' = [ag EXCEPT !.pc = "done"]
            \/ /\ srv.exists      \* AlreadyExists is not a conflict
               /\ ag' = [ag EXCEPT !.pc = "fatal"] /\ UNCHANGED srv
    /\ UNCHANGED <<node, cfg, writes, runs>>

-----------------------------------------------------------------------------
\* The operator attaches an ENI in one of spec.eni.subnetIDs and records it
\* in the status; every write bumps the resourceVersion.
OperatorWrite ==
    /\ srv.exists /\ writes < MaxOtherWrites
    /\ \E s \in srv.specSubnets :
         srv' = [srv EXCEPT !.rv = @ + 1, !.eniSubnets = @ \cup {s}]
    /\ writes' = writes + 1
    /\ UNCHANGED <<node, cfg, ag, runs>>

\* The NetResourceConfigSet's EniSubnetIDs are edited.
ConfigChange ==
    /\ writes < MaxOtherWrites
    /\ cfg' \in SUBSET Subnets \ {{}, cfg}
    /\ writes' = writes + 1
    /\ UNCHANGED <<srv, node, ag, runs>>

NodeDelete ==
    /\ NodeDeletes /\ node = "present"
    /\ node' = "deleted"
    /\ UNCHANGED <<srv, cfg, ag, writes, runs>>

\* The garbage collector deletes an object whose owner Node is gone.
GarbageCollect ==
    /\ node = "deleted" /\ srv.exists /\ srv.owner
    /\ srv' = [Absent EXCEPT !.rv = srv.rv]
    /\ UNCHANGED <<node, cfg, ag, writes, runs>>

Next ==
    \/ Start \/ Round \/ RetriesExhausted \/ MutateFails \/ Write
    \/ OperatorWrite \/ ConfigChange \/ NodeDelete \/ GarbageCollect

Spec == Init /\ [][Next]_vars

-----------------------------------------------------------------------------
TypeOK ==
    /\ srv \in Obj
    /\ node \in {"present", "deleted"}
    /\ cfg \in SUBSET Subnets
    /\ ag.pc \in Stopped \cup {"loop", "write"}
    /\ ag.retry \in 0..maxRetryCount
    /\ ag.copy \in Obj
    /\ writes \in 0..MaxOtherWrites
    /\ runs \in 0..MaxRuns

\* Every subnet an ENI of the node uses stays in spec.eni.subnetIDs, across
\* config edits and the operator's concurrent writes: refreshVpcENIConfiguration
\* adds the subnets of status.enis to the configured ones, and the conflict
\* check of Update makes it see the status the write lands on.
ENISubnetsListed == srv.exists => srv.eniSubnets \subseteq srv.specSubnets

\* The agent never panics: every way UpdateNetResourceSetResource and
\* mutateNodeResource end is a return or a log.Fatal with its message.
AgentNeverPanics == ag.pc # "panic"
====
