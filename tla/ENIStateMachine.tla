--------------------------- MODULE ENIStateMachine ---------------------------
(***************************************************************************)
(* The reconciliation of one ENI custom resource (pkg/bce/bcesync/eni.go): *)
(* eniSyncher.Update with its conflict retry loop, handleENIUpdate with    *)
(* mangeFinalizer, and the eniStateMachine (start, attachENI,              *)
(* attachingENI, deleteENI), against the cloud ENI, the informer's copy of *)
(* the object, other writers of the object, and the node.                  *)
(*                                                                         *)
(* Updates of one object are handled one at a time.  A pass is split where *)
(* the world can move under it: ReadStep covers the work up to statENI, an *)
(* Act action covers the rest, which includes the cloud calls and the      *)
(* object writes.  resourceVersion is abstracted by content: a write       *)
(* conflicts when the copy it is based on differs from the stored object.  *)
(* The ENI's creation timestamp is reduced to "expired", which becomes     *)
(* true once ENIMaxCreateDuration has passed.                              *)
(***************************************************************************)
EXTENDS Naturals

CONSTANT MaxOtherWrites   \* bound on writes of other clients to the object

\* VPC statuses of an ENI, and the cloud's answer for an ENI that is gone.
Available == "available"
Attaching == "attaching"
Inuse == "inuse"
Detaching == "detaching"
NotFound == "notfound"
Unset == "unset"           \* status.vpcStatus not written yet
VPCStatuses == {Available, Attaching, Inuse, Detaching}

\* The cloud deletes an ENI that is not attached to an instance.
Deletable == {Available, Attaching, NotFound}

VARIABLES
    vpc,      \* the ENI in the cloud
    eni,      \* the ENI object in the apiserver
    lister,   \* the informer's copy of it (es.updater.Lister())
    expired,  \* CreationTimestamp + ENIMaxCreateDuration is before now
    node,     \* the NetResourceSet owning the ENI
    h,        \* the handler: idle, refetching for a retry, or in a pass
    primaryNIC,  \* the ENI is the primary NIC of an EBC instance (fixed)
    ebc,      \* the EBC node's primary-ENI handling (node_ebc.go)
    userDeletes,     \* may the object (and the node) be deleted from outside?
    externalDetach   \* may the cloud ENI be detached from outside?

\* The environment a behaviour runs in, chosen once.
env == <<userDeletes, externalDetach>>
vars == <<vpc, eni, lister, expired, node, h, primaryNIC, ebc, env>>

CR == [exists: BOOLEAN, status: VPCStatuses \cup {Unset}, finalizer: BOOLEAN,
       deleting: BOOLEAN, owned: BOOLEAN, synced: BOOLEAN, gen: 0..MaxOtherWrites]

Gone == [exists |-> FALSE, status |-> Unset, finalizer |-> FALSE,
         deleting |-> FALSE, owned |-> FALSE, synced |-> FALSE, gen |-> 0]

Idle == [pc |-> "idle", attempt |-> 0, res |-> Gone, seen |-> NotFound]

\* The object after a deletion request: it stays, marked, while it has a
\* finalizer.
Deleted(obj) == IF obj.finalizer THEN [obj EXCEPT !.deleting = TRUE] ELSE Gone

\* The finalizer mangeFinalizer adds to the in-memory copy.
WithFinalizer(res) ==
    IF ~res.deleting /\ ~res.finalizer THEN [res EXCEPT !.finalizer = TRUE] ELSE res

\* mangeFinalizer: remove the finalizer of an object being deleted when the
\* node is gone, being deleted or replaced, or the ENI is not in use.
NeedRemoveFinalizer(res) ==
    /\ res.deleting /\ res.finalizer
    /\ node # "live" \/ res.status \notin {Inuse}

\* Mutant: the retry loop allows one attempt more.
ConflictRetryThree(attempt) ==
    h' = IF attempt < 3 THEN [Idle EXCEPT !.pc = "refetch", !.attempt = attempt + 1]
                        ELSE Idle

\* A write conflicted: Update refetches for another attempt, and after the
\* third gives up and returns nil.
Conflict(attempt) ==
    h' = IF attempt < 2 THEN [Idle EXCEPT !.pc = "refetch", !.attempt = attempt + 1]
                        ELSE Idle

\* A write based on the copy base: stored if base is current.
Write(base, new, attempt) ==
    \/ /\ base = eni
       /\ eni' = new
       /\ h' = Idle
    \/ /\ base # eni
       /\ Conflict(attempt)
       /\ UNCHANGED eni

\* handleENIUpdate up to statENI, on the copy res.
ReadStep(res, attempt) ==
    \/ /\ NeedRemoveFinalizer(res)
       /\ Write(res, Gone, attempt)
    \/ /\ ~NeedRemoveFinalizer(res)
       /\ ~res.owned \/ res.status = Inuse
       /\ h' = Idle
       /\ UNCHANGED eni
    \/ /\ ~NeedRemoveFinalizer(res)
       /\ res.owned /\ res.status # Inuse
       /\ h' = [pc |-> "act", attempt |-> attempt, res |-> res, seen |-> vpc]
       /\ UNCHANGED eni

\* An update event (or the resync) hands the informer's copy to Update.
StartPass ==
    /\ h.pc = "idle"
    /\ lister.exists
    /\ ReadStep(lister, 0)
    /\ UNCHANGED <<vpc, lister, expired, node, primaryNIC, ebc, env>>

\* A retry of Update gets the object from the apiserver.
Refetch ==
    /\ h.pc = "refetch"
    /\ \/ /\ eni.exists
          /\ ReadStep(eni, h.attempt)
       \/ /\ ~eni.exists
          /\ h' = Idle
          /\ UNCHANGED eni
    /\ UNCHANGED <<vpc, lister, expired, node, primaryNIC, ebc, env>>

\* deleteENI: delete in the cloud (not found counts as done), then delete
\* the object; a cloud error ends the pass with the object untouched.
deleteENI ==
    \/ /\ vpc \in Deletable
       /\ vpc' = NotFound
       /\ eni' = IF eni.exists THEN Deleted(eni) ELSE eni
    \/ /\ vpc \notin Deletable
       /\ UNCHANGED <<vpc, eni>>

\* The cases of start() after statENI reported an ENI that exists and is
\* not in use, for the copy res and the reported status seen.
AttachCase(res, seen) == res.status = Available /\ seen = Available
ExpiredCase(res, seen) ==
    /\ expired
    /\ \/ AttachCase(res, seen)
       \/ res.status = Attaching /\ seen = Attaching
NoTransition(res, seen) == ~AttachCase(res, seen) /\ ~ExpiredCase(res, seen)

InPass == h.pc = "act"

\* statENI found no ENI: deleteENI.
ActNotFound ==
    /\ InPass /\ h.seen = NotFound
    /\ deleteENI
    /\ h' = Idle
    /\ UNCHANGED <<lister, expired, node, primaryNIC, ebc, env>>

\* The ENI is in use: updateENISpecFromVPCENI and Update, which stores the
\* spec and the finalizer mangeFinalizer added but not the status.
ActInuse ==
    LET spec == [WithFinalizer(h.res) EXCEPT !.synced = TRUE] IN
    /\ InPass /\ h.seen = Inuse
    /\ \/ /\ h.res = eni
          /\ eni' = spec
          /\ h' = [h EXCEPT !.pc = "status", !.res = spec]
       \/ /\ h.res # eni
          /\ Conflict(h.attempt)
          /\ UNCHANGED eni
    /\ UNCHANGED <<vpc, lister, expired, node, primaryNIC, ebc, env>>

\* Then AppendVPCStatus and UpdateStatus on the object Update returned; a
\* write of another client in between makes it conflict.
ActInuseStatus ==
    /\ h.pc = "status"
    /\ Write(h.res, [h.res EXCEPT !.status = Inuse], h.attempt)
    /\ UNCHANGED <<vpc, lister, expired, node, primaryNIC, ebc, env>>

\* attachENI on an available ENI created less than ENIMaxCreateDuration ago:
\* the attach is accepted, and the pass ends with a delay event.
ActAttach ==
    /\ InPass /\ AttachCase(h.res, h.seen) /\ ~expired
    /\ vpc = Available
    /\ vpc' = Attaching
    /\ h' = Idle
    /\ UNCHANGED <<eni, lister, expired, node, primaryNIC, ebc, env>>

\* AttachENI fails (the ENI is no longer available, or the API errs):
\* deleteENI as rollback, and the attach error ends the pass.
ActAttachFail ==
    /\ InPass /\ AttachCase(h.res, h.seen) /\ ~expired
    /\ deleteENI
    /\ h' = Idle
    /\ UNCHANGED <<lister, expired, node, primaryNIC, ebc, env>>

\* attachENI or attachingENI on an ENI past ENIMaxCreateDuration: deleteENI.
ActExpire ==
    /\ InPass /\ ExpiredCase(h.res, h.seen)
    /\ deleteENI
    /\ h' = Idle
    /\ UNCHANGED <<lister, expired, node, primaryNIC, ebc, env>>

\* No transition, and the object's status differs from the cloud's:
\* UpdateStatus writes it on the informer's copy of the object.
ActRefresh ==
    /\ InPass /\ h.seen \in VPCStatuses \ {Inuse}
    /\ NoTransition(h.res, h.seen)
    /\ h.res.status # h.seen
    /\ \/ /\ lister.exists
          /\ Write(lister, [lister EXCEPT !.status = h.seen], h.attempt)
       \/ /\ ~lister.exists
          /\ h' = Idle
          /\ UNCHANGED eni
    /\ UNCHANGED <<vpc, lister, expired, node, primaryNIC, ebc, env>>

\* No transition and nothing to write: a delay event re-queues the object.
ActDelay ==
    /\ InPass /\ h.seen \in VPCStatuses \ {Inuse}
    /\ NoTransition(h.res, h.seen)
    /\ h.res.status = h.seen
    /\ h' = Idle
    /\ UNCHANGED <<vpc, eni, lister, expired, node, primaryNIC, ebc, env>>

-----------------------------------------------------------------------------
(* The environment.                                                        *)

\* The cloud finishes or fails an attach, or detaches the ENI.
CloudAttachDone ==
    /\ vpc = Attaching /\ vpc' = Inuse
    /\ UNCHANGED <<eni, lister, expired, node, h, primaryNIC, ebc, env>>
CloudAttachFailed ==
    /\ vpc = Attaching /\ vpc' = Available
    /\ UNCHANGED <<eni, lister, expired, node, h, primaryNIC, ebc, env>>
CloudDetach ==
    /\ externalDetach
    /\ \/ vpc = Inuse /\ vpc' = Detaching
       \/ vpc = Detaching /\ vpc' = Available
    /\ UNCHANGED <<eni, lister, expired, node, h, primaryNIC, ebc, env>>

\* ENIMaxCreateDuration passes.
Expire ==
    /\ ~expired /\ expired' = TRUE
    /\ UNCHANGED <<vpc, eni, lister, node, h, primaryNIC, ebc, env>>

\* The informer catches up with the apiserver.
ListerSync ==
    /\ lister # eni /\ lister' = eni
    /\ UNCHANGED <<vpc, eni, expired, node, h, primaryNIC, ebc, env>>

\* Another client writes the object (labels, cceStatus).
OtherWrite ==
    /\ eni.exists /\ eni.gen < MaxOtherWrites
    /\ eni' = [eni EXCEPT !.gen = @ + 1]
    /\ UNCHANGED <<vpc, lister, expired, node, h, primaryNIC, ebc, env>>

\* The object is deleted by a user, or by the garbage collector once the
\* node is deleted.
DeleteRequest ==
    /\ userDeletes \/ node # "live"
    /\ eni.exists /\ ~eni.deleting
    /\ eni' = Deleted(eni)
    /\ UNCHANGED <<vpc, lister, expired, node, h, primaryNIC, ebc, env>>

\* The node is deleted, or deleted and created again with a new UID.
NodeChange ==
    /\ userDeletes
    /\ \/ node = "live" /\ node' \in {"deleting", "replaced"}
       \/ node = "deleting" /\ node' = "gone"
    /\ UNCHANGED <<vpc, eni, lister, expired, h, primaryNIC, ebc, env>>

(* The EBC node in primary-interface-with-secondary-IP mode (node_ebc.go, *)
(* usePrimaryENIWithSecondaryMode: the instance has no ENI quota).  Its    *)
(* pool maintenance creates the object of the instance's primary NIC,      *)
(* which the cloud reports in use from the start.  The manager's instance  *)
(* map is read as the informer's copy.  A pass that fails before Create    *)
(* changes nothing and is not a step.                                      *)

\* A newly created object: no status yet; own: it has the NetResourceSet
\* owner reference (managedByMe), which createPrimaryENIOnCluster sets.
NewObject(own) ==
    [exists |-> TRUE, status |-> Unset, finalizer |-> FALSE, deleting |-> FALSE,
     owned |-> own, synced |-> FALSE, gen |-> 0]

\* Mutant: an in-use ENI found in the instance map does not set the flag.
EBCPrepareCreateOnly ==
    /\ primaryNIC /\ ebc.pc = "idle" /\ ~ebc.flag /\ ~lister.exists
    /\ ebc' = [ebc EXCEPT !.pc = "create"]
    /\ UNCHANGED <<vpc, eni, lister, expired, node, h, primaryNIC, env>>

\* prepareIPAllocation while haveCreatePrimaryENI is unset, with
\* AvailableInterfaces 0 from the node's zero ENI quota.  The node has no
\* ENI: AvailableInterfaces becomes 1, and handleIPAllocation calls
\* createInterface, which calls createPrimaryENIOnCluster.  Once the node
\* knows the in-use ENI, ForeachInstance finds it and sets the flag.  The
\* condition InterfaceID == "" is folded in: while that ENI has room the
\* base prepare names it, the pass allocates on it and this state does not
\* change, so the step taken is the pass that finds it full, which the
\* pool's allocations reach while it needs addresses.  An ENI that is not
\* in use makes the prepare fail (__prepareIPAllocation): no step.
EBCPrepare ==
    /\ primaryNIC /\ ebc.pc = "idle" /\ ~ebc.flag
    /\ \/ /\ ~lister.exists
          /\ ebc' = [ebc EXCEPT !.pc = "create"]
       \/ /\ lister.exists /\ lister.status = Inuse
          /\ ebc' = [ebc EXCEPT !.flag = TRUE]
    /\ UNCHANGED <<vpc, eni, lister, expired, node, h, primaryNIC, env>>

\* createPrimaryENIOnCluster up to its Create: enilister.Get, and on
\* NotFound the Create, which fails with AlreadyExists when the informer
\* lags behind an object that exists.
EBCCreate ==
    /\ ebc.pc = "create"
    /\ \/ /\ lister.exists
          /\ ebc' = [ebc EXCEPT !.pc = "status", !.copy = lister, !.fromLister = TRUE]
          /\ UNCHANGED eni
       \/ /\ ~lister.exists /\ ~eni.exists
          /\ eni' = NewObject(TRUE)
          /\ ebc' = [ebc EXCEPT !.pc = "status", !.copy = eni', !.fromLister = FALSE]
       \/ /\ ~lister.exists /\ eni.exists
          /\ ebc' = [ebc EXCEPT !.pc = "idle"]
          /\ UNCHANGED eni
    /\ UNCHANGED <<vpc, lister, expired, node, h, primaryNIC, env>>

\* The rest of createPrimaryENIOnCluster: tryBorrowIPs may fail; then
\* unless the copy says in use, AppendVPCStatus on the copy (the
\* informer's own object when Get returned it) and UpdateStatus, which may
\* fail (and conflicts when the copy is stale) after the copy was mutated;
\* on success haveCreatePrimaryENI.
EBCStatus ==
    LET c == ebc.copy
        Mutated == IF ebc.fromLister /\ lister = c
                   THEN [lister EXCEPT !.status = Inuse] ELSE lister
    IN
    /\ ebc.pc = "status"
    /\ \/ /\ ebc' = [ebc EXCEPT !.pc = "idle"]
          /\ UNCHANGED <<eni, lister>>
       \/ /\ c.status = Inuse
          /\ ebc' = [ebc EXCEPT !.pc = "idle", !.flag = TRUE]
          /\ UNCHANGED <<eni, lister>>
       \/ /\ c.status # Inuse /\ c = eni
          /\ lister' = Mutated
          /\ eni' = [eni EXCEPT !.status = Inuse]
          /\ ebc' = [ebc EXCEPT !.pc = "idle", !.flag = TRUE]
       \/ /\ c.status # Inuse
          /\ lister' = Mutated
          /\ ebc' = [ebc EXCEPT !.pc = "idle"]
          /\ UNCHANGED eni
    /\ UNCHANGED <<vpc, expired, node, h, primaryNIC, env>>

EBCStep == EBCPrepare \/ EBCCreate \/ EBCStatus

-----------------------------------------------------------------------------
\* A newly created secondary ENI, available and its object without a
\* status yet (pre-created ones may lack the owner reference), or the
\* primary NIC of an EBC instance, in use and without an object yet.  An instance's primary NIC is never detached from it.
Init ==
    /\ primaryNIC \in BOOLEAN
    /\ vpc = IF primaryNIC THEN Inuse ELSE Available
    /\ eni \in IF primaryNIC THEN {Gone} ELSE {NewObject(own) : own \in BOOLEAN}
    /\ ebc = [pc |-> "idle", flag |-> FALSE, copy |-> Gone, fromLister |-> FALSE]
    /\ lister = eni
    /\ expired = FALSE
    /\ node = "live"
    /\ h = Idle
    /\ userDeletes \in BOOLEAN
    /\ externalDetach \in IF primaryNIC THEN {FALSE} ELSE BOOLEAN

Act == ActNotFound \/ ActInuse \/ ActInuseStatus \/ ActAttach \/ ActAttachFail \/ ActExpire
       \/ ActRefresh \/ ActDelay

ControllerStep == StartPass \/ Refetch \/ Act

Next ==
    \/ ControllerStep
    \/ CloudAttachDone \/ CloudAttachFailed \/ CloudDetach
    \/ Expire \/ ListerSync \/ OtherWrite \/ DeleteRequest \/ NodeChange
    \/ EBCStep

\* The resync and the delay events re-run the handler, a started pass
\* completes, the informer catches up, and time passes; the pool
\* maintainer runs the EBC node's pass again while it needs addresses.
\* The cloud may leave an attach pending for ever.
Fairness ==
    /\ WF_vars(StartPass) /\ WF_vars(Refetch) /\ WF_vars(Act)
    /\ WF_vars(ListerSync) /\ WF_vars(Expire) /\ WF_vars(EBCStep)

Spec == Init /\ [][Next]_vars /\ Fairness

-----------------------------------------------------------------------------
TypeOK ==
    /\ vpc \in VPCStatuses \cup {NotFound}
    /\ eni \in CR /\ lister \in CR
    /\ expired \in BOOLEAN
    /\ node \in {"live", "deleting", "gone", "replaced"}
    /\ h.pc \in {"idle", "refetch", "act", "status"} /\ h.attempt \in 0..2
    /\ h.res \in CR /\ h.seen \in VPCStatuses \cup {NotFound}
    /\ primaryNIC \in BOOLEAN
    /\ ebc.pc \in {"idle", "create", "status"} /\ ebc.flag \in BOOLEAN
    /\ ebc.copy \in CR /\ ebc.fromLister \in BOOLEAN
    /\ env \in BOOLEAN \X BOOLEAN

\* In an environment where nobody deletes the object or detaches the ENI,
\* the reconciler settles every ENI it manages: the object ends in-use
\* with its ENI attached, or the ENI and its object are both gone
\* (attachENI, attachingENI and their ENIMaxCreateDuration rollback),
\* across conflicts, a lagging informer and a pending cloud attach.
Settled ==
    \/ eni.exists /\ eni.status = Inuse /\ vpc = Inuse
    \/ ~eni.exists /\ vpc = NotFound
    \/ eni.exists /\ ~eni.owned
InuseENIGetsFinalizer ==
    ~externalDetach =>
        (eni.exists /\ eni.owned /\ vpc = Inuse ~> eni.finalizer \/ ~eni.exists)

\* The EBC node of an instance whose primary NIC has no object yet
\* eventually knows the object is there for good: across a failed
\* tryBorrowIPs, an AlreadyExists from a lagging informer and a conflicting
\* UpdateStatus, prepareIPAllocation ends up setting haveCreatePrimaryENI
\* and never creates the object again (stated where nobody deletes it).
PrimaryENIEventuallyKnown ==
    primaryNIC /\ ~userDeletes => <>[]ebc.flag
=============================================================================
