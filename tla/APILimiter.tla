----------------------------- MODULE APILimiter ------------------------------
(***************************************************************************)
(* What the rate-limited gateway promises its callers (spec: API           *)
(* flow-control layer): a cloud operation m runs with at most Par(m) calls *)
(* of m in flight when rate limiting is on (0: no limit), independently of *)
(* every other operation, and without any limit when it is off.  A call    *)
(* that cannot start may give up; that is not a step here.                 *)
(***************************************************************************)
EXTENDS Naturals, FiniteSets

CONSTANTS Callers, Ops, Par(_)

VARIABLES
    on,       \* rate limiting enabled
    active    \* per caller: the operation it runs, or "none"

InFlight(m) == Cardinality({c \in Callers : active[c] = m})

Init ==
    /\ on \in BOOLEAN
    /\ active = [c \in Callers |-> "none"]

\* A call of m starts.
Enter(c, m) ==
    /\ active[c] = "none"
    /\ ~on \/ Par(m) = 0 \/ InFlight(m) < Par(m)
    /\ active' = [active EXCEPT ![c] = m]
    /\ UNCHANGED on

\* A call returns.
Leave(c) ==
    /\ active[c] # "none"
    /\ active' = [active EXCEPT ![c] = "none"]
    /\ UNCHANGED on

Next == \E c \in Callers : (\E m \in Ops : Enter(c, m)) \/ Leave(c)

Spec == Init /\ [][Next]_<<on, active>>
=============================================================================
