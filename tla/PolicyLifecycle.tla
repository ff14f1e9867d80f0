--------------------------- MODULE PolicyLifecycle ---------------------------
(***************************************************************************)
(* What the finalizer protocol of spec sections 4.1 and 4.3 promises for   *)
(* each policy name, seen from outside the controller.  A policy is        *)
(* absent, new (no finalizer yet), held (finalizer attached) or deleting   *)
(* (deletion requested, finalizer still there).  The controller moves a    *)
(* new policy to held and a deleting one to absent, and nothing else;      *)
(* users create and delete.  The Engine named after the policy is owned by *)
(* an incarnation (a creation count) or by none: it is bound to the       *)
(* current incarnation only while that incarnation holds the finalizer,   *)
(* and may be removed at any time (users, garbage collector).  Specs,     *)
(* statuses and Engine contents are not visible at this level.            *)
(***************************************************************************)
EXTENDS Naturals

CONSTANTS Policies

VARIABLES
    phase,    \* phase[p]: "absent", "new", "held" or "deleting"
    inc,      \* inc[p]: incarnations of p created so far
    owner     \* owner[p]: incarnation owning the Engine of p, 0 for no Engine

vars == <<phase, inc, owner>>

Init ==
    /\ phase = [p \in Policies |-> "absent"]
    /\ inc = [p \in Policies |-> 0]
    /\ owner = [p \in Policies |-> 0]

\* A user creates a new incarnation; an Engine of an earlier one may linger
Create(p) ==
    /\ phase[p] = "absent"
    /\ phase' = [phase EXCEPT ![p] = "new"]
    /\ inc' = [inc EXCEPT ![p] = @ + 1]
    /\ UNCHANGED owner

\* The controller attaches the finalizer
Attach(p) ==
    /\ phase[p] = "new"
    /\ phase' = [phase EXCEPT ![p] = "held"]
    /\ UNCHANGED <<inc, owner>>

\* A user deletes: a policy without finalizer goes at once, one with it
\* waits for the controller
Delete(p) ==
    /\ phase[p] \in {"new", "held"}
    /\ phase' = [phase EXCEPT ![p] = IF @ = "new" THEN "absent" ELSE "deleting"]
    /\ UNCHANGED <<inc, owner>>

\* The controller removes the finalizer of a deleting policy, which goes
Release(p) ==
    /\ phase[p] = "deleting"
    /\ phase' = [phase EXCEPT ![p] = "absent"]
    /\ UNCHANGED <<inc, owner>>

\* The controller writes the Engine, owned by the current incarnation,
\* which holds the finalizer
BindEngine(p) ==
    /\ phase[p] \in {"held", "deleting"}
    /\ owner' = [owner EXCEPT ![p] = inc[p]]
    /\ UNCHANGED <<phase, inc>>

\* The Engine is deleted (by a user or the garbage collector)
DropEngine(p) ==
    /\ owner[p] # 0
    /\ owner' = [owner EXCEPT ![p] = 0]
    /\ UNCHANGED <<phase, inc>>

Next ==
    \E p \in Policies :
        \/ Create(p) \/ Attach(p) \/ Delete(p) \/ Release(p)
        \/ BindEngine(p) \/ DropEngine(p)

Spec == Init /\ [][Next]_vars
=============================================================================
