--------------------------- MODULE StatusConditions ---------------------------
(***************************************************************************)
(* The generic status helpers of internal/controller/utils.go:             *)
(* setStatusConditionDegraded, setStatusProgressing and setStatusReady,    *)
(* built on setConditionTrue / setConditionFalse and apimeta's             *)
(* SetStatusCondition / RemoveStatusCondition.  A resource's controller    *)
(* calls them in any order from one pass to the next; the condition list   *)
(* is keyed by type.  Reason, message and time are left out.               *)
(***************************************************************************)
EXTENDS Naturals

CONSTANTS
    NoCond,         \* model value: the condition type is absent from the list
    MaxGeneration   \* metadata.generation values a caller may pass

VARIABLE conditions   \* conditions[t]: [status, observedGeneration] or NoCond

Types == {"Ready", "Degraded", "Progressing"}
Generations == 1..MaxGeneration

C(status, gen) == [status |-> status, observedGeneration |-> gen]

\* setConditionTrue / setConditionFalse through apimeta.SetStatusCondition
setConditionTrue(cs, t, gen)  == [cs EXCEPT ![t] = C("True", gen)]
setConditionFalse(cs, t, gen) == [cs EXCEPT ![t] = C("False", gen)]
RemoveStatusCondition(cs, t)  == [cs EXCEPT ![t] = NoCond]

\* setStatusConditionDegraded: Ready=False, Degraded=True, Progressing removed
setStatusConditionDegraded(gen) ==
    conditions' = RemoveStatusCondition(
                    setConditionTrue(setConditionFalse(conditions, "Ready", gen),
                                     "Degraded", gen),
                    "Progressing")

\* setStatusProgressing: Ready=False, Progressing=True; Degraded untouched
setStatusProgressing(gen) ==
    conditions' = setConditionTrue(setConditionFalse(conditions, "Ready", gen),
                                   "Progressing", gen)

\* setStatusReady: Ready=True, Degraded and Progressing removed
setStatusReady(gen) ==
    conditions' = RemoveStatusCondition(
                    RemoveStatusCondition(setConditionTrue(conditions, "Ready", gen),
                                          "Degraded"),
                    "Progressing")

Init == conditions = [t \in Types |-> NoCond]

Next ==
    \E gen \in Generations :
        \/ setStatusConditionDegraded(gen)
        \/ setStatusProgressing(gen)
        \/ setStatusReady(gen)

Spec == Init /\ [][Next]_conditions

TypeOK ==
    conditions \in [Types -> [status: {"True", "False"},
                              observedGeneration: Generations] \cup {NoCond}]

TrueTypes == {t \in Types : conditions[t] # NoCond /\ conditions[t].status = "True"}

\* Spec section 3: of Ready, Degraded and Progressing at most one is True at
\* a time, since setting one clears the others, whatever order the helpers
\* are called in over successive passes.
AtMostOneTrue == \A s, t \in TrueTypes : s = t
=============================================================================
