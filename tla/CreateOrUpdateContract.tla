----------------------- MODULE CreateOrUpdateContract -----------------------
(***************************************************************************)
(* What the Create-or-Update primitive promises (spec section 4.4), as an  *)
(* atomic operation on the store: each call either upserts its desired     *)
(* object at the key named by its identity, the namespace defaulted when  *)
(* unset, and returns success, or returns an error and writes nothing.    *)
(* Other writers change the store at any time.  Resource versions are not *)
(* visible at this level.                                                  *)
(***************************************************************************)
CONSTANTS
    Callers, Names, Contents,
    NsUnset, NsDefault, NsOther,
    NoName, NoObj,
    Requests

VARIABLES
    store,    \* store[k]: the content of the object at key k, or NoObj
    req,      \* req[c]: the desired object caller c passes
    result    \* result[c]: "none" while the call runs, then "ok" or "error"

Keys == {NsDefault, NsOther} \X Names

DefaultKey(r) == <<IF r.ns = NsUnset THEN NsDefault ELSE r.ns, r.name>>

Identified(r) == r.gvkSet /\ r.name # NoName

Init ==
    /\ store \in [Keys -> Contents \cup {NoObj}]
    /\ req \in [Callers -> Requests]
    /\ result = [c \in Callers |-> "none"]

\* The call takes effect at one instant: the object at the defaulted key
\* becomes the desired content
Upsert(c) ==
    /\ result[c] = "none"
    /\ Identified(req[c])
    /\ store' = [store EXCEPT ![DefaultKey(req[c])] = req[c].content]
    /\ result' = [result EXCEPT ![c] = "ok"]
    /\ UNCHANGED req

\* The call fails and leaves the store alone
Fail(c) ==
    /\ result[c] = "none"
    /\ result' = [result EXCEPT ![c] = "error"]
    /\ UNCHANGED <<store, req>>

\* Any other client creates, replaces or deletes an object
OtherWrite ==
    /\ \E k \in Keys, v \in Contents \cup {NoObj} : store' = [store EXCEPT ![k] = v]
    /\ UNCHANGED <<req, result>>

Next ==
    \/ \E c \in Callers : Upsert(c) \/ Fail(c)
    \/ OtherWrite

Spec == Init /\ [][Next]_<<store, req, result>>
=============================================================================
