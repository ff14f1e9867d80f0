-------------------------- MODULE MC_CreateOrUpdate --------------------------
(* Two concurrent callers, one object name in two namespaces, two bodies.  *)
EXTENDS CreateOrUpdate

CONSTANTS c1, c2, n1, v1, v2

MC_Callers == {c1, c2}
MC_Names == {n1}
MC_Contents == {v1, v2}

\* Every desired object a caller can build, an unset namespace included
MC_RequestsAll == AllRequests

\* The desired objects that name their namespace
MC_RequestsNamespaced == {r \in AllRequests : r.ns # NsUnset}
=============================================================================
