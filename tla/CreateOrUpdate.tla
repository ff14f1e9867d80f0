--------------------------- MODULE CreateOrUpdate ---------------------------
(***************************************************************************)
(* createOrUpdate of internal/controller/utils.go: a Get by identity, then *)
(* a Create when the Get found nothing or an Update carrying the           *)
(* resourceVersion the Get read.  Several callers run it concurrently on   *)
(* the same keys, and other clients write the store in between.  The kind *)
(* is a custom resource, so the API server refuses an Update without a    *)
(* resourceVersion, and it is namespaced, so a write that names no         *)
(* namespace is refused.                                                   *)
(***************************************************************************)
EXTENDS Naturals

CONSTANTS
    Callers,           \* goroutines calling createOrUpdate
    Names,             \* metadata.name values
    Contents,          \* desired object bodies, abstracted to model values
    NsUnset,           \* metadata.namespace left empty
    NsDefault,         \* corev1.NamespaceDefault
    NsOther,           \* another namespace
    NoName,            \* metadata.name left empty
    NoObj,             \* not found / no resourceVersion read
    Requests,          \* the desired objects callers may pass
    MaxOtherWrites,    \* bound on writes by other clients
    MaxFailures        \* bound on transient store errors

VARIABLES
    obj,          \* obj[k]: [content, rv] or NoObj, the API server's copy
    rev,          \* the store's resourceVersion counter
    req,          \* req[c]: the desired object caller c passes
    pc,           \* "Get", "Create", "Update" or "Done"
    readRv,       \* readRv[c]: resourceVersion the Get read, or NoObj
    result,       \* "none", "ok" or "error": what the call returned
    interfered,   \* interfered[c]: another write hit c's key after c's Get
    hitFailure,   \* hitFailure[c]: a transient store error hit c's call
    otherWrites,
    failures

vars == <<obj, rev, req, pc, readRv, result, interfered, hitFailure,
          otherWrites, failures>>

Keys == {NsDefault, NsOther} \X Names

AllRequests == [gvkSet: BOOLEAN, ns: {NsUnset, NsDefault, NsOther},
                name: Names \cup {NoName}, content: Contents]

\* An empty namespace is replaced by "default", for the Get key only
Defaulted(ns) == IF ns = NsUnset THEN NsDefault ELSE ns

\* The key of the Get
GetKey(c) == <<Defaulted(req[c].ns), req[c].name>>

\* Create and Update send desired itself, whose namespace was never set
WriteKey(c) == <<req[c].ns, req[c].name>>

NoNamespace(c) == req[c].ns = NsUnset

\* The GroupVersionKind or the name is unset
MissingIdentity(c) == ~req[c].gvkSet \/ req[c].name = NoName

TransientError(c) ==
    /\ failures < MaxFailures
    /\ failures' = failures + 1
    /\ hitFailure' = [hitFailure EXCEPT ![c] = TRUE]

Return(c, r) ==
    /\ pc' = [pc EXCEPT ![c] = "Done"]
    /\ result' = [result EXCEPT ![c] = r]

\* Mutant of WriteFailed: the error of Create or Update is dropped
WriteFailedSwallowed(c) == Return(c, "ok")

\* A failed Create or Update is returned, wrapped
WriteFailed(c) == Return(c, "error")

\* The server stores content at k with a new resourceVersion (w = NoObj:
\* another client).  Every caller waiting to write the same key has now
\* been interfered with.
Write(w, k, v) ==
    /\ rev' = rev + 1
    /\ obj' = [obj EXCEPT ![k] = v]
    /\ interfered' = [d \in Callers |->
                        \/ interfered[d]
                        \/ d # w /\ pc[d] \in {"Create", "Update"} /\ GetKey(d) = k]

Stored(c) == [content |-> req[c].content, rv |-> rev + 1]

\* Identity checks, then c.Get at the defaulted key
Get(c) ==
    /\ pc[c] = "Get"
    /\ \/ /\ MissingIdentity(c)
          /\ Return(c, "error")
          /\ UNCHANGED <<readRv, hitFailure, failures>>
       \/ /\ ~MissingIdentity(c)
          /\ TransientError(c)
          /\ Return(c, "error")
          /\ UNCHANGED readRv
       \/ /\ ~MissingIdentity(c)
          /\ obj[GetKey(c)] = NoObj
          /\ pc' = [pc EXCEPT ![c] = "Create"]
          /\ UNCHANGED <<readRv, result, hitFailure, failures>>
       \/ /\ ~MissingIdentity(c)
          /\ obj[GetKey(c)] # NoObj
          /\ readRv' = [readRv EXCEPT ![c] = obj[GetKey(c)].rv]
          /\ pc' = [pc EXCEPT ![c] = "Update"]
          /\ UNCHANGED <<result, hitFailure, failures>>
    /\ UNCHANGED <<obj, rev, req, interfered, otherWrites>>

\* The server takes the Create: desired names a namespace and no object
\* is at its key
CreateAccepted(c) == ~NoNamespace(c) /\ obj[WriteKey(c)] = NoObj

\* c.Create(desired): refused without a namespace, AlreadyExists if an
\* object appeared since the Get
Create(c) ==
    /\ pc[c] = "Create"
    /\ \/ /\ TransientError(c)
          /\ WriteFailed(c)
          /\ UNCHANGED <<obj, rev, interfered>>
       \/ /\ ~CreateAccepted(c)
          /\ WriteFailed(c)
          /\ UNCHANGED <<obj, rev, interfered, hitFailure, failures>>
       \/ /\ CreateAccepted(c)
          /\ Write(c, WriteKey(c), Stored(c))
          /\ Return(c, "ok")
          /\ UNCHANGED <<hitFailure, failures>>
    /\ UNCHANGED <<req, readRv, otherWrites>>

\* Mutant of UpdateRv: the resourceVersion the Get read is not copied
UpdateRvDropped(c) == NoObj

\* desired.SetResourceVersion(resource.GetResourceVersion())
UpdateRv(c) == readRv[c]

\* The server's precondition on an Update of a custom resource: the object
\* exists and the request carries its current resourceVersion
UpdateAccepted(cur, rv) == cur # NoObj /\ rv # NoObj /\ cur.rv = rv

UpdateTaken(c) == ~NoNamespace(c) /\ UpdateAccepted(obj[WriteKey(c)], UpdateRv(c))

\* c.Update(desired): NotFound, Conflict or refused without a namespace
Update(c) ==
    /\ pc[c] = "Update"
    /\ \/ /\ TransientError(c)
          /\ WriteFailed(c)
          /\ UNCHANGED <<obj, rev, interfered>>
       \/ /\ ~UpdateTaken(c)
          /\ WriteFailed(c)
          /\ UNCHANGED <<obj, rev, interfered, hitFailure, failures>>
       \/ /\ UpdateTaken(c)
          /\ Write(c, WriteKey(c), Stored(c))
          /\ Return(c, "ok")
          /\ UNCHANGED <<hitFailure, failures>>
    /\ UNCHANGED <<req, readRv, otherWrites>>

\* Another client creates, replaces or deletes the object at k
OtherWrite(k) ==
    /\ otherWrites < MaxOtherWrites
    /\ otherWrites' = otherWrites + 1
    /\ \/ \E v \in Contents : Write(NoObj, k, [content |-> v, rv |-> rev + 1])
       \/ obj[k] # NoObj /\ Write(NoObj, k, NoObj)
    /\ UNCHANGED <<req, pc, readRv, result, hitFailure, failures>>

Init ==
    /\ obj \in [Keys -> {NoObj} \cup [content: Contents, rv: {0}]]
    /\ rev = 0
    /\ req \in [Callers -> Requests]
    /\ pc = [c \in Callers |-> "Get"]
    /\ readRv = [c \in Callers |-> NoObj]
    /\ result = [c \in Callers |-> "none"]
    /\ interfered = [c \in Callers |-> FALSE]
    /\ hitFailure = [c \in Callers |-> FALSE]
    /\ otherWrites = 0
    /\ failures = 0

Next ==
    \/ \E c \in Callers : Get(c) \/ Create(c) \/ Update(c)
    \/ \E k \in Keys : OtherWrite(k)

Spec == Init /\ [][Next]_vars

-----------------------------------------------------------------------------
(* Properties.                                                             *)

\* Spec section 4.4: createOrUpdate fails only for a missing identity, a
\* store error or a conflicting writer.  A call with its identity set that
\* met no transient error and no other write to its key between its Get and
\* its write returns success.
UncontendedSucceeds ==
    \A c \in Callers :
        pc[c] = "Done" /\ ~MissingIdentity(c) /\ ~hitFailure[c] /\ ~interfered[c]
            => result[c] = "ok"

\* The store seen without resourceVersions, and a call's result once it has
\* returned
StoreContents == [k \in Keys |-> IF obj[k] = NoObj THEN NoObj ELSE obj[k].content]
Returned == [c \in Callers |-> IF pc[c] = "Done" THEN result[c] ELSE "none"]

Contract == INSTANCE CreateOrUpdateContract WITH store <- StoreContents, result <- Returned

\* createOrUpdate implements the atomic upsert of spec section 4.4: whatever
\* other writers do between its Get and its write, a call that returns
\* success has put its desired object at the defaulted key in one step, and
\* a call that returns an error has written nothing.
ImplementsContract == Contract!Spec
=============================================================================
