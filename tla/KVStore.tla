------------------------------- MODULE KVStore -------------------------------
(***************************************************************************)
(* What MarcoDB promises its callers: a map from keys to values.  insert   *)
(* adds a new key and is refused if the key exists, update replaces the    *)
(* value of an existing key, delete removes one, search reads.  A refused  *)
(* request changes nothing.  (README.md, section 2; the return values and  *)
(* the exceptions of btree.py's public methods.)                           *)
(***************************************************************************)
CONSTANTS Keys, Vals, Null

VARIABLES
    store,     \* the value of each key, Null if it is absent
    request,   \* the request in progress
    reply      \* the answer to the last one

vars == <<store, request, reply>>

NoRequest == [op |-> "none", key |-> Null, val |-> Null]
Requests == [op : {"search", "delete"}, key : Keys, val : {Null}]
              \cup [op : {"insert", "update"}, key : Keys, val : Vals]

Present(k) == store[k] # Null

Init ==
    /\ store = [k \in Keys |-> Null]
    /\ request = NoRequest
    /\ reply = "none"

Ask(req) ==
    /\ request = NoRequest
    /\ request' = req
    /\ reply' = "none"
    /\ UNCHANGED store

Answer(op, r) ==
    /\ request.op = op
    /\ request' = NoRequest
    /\ reply' = r

Search == Answer("search", store[request.key]) /\ UNCHANGED store

Insert ==
    /\ Answer("insert", "ok") /\ ~Present(request.key)
    /\ store' = [store EXCEPT ![request.key] = request.val]

Update ==
    /\ Answer("update", "ok") /\ Present(request.key)
    /\ store' = [store EXCEPT ![request.key] = request.val]

Delete ==
    /\ Answer("delete", "ok") /\ Present(request.key)
    /\ store' = [store EXCEPT ![request.key] = Null]

Refuse ==
    /\ \/ Answer("insert", "error") /\ Present(request.key)
       \/ Answer("update", "error") /\ ~Present(request.key)
       \/ Answer("delete", "error") /\ ~Present(request.key)
    /\ UNCHANGED store

Next ==
    \/ \E req \in Requests : Ask(req)
    \/ Search \/ Insert \/ Update \/ Delete \/ Refuse

Spec == Init /\ [][Next]_vars
==============================================================================
