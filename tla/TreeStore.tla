------------------------------ MODULE TreeStore ------------------------------
(***************************************************************************)
(* The B+ tree as an implementation of the key-value store.  The history   *)
(* variable `before' is what a search of every key would have found when   *)
(* the last call was finished.                                             *)
(***************************************************************************)
EXTENDS TreeShape

CONSTANTS
    Ops,          \* the operations the callers use
    Avoid,        \* the kinds of call known to lose keys that they do not make
    Preload,      \* the requests they make first, in this order
    MaxCalls      \* bound: how many requests they make in all

ASSUME CallersAssumption ==
    /\ Ops \subseteq {"search", "insert", "update", "delete"}
    /\ Avoid \subseteq {"duplicate", "tallUnderflow"}
    /\ Preload \in Seq(Requests)
    /\ MaxCalls \in Nat

VARIABLES before, calls

hvars == <<pages, root, pc, call, at, pend, reply, level, before, calls>>

FullLeafHas(k, v) ==
    before[k] # Null /\ Weight[v] > LeafRoom(pages[LeafFor(k)].slots)

\* The removal of k may go on to internal pages that borrow from one another.
EmptiesLeafOfTallTree(k) == level[root] > 1 /\ DOMAIN pages[LeafFor(k)].slots = {k}

Avoided(req) ==
    \/ "duplicate" \in Avoid /\ req.op = "insert" /\ FullLeafHas(req.key, req.val)
    \/ /\ "tallUnderflow" \in Avoid /\ req.op \in {"update", "delete"}
       /\ EmptiesLeafOfTallTree(req.key)

Expected ==
    {req \in Requests :
        IF calls < Len(Preload) THEN req = Preload[calls + 1]
        ELSE calls < MaxCalls /\ req.op \in Ops /\ ~Avoided(req)}

HInit == SInit /\ before = Contents /\ calls = 0

HStep ==
    /\ SStep
    /\ before' = IF pc' = "idle" THEN Contents' ELSE before
    /\ UNCHANGED calls

HNext ==
    \/ HStep
    \/ \E req \in Expected : SCall(req) /\ calls' = calls + 1 /\ UNCHANGED before

HSpec == HInit /\ [][HNext]_hvars
FairHSpec == HSpec /\ WF_vars(Step)

Store == INSTANCE KVStore WITH store <- before, request <- call
------------------------------------------------------------------------------
ReachableLeaves == {p \in Reachable : pages[p].type = "leaf"}

\* Every answer of search, insert, update and delete, and every change of what a
\* search finds, is one the map of KVStore allows.
ImplementsStore == Store!Spec

\* Between calls the parent field of a page names the page that has it as a child,
\* which _handle_leaf_underflow, _handle_internal_underflow and the splits rely on.
ParentFieldsAgree ==
    pc = "idle" =>
      /\ pages[root].parent = 0
      /\ \A p \in Reachable : \A c \in Children(p) : pages[c].parent = p

\* Between calls a key is in no leaf but the one a search for it ends at: splits,
\* borrows and merges move the separators with the entries.
EveryStoredKeyIsFound ==
    pc = "idle" =>
      \A p \in ReachableLeaves : \A k \in DOMAIN pages[p].slots : LeafFor(k) = p

\* Between calls the next_sibling fields chain the reachable leaves in key order.
LeafChain ==
    pc = "idle" =>
      /\ \A p \in ReachableLeaves : pages[p].link \in ReachableLeaves \cup {0}
      /\ \A p, q \in ReachableLeaves : pages[p].link = pages[q].link => p = q
      /\ \A p \in ReachableLeaves : pages[p].link # 0 =>
           \A j \in DOMAIN pages[p].slots, k \in DOMAIN pages[pages[p].link].slots : j < k

\* Between calls no leaf but the root is empty: every underflow is repaired.  Where
\* "tallUnderflow" is avoided, these are the underflows in trees of two levels.
NoEmptyLeaf ==
    pc = "idle" => \A p \in ReachableLeaves \ {root} : DOMAIN pages[p].slots # {}

\* Every call returns or raises, however the splits and the repairs propagate and
\* whatever earlier calls left behind.
EveryCallReturns == (pc # "idle") ~> (pc = "idle")
------------------------------------------------------------------------------
(***************************************************************************)
(* What README.md and btree.py say, and some calls break.                  *)
(***************************************************************************)
Finishes(op) == pc # "idle" /\ pc' = "idle" /\ call.op = op

\* `del' permanently removes the key: only a set or an update brings it back.
DeletedKeyStaysDeleted ==
    [][\A k \in Keys : before[k] = Null /\ before'[k] # Null =>
          call.key = k /\ call.op \in {"insert", "update"}]_hvars

\* `get' retrieves the stored value: it is there until its key is deleted.
StoredKeyStaysStored ==
    [][\A k \in Keys : before[k] # Null /\ before'[k] = Null =>
          call.key = k /\ call.op \in {"delete", "update"}]_hvars

\* `update' replaces the value of an existing key: the key has a value after it.
UpdateKeepsKey ==
    [][Finishes("update") /\ before[call.key] # Null => before'[call.key] # Null]_hvars
==============================================================================
