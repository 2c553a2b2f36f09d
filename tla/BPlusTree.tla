------------------------------ MODULE BPlusTree ------------------------------
(***************************************************************************)
(* The B+ tree of btree.py over an in-memory array of pages.               *)
(*                                                                         *)
(* One call of search, insert, update or delete runs at a time: the server *)
(* makes every call under db_lock and the shell has one thread.  A call is *)
(* a sequence of steps, one per function of btree.py that changes a page;  *)
(* pc names the function that runs next and `at' the page it runs on.  An  *)
(* exception leaves the pages as they are at that point, so a failed call  *)
(* may have changed them.                                                  *)
(*                                                                         *)
(* Page n is pages[n]; page 0 holds only the root id and is represented by *)
(* `root'.  A slotted page is the function `slots' from its keys to the    *)
(* data beside them; the order of the slots is the order of the keys.      *)
(***************************************************************************)
EXTENDS Integers, Sequences, FiniteSets, FiniteSetsExt

CONSTANTS
    Keys,          \* the keys, as naturals ordered as the byte strings are
    Vals,          \* the values
    Null,          \* "no value", "no key"
    Weight,        \* Weight[v]: the room an entry with value v takes in a leaf
    LeafCap,       \* the room a leaf page has for entries
    MaxSeps        \* how many separators fit an internal page

\* There are finitely many keys: a key's length is packed in 16 bits.
ASSUME KeysAssumption ==
    /\ Max(Keys) \in Nat /\ Keys \subseteq 0..Max(Keys)
    /\ Null \notin Keys /\ Null \notin Vals

\* An overflowing value takes the 4 bytes of a page id.  Nothing says that an
\* entry fits an empty leaf: a long key does not.
ASSUME RoomAssumption ==
    LeafCap \in Nat /\ MaxSeps \in Nat \ {0} /\ Weight \in [Vals -> Nat]

\* Definitions marked "mutant" are plausible mistakes, used by no definition here:
\* PROJECT.json says which property each one breaks.
NoThreshold == 0  \* mutant
MIN_SLOTS_THRESHOLD == 1

VARIABLES
    pages,   \* pages[n]: page n, as get_page(n) returns it
    root,    \* root_page_id, and its copy in bytes 17..20 of page 0
    pc,      \* the function that runs next, "idle" between calls
    call,    \* the call in progress
    at,      \* the page the next function runs on
    pend,    \* the children and the separator a split or a merge passes to the parent
    reply    \* what the last call returned, "error" if it raised

vars == <<pages, root, pc, call, at, pend, reply>>

Requests == [op : {"search", "delete"}, key : Keys, val : {Null}]
              \cup [op : {"insert", "update"}, key : Keys, val : Vals]
NoCall == [op |-> "none", key |-> Null, val |-> Null]
NoPend == [left |-> 0, sep |-> Null, right |-> 0]

Leaf(parent, link, slots) ==
    [type |-> "leaf", parent |-> parent, link |-> link, slots |-> slots]
Internal(parent, link, slots) ==
    [type |-> "internal", parent |-> parent, link |-> link, slots |-> slots]
------------------------------------------------------------------------------
(***************************************************************************)
(* Slots.                                                                  *)
(***************************************************************************)
NoSlots == [k \in {} |-> Null]
Without(slots, k) == [j \in DOMAIN slots \ {k} |-> slots[j]]
With(slots, k, d) ==
    [j \in DOMAIN slots \cup {k} |-> IF j = k THEN d ELSE slots[j]]
Join(f, g) ==
    [k \in DOMAIN f \cup DOMAIN g |-> IF k \in DOMAIN f THEN f[k] ELSE g[k]]

NumSlots(p) == Cardinality(DOMAIN pages[p].slots)

ChildForStrict(page, k) ==  \* mutant: > for >=
    LET below == {s \in DOMAIN page.slots : s < k}
    IN  IF below = {} THEN page.link ELSE page.slots[Max(below)]

\* The child _search_in_internal_node returns: that of the greatest separator
\* not above k, or the leftmost one.
ChildFor(page, k) ==
    LET below == {s \in DOMAIN page.slots : s <= k}
    IN  IF below = {} THEN page.link ELSE page.slots[Max(below)]

LeafRoom(slots) ==
    LeafCap - MapThenSumSet(LAMBDA k : Weight[slots[k]], DOMAIN slots)

(***************************************************************************)
(* all_data and all_pointers: the entries a page is rebuilt from, each     *)
(* with its position in the list.  Python's sort is stable, so an entry    *)
(* appended with a key the page already holds comes after the old one.     *)
(***************************************************************************)
Entry(k, d, pos) == [key |-> k, data |-> d, pos |-> pos]
Rank(slots, k) == Cardinality({j \in DOMAIN slots : j < k})

Sorted(slots, k, d) ==
    {Entry(j, slots[j], Rank(slots, j) + (IF k < j THEN 1 ELSE 0)) : j \in DOMAIN slots}
    \cup {Entry(k, d, Rank(slots, k + 1))}

Concat(f, k, d, g) ==
    LET n == Cardinality(DOMAIN f)
    IN  {Entry(j, f[j], Rank(f, j)) : j \in DOMAIN f}
        \cup {Entry(k, d, n)}
        \cup {Entry(j, g[j], n + 1 + Rank(g, j)) : j \in DOMAIN g}

Fits(type, items) ==
    IF type = "leaf"
      THEN MapThenSumSet(LAMBDA i : Weight[i.data], items) <= LeafCap
      ELSE Cardinality(items) <= MaxSeps

\* The entries that get into an emptied page before the insertion of one raises,
\* because its key is there already or because the page is full.
Loaded(type, items) ==
    {i \in items :
        LET upto == {j \in items : j.pos <= i.pos}
        IN  /\ \A a, b \in upto : a.key = b.key => a = b
            /\ Fits(type, upto)}

SlotsOf(items) ==
    [k \in {i.key : i \in items} |-> (CHOOSE i \in items : i.key = k).data]

First(items) == CHOOSE i \in items : \A j \in items : i.pos <= j.pos
------------------------------------------------------------------------------
Init ==
    /\ pages = <<Leaf(0, 0, NoSlots)>>
    /\ root = 1
    /\ pc = "idle"
    /\ call = NoCall
    /\ at = 0
    /\ pend = NoPend
    /\ reply = "none"

Goto(label, p) == pc' = label /\ at' = p /\ UNCHANGED <<call, reply>>

Return(r) ==
    /\ pc' = "idle" /\ call' = NoCall /\ at' = 0 /\ pend' = NoPend
    /\ reply' = r

Raise == Return("error")

\* delete() has returned to its caller: update() goes on to insert().
DeleteReturns ==
    IF call.op = "update"
      THEN Goto("add", root') /\ pend' = NoPend
      ELSE Return("ok")

Call(req) ==
    /\ pc = "idle"
    /\ call' = req
    /\ pc' = CASE req.op = "insert" -> "add"
               [] req.op = "delete" -> "remove"
               [] OTHER             -> "find"
    /\ at' = root
    /\ reply' = "none"
    /\ UNCHANGED <<pages, root, pend>>

DescendFromRoot ==  \* mutant: the recursive call starts at the root again
    /\ pc \in {"find", "add", "remove"}
    /\ pages[at].type = "internal"
    /\ Goto(pc, root)
    /\ UNCHANGED <<pages, root, pend>>

\* _search_recursive, _insert_recursive, _delete_recursive at an internal page.
Descend ==
    /\ pc \in {"find", "add", "remove"}
    /\ pages[at].type = "internal"
    /\ Goto(pc, ChildFor(pages[at], call.key))
    /\ UNCHANGED <<pages, root, pend>>

Search ==
    /\ pc = "find" /\ call.op = "search" /\ pages[at].type = "leaf"
    /\ Return(IF call.key \in DOMAIN pages[at].slots
                THEN pages[at].slots[call.key] ELSE Null)
    /\ UNCHANGED <<pages, root>>

\* update() raises unless the key is found, else deletes it first.
UpdateFinds ==
    /\ pc = "find" /\ call.op = "update" /\ pages[at].type = "leaf"
    /\ IF call.key \in DOMAIN pages[at].slots
         THEN Goto("remove", root) /\ UNCHANGED pend
         ELSE Raise
    /\ UNCHANGED <<pages, root>>
------------------------------------------------------------------------------
(***************************************************************************)
(* Insertion.                                                              *)
(***************************************************************************)
AddLeaf == pc = "add" /\ pages[at].type = "leaf"
HasRoom == Weight[call.val] <= LeafRoom(pages[at].slots)

InsertIntoLeaf ==
    /\ AddLeaf /\ HasRoom
    /\ call.key \notin DOMAIN pages[at].slots
    /\ pages' = [pages EXCEPT ![at].slots = With(@, call.key, call.val)]
    /\ Return("ok")
    /\ UNCHANGED root

\* The duplicate check comes after the decision to split: only a leaf with room
\* for the new entry gets this far.
InsertDuplicate ==
    /\ AddLeaf /\ HasRoom
    /\ call.key \in DOMAIN pages[at].slots
    /\ Raise
    /\ UNCHANGED <<pages, root>>

LinkRightNoNewRoot(p, sep, new, parent) ==  \* mutant: a split root has no parent
    /\ Goto("link", parent)
    /\ pend' = [left |-> p, sep |-> sep, right |-> new]

LinkRightToRoot(p, sep, new, parent) ==  \* mutant: the new page goes to the root
    /\ Goto(IF parent = 0 THEN "newRoot" ELSE "link", IF parent = 0 THEN 0 ELSE root)
    /\ pend' = [left |-> p, sep |-> sep, right |-> new]

\* Where a split goes on: to a new root or to the parent.
LinkRight(p, sep, new, parent) ==
    /\ Goto(IF parent = 0 THEN "newRoot" ELSE "link", parent)
    /\ pend' = [left |-> p, sep |-> sep, right |-> new]

\* The left half is written back first, then the right half into the new page;
\* an exception in either leaves the rest of the entries nowhere.
SplitLeaf ==
    LET old   == pages[at]
        new   == Len(pages) + 1
        all   == Sorted(old.slots, call.key, call.val)
        split == (NumSlots(at) + 1) \div 2
        left  == {i \in all : i.pos < split}
        right == all \ left
        leftDone  == Loaded("leaf", left)
        rightDone == IF leftDone = left THEN Loaded("leaf", right) ELSE {}
    IN  /\ AddLeaf /\ ~HasRoom
        /\ pages' = [Append(pages, Leaf(old.parent, old.link, SlotsOf(rightDone)))
                       EXCEPT ![at] = Leaf(old.parent, new, SlotsOf(leftDone))]
        /\ IF rightDone = right
             THEN LinkRight(at, First(right).key, new, old.parent)
             ELSE Raise
        /\ UNCHANGED root

SetParentsSkipped(pgs, ids, p) == pgs  \* mutant
SetParents(pgs, ids, p) ==
    [i \in 1..Len(pgs) |-> IF i \in ids THEN [pgs[i] EXCEPT !.parent = p] ELSE pgs[i]]

CreateNewRoot ==
    LET new == Len(pages) + 1
    IN  /\ pc = "newRoot"
        /\ pages' = SetParents(
                      Append(pages, Internal(0, pend.left,
                                             With(NoSlots, pend.sep, pend.right))),
                      {pend.left, pend.right}, new)
        /\ root' = new
        /\ Return("ok")

ParentHasRoom == NumSlots(at) < MaxSeps

InsertIntoParent ==
    /\ pc = "link" /\ ParentHasRoom
    /\ IF pend.sep \in DOMAIN pages[at].slots
         THEN Raise /\ UNCHANGED pages
         ELSE /\ pages' = [pages EXCEPT ![at].slots = With(@, pend.sep, pend.right),
                                        ![pend.right].parent = at]
              /\ Return("ok")
    /\ UNCHANGED root

\* The median separator moves up and its child becomes the new page's leftmost.
SplitInternal ==
    LET old   == pages[at]
        new   == Len(pages) + 1
        all   == Sorted(old.slots, pend.sep, pend.right)
        split == (NumSlots(at) + 1) \div 2
        left  == {i \in all : i.pos < split}
        median == First(all \ left)
        right == all \ (left \cup {median})
        leftDone  == Loaded("internal", left)
        rightDone == IF leftDone = left THEN Loaded("internal", right) ELSE {}
        rebuilt(link) ==
          [Append(pages, Internal(old.parent, link, SlotsOf(rightDone)))
             EXCEPT ![at].slots = SlotsOf(leftDone)]
    IN  /\ pc = "link" /\ ~ParentHasRoom
        /\ IF leftDone = left /\ rightDone = right
             THEN /\ pages' = SetParents(rebuilt(median.data),
                                {median.data} \cup {i.data : i \in right}, new)
                  /\ LinkRight(at, median.key, new, old.parent)
             ELSE /\ pages' = rebuilt(IF leftDone = left THEN median.data ELSE 0)
                  /\ Raise
        /\ UNCHANGED root
------------------------------------------------------------------------------
(***************************************************************************)
(* Deletion.                                                               *)
(***************************************************************************)
DeleteFromLeaf ==
    LET rest == Without(pages[at].slots, call.key)
    IN  /\ pc = "remove" /\ pages[at].type = "leaf"
        /\ call.key \in DOMAIN pages[at].slots
        /\ pages' = [pages EXCEPT ![at].slots = rest]
        /\ UNCHANGED root
        /\ IF at # root /\ Cardinality(DOMAIN rest) < MIN_SLOTS_THRESHOLD
             THEN Goto("fixLeaf", at) /\ UNCHANGED pend
             ELSE DeleteReturns

DeleteMissing ==
    /\ pc = "remove" /\ pages[at].type = "leaf"
    /\ call.key \notin DOMAIN pages[at].slots
    /\ Raise
    /\ UNCHANGED <<pages, root>>

(***************************************************************************)
(* _find_sibling_info: the siblings of page p under the page its parent    *)
(* field names, and the separators between.                                *)
(***************************************************************************)
Parent(p)   == pages[pages[p].parent]
OwnSeps(p)  == {s \in DOMAIN Parent(p).slots : Parent(p).slots[s] = p}
IsChild(p)  == p = Parent(p).link \/ OwnSeps(p) # {}
HasLeft(p)  == p # Parent(p).link
LeftSep(p)  == Min(OwnSeps(p))
LeftSib(p)  == ChildFor(Parent(p), LeftSep(p) - 1)
RightSeps(p) ==
    {s \in DOMAIN Parent(p).slots : HasLeft(p) => s > LeftSep(p)}
HasRight(p) == RightSeps(p) # {}
RightSep(p) == Min(RightSeps(p))
RightSib(p) == Parent(p).slots[RightSep(p)]

CanBorrowRight(p) == HasRight(p) /\ NumSlots(RightSib(p)) > MIN_SLOTS_THRESHOLD
CanBorrowLeft(p)  == HasLeft(p) /\ NumSlots(LeftSib(p)) > MIN_SLOTS_THRESHOLD

\* The pages a merge joins and the separator between them, the right sibling first.
MergePair(p) ==
    IF HasRight(p) THEN [left |-> p, sep |-> RightSep(p), right |-> RightSib(p)]
                   ELSE [left |-> LeftSib(p), sep |-> LeftSep(p), right |-> p]

Underflow(label) == pc = label /\ pages[at].parent # 0 /\ IsChild(at)

BorrowRight(label) == Underflow(label) /\ CanBorrowRight(at)
BorrowLeft(label)  == Underflow(label) /\ ~CanBorrowRight(at) /\ CanBorrowLeft(at)
MergeSiblings(label) ==
    /\ Underflow(label) /\ ~CanBorrowRight(at) /\ ~CanBorrowLeft(at)
    /\ HasLeft(at) \/ HasRight(at)

\* A page with no parent or with no sibling is left as it is.
NothingToRepair ==
    /\ pc \in {"fixLeaf", "fixInner"}
    /\ pages[at].parent # 0 => IsChild(at) /\ ~HasLeft(at) /\ ~HasRight(at)
    /\ UNCHANGED <<pages, root>>
    /\ DeleteReturns

\* "Erro ao buscar irmao": the page is not a child of its parent field.
SiblingNotFound ==
    /\ pc \in {"fixLeaf", "fixInner"}
    /\ pages[at].parent # 0 /\ ~IsChild(at)
    /\ Raise
    /\ UNCHANGED <<pages, root>>

ReplacedNot(slots, old, new) == slots  \* mutant: the separator stays

\* The parent's separator `old' is deleted and `new' inserted with the same
\* child; the insertion raises if the parent has `new' already.
Replaced(slots, old, new) ==
    IF new \in DOMAIN slots \ {old} THEN Without(slots, old)
    ELSE With(Without(slots, old), new, slots[old])

ReplaceSeparator(parent, old, new) ==
    IF new \in DOMAIN pages[parent].slots \ {old} THEN Raise ELSE DeleteReturns

BorrowRightLeaf ==
    LET parent == pages[at].parent
        sib    == RightSib(at)
        low    == Min(DOMAIN pages[sib].slots)
        rest   == Without(pages[sib].slots, low)
        newSep == Min(DOMAIN rest)
    IN  /\ BorrowRight("fixLeaf")
        /\ pages' = [pages EXCEPT
                       ![at].slots = With(@, low, pages[sib].slots[low]),
                       ![sib].slots = rest,
                       ![parent].slots = Replaced(pages[parent].slots, RightSep(at), newSep)]
        /\ UNCHANGED root
        /\ ReplaceSeparator(parent, RightSep(at), newSep)

BorrowLeftLeaf ==
    LET parent == pages[at].parent
        sib    == LeftSib(at)
        high   == Max(DOMAIN pages[sib].slots)
    IN  /\ BorrowLeft("fixLeaf")
        /\ pages' = [pages EXCEPT
                       ![at].slots = With(@, high, pages[sib].slots[high]),
                       ![sib].slots = Without(pages[sib].slots, high),
                       ![parent].slots = Replaced(pages[parent].slots, LeftSep(at), high)]
        /\ UNCHANGED root
        /\ ReplaceSeparator(parent, LeftSep(at), high)

LeavesKeepingLink(left, right) ==  \* mutant: next sibling not passed on
    [left EXCEPT !.slots = Join(@, right.slots)]
LeavesJoined(left, right) ==
    [left EXCEPT !.slots = Join(@, right.slots), !.link = right.link]

\* One of the two pages is empty, so their keys fit one page and do not meet.
MergeLeaves ==
    LET m == MergePair(at)
    IN  /\ MergeSiblings("fixLeaf")
        /\ pages' = [pages EXCEPT ![m.left] = LeavesJoined(@, pages[m.right])]
        /\ Goto("unlink", pages[at].parent)
        /\ pend' = m
        /\ UNCHANGED root

\* The borrowed child keeps its old parent field.
BorrowRightInternal ==
    LET parent == pages[at].parent
        sib    == RightSib(at)
        lender == pages[sib]
        newSep == Min(DOMAIN lender.slots)
    IN  /\ BorrowRight("fixInner")
        /\ pages' = [pages EXCEPT
                       ![at].slots = With(@, RightSep(at), lender.link),
                       ![sib] = Internal(lender.parent, lender.slots[newSep],
                                         Without(lender.slots, newSep)),
                       ![parent].slots = Replaced(pages[parent].slots, RightSep(at), newSep)]
        /\ UNCHANGED root
        /\ ReplaceSeparator(parent, RightSep(at), newSep)

\* The leftmost child is set to the borrowed one and then back to the page's own,
\* which is popped from the front of my_pointers: the borrowed child is in no page.
BorrowLeftInternal ==
    LET parent == pages[at].parent
        sib    == LeftSib(at)
        high   == Max(DOMAIN pages[sib].slots)
    IN  /\ BorrowLeft("fixInner")
        /\ pages' = [pages EXCEPT
                       ![sib].slots = Without(@, high),
                       ![parent].slots = Replaced(pages[parent].slots, LeftSep(at), high)]
        /\ UNCHANGED root
        /\ ReplaceSeparator(parent, LeftSep(at), high)

\* The separator between comes down with the right page's leftmost child.
MergeInternals ==
    LET m    == MergePair(at)
        all  == Concat(pages[m.left].slots, m.sep, pages[m.right].link,
                       pages[m.right].slots)
        done == Loaded("internal", all)
    IN  /\ MergeSiblings("fixInner")
        /\ pages' = SetParents([pages EXCEPT ![m.left].slots = SlotsOf(done)],
                               {i.data : i \in done}, m.left)
        /\ IF done = all THEN Goto("unlink", pages[at].parent) /\ pend' = m
                         ELSE Raise
        /\ UNCHANGED root

(***************************************************************************)
(* _delete_entry_from_internal_node after a merge, with _shrink_root.      *)
(***************************************************************************)
Remaining == Without(pages[at].slots, pend.sep)

Unlink ==
    /\ pc = "unlink" /\ Remaining # NoSlots
    /\ pages' = [pages EXCEPT ![at].slots = Remaining]
    /\ UNCHANGED root
    /\ DeleteReturns

UnlinkUnderflowsAsLeaf ==  \* mutant: repaired as a leaf
    /\ pc = "unlink" /\ Remaining = NoSlots /\ at # root
    /\ pages' = [pages EXCEPT ![at].slots = Remaining]
    /\ Goto("fixLeaf", at)
    /\ pend' = NoPend
    /\ UNCHANGED root

UnlinkUnderflows ==
    /\ pc = "unlink" /\ Remaining = NoSlots /\ at # root
    /\ pages' = [pages EXCEPT ![at].slots = Remaining]
    /\ Goto("fixInner", at)
    /\ pend' = NoPend
    /\ UNCHANGED root

ShrinkRoot ==
    /\ pc = "unlink" /\ Remaining = NoSlots /\ at = root
    /\ pages' = [pages EXCEPT ![at].slots = Remaining,
                              ![pages[at].link].parent = 0]
    /\ root' = pages[at].link
    /\ DeleteReturns
------------------------------------------------------------------------------
Insertion ==
    \/ InsertIntoLeaf \/ InsertDuplicate \/ SplitLeaf
    \/ CreateNewRoot \/ InsertIntoParent \/ SplitInternal

Deletion ==
    \/ DeleteFromLeaf \/ DeleteMissing
    \/ NothingToRepair \/ SiblingNotFound
    \/ BorrowRightLeaf \/ BorrowLeftLeaf \/ MergeLeaves
    \/ BorrowRightInternal \/ BorrowLeftInternal \/ MergeInternals
    \/ Unlink \/ UnlinkUnderflows \/ ShrinkRoot

Step == Descend \/ Search \/ UpdateFinds \/ Insertion \/ Deletion

Next == Step \/ \E req \in Requests : Call(req)

Spec == Init /\ [][Next]_vars

\* A call runs to its end: btree.py waits for nothing.
FairSpec == Spec /\ WF_vars(Step)
------------------------------------------------------------------------------
(***************************************************************************)
(* What a page id in a page, in the root or in the running function must   *)
(* be: a page that exists and, if it is internal, has its leftmost child.  *)
(* A split that raises half way leaves an internal page without one.       *)
(***************************************************************************)
Id == 1..Len(pages)
Linked == {p \in Id : pages[p].type = "leaf" \/ pages[p].link # 0}

Children(p) ==
    IF pages[p].type = "leaf" THEN {}
    ELSE ({pages[p].link} \ {0}) \cup {pages[p].slots[s] : s \in DOMAIN pages[p].slots}

PageOK(pg, ids) ==
    /\ pg \in [type : {"leaf", "internal"}, parent : {0} \cup ids,
               link : {0} \cup ids, slots : {pg.slots}]
    /\ DOMAIN pg.slots \subseteq Keys
    /\ pg.slots \in [DOMAIN pg.slots -> IF pg.type = "leaf" THEN Vals ELSE ids]
    /\ pg.type = "internal" /\ pg.link = 0 => DOMAIN pg.slots = {}

\* The operations a function runs for.
OpsAt(label) ==
    CASE label = "idle" -> {"none"}
      [] label = "find" -> {"search", "update"}
      [] label \in {"add", "link", "newRoot"} -> {"insert", "update"}
      [] OTHER -> {"delete", "update"}

PagesOK ==
    /\ pages \in Seq({pages[p] : p \in Id})
    /\ LET ids == Linked IN \A p \in Id : PageOK(pages[p], ids)

ControlOK ==
    /\ root \in Linked
    /\ pc \in {"idle", "find", "add", "remove", "link", "newRoot",
              "fixLeaf", "fixInner", "unlink"}
    /\ call \in Requests \cup {NoCall} /\ call.op \in OpsAt(pc)
    /\ at \in {0} \cup Linked /\ (at = 0) = (pc \in {"idle", "newRoot"})
    /\ pend \in [left : {0} \cup Linked, sep : Keys \cup {Null}, right : {0} \cup Linked]
    /\ pc \in {"link", "newRoot"} => pend.left # 0 /\ pend.sep \in Keys /\ pend.right # 0
    /\ reply \in Vals \cup {Null, "none", "ok", "error"}

\* No page id in the store ever dangles, whatever calls fail: get_page never reads
\* past the pages allocated and no search reaches child 0, so the "Corrupcao"
\* branches of btree.py and its tests for child 0 are dead code.  Leaves hold
\* values and internal pages hold page ids, never each other's.
TypeOK == PagesOK /\ ControlOK
------------------------------------------------------------------------------
(***************************************************************************)
(* What a search finds: the page a search for k ends at, the value it      *)
(* returns for each key, and the pages a search can reach.                 *)
(***************************************************************************)
LeafFor(k) ==
    LET down[p \in Id] ==
          IF pages[p].type = "internal" THEN down[ChildFor(pages[p], k)] ELSE p
    IN  down[root]

Contents ==
    [k \in Keys |-> LET slots == pages[LeafFor(k)].slots
                    IN  IF k \in DOMAIN slots THEN slots[k] ELSE Null]

Reachable ==
    LET below[n \in 0..Len(pages)] ==
          IF n = 0 THEN {root} ELSE UNION {Children(p) : p \in below[n - 1]}
    IN  UNION {below[n] : n \in 0..Len(pages)}
==============================================================================
