------------------------------ MODULE TreeShape ------------------------------
(***************************************************************************)
(* The shape the pages of the B+ tree keep through every call, those that  *)
(* raise included.  `level' is a history variable: the height of each page *)
(* above the leaves, fixed when the page is allocated.                     *)
(***************************************************************************)
EXTENDS BPlusTree

VARIABLE level

svars == <<pages, root, pc, call, at, pend, reply, level>>

\* A split allocates a page at the level of the page it splits, a new root is one
\* above the pages it joins.
Grow ==
    level' = IF Len(pages') = Len(pages) THEN level
             ELSE Append(level, IF pc = "newRoot" THEN level[pend.left] + 1 ELSE level[at])

SInit == Init /\ level = <<0>>
SStep == Step /\ Grow
SCall(req) == Call(req) /\ UNCHANGED level
SNext == SStep \/ \E req \in Requests : SCall(req)
SSpec == SInit /\ [][SNext]_svars

\* Every leaf is at the same depth below every page that leads to it, so every
\* search ends and costs the height of the tree.  It survives lost subtrees and
\* stale parent fields: a page's children and its parent field always name pages
\* one level down and one level up, even if they name the wrong ones.
Balanced ==
    \A p \in Id :
        /\ (pages[p].type = "leaf") = (level[p] = 0)
        /\ \A c \in Children(p) : level[p] = level[c] + 1
        /\ pages[p].parent # 0 => level[pages[p].parent] = level[p] + 1

\* The page a function is called on has the type the function takes for granted:
\* leaves are repaired as leaves, and the halves of a split page go to a page one
\* level up.
RightKindOfPage ==
    /\ pc = "fixLeaf" => pages[at].type = "leaf"
    /\ pc \in {"link", "unlink", "fixInner"} => pages[at].type = "internal"
    /\ pc = "link" => level[at] = level[pend.left] + 1
    /\ pc \in {"link", "newRoot"} => level[pend.left] = level[pend.right]
==============================================================================
