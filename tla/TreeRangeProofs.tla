--------------------------- MODULE TreeRangeProofs ---------------------------
(***************************************************************************)
(* Pages as a tree in which each page has a range of keys: what a search   *)
(* finds in it, and what the changes of btree.py make of it: splits,       *)
(* merges and borrows. The sums that LeafRoom and Fits are, and the halves *)
(* a page is split into.                                                   *)
(***************************************************************************)
EXTENDS TreeStore, TreeShapeProofs

------------------------------------------------------------------------------
(***************************************************************************)
(* Pages as a tree of key ranges                                           *)
(***************************************************************************)
\* No key is so great.
KeyEnd == Max(Keys) + 1
\* The pages an internal page names.
Kids(pg) == {pg.link} \cup {pg.slots[s] : s \in DOMAIN pg.slots}

\* An internal page: its separators lie in its range, and the range of each child goes
\* from its own separator to the next one.
NodeOK(v, lv, lo, hi, p) ==
    LET D == DOMAIN v[p].slots
    IN  /\ \A s \in D : /\ lo[p] < s /\ s < hi[p]
                        /\ v[p].slots[s] \in DOMAIN lo /\ lo[v[p].slots[s]] = s
        /\ v[p].link \in DOMAIN lo /\ lo[v[p].link] = lo[p]
        /\ \A c \in Kids(v[p]) :
              /\ v[c].parent = p /\ lv[c] + 1 = lv[p]
              /\ hi[c] \in D \cup {hi[p]} /\ hi[c] <= hi[p]
              /\ \A s \in D : s <= lo[c] \/ hi[c] <= s

\* A leaf: its keys lie in its range, and its link names the leaf of the next range.
LeafOK(v, lo, hi, p) ==
    /\ \A k \in DOMAIN v[p].slots : lo[p] <= k /\ k < hi[p] /\ v[p].slots[k] \in Vals
    /\ IF v[p].link = 0 THEN hi[p] = KeyEnd
       ELSE /\ v[p].link \in DOMAIN lo /\ v[v[p].link].type = "leaf"
            /\ lo[v[p].link] = hi[p]

\* What a page p of the tree keeps.
Stands(v, lv, r, lo, hi, p) ==
    /\ lo[p] \in Nat /\ hi[p] \in Nat /\ lo[p] < hi[p] /\ hi[p] <= KeyEnd
    /\ lv[p] \in Nat /\ lv[p] <= lv[r]
    /\ DOMAIN v[p].slots \subseteq Keys
    /\ v[p].type = IF lv[p] = 0 THEN "leaf" ELSE "internal"
    /\ p # r => /\ lv[p] < lv[r] /\ v[p].parent \in DOMAIN lo
                /\ v[v[p].parent].type = "internal" /\ p \in Kids(v[v[p].parent])
    /\ IF v[p].type = "leaf" THEN LeafOK(v, lo, hi, p) ELSE NodeOK(v, lv, lo, hi, p)

\* In the pages v with the levels lv, the pages DOMAIN lo are a tree with the root r, in
\* which page p has the keys from lo[p] to hi[p] - 1.
IsTree(v, lv, r, lo, hi) ==
    /\ 0 \notin DOMAIN lo /\ DOMAIN hi = DOMAIN lo /\ DOMAIN lo \subseteq DOMAIN v
    /\ r \in DOMAIN lo /\ lo[r] = 0 /\ hi[r] = KeyEnd /\ v[r].parent = 0
    /\ \A p \in DOMAIN lo : Stands(v, lv, r, lo, hi, p)

\* Key k belongs to page p.
Inside(lo, hi, p, k) == lo[p] <= k /\ k < hi[p]

\* ChildFor takes the child of the greatest separator not above the key.
LEMMA ChildAt ==
    ASSUME NEW pg, DOMAIN pg.slots \subseteq Keys, NEW k \in Nat
    PROVE  \/ \E s \in DOMAIN pg.slots :
                 /\ s <= k /\ \A t \in DOMAIN pg.slots : t <= k => t <= s
                 /\ ChildFor(pg, k) = pg.slots[s]
           \/ (\A t \in DOMAIN pg.slots : k < t) /\ ChildFor(pg, k) = pg.link
<1>. DEFINE below == {s \in DOMAIN pg.slots : s <= k}
<1>1. \A t \in DOMAIN pg.slots : t \in Nat BY KeysNat
<1>2. CASE below = {} BY <1>1, <1>2 DEF ChildFor
<1>3. CASE below # {}
    <2>1. Max(below) \in below /\ \A m \in below : m <= Max(below) BY <1>3, KeysMax
    <2>2. ChildFor(pg, k) = pg.slots[Max(below)] BY <1>3 DEF ChildFor
    <2>. HIDE DEF below
    <2>3. Max(below) \in DOMAIN pg.slots /\ Max(below) <= k BY <2>1 DEF below
    <2>4. \A t \in DOMAIN pg.slots : t <= k => t <= Max(below) BY <2>1 DEF below
    <2>. QED BY <2>2, <2>3, <2>4
<1>. QED BY <1>2, <1>3

\* From a page that a key belongs to, ChildFor leads to a child it belongs to.
LEMMA Route ==
    ASSUME NEW v, NEW lv, NEW r, NEW lo, NEW hi, IsTree(v, lv, r, lo, hi),
           NEW p \in DOMAIN lo, v[p].type = "internal", NEW k \in Nat, Inside(lo, hi, p, k)
    PROVE  LET c == ChildFor(v[p], k)
           IN  /\ c \in DOMAIN lo /\ Inside(lo, hi, c, k) /\ c \in Kids(v[p])
               /\ v[c].parent = p /\ lv[c] + 1 = lv[p]
<1>. DEFINE D == DOMAIN v[p].slots
<1>1. NodeOK(v, lv, lo, hi, p) /\ D \subseteq Keys /\ lo[p] \in Nat /\ hi[p] \in Nat
    BY DEF IsTree, Stands
<1>2. \A s \in D : s \in Nat BY <1>1, KeysNat
<1>3. PICK c : c = ChildFor(v[p], k) OBVIOUS
<1>4. c \in Kids(v[p]) /\ c \in DOMAIN lo /\ lo[c] <= k /\ \A s \in D : s <= k => s <= lo[c]
    BY <1>1, <1>2, <1>3, ChildAt DEF NodeOK, Kids, Inside
<1>5. lo[c] \in Nat /\ hi[c] \in Nat BY <1>4 DEF IsTree, Stands
<1>6. /\ v[c].parent = p /\ lv[c] + 1 = lv[p]
      /\ hi[c] \in D \cup {hi[p]} /\ \A s \in D : s <= lo[c] \/ hi[c] <= s
    BY <1>1, <1>4 DEF NodeOK
<1>7. lo[c] < hi[c] BY <1>4 DEF IsTree, Stands
<1>8. k < hi[c]
    BY <1>2, <1>4, <1>5, <1>6, <1>7 DEF Inside
<1>. QED BY <1>3, <1>4, <1>6, <1>8 DEF Inside

\* The child that a key belongs to is the one ChildFor leads to.
LEMMA RouteBack ==
    ASSUME NEW v, NEW lv, NEW r, NEW lo, NEW hi, IsTree(v, lv, r, lo, hi),
           NEW p \in DOMAIN lo, v[p].type = "internal", NEW c \in Kids(v[p]),
           NEW k \in Nat, Inside(lo, hi, c, k)
    PROVE  /\ ChildFor(v[p], k) = c /\ Inside(lo, hi, p, k)
           /\ c \in DOMAIN lo /\ v[c].parent = p /\ lv[c] + 1 = lv[p]
           /\ lo[p] <= lo[c] /\ hi[c] <= hi[p]
<1>. DEFINE D == DOMAIN v[p].slots
<1>1. NodeOK(v, lv, lo, hi, p) /\ D \subseteq Keys /\ lo[p] \in Nat /\ hi[p] \in Nat
    BY DEF IsTree, Stands
<1>2. \A s \in D : s \in Nat BY <1>1, KeysNat
<1>3. /\ c \in DOMAIN lo /\ lo[p] <= lo[c]
      /\ (lo[c] = lo[p] /\ c = v[p].link) \/ (lo[c] \in D /\ c = v[p].slots[lo[c]])
    BY <1>1, <1>2 DEF NodeOK, Kids
<1>4. lo[c] \in Nat /\ hi[c] \in Nat BY <1>3 DEF IsTree, Stands
<1>5. /\ v[c].parent = p /\ lv[c] + 1 = lv[p] /\ hi[c] <= hi[p]
      /\ \A s \in D : s <= lo[c] \/ hi[c] <= s
    BY <1>1 DEF NodeOK
<1>6. Inside(lo, hi, p, k) BY <1>1, <1>3, <1>4, <1>5 DEF Inside
<1>7. \A s \in D : lo[p] < s BY <1>1 DEF NodeOK
<1>8. \A s \in D : s <= k => s <= lo[c] BY <1>2, <1>4, <1>5 DEF Inside
<1>9. ChildFor(v[p], k) = c
    <2>1. CASE lo[c] = lo[p] /\ c = v[p].link
        <3>1. \A s \in D : k < s BY <1>1, <1>2, <1>7, <1>8, <2>1
        <3>. QED BY <1>1, <1>2, <2>1, <3>1, ChildAt
    <2>2. CASE lo[c] \in D /\ c = v[p].slots[lo[c]]
        <3>1. lo[c] <= k BY DEF Inside
        <3>2. \A s \in D : s <= k /\ (\A t \in D : t <= k => t <= s) => s = lo[c]
            BY <1>2, <1>8, <2>2, <3>1
        <3>3. ~(\A t \in D : k < t) BY <1>2, <2>2, <3>1
        <3>. QED BY <1>1, <2>2, <3>2, <3>3, ChildAt
    <2>. QED BY <1>3, <2>1, <2>2
<1>. QED BY <1>3, <1>5, <1>6, <1>9

\* Two pages of one level have no key in common.
LEMMA Apart ==
    ASSUME NEW v, NEW lv, NEW r, NEW lo, NEW hi, IsTree(v, lv, r, lo, hi),
           NEW p \in DOMAIN lo, NEW q \in DOMAIN lo, lv[p] = lv[q],
           NEW k \in Nat, Inside(lo, hi, p, k), Inside(lo, hi, q, k)
    PROVE  p = q
<1>. DEFINE Bad == {n \in Nat : \E x, y \in DOMAIN lo :
                       /\ lv[x] = lv[y] /\ x # y /\ lv[x] + n = lv[r]
                       /\ Inside(lo, hi, x, k) /\ Inside(lo, hi, y, k)}
<1>1. SUFFICES ASSUME p # q PROVE FALSE OBVIOUS
<1>2. \A x \in DOMAIN lo : lv[x] \in Nat /\ lv[x] <= lv[r] BY DEF IsTree, Stands
<1>3. r \in DOMAIN lo /\ lv[r] \in Nat BY DEF IsTree, Stands
<1>4. lv[r] - lv[p] \in Bad BY <1>1, <1>2, <1>3
<1>5. PICK n \in Bad : \A m \in Bad : n <= m BY <1>4, LeastNatural
<1>6. PICK x \in DOMAIN lo, y \in DOMAIN lo :
         /\ lv[x] = lv[y] /\ x # y /\ lv[x] + n = lv[r]
         /\ Inside(lo, hi, x, k) /\ Inside(lo, hi, y, k)
    BY <1>5
<1>7. ASSUME NEW z \in DOMAIN lo, z # r, Inside(lo, hi, z, k)
      PROVE  /\ v[z].parent \in DOMAIN lo /\ Inside(lo, hi, v[z].parent, k)
             /\ ChildFor(v[v[z].parent], k) = z /\ lv[z] + 1 = lv[v[z].parent]
    <2>1. PICK w : w = v[z].parent OBVIOUS
    <2>2. w \in DOMAIN lo /\ v[w].type = "internal" /\ z \in Kids(v[w]) BY <1>7, <2>1 DEF IsTree,
        Stands
    <2>. QED BY <1>7, <2>1, <2>2, RouteBack
<1>8. \A z \in DOMAIN lo : z # r => lv[z] < lv[r] BY DEF IsTree, Stands
<1>9. x # r /\ y # r BY <1>2, <1>3, <1>6, <1>8
<1>10. PICK a, b : a = v[x].parent /\ b = v[y].parent OBVIOUS
<1>11. /\ a \in DOMAIN lo /\ Inside(lo, hi, a, k) /\ ChildFor(v[a], k) = x /\ lv[x] + 1 = lv[a]
       /\ b \in DOMAIN lo /\ Inside(lo, hi, b, k) /\ ChildFor(v[b], k) = y /\ lv[y] + 1 = lv[b]
    BY <1>6, <1>7, <1>9, <1>10
<1>12. a # b /\ lv[a] = lv[b] BY <1>6, <1>11
<1>13. n - 1 \in Bad
    <2>1. lv[x] < lv[r] /\ n \in Nat BY <1>5, <1>6, <1>8, <1>9
    <2>2. n - 1 \in Nat /\ lv[a] + (n - 1) = lv[r] BY <1>2, <1>3, <1>6, <1>11, <2>1
    <2>. QED BY <1>11, <1>12, <2>2
<1>. QED BY <1>5, <1>13

\* The range of a page is not empty.
LEMMA Ends ==
    ASSUME NEW v, NEW lv, NEW r, NEW lo, NEW hi, IsTree(v, lv, r, lo, hi), NEW p \in DOMAIN lo
    PROVE  /\ lo[p] \in Nat /\ hi[p] \in Nat /\ lo[p] < hi[p] /\ hi[p] <= KeyEnd
           /\ hi[p] - 1 \in Nat /\ Inside(lo, hi, p, hi[p] - 1) /\ Inside(lo, hi, p, lo[p])
           /\ lv[p] \in Nat /\ KeyEnd \in Nat /\ KeyEnd > 0
<1>1. lo[p] \in Nat /\ hi[p] \in Nat /\ lo[p] < hi[p] /\ hi[p] <= KeyEnd /\ lv[p] \in Nat
    BY DEF IsTree, Stands
<1>. QED BY <1>1, KeysNat DEF Inside, KeyEnd

\* The leaves are the pages of level 0.
LEMMA LeafLevel ==
    ASSUME NEW v, NEW lv, NEW r, NEW lo, NEW hi, IsTree(v, lv, r, lo, hi), NEW p \in DOMAIN lo
    PROVE  (v[p].type = "leaf") = (lv[p] = 0) /\ v[p].type \in {"leaf", "internal"}
BY DEF IsTree, Stands

\* If the root is one level above the leaves, every other page is its child.
LEMMA LevelOne ==
    ASSUME NEW v, NEW lv, NEW r, NEW lo, NEW hi, IsTree(v, lv, r, lo, hi), lv[r] = 1,
           NEW p \in DOMAIN lo, p # r
    PROVE  v[p].type = "leaf" /\ v[p].parent = r /\ p \in Kids(v[r])
<1>1. \A x \in DOMAIN lo : /\ lv[x] \in Nat /\ v[x].type = IF lv[x] = 0 THEN "leaf" ELSE "internal"
                           /\ x # r => lv[x] < 1
    BY DEF IsTree, Stands
<1>2. \A x \in DOMAIN lo : v[x].type = "internal" => x = r BY <1>1
<1>3. v[p].parent \in DOMAIN lo /\ v[v[p].parent].type = "internal" /\ p \in Kids(v[v[p].parent])
    BY DEF IsTree, Stands
<1>4. v[p].type = "leaf" BY <1>1
<1>. QED BY <1>2, <1>3, <1>4

\* d follows next from each page of I as long as it is in S.
Follows(d, I, S, next) == d = [p \in I |-> IF p \in S THEN d[next[p]] ELSE p]

\* A recursion along `next' that comes down in `rank' ends, and in one way.
LEMMA DownDefined ==
    ASSUME NEW I, NEW S \in SUBSET I, NEW next \in [S -> I], NEW rank \in [I -> Nat],
           \A p \in S : rank[next[p]] < rank[p]
    PROVE  \E d : /\ Follows(d, I, S, next) /\ d \in [I -> I \ S]
                  /\ \A e : Follows(e, I, S, next) => e = d
<1>. DEFINE Upto(n) == {p \in I : rank[p] <= n}
            Ok(n, d) == /\ d \in [Upto(n) -> I \ S]
                        /\ \A p \in Upto(n) : d[p] = IF p \in S THEN d[next[p]] ELSE p
            Bad == {n \in Nat : ~\E d : Ok(n, d)}
<1>1. \A n \in Nat : \E d : Ok(n, d)
    <2>1. SUFFICES ASSUME Bad # {} PROVE FALSE OBVIOUS
    <2>2. PICK n \in Bad : \A m \in Bad : n <= m
        <3>. HIDE DEF Ok
        <3>. QED BY <2>1, LeastNatural
    <2>3. CASE n = 0
        <3>1. \A p \in Upto(0) : p \notin S BY <2>3
        <3>2. Ok(0, [p \in Upto(0) |-> p]) BY <3>1
        <3>. QED BY <2>2, <2>3, <3>2
    <2>4. CASE n # 0
        <3>1. n - 1 \in Nat /\ ~(n - 1 \in Bad)
            <4>. HIDE DEF Ok
            <4>. QED BY <2>2, <2>4
        <3>2. PICK c : Ok(n - 1, c) BY <3>1
        <3>. DEFINE d == [p \in Upto(n) |-> IF p \in S THEN c[next[p]] ELSE p]
        <3>3. \A p \in Upto(n) : p \in S => next[p] \in Upto(n - 1)
            BY <2>2
        <3>4. \A p \in Upto(n - 1) : p \in Upto(n) /\ d[p] = c[p]
            BY <2>2, <3>1, <3>2, <3>3
        <3>5. d \in [Upto(n) -> I \ S] BY <3>2, <3>3
        <3>6. \A p \in Upto(n) : d[p] = IF p \in S THEN d[next[p]] ELSE p
            BY <3>3, <3>4
        <3>7. Ok(n, d) BY <3>5, <3>6
        <3>. HIDE DEF Ok
        <3>. QED BY <2>2, <3>7
    <2>. QED BY <2>3, <2>4
<1>2. \A n, m \in Nat : \A c, d : Ok(n, c) /\ Ok(m, d) =>
         \A p \in Upto(n) \cap Upto(m) : c[p] = d[p]
    <2>1. SUFFICES ASSUME NEW n \in Nat, NEW m \in Nat, NEW c, NEW d, Ok(n, c), Ok(m, d),
                          NEW q \in Upto(n) \cap Upto(m), c[q] # d[q]
                   PROVE FALSE
        <3>. HIDE DEF Ok, Upto
        <3>. QED OBVIOUS
    <2>. DEFINE Differ == {i \in Nat : \E p \in Upto(n) \cap Upto(m) : rank[p] = i /\ c[p] # d[p]}
    <2>2. rank[q] \in Differ BY <2>1
    <2>3. PICK i \in Differ : \A j \in Differ : i <= j BY <2>2, LeastNatural
    <2>4. PICK p \in Upto(n) \cap Upto(m) : rank[p] = i /\ c[p] # d[p] BY <2>3
    <2>5. p \in S BY <2>1, <2>4
    <2>6. next[p] \in I /\ rank[next[p]] < rank[p] BY <2>5
    <2>7. next[p] \in Upto(n) \cap Upto(m) BY <2>4, <2>6
    <2>8. c[next[p]] = d[next[p]] BY <2>3, <2>4, <2>6, <2>7
    <2>. QED BY <2>1, <2>4, <2>5, <2>8
<1>. DEFINE first(p) == CHOOSE c : Ok(rank[p], c)
            d0 == [p \in I |-> first(p)[p]]
<1>3. \A p \in I : Ok(rank[p], first(p))
    <2>. HIDE DEF Ok
    <2>. QED BY <1>1
<1>4. \A n \in Nat : \A c : Ok(n, c) => \A p \in Upto(n) : c[p] = d0[p]
    <2>1. SUFFICES ASSUME NEW n \in Nat, NEW c, Ok(n, c), NEW p \in Upto(n) PROVE c[p] = d0[p]
        OBVIOUS
    <2>2. p \in Upto(rank[p]) /\ rank[p] \in Nat OBVIOUS
    <2>3. Ok(rank[p], first(p)) BY <1>3
    <2>. HIDE DEF Ok, first
    <2>4. c[p] = first(p)[p] BY <1>2, <2>1, <2>2, <2>3
    <2>. QED BY <2>2, <2>4
<1>5. \A p \in I : d0[p] \in I \ S /\ d0[p] = IF p \in S THEN d0[next[p]] ELSE p
    <2>1. TAKE p \in I
    <2>2. PICK c : Ok(rank[p], c) BY <1>1
    <2>3. p \in Upto(rank[p]) /\ rank[p] \in Nat OBVIOUS
    <2>4. p \in S => next[p] \in Upto(rank[p]) OBVIOUS
    <2>5. c[p] \in I \ S /\ c[p] = IF p \in S THEN c[next[p]] ELSE p BY <2>2, <2>3
    <2>6. \A x \in Upto(rank[p]) : c[x] = d0[x]
        <3>. HIDE DEF Ok, d0
        <3>. QED BY <1>4, <2>2, <2>3
    <2>. HIDE DEF Ok, d0
    <2>. QED BY <2>3, <2>4, <2>5, <2>6
<1>6. Follows(d0, I, S, next) /\ d0 \in [I -> I \ S]
    <2>1. d0 = [p \in I |-> d0[p]] OBVIOUS
    <2>. HIDE DEF d0
    <2>2. d0 = [p \in I |-> IF p \in S THEN d0[next[p]] ELSE p] /\ d0 \in [I -> I \ S] BY <1>5,
        <2>1
    <2>. QED BY <2>2 DEF Follows
<1>7. ASSUME NEW e, Follows(e, I, S, next) PROVE e = d0
    <2>0. e = [p \in I |-> IF p \in S THEN e[next[p]] ELSE p] BY <1>7 DEF Follows
    <2>. DEFINE Differ == {i \in Nat : \E p \in I : rank[p] = i /\ e[p] # d0[p]}
    <2>. HIDE DEF d0
    <2>1. ASSUME Differ # {} PROVE FALSE
        <3>3. PICK i \in Differ : \A j \in Differ : i <= j BY <2>1, LeastNatural
        <3>4. PICK p \in I : rank[p] = i /\ e[p] # d0[p] BY <3>3
        <3>5. e[p] = (IF p \in S THEN e[next[p]] ELSE p) BY <2>0
        <3>6. d0[p] = (IF p \in S THEN d0[next[p]] ELSE p) BY <1>5
        <3>7. p \in S BY <3>4, <3>5, <3>6
        <3>8. next[p] \in I /\ rank[next[p]] < rank[p] BY <3>7
        <3>9. e[next[p]] = d0[next[p]] BY <3>3, <3>4, <3>8
        <3>. QED BY <3>4, <3>5, <3>6, <3>7, <3>9
    <2>2. \A p \in I : e[p] = d0[p] BY <2>1
    <2>3. e = [p \in I |-> e[p]] BY <2>0
    <2>4. d0 = [p \in I |-> d0[p]] BY <1>6 DEF Follows
    <2>. QED BY <2>2, <2>3, <2>4
<1>. HIDE DEF d0
<1>. QED BY <1>6, <1>7
------------------------------------------------------------------------------
(***************************************************************************)
(* What a search finds                                                     *)
(***************************************************************************)
\* The pages of the store as a tree with the key ranges lo and hi.
Sound(lo, hi) ==
    /\ WellShaped(pages, level) /\ Linked = Id
    /\ IsTree(pages, level, root, lo, hi)

\* LeafFor ends, at the leaf of the tree in whose range the key is.
LEMMA SearchEnds ==
    ASSUME NEW lo, NEW hi, Sound(lo, hi), NEW k \in Nat, k < KeyEnd
    PROVE  /\ LeafFor(k) \in DOMAIN lo /\ pages[LeafFor(k)].type = "leaf"
           /\ Inside(lo, hi, LeafFor(k), k)
<1>. DEFINE S == {p \in Id : pages[p].type = "internal"}
            nxt == [p \in S |-> ChildFor(pages[p], k)]
            rank == [p \in Id |-> level[p]]
<1>1. WellShaped(pages, level) /\ Linked = Id /\ IsTree(pages, level, root, lo, hi) BY DEF Sound
<1>2. \A p \in Id : level[p] \in Nat BY <1>1, LinkedLive
<1>3. \A p \in S : ChildFor(pages[p], k) \in Id /\ level[ChildFor(pages[p], k)] = level[p] - 1
    BY <1>1, ChildLive DEF LiveAt, Id
<1>4. S \in SUBSET Id /\ nxt \in [S -> Id] /\ rank \in [Id -> Nat]
    BY <1>2, <1>3
<1>5. \A p \in S : rank[nxt[p]] < rank[p] BY <1>2, <1>3
<1>6. PICK d : /\ Follows(d, Id, S, nxt) /\ d \in [Id -> Id \ S]
               /\ \A e : Follows(e, Id, S, nxt) => e = d
    <2>. HIDE DEF S, nxt, rank
    <2>. QED BY <1>4, <1>5, DownDefined
<1>7. \A e : [p \in Id |-> IF p \in S THEN e[nxt[p]] ELSE p]
               = [p \in Id |-> IF pages[p].type = "internal" THEN e[ChildFor(pages[p], k)] ELSE p]
    <2>1. TAKE e
    <2>2. \A p \in Id : (p \in S) = (pages[p].type = "internal") OBVIOUS
    <2>3. \A p \in S : nxt[p] = ChildFor(pages[p], k) OBVIOUS
    <2>. HIDE DEF S, nxt
    <2>4. \A p \in Id : (IF p \in S THEN e[nxt[p]] ELSE p)
                         = (IF pages[p].type = "internal" THEN e[ChildFor(pages[p], k)] ELSE p)
        BY <2>2, <2>3
    <2>. QED BY <2>4
<1>8. /\ d = [p \in Id |-> IF pages[p].type = "internal" THEN d[ChildFor(pages[p], k)] ELSE p]
      /\ \A e : e = [p \in Id |-> IF pages[p].type = "internal" THEN e[ChildFor(pages[p], k)] ELSE p]
                  => e = d
    <2>. HIDE DEF S, nxt
    <2>. QED BY <1>6, <1>7 DEF Follows
<1>9. LeafFor(k) = d[root]
    <2>. HIDE DEF S, nxt
    <2>. QED BY <1>8 DEF LeafFor
<1>10. DOMAIN lo \subseteq Id BY <1>1 DEF IsTree, Stands, WellShaped, Id
<1>. DEFINE Bad == {n \in Nat : \E p \in DOMAIN lo :
                       /\ level[p] = n /\ Inside(lo, hi, p, k)
                       /\ ~(d[p] \in DOMAIN lo /\ pages[d[p]].type = "leaf" /\ Inside(lo, hi, d[p], k))}
<1>11. ASSUME Bad # {} PROVE FALSE
    <2>1. PICK n \in Bad : \A m \in Bad : n <= m BY <1>11, LeastNatural
    <2>2. PICK p \in DOMAIN lo :
             /\ level[p] = n /\ Inside(lo, hi, p, k)
             /\ ~(d[p] \in DOMAIN lo /\ pages[d[p]].type = "leaf" /\ Inside(lo, hi, d[p], k))
        BY <2>1
    <2>3. d[p] = IF pages[p].type = "internal" THEN d[ChildFor(pages[p], k)] ELSE p
        BY <1>8, <1>10
    <2>4. pages[p].type = "internal" BY <1>1, <2>2, <2>3, LeafLevel
    <2>5. PICK c : c = ChildFor(pages[p], k) OBVIOUS
    <2>6. c \in DOMAIN lo /\ Inside(lo, hi, c, k) /\ level[c] + 1 = level[p]
        BY <1>1, <2>2, <2>4, <2>5, Route
    <2>7. d[p] = d[c] BY <2>3, <2>4, <2>5
    <2>8. level[c] \in Nat /\ level[c] < n BY <1>2, <1>10, <2>2, <2>6
    <2>. QED BY <2>1, <2>2, <2>6, <2>7, <2>8
<1>12. root \in DOMAIN lo /\ Inside(lo, hi, root, k) BY <1>1 DEF IsTree, Stands, Inside
<1>13. level[root] \in Nat BY <1>2, <1>10, <1>12
<1>. QED BY <1>9, <1>11, <1>12, <1>13

\* Some leaf of the tree has the entry.
Ent(v, lo, k, d) ==
    \E p \in DOMAIN lo : v[p].type = "leaf" /\ k \in DOMAIN v[p].slots /\ v[p].slots[k] = d

\* The leaves of the tree hold the map m.
Holds(v, lo, m) ==
    /\ m \in [Keys -> Vals \cup {Null}]
    /\ \A k \in Keys, d \in Vals : Ent(v, lo, k, d) <=> m[k] = d

\* What IsTree says, taken apart.
LEMMA InTree ==
    ASSUME NEW v, NEW lv, NEW r, NEW lo, NEW hi, IsTree(v, lv, r, lo, hi)
    PROVE  /\ r \in DOMAIN lo /\ v[r].parent = 0 /\ 0 \notin DOMAIN lo
           /\ lo[r] = 0 /\ hi[r] = KeyEnd /\ DOMAIN lo \subseteq DOMAIN v
           /\ \A p \in DOMAIN lo : /\ lv[p] \in Nat /\ lv[p] <= lv[r] /\ p # 0
                                  /\ DOMAIN v[p].slots \subseteq Keys
           /\ \A p \in DOMAIN lo : v[p].type = "leaf" => LeafOK(v, lo, hi, p)
           /\ \A p \in DOMAIN lo : v[p].type = "internal" => NodeOK(v, lv, lo, hi, p)
           /\ \A p \in DOMAIN lo \ {r} :
                 /\ lv[p] < lv[r] /\ v[p].parent \in DOMAIN lo
                 /\ v[v[p].parent].type = "internal" /\ p \in Kids(v[v[p].parent])
<1>1. \A p \in DOMAIN lo :
         /\ lv[p] \in Nat /\ lv[p] <= lv[r] /\ DOMAIN v[p].slots \subseteq Keys
         /\ v[p].type = "leaf" => LeafOK(v, lo, hi, p)
         /\ v[p].type # "leaf" => NodeOK(v, lv, lo, hi, p)
         /\ p # r => /\ lv[p] < lv[r] /\ v[p].parent \in DOMAIN lo
                     /\ v[v[p].parent].type = "internal" /\ p \in Kids(v[v[p].parent])
    BY DEF IsTree, Stands
<1>. QED BY <1>1 DEF IsTree, Stands

\* The keys of a leaf belong to it.
LEMMA LeafHas ==
    ASSUME NEW v, NEW lv, NEW r, NEW lo, NEW hi, IsTree(v, lv, r, lo, hi),
           NEW p \in DOMAIN lo, v[p].type = "leaf", NEW k \in DOMAIN v[p].slots
    PROVE  k \in Keys /\ k \in Nat /\ Inside(lo, hi, p, k) /\ v[p].slots[k] \in Vals
BY KeysNat DEF IsTree, Stands, LeafOK, Inside

\* A key is in one leaf at most.
LEMMA OneLeaf ==
    ASSUME NEW v, NEW lv, NEW r, NEW lo, NEW hi, IsTree(v, lv, r, lo, hi),
           NEW p \in DOMAIN lo, NEW q \in DOMAIN lo, v[p].type = "leaf", v[q].type = "leaf",
           NEW k \in DOMAIN v[p].slots, Inside(lo, hi, q, k)
    PROVE  p = q
<1>1. k \in Nat /\ Inside(lo, hi, p, k) BY LeafHas
<1>2. lv[p] = 0 /\ lv[q] = 0 BY LeafLevel
<1>. QED BY <1>1, <1>2, Apart

\* Every key is below KeyEnd.
LEMMA KeyBelowEnd == \A k \in Keys : k \in Nat /\ k < KeyEnd
BY KeysNat DEF KeyEnd

\* What a search of every key finds is what the leaves hold.
LEMMA ContentsAre ==
    ASSUME NEW lo, NEW hi, Sound(lo, hi), NEW m, Holds(pages, lo, m)
    PROVE  Contents = m
<1>1. IsTree(pages, level, root, lo, hi) BY DEF Sound
<1>2. ASSUME NEW k \in Keys
      PROVE  m[k] = IF k \in DOMAIN pages[LeafFor(k)].slots THEN pages[LeafFor(k)].slots[k] ELSE Null
    <2>1. PICK p : p = LeafFor(k) OBVIOUS
    <2>2. p \in DOMAIN lo /\ pages[p].type = "leaf" /\ Inside(lo, hi, p, k)
        BY <2>1, KeyBelowEnd, SearchEnds
    <2>3. CASE k \in DOMAIN pages[p].slots
        <3>1. pages[p].slots[k] \in Vals BY <1>1, <2>2, <2>3, LeafHas
        <3>2. Ent(pages, lo, k, pages[p].slots[k]) BY <2>2, <2>3 DEF Ent
        <3>. QED BY <2>1, <2>3, <3>1, <3>2 DEF Holds
    <2>4. CASE k \notin DOMAIN pages[p].slots
        <3>1. ASSUME m[k] \in Vals PROVE FALSE
            <4>1. PICK q \in DOMAIN lo : pages[q].type = "leaf" /\ k \in DOMAIN pages[q].slots
                BY <3>1 DEF Holds, Ent
            <4>2. q = p BY <1>1, <2>2, <4>1, OneLeaf
            <4>. QED BY <2>4, <4>1, <4>2
        <3>2. m[k] = Null BY <3>1 DEF Holds
        <3>. QED BY <2>1, <2>4, <3>2
    <2>. QED BY <2>3, <2>4
<1>3. m = [k \in Keys |-> m[k]] BY DEF Holds
<1>4. Contents = [k \in Keys |-> m[k]] BY <1>2 DEF Contents
<1>. QED BY <1>3, <1>4

\* f starts at a and goes on with g.
Iterates(f, N, a, g) == f = [n \in 0..N |-> IF n = 0 THEN a ELSE g[f[n - 1]]]

\* An iteration of any length is defined.
LEMMA IterationDefined ==
    ASSUME NEW N \in Nat, NEW S, NEW a \in S, NEW g \in [S -> S]
    PROVE  \E f : Iterates(f, N, a, g) /\ f \in [0..N -> S]
<1>. DEFINE Ok(n, f) == /\ f \in [0..n -> S] /\ f[0] = a
                        /\ \A i \in 1..n : f[i] = g[f[i - 1]]
            Bad == {n \in Nat : ~\E f : Ok(n, f)}
<1>1. \A n \in Nat : \E f : Ok(n, f)
    <2>1. SUFFICES ASSUME Bad # {} PROVE FALSE OBVIOUS
    <2>2. PICK n \in Bad : \A m \in Bad : n <= m
        <3>. HIDE DEF Ok
        <3>. QED BY <2>1, LeastNatural
    <2>3. CASE n = 0
        <3>1. Ok(0, [i \in 0..0 |-> a]) OBVIOUS
        <3>. QED BY <2>2, <2>3, <3>1
    <2>4. CASE n # 0
        <3>1. n - 1 \in Nat /\ ~(n - 1 \in Bad)
            <4>. HIDE DEF Ok
            <4>. QED BY <2>2, <2>4
        <3>2. PICK c : Ok(n - 1, c) BY <3>1
        <3>. DEFINE d == [i \in 0..n |-> IF i = n THEN g[c[n - 1]] ELSE c[i]]
        <3>3. \A i \in 0..(n - 1) : i \in 0..n /\ d[i] = c[i] BY <2>2
        <3>4. c[n - 1] \in S /\ d[n] = g[c[n - 1]] BY <2>2, <3>1, <3>2
        <3>5. d \in [0..n -> S] BY <2>2, <3>2, <3>4
        <3>6. d[0] = a BY <3>1, <3>2, <3>3
        <3>7. \A i \in 1..n : d[i] = g[d[i - 1]]
            <4>1. TAKE i \in 1..n
            <4>2. d[i - 1] = c[i - 1] BY <2>2, <3>3
            <4>3. CASE i = n BY <3>4, <4>2, <4>3
            <4>4. CASE i # n
                <5>1. i \in 1..(n - 1) /\ i \in 0..(n - 1) BY <2>2, <4>4
                <5>2. d[i] = c[i] BY <3>3, <5>1
                <5>. QED BY <3>2, <4>2, <5>1, <5>2
            <4>. QED BY <4>3, <4>4
        <3>8. Ok(n, d)
            <4>. HIDE DEF d
            <4>. QED BY <3>5, <3>6, <3>7
        <3>. HIDE DEF Ok
        <3>. QED BY <2>2, <3>8
    <2>. QED BY <2>3, <2>4
<1>2. PICK f : Ok(N, f) BY <1>1
<1>3. Iterates(f, N, a, g)
    <2>1. f = [n \in 0..N |-> f[n]] BY <1>2
    <2>2. \A n \in 0..N : f[n] = IF n = 0 THEN a ELSE g[f[n - 1]]
        <3>1. TAKE n \in 0..N
        <3>2. n = 0 \/ n \in 1..N OBVIOUS
        <3>. QED BY <1>2, <3>2
    <2>3. f = [n \in 0..N |-> IF n = 0 THEN a ELSE g[f[n - 1]]]
        <3>. HIDE DEF Ok
        <3>. QED BY <2>1, <2>2
    <2>. QED BY <2>3 DEF Iterates
<1>. QED BY <1>2, <1>3

\* A search can reach the pages of the tree and no others.
LEMMA ReachableIs ==
    ASSUME NEW lo, NEW hi, Sound(lo, hi), level[root] < Len(pages)
    PROVE  Reachable = DOMAIN lo
<1>. DEFINE N == Len(pages)
            g == [A \in SUBSET Id |-> UNION {Children(p) : p \in A}]
<1>1. /\ WellShaped(pages, level) /\ Linked = Id /\ IsTree(pages, level, root, lo, hi)
      /\ N \in Nat /\ DOMAIN lo \subseteq Id
    BY DEF Sound, WellShaped, IsTree, Id
<1>2. \A p \in Id : Children(p) \subseteq Id
    <2>1. TAKE p \in Id
    <2>2. FitsAt(pages[p], level[p], pages, level) BY <1>1 DEF WellShaped, Id
    <2>. QED BY <2>2 DEF Children, FitsAt, SlotMap, LiveAt, Id
<1>3. g \in [SUBSET Id -> SUBSET Id] /\ {root} \in SUBSET Id
    <2>1. root \in Id BY <1>1 DEF IsTree, Stands
    <2>. QED BY <1>2, <2>1
<1>4. PICK f : Iterates(f, N, {root}, g) /\ f \in [0..N -> SUBSET Id]
    <2>. HIDE DEF g, N
    <2>. QED BY <1>1, <1>3, IterationDefined
<1>. DEFINE Below(e) == e = [n \in 0..N |-> IF n = 0 THEN {root} ELSE UNION {Children(p) : p \in e[n - 1]}]
<1>5. Below(f)
    <2>1. f = [n \in 0..N |-> IF n = 0 THEN {root} ELSE g[f[n - 1]]] BY <1>4 DEF Iterates
    <2>2. \A n \in 0..N : n # 0 => f[n - 1] \in SUBSET Id BY <1>1, <1>4
    <2>3. \A n \in 0..N : (IF n = 0 THEN {root} ELSE g[f[n - 1]])
                          = (IF n = 0 THEN {root} ELSE UNION {Children(p) : p \in f[n - 1]})
        BY <2>2
    <2>4. \A n \in 0..N : f[n] = (IF n = 0 THEN {root} ELSE UNION {Children(p) : p \in f[n - 1]})
        <3>. HIDE DEF g, N
        <3>. QED BY <2>1, <2>3
    <2>5. f = [n \in 0..N |-> f[n]] BY <1>4
    <2>. HIDE DEF g, N
    <2>. QED BY <2>4, <2>5
<1>6. ASSUME NEW e, Below(e)
      PROVE  /\ e = [n \in 0..N |-> e[n]] /\ e[0] = {root}
             /\ \A n \in 0..N : n # 0 => e[n] = UNION {Children(p) : p \in e[n - 1]}
    <2>. HIDE DEF N
    <2>1. 0 \in 0..N BY <1>1
    <2>. QED BY <1>6, <2>1
<1>7. ASSUME NEW e, Below(e) PROVE e = f
    <2>. HIDE DEF N, Below
    <2>1. /\ e = [n \in 0..N |-> e[n]] /\ e[0] = {root}
          /\ \A n \in 0..N : n # 0 => e[n] = UNION {Children(p) : p \in e[n - 1]}
        BY <1>6, <1>7
    <2>2. /\ f = [n \in 0..N |-> f[n]] /\ f[0] = {root}
          /\ \A n \in 0..N : n # 0 => f[n] = UNION {Children(p) : p \in f[n - 1]}
        BY <1>5, <1>6
    <2>. DEFINE Differ == {i \in Nat : i \in 0..N /\ e[i] # f[i]}
    <2>3. ASSUME Differ # {} PROVE FALSE
        <3>1. PICK i \in Differ : \A j \in Differ : i <= j BY <2>3, LeastNatural
        <3>2. i # 0 BY <2>1, <2>2, <3>1
        <3>3. i - 1 \in Nat /\ i - 1 \in 0..N BY <1>1, <3>1, <3>2
        <3>4. e[i - 1] = f[i - 1] BY <3>1, <3>3
        <3>. QED BY <2>1, <2>2, <3>1, <3>2, <3>4
    <2>4. \A i \in 0..N : e[i] = f[i] BY <1>1, <2>3
    <2>. QED BY <2>1, <2>2, <2>4
<1>8. Reachable = UNION {f[n] : n \in 0..N}
    <2>1. \A e : e = [n \in 0..N |-> IF n = 0 THEN {root} ELSE UNION {Children(p) : p \in e[n - 1]}]
                 => e = f
        BY <1>7
    <2>2. f = [n \in 0..N |-> IF n = 0 THEN {root} ELSE UNION {Children(p) : p \in f[n - 1]}]
        BY <1>5
    <2>3. PICK c : c = CHOOSE e : e = [n \in 0..N |-> IF n = 0 THEN {root} ELSE UNION {Children(p) : p \in e[n - 1]}]
        OBVIOUS
    <2>4. c = [n \in 0..N |-> IF n = 0 THEN {root} ELSE UNION {Children(p) : p \in c[n - 1]}]
        BY <2>2, <2>3, Zenon
    <2>5. c = f BY <2>1, <2>4, Zenon
    <2>6. Reachable = UNION {c[n] : n \in 0..N} BY <2>3, Zenon DEF Reachable
    <2>. QED BY <2>5, <2>6
<1>9. /\ f[0] = {root}
      /\ \A n \in 0..N : n # 0 => f[n] = UNION {Children(p) : p \in f[n - 1]}
    <2>. HIDE DEF N, Below
    <2>. QED BY <1>5, <1>6
<1>10. \A p \in DOMAIN lo : Children(p) \subseteq DOMAIN lo
    BY <1>1 DEF IsTree, Stands, NodeOK, Children
<1>. HIDE DEF N, Below
<1>11. ASSUME NEW n \in 0..N PROVE f[n] \subseteq DOMAIN lo
    <2>. DEFINE Bad == {i \in Nat : i \in 0..N /\ ~(f[i] \subseteq DOMAIN lo)}
    <2>1. ASSUME Bad # {} PROVE FALSE
        <3>1. PICK i \in Bad : \A j \in Bad : i <= j BY <2>1, LeastNatural
        <3>2. i # 0
            <4>1. root \in DOMAIN lo BY <1>1, InTree
            <4>. QED BY <1>9, <3>1, <4>1
        <3>3. i - 1 \in Nat /\ i - 1 \in 0..N BY <1>1, <3>1, <3>2
        <3>4. f[i - 1] \subseteq DOMAIN lo BY <3>1, <3>3
        <3>5. f[i] = UNION {Children(p) : p \in f[i - 1]} BY <1>9, <3>1, <3>2
        <3>. QED BY <1>10, <3>1, <3>4, <3>5
    <2>. QED BY <1>1, <2>1
<1>12. ASSUME NEW p \in DOMAIN lo PROVE level[p] \in Nat /\ level[p] <= level[root] /\ p # 0
    BY <1>1, InTree
<1>13. root \in DOMAIN lo BY <1>1, InTree
<1>14. ASSUME NEW p \in DOMAIN lo PROVE p \in f[level[root] - level[p]]
    <2>. DEFINE Bad == {i \in Nat : \E x \in DOMAIN lo : level[x] + i = level[root] /\ x \notin f[i]}
    <2>1. ASSUME Bad # {} PROVE FALSE
        <3>1. PICK i \in Bad : \A j \in Bad : i <= j BY <2>1, LeastNatural
        <3>2. PICK x \in DOMAIN lo : level[x] + i = level[root] /\ x \notin f[i] BY <3>1
        <3>3. x # root
            <4>1. x = root => i = 0 BY <1>12, <3>1, <3>2
            <4>. QED BY <1>9, <3>2, <4>1
        <3>4. PICK y : y = pages[x].parent OBVIOUS
        <3>5. /\ y \in DOMAIN lo /\ pages[y].type = "internal" /\ x \in Kids(pages[y])
              /\ level[x] < level[root]
            BY <1>1, <3>3, <3>4 DEF IsTree, Stands
        <3>6. level[x] + 1 = level[y]
            <4>1. NodeOK(pages, level, lo, hi, y) BY <1>1, <3>5 DEF IsTree, Stands
            <4>. QED BY <3>5, <4>1 DEF NodeOK
        <3>7. i # 0 /\ i - 1 \in Nat /\ i \in 0..N /\ i - 1 \in 0..N
            <4>1. level[root] \in Nat /\ level[root] < N BY <1>12, <1>13 DEF N
            <4>. QED BY <1>1, <1>12, <4>1, <3>1, <3>2, <3>5
        <3>8. y \in f[i - 1]
            <4>1. level[x] \in Nat /\ level[y] \in Nat /\ level[root] \in Nat
                BY <1>12, <1>13, <3>5
            <4>2. i \in Nat /\ level[x] + i = level[root] BY <3>1, <3>2
            <4>3. level[y] + (i - 1) = level[root] BY <3>6, <4>1, <4>2
            <4>4. ~(i <= i - 1) BY <4>2
            <4>5. i - 1 \notin Bad
                <5>. HIDE DEF Bad
                <5>. QED BY <3>1, <4>4
            <4>. QED BY <3>5, <3>7, <4>3, <4>5
        <3>9. x \in Children(y) BY <1>12, <3>5 DEF Children, Kids
        <3>10. f[i] = UNION {Children(z) : z \in f[i - 1]} BY <1>9, <3>7
        <3>. QED BY <3>2, <3>8, <3>9, <3>10
    <2>. QED BY <1>12, <1>13, <2>1
<1>15. \A p \in DOMAIN lo : level[root] - level[p] \in 0..N
    <2>1. level[root] \in Nat /\ level[root] < N BY <1>12, <1>13 DEF N
    <2>. QED BY <1>1, <1>12, <2>1
<1>. QED BY <1>8, <1>11, <1>14, <1>15
------------------------------------------------------------------------------
(***************************************************************************)
(* Changes that keep a tree a tree                                         *)
(***************************************************************************)
\* The pages a page names below or beside it.
Refs(pg) == IF pg.type = "leaf" THEN {pg.link} \ {0} ELSE Kids(pg)

\* Page x of tree v is the same in w, but for its parent field.
SameBut(v, w, x) ==
    w[x].type = v[x].type /\ w[x].link = v[x].link /\ w[x].slots = v[x].slots

\* Page x has a parent in the tree w.
HasParent(w, lv, r, lo, x) ==
    x # r => /\ lv[x] < lv[r] /\ w[x].parent \in DOMAIN lo
             /\ w[w[x].parent].type = "internal" /\ x \in Kids(w[w[x].parent])

\* A page that is changed in its parent field only, and whose neighbours keep their
\* places, stands as before.
LEMMA StandsKept ==
    ASSUME NEW v, NEW lv, NEW r, NEW lo, NEW hi, IsTree(v, lv, r, lo, hi),
           NEW w, NEW lv2, NEW r2, NEW lo2, NEW hi2,
           NEW x \in DOMAIN lo, SameBut(v, w, x),
           lo2[x] = lo[x], hi2[x] = hi[x], lv2[x] = lv[x], lv2[x] <= lv2[r2],
           \A y \in Refs(v[x]) : /\ y \in DOMAIN lo2 /\ lo2[y] = lo[y] /\ lv2[y] = lv[y]
                                 /\ w[y].type = v[y].type,
           v[x].type = "internal" =>
              \A c \in Kids(v[x]) : w[c].parent = x /\ hi2[c] = hi[c],
           HasParent(w, lv2, r2, lo2, x)
    PROVE  Stands(w, lv2, r2, lo2, hi2, x)
<1>1. Stands(v, lv, r, lo, hi, x) BY DEF IsTree
<1>2. CASE v[x].type = "leaf"
    <2>1. LeafOK(v, lo, hi, x) BY <1>1, <1>2 DEF Stands
    <2>2. LeafOK(w, lo2, hi2, x)
        <3>1. /\ \A k \in DOMAIN v[x].slots : lo[x] <= k /\ k < hi[x] /\ v[x].slots[k] \in Vals
              /\ v[x].link = 0 => hi[x] = KeyEnd
              /\ v[x].link # 0 => v[v[x].link].type = "leaf" /\ lo[v[x].link] = hi[x]
            BY <2>1 DEF LeafOK
        <3>2. v[x].link # 0 => v[x].link \in Refs(v[x]) BY <1>2 DEF Refs
        <3>. QED BY <3>1, <3>2 DEF LeafOK, SameBut
    <2>. QED BY <1>1, <1>2, <2>2 DEF Stands, SameBut, HasParent
<1>3. CASE v[x].type # "leaf"
    <2>0. v[x].type = "internal" BY <1>1, <1>3 DEF Stands
    <2>1. NodeOK(v, lv, lo, hi, x) BY <1>1, <1>3 DEF Stands
    <2>2. Refs(v[x]) = Kids(v[x]) /\ Kids(w[x]) = Kids(v[x]) BY <1>3 DEF Refs, Kids, SameBut
    <2>3. v[x].link \in Kids(v[x]) /\ \A s \in DOMAIN v[x].slots : v[x].slots[s] \in Kids(v[x])
        BY DEF Kids
    <2>4. NodeOK(w, lv2, lo2, hi2, x)
        <3>1. /\ w[x].link \in DOMAIN lo2 /\ lo2[w[x].link] = lo2[x]
              /\ \A s \in DOMAIN w[x].slots :
                    /\ lo2[x] < s /\ s < hi2[x]
                    /\ w[x].slots[s] \in DOMAIN lo2 /\ lo2[w[x].slots[s]] = s
            BY <2>1, <2>2, <2>3 DEF NodeOK, SameBut
        <3>2. ASSUME NEW c \in Kids(w[x])
              PROVE  /\ w[c].parent = x /\ lv2[c] + 1 = lv2[x]
                     /\ hi2[c] \in DOMAIN w[x].slots \cup {hi2[x]} /\ hi2[c] <= hi2[x]
                     /\ \A s \in DOMAIN w[x].slots : s <= lo2[c] \/ hi2[c] <= s
            <4>1. c \in Kids(v[x]) /\ c \in Refs(v[x]) BY <2>2
            <4>2. /\ lv[c] + 1 = lv[x]
                  /\ hi[c] \in DOMAIN v[x].slots \cup {hi[x]} /\ hi[c] <= hi[x]
                  /\ \A s \in DOMAIN v[x].slots : s <= lo[c] \/ hi[c] <= s
                BY <2>1, <4>1 DEF NodeOK
            <4>. QED BY <2>0, <4>1, <4>2 DEF SameBut
        <3>. QED BY <3>1, <3>2 DEF NodeOK
    <2>. QED BY <1>1, <1>3, <2>4 DEF Stands, SameBut, HasParent
<1>. QED BY <1>2, <1>3

\* The pages a page of the tree names are pages of the tree, one level down or beside.
LEMMA RefsIn ==
    ASSUME NEW v, NEW lv, NEW r, NEW lo, NEW hi, IsTree(v, lv, r, lo, hi), NEW x \in DOMAIN lo
    PROVE  /\ Refs(v[x]) \subseteq DOMAIN lo
           /\ v[x].type = "internal" =>
                \A c \in Kids(v[x]) : c \in DOMAIN lo /\ v[c].parent = x /\ lv[c] + 1 = lv[x] /\ c # r
           /\ v[x].type = "leaf" /\ v[x].link # 0 =>
                /\ v[x].link \in DOMAIN lo /\ v[v[x].link].type = "leaf" /\ lo[v[x].link] = hi[x]
<1>1. v[x].type = "leaf" => LeafOK(v, lo, hi, x) BY InTree
<1>2. v[x].type = "internal" => NodeOK(v, lv, lo, hi, x) BY InTree
<1>3. v[x].type \in {"leaf", "internal"} BY LeafLevel
<1>4. v[x].type = "internal" =>
         \A c \in Kids(v[x]) : c \in DOMAIN lo /\ v[c].parent = x /\ lv[c] + 1 = lv[x]
    BY <1>2 DEF NodeOK, Kids
<1>5. v[r].parent = 0 /\ x # 0 BY InTree
<1>. QED BY <1>1, <1>3, <1>4, <1>5 DEF LeafOK, Refs

\* The parent field of a page names the page above it.
LEMMA ParentIn ==
    ASSUME NEW v, NEW lv, NEW r, NEW lo, NEW hi, IsTree(v, lv, r, lo, hi),
           NEW x \in DOMAIN lo, x # r
    PROVE  /\ v[x].parent \in DOMAIN lo /\ v[v[x].parent].type = "internal"
           /\ x \in Kids(v[v[x].parent]) /\ lv[v[x].parent] = lv[x] + 1
           /\ lo[v[x].parent] <= lo[x] /\ hi[x] <= hi[v[x].parent]
<1>1. PICK q : q = v[x].parent OBVIOUS
<1>2. q \in DOMAIN lo /\ v[q].type = "internal" /\ x \in Kids(v[q]) BY <1>1, InTree
<1>3. lv[x] + 1 = lv[q] BY <1>2, RefsIn
<1>4. lv[x] \in Nat /\ Inside(lo, hi, x, lo[x]) /\ lo[x] \in Nat BY Ends
<1>5. lo[q] <= lo[x] /\ hi[x] <= hi[q] BY <1>2, <1>4, RouteBack
<1>. QED BY <1>1, <1>2, <1>3, <1>4, <1>5

\* Pages that are the same on the tree are the same tree.
LEMMA SameTree ==
    ASSUME NEW v, NEW lv, NEW r, NEW lo, NEW hi, IsTree(v, lv, r, lo, hi),
           NEW w, NEW lv2, DOMAIN lo \subseteq DOMAIN w,
           \A x \in DOMAIN lo : w[x] = v[x] /\ lv2[x] = lv[x]
    PROVE  IsTree(w, lv2, r, lo, hi)
<1>1. ASSUME NEW x \in DOMAIN lo PROVE Stands(w, lv2, r, lo, hi, x)
    <2>1. SameBut(v, w, x) BY DEF SameBut
    <2>2. r \in DOMAIN lo BY InTree
    <2>3. lv2[x] <= lv2[r] BY <2>2, InTree
    <2>4. \A y \in Refs(v[x]) : y \in DOMAIN lo /\ lv2[y] = lv[y] /\ w[y].type = v[y].type
        BY RefsIn
    <2>5. v[x].type = "internal" => \A c \in Kids(v[x]) : w[c].parent = x BY RefsIn
    <2>6. HasParent(w, lv2, r, lo, x)
        <3>1. x # r => /\ lv[x] < lv[r] /\ v[x].parent \in DOMAIN lo
                       /\ v[v[x].parent].type = "internal" /\ x \in Kids(v[v[x].parent])
            BY InTree
        <3>. QED BY <2>2, <3>1 DEF HasParent
    <2>. QED BY <2>1, <2>3, <2>4, <2>5, <2>6, StandsKept
<1>2. r \in DOMAIN lo BY InTree
<1>. QED BY <1>1, <1>2 DEF IsTree

\* The slots of one leaf are replaced by others in its range.
LEMMA LeafChanged ==
    ASSUME NEW v, NEW lv, NEW r, NEW lo, NEW hi, IsTree(v, lv, r, lo, hi),
           NEW w, DOMAIN lo \subseteq DOMAIN w,
           NEW p \in DOMAIN lo, v[p].type = "leaf",
           \A x \in DOMAIN lo \ {p} : w[x] = v[x],
           w[p].type = "leaf", w[p].parent = v[p].parent, w[p].link = v[p].link,
           DOMAIN w[p].slots \subseteq Keys,
           \A k \in DOMAIN w[p].slots : Inside(lo, hi, p, k) /\ w[p].slots[k] \in Vals
    PROVE  IsTree(w, lv, r, lo, hi)
<1>0. \A x \in DOMAIN lo : w[x].type = v[x].type /\ w[x].parent = v[x].parent OBVIOUS
<1>1. ASSUME NEW x \in DOMAIN lo PROVE HasParent(w, lv, r, lo, x)
    <2>1. x # r => /\ lv[x] < lv[r] /\ v[x].parent \in DOMAIN lo
                   /\ v[v[x].parent].type = "internal" /\ x \in Kids(v[v[x].parent])
        BY InTree
    <2>2. x # r => v[x].parent # p BY <2>1
    <2>. QED BY <1>0, <2>1, <2>2 DEF HasParent
<1>2. ASSUME NEW x \in DOMAIN lo \ {p} PROVE Stands(w, lv, r, lo, hi, x)
    <2>1. SameBut(v, w, x) BY DEF SameBut
    <2>3. lv[x] <= lv[r] BY InTree
    <2>4. \A y \in Refs(v[x]) : y \in DOMAIN lo /\ w[y].type = v[y].type
        BY <1>0, RefsIn
    <2>5. v[x].type = "internal" => \A c \in Kids(v[x]) : w[c].parent = x BY <1>0, RefsIn
    <2>6. HasParent(w, lv, r, lo, x) BY <1>1
    <2>. QED BY <2>1, <2>3, <2>4, <2>5, <2>6, StandsKept
<1>3. Stands(w, lv, r, lo, hi, p)
    <2>1. Stands(v, lv, r, lo, hi, p) BY DEF IsTree
    <2>2. LeafOK(v, lo, hi, p) BY InTree
    <2>3. v[p].link # 0 => w[v[p].link].type = "leaf" BY <1>0, <2>2 DEF LeafOK
    <2>4. LeafOK(w, lo, hi, p) BY <2>2, <2>3 DEF LeafOK, Inside
    <2>. QED BY <1>1, <2>1, <2>4 DEF Stands, HasParent
<1>4. \A x \in DOMAIN lo : Stands(w, lv, r, lo, hi, x) BY <1>2, <1>3
<1>. QED BY <1>0, <1>4 DEF IsTree

\* The key ranges after page p was split at sep and page n took the upper part.
SplitRanges(lo, hi, p, n, sep, lo2, hi2) ==
    lo2 = With(lo, n, sep) /\ hi2 = With([hi EXCEPT ![p] = sep], n, hi[p])

\* w is what the tree v becomes around p, but for the entries of p and n.
SplitOf(v, w, lo, p, n, sep) ==
    LET q == v[p].parent
    IN  /\ w[q].type = v[q].type /\ w[q].link = v[q].link /\ w[q].parent = v[q].parent
        /\ w[q].slots = With(v[q].slots, sep, n)
        /\ \A z \in {p, n} :
              w[z].type = v[p].type /\ w[z].parent = q /\ DOMAIN w[z].slots \subseteq Keys
        /\ \A x \in DOMAIN lo \ {p, q} :
              /\ SameBut(v, w, x)
              /\ IF v[x].parent = p THEN w[x].parent \in {p, n} /\ x \in Kids(w[w[x].parent])
                                    ELSE w[x].parent = v[x].parent

\* A page that is divided at sep, with its new half in its parent, leaves a tree.
LEMMA SplitPage ==
    ASSUME NEW v, NEW lv, NEW r, NEW lo, NEW hi, IsTree(v, lv, r, lo, hi),
           NEW w, NEW lv2, NEW p \in DOMAIN lo, p # r, NEW n, n \notin DOMAIN lo, n # 0,
           NEW sep \in Keys, lo[p] < sep, sep < hi[p],
           DOMAIN lo \cup {n} \subseteq DOMAIN w,
           \A x \in DOMAIN lo : lv2[x] = lv[x], lv2[n] = lv[p],
           SplitOf(v, w, lo, p, n, sep),
           NEW lo2, NEW hi2, SplitRanges(lo, hi, p, n, sep, lo2, hi2),
           IF v[p].type = "leaf" THEN LeafOK(w, lo2, hi2, p) /\ LeafOK(w, lo2, hi2, n)
           ELSE NodeOK(w, lv2, lo2, hi2, p) /\ NodeOK(w, lv2, lo2, hi2, n)
    PROVE  IsTree(w, lv2, r, lo2, hi2)
<1>1. PICK q : q = v[p].parent OBVIOUS
<1>2. /\ q \in DOMAIN lo /\ v[q].type = "internal" /\ p \in Kids(v[q]) /\ lv[q] = lv[p] + 1
      /\ lo[q] <= lo[p] /\ hi[p] <= hi[q]
    BY <1>1, ParentIn
<1>3. \A x \in DOMAIN lo : /\ lv[x] \in Nat /\ lo[x] \in Nat /\ hi[x] \in Nat /\ lo[x] < hi[x]
                           /\ hi[x] <= KeyEnd /\ KeyEnd \in Nat /\ x # 0 /\ x # n
    BY InTree, Ends
<1>4. q # p /\ q # n BY <1>2, <1>3
<1>5. DOMAIN hi = DOMAIN lo BY DEF IsTree
<1>6. /\ DOMAIN lo2 = DOMAIN lo \cup {n} /\ DOMAIN hi2 = DOMAIN lo \cup {n}
      /\ lo2[n] = sep /\ hi2[n] = hi[p] /\ hi2[p] = sep
      /\ \A x \in DOMAIN lo : lo2[x] = lo[x] /\ (x # p => hi2[x] = hi[x])
    BY <1>3, <1>5 DEF With, SplitRanges
<1>7. /\ w[q].type = v[q].type /\ w[q].link = v[q].link /\ w[q].parent = v[q].parent
      /\ w[q].slots = With(v[q].slots, sep, n)
      /\ \A z \in {p, n} :
            w[z].type = v[p].type /\ w[z].parent = q /\ DOMAIN w[z].slots \subseteq Keys
      /\ \A x \in DOMAIN lo \ {p, q} :
            /\ SameBut(v, w, x)
            /\ IF v[x].parent = p THEN w[x].parent \in {p, n} /\ x \in Kids(w[w[x].parent])
                                  ELSE w[x].parent = v[x].parent
    BY <1>1 DEF SplitOf
<1>8. \A x \in DOMAIN lo : w[x].type = v[x].type BY <1>7 DEF SameBut
<1>. DEFINE D == DOMAIN v[q].slots
<1>9. NodeOK(v, lv, lo, hi, q) /\ D \subseteq Keys BY <1>2, InTree
<1>10. sep \in Nat /\ \A s \in D : s \in Nat BY <1>9, KeysNat
<1>11. sep \notin D
    <2>1. \A s \in D : s <= lo[p] \/ hi[p] <= s BY <1>2, <1>9 DEF NodeOK
    <2>. QED BY <1>3, <1>10, <2>1
<1>12. /\ DOMAIN w[q].slots = D \cup {sep} /\ w[q].slots[sep] = n
       /\ \A s \in D : w[q].slots[s] = v[q].slots[s]
    BY <1>7, <1>11 DEF With
<1>13. Kids(w[q]) = Kids(v[q]) \cup {n} BY <1>7, <1>12 DEF Kids
<1>14. \A c \in Kids(v[q]) : c \in DOMAIN lo /\ v[c].parent = q /\ lv[c] + 1 = lv[q] /\ c # r
    BY <1>2, RefsIn
<1>15. r \in DOMAIN lo /\ r # n BY <1>3, InTree
<1>16. ASSUME NEW x \in DOMAIN lo \ {p, q} PROVE HasParent(w, lv2, r, lo2, x)
    <2>1. SUFFICES ASSUME x # r
                   PROVE  /\ lv2[x] < lv2[r] /\ w[x].parent \in DOMAIN lo2
                          /\ w[w[x].parent].type = "internal" /\ x \in Kids(w[w[x].parent])
        BY DEF HasParent
    <2>2. PICK y : y = v[x].parent OBVIOUS
    <2>3. y \in DOMAIN lo /\ v[y].type = "internal" /\ x \in Kids(v[y]) /\ lv[x] < lv[r]
        BY <2>1, <2>2, InTree
    <2>4. CASE y = p
        <3>1. w[x].parent \in {p, n} /\ x \in Kids(w[w[x].parent]) BY <1>7, <2>2, <2>4
        <3>. QED BY <1>6, <1>7, <1>15, <2>3, <2>4, <3>1
    <2>5. CASE y = q
        <3>1. w[x].parent = q BY <1>4, <1>7, <2>2, <2>5
        <3>. QED BY <1>6, <1>8, <1>13, <1>15, <2>3, <2>5, <3>1
    <2>6. CASE y # p /\ y # q
        <3>1. w[x].parent = y BY <1>7, <2>2, <2>6
        <3>2. Kids(w[y]) = Kids(v[y]) BY <1>7, <2>3, <2>6 DEF SameBut, Kids
        <3>. QED BY <1>6, <1>8, <1>15, <2>3, <3>1, <3>2
    <2>. QED BY <2>4, <2>5, <2>6
<1>17. ASSUME NEW x \in DOMAIN lo \ {p, q} PROVE Stands(w, lv2, r, lo2, hi2, x)
    <2>1. SameBut(v, w, x) BY <1>7
    <2>2. lo2[x] = lo[x] /\ hi2[x] = hi[x] /\ lv2[x] = lv[x] BY <1>6
    <2>3. lv2[x] <= lv2[r] BY <1>15, InTree
    <2>4. \A y \in Refs(v[x]) : /\ y \in DOMAIN lo2 /\ lo2[y] = lo[y] /\ lv2[y] = lv[y]
                                /\ w[y].type = v[y].type
        BY <1>6, <1>8, RefsIn
    <2>5. ASSUME v[x].type = "internal", NEW c \in Kids(v[x])
          PROVE w[c].parent = x /\ hi2[c] = hi[c]
        <3>1. c \in DOMAIN lo /\ v[c].parent = x BY <2>5, RefsIn
        <3>2. c # p BY <1>1, <3>1
        <3>3. CASE c = q BY <1>6, <1>7, <3>1, <3>2, <3>3
        <3>4. CASE c # q BY <1>6, <1>7, <3>1, <3>2, <3>4
        <3>. QED BY <3>3, <3>4
    <2>6. HasParent(w, lv2, r, lo2, x) BY <1>16
    <2>. QED BY <2>1, <2>2, <2>3, <2>4, <2>5, <2>6, StandsKept
<1>18. ASSUME NEW z \in {p, n} PROVE Stands(w, lv2, r, lo2, hi2, z)
    <2>1. lo2[z] \in Nat /\ hi2[z] \in Nat /\ lo2[z] < hi2[z] /\ hi2[z] <= KeyEnd
        BY <1>3, <1>6, <1>10
    <2>2. lv2[z] = lv[p] /\ lv[p] \in Nat /\ lv2[r] = lv[r] /\ lv[p] < lv[r] BY <1>3, <1>15,
        InTree
    <2>3. lv[r] \in Nat BY <1>3, <1>15
    <2>4. w[z].type = IF lv2[z] = 0 THEN "leaf" ELSE "internal"
        <3>1. v[p].type = IF lv[p] = 0 THEN "leaf" ELSE "internal" BY LeafLevel
        <3>. QED BY <1>7, <2>2, <3>1
    <2>5. w[z].parent = q /\ q \in DOMAIN lo2 /\ w[q].type = "internal" /\ z \in Kids(w[q])
        BY <1>2, <1>6, <1>7, <1>13
    <2>6. IF w[z].type = "leaf" THEN LeafOK(w, lo2, hi2, z) ELSE NodeOK(w, lv2, lo2, hi2, z)
        BY <1>7
    <2>7. DOMAIN w[z].slots \subseteq Keys BY <1>7
    <2>8. /\ lv2[z] \in Nat /\ lv2[z] <= lv2[r]
          /\ z # r => /\ lv2[z] < lv2[r] /\ w[z].parent \in DOMAIN lo2
                      /\ w[w[z].parent].type = "internal" /\ z \in Kids(w[w[z].parent])
        BY <2>2, <2>3, <2>5
    <2>. QED BY <2>1, <2>4, <2>6, <2>7, <2>8 DEF Stands
<1>19. Stands(w, lv2, r, lo2, hi2, q)
    <2>1. Stands(v, lv, r, lo, hi, q) BY <1>2 DEF IsTree
    <2>2. lo2[q] = lo[q] /\ hi2[q] = hi[q] /\ lv2[q] = lv[q] /\ lv2[r] = lv[r] BY <1>2, <1>4,
        <1>6, <1>15
    <2>3. HasParent(w, lv2, r, lo2, q)
        <3>1. SUFFICES ASSUME q # r
                       PROVE  /\ lv2[q] < lv2[r] /\ w[q].parent \in DOMAIN lo2
                              /\ w[w[q].parent].type = "internal" /\ q \in Kids(w[w[q].parent])
            BY DEF HasParent
        <3>2. PICK y : y = v[q].parent OBVIOUS
        <3>3. /\ y \in DOMAIN lo /\ v[y].type = "internal" /\ q \in Kids(v[y]) /\ lv[y] = lv[q] + 1
              /\ lv[q] < lv[r]
            BY <1>2, <3>1, <3>2, ParentIn, InTree
        <3>4. y # p /\ y # q BY <1>2, <1>3, <3>3
        <3>5. Kids(w[y]) = Kids(v[y]) BY <1>7, <3>3, <3>4 DEF SameBut, Kids
        <3>. QED BY <1>6, <1>7, <1>8, <2>2, <3>2, <3>3, <3>5
    <2>4. /\ w[q].link \in DOMAIN lo2 /\ lo2[w[q].link] = lo2[q]
          /\ \A s \in D : /\ lo[q] < s /\ s < hi[q]
                          /\ w[q].slots[s] \in DOMAIN lo2 /\ lo2[w[q].slots[s]] = s
        BY <1>6, <1>7, <1>9, <1>12, <2>2 DEF NodeOK
    <2>5. lo[q] < sep /\ sep < hi[q] BY <1>2, <1>3, <1>10
    <2>6. ASSUME NEW s \in D \cup {sep}
          PROVE  /\ lo2[q] < s /\ s < hi2[q]
                 /\ w[q].slots[s] \in DOMAIN lo2 /\ lo2[w[q].slots[s]] = s
        BY <1>6, <1>12, <2>2, <2>4, <2>5
    <2>7. ASSUME NEW c \in Kids(w[q])
          PROVE  /\ w[c].parent = q /\ lv2[c] + 1 = lv2[q]
                 /\ hi2[c] \in D \cup {sep} \cup {hi2[q]} /\ hi2[c] <= hi2[q]
                 /\ \A s \in D \cup {sep} : s <= lo2[c] \/ hi2[c] <= s
        <3>1. \A d \in Kids(v[q]) : /\ hi[d] \in D \cup {hi[q]} /\ hi[d] <= hi[q]
                                    /\ \A s \in D : s <= lo[d] \/ hi[d] <= s
            BY <1>9 DEF NodeOK
        <3>2. CASE c = n
            <4>1. \A s \in D : s <= sep \/ hi[p] <= s BY <1>2, <1>3, <1>10, <3>1
            <4>. QED BY <1>2, <1>3, <1>6, <1>7, <1>10, <2>2, <3>1, <3>2, <4>1
        <3>3. CASE c = p
            <4>1. \A s \in D : s <= lo[p] \/ sep <= s BY <1>2, <1>3, <1>10, <3>1
            <4>. QED BY <1>2, <1>3, <1>6, <1>7, <1>10, <2>2, <2>5, <3>3, <4>1
        <3>4. CASE c # n /\ c # p
            <4>1. c \in Kids(v[q]) /\ c \in DOMAIN lo /\ v[c].parent = q /\ lv[c] + 1 = lv[q]
                BY <1>13, <1>14, <3>4
            <4>2. c # q BY <1>3, <4>1
            <4>3. w[c].parent = q BY <1>4, <1>7, <3>4, <4>1, <4>2
            <4>4. sep <= lo[c] \/ hi[c] <= sep
                <5>1. SUFFICES ASSUME lo[c] < sep, sep < hi[c] PROVE FALSE BY <1>3, <1>10, <4>1
                <5>2. Inside(lo, hi, c, sep) /\ Inside(lo, hi, p, sep)
                    BY <1>3, <1>10, <4>1, <5>1 DEF Inside
                <5>3. lv[c] = lv[p] BY <1>2, <1>3, <4>1
                <5>4. c = p BY <1>10, <4>1, <5>2, <5>3, Apart
                <5>. QED BY <3>4, <5>4
            <4>5. hi2[c] = hi[c] /\ lo2[c] = lo[c] /\ lv2[c] = lv[c] BY <1>6, <3>4, <4>1
            <4>. QED BY <2>2, <3>1, <4>1, <4>3, <4>4, <4>5
        <3>. QED BY <3>2, <3>3, <3>4
    <2>8. NodeOK(w, lv2, lo2, hi2, q) BY <1>12, <2>4, <2>6, <2>7 DEF NodeOK
    <2>9. DOMAIN w[q].slots \subseteq Keys BY <1>9, <1>12
    <2>. QED BY <1>2, <1>7, <2>1, <2>2, <2>3, <2>8, <2>9 DEF Stands, HasParent
<1>20. \A x \in DOMAIN lo2 : Stands(w, lv2, r, lo2, hi2, x)
    <2>1. \A x \in DOMAIN lo2 : x \in DOMAIN lo \ {p, q} \/ x \in {p, n} \/ x = q BY <1>6
    <2>. QED BY <1>17, <1>18, <1>19, <2>1
<1>21. r \in DOMAIN lo2 /\ lo2[r] = 0 /\ hi2[r] = KeyEnd /\ w[r].parent = 0
    <2>1. lo[r] = 0 /\ hi[r] = KeyEnd /\ v[r].parent = 0 /\ p # 0 BY <1>3, InTree
    <2>2. w[r].parent = 0 BY <1>7, <1>15, <2>1
    <2>. QED BY <1>6, <1>15, <2>1, <2>2
<1>. QED BY <1>3, <1>6, <1>20, <1>21, InTree DEF IsTree

\* A new root above the old one, which is its only child.
LEMMA LiftRoot ==
    ASSUME NEW v, NEW lv, NEW r, NEW lo, NEW hi, IsTree(v, lv, r, lo, hi),
           NEW w, NEW lv2, NEW n, n \notin DOMAIN lo, n # 0,
           DOMAIN lo \cup {n} \subseteq DOMAIN w,
           \A x \in DOMAIN lo : lv2[x] = lv[x], lv2[n] = lv[r] + 1,
           \A x \in DOMAIN lo : SameBut(v, w, x) /\ w[x].parent = IF x = r THEN n ELSE v[x].parent,
           w[n].type = "internal", w[n].parent = 0, w[n].link = r, DOMAIN w[n].slots = {},
           NEW lo2, NEW hi2, lo2 = With(lo, n, 0), hi2 = With(hi, n, KeyEnd)
    PROVE  IsTree(w, lv2, n, lo2, hi2)
<1>1. \A x \in DOMAIN lo : /\ lv[x] \in Nat /\ lo[x] \in Nat /\ hi[x] \in Nat /\ lo[x] < hi[x]
                           /\ hi[x] <= KeyEnd /\ KeyEnd \in Nat /\ KeyEnd > 0 /\ x # 0 /\ x # n
                           /\ lv[x] <= lv[r]
    BY InTree, Ends
<1>2. DOMAIN hi = DOMAIN lo BY DEF IsTree
<1>3. /\ DOMAIN lo2 = DOMAIN lo \cup {n} /\ DOMAIN hi2 = DOMAIN lo \cup {n}
      /\ lo2[n] = 0 /\ hi2[n] = KeyEnd
      /\ \A x \in DOMAIN lo : lo2[x] = lo[x] /\ hi2[x] = hi[x]
    BY <1>1, <1>2 DEF With
<1>4. /\ r \in DOMAIN lo /\ lo[r] = 0 /\ hi[r] = KeyEnd /\ v[r].parent = 0 /\ r # n /\ lv[r] \in Nat
    BY <1>1, InTree
<1>5. Kids(w[n]) = {r} BY DEF Kids
<1>6. ASSUME NEW x \in DOMAIN lo PROVE Stands(w, lv2, n, lo2, hi2, x)
    <2>1. SameBut(v, w, x) OBVIOUS
    <2>2. lo2[x] = lo[x] /\ hi2[x] = hi[x] /\ lv2[x] = lv[x] BY <1>3
    <2>3. lv2[x] <= lv2[n] /\ lv2[x] < lv2[n] BY <1>1, <1>4
    <2>4. \A y \in Refs(v[x]) : /\ y \in DOMAIN lo2 /\ lo2[y] = lo[y] /\ lv2[y] = lv[y]
                                /\ w[y].type = v[y].type
        BY <1>3, RefsIn DEF SameBut
    <2>5. v[x].type = "internal" => \A c \in Kids(v[x]) : w[c].parent = x /\ hi2[c] = hi[c]
        BY <1>3, RefsIn
    <2>6. HasParent(w, lv2, n, lo2, x)
        <3>1. CASE x = r BY <1>3, <1>4, <1>5, <2>3, <3>1 DEF HasParent
        <3>2. CASE x # r
            <4>1. PICK y : y = v[x].parent OBVIOUS
            <4>2. y \in DOMAIN lo /\ v[y].type = "internal" /\ x \in Kids(v[y])
                BY <3>2, <4>1, InTree
            <4>3. w[y].type = "internal" /\ Kids(w[y]) = Kids(v[y]) BY <4>2 DEF SameBut, Kids
            <4>4. w[x].parent = y BY <3>2, <4>1
            <4>. QED BY <1>3, <2>3, <4>2, <4>3, <4>4 DEF HasParent
        <3>. QED BY <3>1, <3>2
    <2>. QED BY <2>1, <2>2, <2>3, <2>4, <2>5, <2>6, StandsKept
<1>7. Stands(w, lv2, n, lo2, hi2, n)
    <2>1. NodeOK(w, lv2, lo2, hi2, n)
        <3>1. w[r].parent = n /\ lv2[r] + 1 = lv2[n] BY <1>4
        <3>2. \A c \in Kids(w[n]) : /\ w[c].parent = n /\ lv2[c] + 1 = lv2[n]
                                    /\ hi2[c] = hi2[n] /\ hi2[c] <= hi2[n]
            BY <1>1, <1>3, <1>4, <1>5, <3>1
        <3>. QED BY <1>3, <1>4, <3>2 DEF NodeOK
    <2>2. lv2[n] \in Nat /\ lv2[n] # 0 BY <1>4
    <2>. QED BY <1>1, <1>3, <1>4, <2>1, <2>2 DEF Stands
<1>. QED BY <1>1, <1>3, <1>6, <1>7 DEF IsTree

\* The root has one child, a leaf, and gives way to it.
LEMMA DropRoot ==
    ASSUME NEW v, NEW lv, NEW r, NEW lo, NEW hi, IsTree(v, lv, r, lo, hi),
           lv[r] = 1, DOMAIN v[r].slots = {}, NEW l, l = v[r].link,
           NEW w, DOMAIN lo \subseteq DOMAIN w,
           SameBut(v, w, l), w[l].parent = 0,
           NEW lo2, NEW hi2, lo2 = Without(lo, r), hi2 = Without(hi, r)
    PROVE  IsTree(w, lv, l, lo2, hi2) /\ DOMAIN lo2 = {l}
<1>1. r \in DOMAIN lo /\ lo[r] = 0 /\ hi[r] = KeyEnd BY InTree
<1>2. v[r].type = "internal" BY <1>1, LeafLevel
<1>3. Kids(v[r]) = {l} BY DEF Kids
<1>4. l \in DOMAIN lo /\ l # r /\ lv[l] + 1 = lv[r] BY <1>1, <1>2, <1>3, RefsIn
<1>5. lv[l] = 0 /\ v[l].type = "leaf" /\ l # 0 BY <1>4, InTree, LeafLevel
<1>6. \A x \in DOMAIN lo : x # r => x = l BY <1>3, LevelOne
<1>7. DOMAIN hi = DOMAIN lo BY DEF IsTree
<1>8. DOMAIN lo2 = {l} /\ DOMAIN hi2 = {l} /\ lo2[l] = lo[l] /\ hi2[l] = hi[l]
    BY <1>1, <1>4, <1>6, <1>7 DEF Without
<1>9. lo[l] = 0 /\ hi[l] = KeyEnd
    <2>1. NodeOK(v, lv, lo, hi, r) BY <1>1, <1>2, InTree
    <2>. QED BY <1>1, <1>3, <2>1 DEF NodeOK
<1>10. Stands(v, lv, r, lo, hi, l) BY <1>4 DEF IsTree
<1>11. LeafOK(v, lo, hi, l) BY <1>4, <1>5, InTree
<1>12. v[l].link = 0
    <2>1. SUFFICES ASSUME v[l].link # 0 PROVE FALSE OBVIOUS
    <2>2. PICK y : y = v[l].link OBVIOUS
    <2>3. y \in DOMAIN lo /\ lo[y] = KeyEnd BY <1>9, <1>11, <2>1, <2>2 DEF LeafOK
    <2>. QED BY <2>3, Ends
<1>13. LeafOK(w, lo2, hi2, l) BY <1>8, <1>9, <1>11, <1>12 DEF LeafOK, SameBut
<1>14. Stands(w, lv, l, lo2, hi2, l) BY <1>5, <1>8, <1>10, <1>13 DEF Stands, SameBut
<1>. QED BY <1>4, <1>5, <1>8, <1>9, <1>14 DEF IsTree

\* The key ranges after page l took over the range of n on its right.
MergeRanges(lo, hi, l, n, lo2, hi2) ==
    lo2 = Without(lo, n) /\ hi2 = Without([hi EXCEPT ![l] = hi[n]], n)

\* w is what the tree v becomes when leaf l takes over the entries of the leaf n
\* on its right and page q, which has both as children, loses their separator.
MergeOf(v, w, lo, l, n, q, sep) ==
    /\ w[q].type = v[q].type /\ w[q].link = v[q].link /\ w[q].parent = v[q].parent
    /\ w[q].slots = Without(v[q].slots, sep)
    /\ w[l].type = "leaf" /\ w[l].parent = q /\ w[l].link = v[n].link
    /\ w[l].slots = Join(v[l].slots, v[n].slots)
    /\ \A x \in DOMAIN lo \ {l, n, q} : w[x] = v[x]

\* A leaf that takes over its right neighbour leaves a tree.
LEMMA MergePages ==
    ASSUME NEW v, NEW lv, NEW r, NEW lo, NEW hi, IsTree(v, lv, r, lo, hi),
           NEW w, DOMAIN lo \subseteq DOMAIN w,
           NEW q \in DOMAIN lo, v[q].type = "internal", NEW sep \in DOMAIN v[q].slots,
           NEW n, n = v[q].slots[sep], NEW l \in Kids(v[q]), hi[l] = sep,
           v[l].type = "leaf", MergeOf(v, w, lo, l, n, q, sep),
           NEW lo2, NEW hi2, MergeRanges(lo, hi, l, n, lo2, hi2)
    PROVE  IsTree(w, lv, r, lo2, hi2)
<1>1. /\ w[q].type = v[q].type /\ w[q].link = v[q].link /\ w[q].parent = v[q].parent
      /\ w[q].slots = Without(v[q].slots, sep)
      /\ w[l].type = "leaf" /\ w[l].parent = q /\ w[l].link = v[n].link
      /\ w[l].slots = Join(v[l].slots, v[n].slots)
      /\ \A x \in DOMAIN lo \ {l, n, q} : w[x] = v[x]
    BY DEF MergeOf
<1>. DEFINE D == DOMAIN v[q].slots
<1>2. NodeOK(v, lv, lo, hi, q) /\ D \subseteq Keys BY InTree
<1>3. \A c \in Kids(v[q]) : c \in DOMAIN lo /\ v[c].parent = q /\ lv[c] + 1 = lv[q] /\ c # r
    BY RefsIn
<1>4. n \in Kids(v[q]) /\ lo[n] = sep BY <1>2 DEF Kids, NodeOK
<1>5. \A x \in DOMAIN lo : /\ lv[x] \in Nat /\ lo[x] \in Nat /\ hi[x] \in Nat /\ lo[x] < hi[x]
                           /\ hi[x] <= KeyEnd /\ KeyEnd \in Nat /\ x # 0
    BY InTree, Ends
<1>6. /\ l \in DOMAIN lo /\ n \in DOMAIN lo /\ l # n /\ l # q /\ n # q /\ lv[l] = lv[n] /\ l # r
      /\ n # r
    <2>1. lo[l] # lo[n] BY <1>3, <1>4, <1>5
    <2>. QED BY <1>3, <1>4, <1>5, <2>1
<1>7. v[n].type = "leaf" /\ lv[l] = 0 /\ lv[n] = 0 BY <1>6, LeafLevel
<1>8. DOMAIN hi = DOMAIN lo BY DEF IsTree
<1>9. /\ DOMAIN lo2 = DOMAIN lo \ {n} /\ DOMAIN hi2 = DOMAIN lo \ {n}
      /\ hi2[l] = hi[n]
      /\ \A x \in DOMAIN lo \ {n} : lo2[x] = lo[x] /\ (x # l => hi2[x] = hi[x])
    BY <1>6, <1>8 DEF Without, MergeRanges
<1>10. sep \in Nat /\ \A s \in D : s \in Nat BY <1>2, KeysNat
\* No other page of the level of the leaves ends where l does.
<1>11. ASSUME NEW x \in DOMAIN lo, lv[x] = 0, hi[x] = sep PROVE x = l
    <2>1. Inside(lo, hi, x, sep - 1) /\ Inside(lo, hi, l, sep - 1) /\ sep - 1 \in Nat
        BY <1>6, <1>11, Ends
    <2>. QED BY <1>6, <1>7, <1>11, <2>1, Apart
<1>12. DOMAIN w[q].slots = D \ {sep} /\ \A s \in D \ {sep} : w[q].slots[s] = v[q].slots[s]
    BY <1>1 DEF Without
<1>13. v[q].link # n
    <2>1. lo[v[q].link] = lo[q] /\ lo[q] < sep BY <1>2 DEF NodeOK
    <2>. QED BY <1>4, <1>5, <1>10, <2>1
<1>14. \A s \in D \ {sep} : v[q].slots[s] # n
    <2>1. \A s \in D : lo[v[q].slots[s]] = s BY <1>2 DEF NodeOK
    <2>. QED BY <1>4, <2>1
<1>15. Kids(w[q]) = Kids(v[q]) \ {n}
    <2>1. ASSUME NEW c \in Kids(w[q]) PROVE c \in Kids(v[q]) \ {n}
        BY <1>1, <1>12, <1>13, <1>14, <2>1 DEF Kids
    <2>2. ASSUME NEW c \in Kids(v[q]), c # n PROVE c \in Kids(w[q])
        BY <1>1, <1>12, <2>2 DEF Kids
    <2>. QED BY <2>1, <2>2
<1>16. \A x \in DOMAIN lo \ {n} : w[x].type = v[x].type /\ w[x].parent = v[x].parent
    <2>1. v[l].parent = q BY <1>3
    <2>. QED BY <1>1, <2>1
<1>17. r \in DOMAIN lo \ {n} BY <1>6, InTree
<1>18. ASSUME NEW x \in DOMAIN lo \ {n} PROVE HasParent(w, lv, r, lo2, x)
    <2>1. SUFFICES ASSUME x # r
                   PROVE  /\ lv[x] < lv[r] /\ w[x].parent \in DOMAIN lo2
                          /\ w[w[x].parent].type = "internal" /\ x \in Kids(w[w[x].parent])
        BY DEF HasParent
    <2>2. PICK y : y = v[x].parent OBVIOUS
    <2>3. y \in DOMAIN lo /\ v[y].type = "internal" /\ x \in Kids(v[y]) /\ lv[x] < lv[r]
        BY <2>1, <2>2, InTree
    <2>4. y # n /\ y # l BY <1>7, <2>3
    <2>5. x \in Kids(w[y])
        <3>1. CASE y = q BY <1>15, <2>3, <3>1
        <3>2. CASE y # q BY <1>1, <2>3, <2>4, <3>2
        <3>. QED BY <3>1, <3>2
    <2>. QED BY <1>9, <1>16, <2>2, <2>3, <2>4, <2>5
<1>19. ASSUME NEW x \in DOMAIN lo \ {l, n, q} PROVE Stands(w, lv, r, lo2, hi2, x)
    <2>1. SameBut(v, w, x) BY <1>1 DEF SameBut
    <2>2. lo2[x] = lo[x] /\ hi2[x] = hi[x] BY <1>9
    <2>3. lv[x] <= lv[r] BY InTree
    <2>4. ASSUME NEW y \in Refs(v[x])
          PROVE  y \in DOMAIN lo2 /\ lo2[y] = lo[y] /\ w[y].type = v[y].type
        <3>1. y \in DOMAIN lo BY RefsIn
        <3>2. y # n
            <4>1. CASE v[x].type = "leaf"
                <5>1. y = v[x].link /\ y # 0 BY <4>1 DEF Refs
                <5>2. lo[y] = hi[x] BY <4>1, <5>1, RefsIn
                <5>3. lv[x] = 0 BY <4>1, LeafLevel
                <5>. QED BY <1>4, <1>11, <5>2, <5>3
            <4>2. CASE v[x].type # "leaf"
                <5>1. v[x].type = "internal" BY <4>2, LeafLevel
                <5>2. v[y].parent = x BY <4>2, <5>1, RefsIn DEF Refs
                <5>. QED BY <1>3, <1>4, <5>2
            <4>. QED BY <4>1, <4>2
        <3>. QED BY <1>9, <1>16, <3>1, <3>2
    <2>5. ASSUME v[x].type = "internal", NEW c \in Kids(v[x])
          PROVE w[c].parent = x /\ hi2[c] = hi[c]
        <3>1. c \in DOMAIN lo /\ v[c].parent = x BY <2>5, RefsIn
        <3>2. c # n /\ c # l BY <1>3, <1>4, <3>1
        <3>. QED BY <1>9, <1>16, <3>1, <3>2
    <2>6. HasParent(w, lv, r, lo2, x) BY <1>18
    <2>. QED BY <2>1, <2>2, <2>3, <2>4, <2>5, <2>6, StandsKept
<1>20. Stands(w, lv, r, lo2, hi2, l)
    <2>1. Stands(v, lv, r, lo, hi, l) BY <1>6 DEF IsTree
    <2>2. /\ LeafOK(v, lo, hi, l) /\ LeafOK(v, lo, hi, n) /\ DOMAIN v[l].slots \subseteq Keys
          /\ DOMAIN v[n].slots \subseteq Keys
        BY <1>6, <1>7, InTree
    <2>3. lo2[l] = lo[l] /\ hi2[l] = hi[n] BY <1>6, <1>9
    <2>4. DOMAIN w[l].slots \subseteq Keys /\ \A k \in DOMAIN w[l].slots : k \in Nat
        BY <1>1, <2>2, KeysNat DEF Join
    <2>5. \A k \in DOMAIN w[l].slots : lo2[l] <= k /\ k < hi2[l] /\ w[l].slots[k] \in Vals
        <3>1. TAKE k \in DOMAIN w[l].slots
        <3>2. k \in Nat BY <2>4
        <3>3. CASE k \in DOMAIN v[l].slots
            <4>1. w[l].slots[k] = v[l].slots[k] BY <1>1, <3>3 DEF Join
            <4>2. lo[l] <= k /\ k < hi[l] /\ v[l].slots[k] \in Vals BY <2>2, <3>3 DEF LeafOK
            <4>3. hi[l] < hi[n] BY <1>4, <1>5, <1>6
            <4>. QED BY <1>5, <1>6, <2>3, <3>2, <4>1, <4>2, <4>3
        <3>4. CASE k \notin DOMAIN v[l].slots
            <4>1. k \in DOMAIN v[n].slots /\ w[l].slots[k] = v[n].slots[k] BY <1>1, <3>4 DEF Join
            <4>2. lo[n] <= k /\ k < hi[n] /\ v[n].slots[k] \in Vals BY <2>2, <4>1 DEF LeafOK
            <4>3. lo[l] < lo[n] BY <1>4, <1>5, <1>6
            <4>. QED BY <1>5, <1>6, <2>3, <3>2, <4>1, <4>2, <4>3
        <3>. QED BY <3>3, <3>4
    <2>6. IF w[l].link = 0 THEN hi2[l] = KeyEnd
          ELSE /\ w[l].link \in DOMAIN lo2 /\ w[w[l].link].type = "leaf"
               /\ lo2[w[l].link] = hi2[l]
        <3>1. CASE v[n].link = 0 BY <1>1, <2>2, <2>3, <3>1 DEF LeafOK
        <3>2. CASE v[n].link # 0
            <4>1. PICK y : y = v[n].link OBVIOUS
            <4>2. y \in DOMAIN lo /\ v[y].type = "leaf" /\ lo[y] = hi[n] BY <2>2, <3>2,
                <4>1 DEF LeafOK
            <4>3. y # n BY <1>5, <1>6, <4>2
            <4>4. w[l].link = y BY <1>1, <4>1
            <4>5. y \in DOMAIN lo2 /\ lo2[y] = lo[y] BY <1>9, <4>2, <4>3
            <4>6. w[y].type = "leaf" BY <1>16, <4>2, <4>3
            <4>. QED BY <2>3, <3>2, <4>1, <4>2, <4>4, <4>5, <4>6
        <3>. QED BY <3>1, <3>2
    <2>7. LeafOK(w, lo2, hi2, l) BY <2>5, <2>6 DEF LeafOK
    <2>8. lo[l] < hi[n] BY <1>4, <1>5, <1>6
    <2>9. HasParent(w, lv, r, lo2, l) BY <1>6, <1>18
    <2>. QED BY <1>1, <1>5, <1>6, <1>7, <2>1, <2>3, <2>4, <2>7, <2>8, <2>9 DEF Stands, HasParent
<1>21. Stands(w, lv, r, lo2, hi2, q)
    <2>1. Stands(v, lv, r, lo, hi, q) BY DEF IsTree
    <2>2. lo2[q] = lo[q] /\ hi2[q] = hi[q] BY <1>6, <1>9
    <2>3. HasParent(w, lv, r, lo2, q) BY <1>6, <1>18
    <2>4. /\ w[q].link \in DOMAIN lo2 /\ lo2[w[q].link] = lo2[q]
          /\ \A s \in D \ {sep} : /\ lo2[q] < s /\ s < hi2[q]
                                  /\ w[q].slots[s] \in DOMAIN lo2 /\ lo2[w[q].slots[s]] = s
        BY <1>1, <1>2, <1>9, <1>12, <1>13, <1>14, <2>2 DEF NodeOK
    <2>5. \A d \in Kids(v[q]) : /\ hi[d] \in D \cup {hi[q]} /\ hi[d] <= hi[q]
                                /\ \A s \in D : s <= lo[d] \/ hi[d] <= s
        BY <1>2 DEF NodeOK
    <2>6. ASSUME NEW c \in Kids(w[q])
          PROVE  /\ w[c].parent = q /\ lv[c] + 1 = lv[q]
                 /\ hi2[c] \in (D \ {sep}) \cup {hi2[q]} /\ hi2[c] <= hi2[q]
                 /\ \A s \in D \ {sep} : s <= lo2[c] \/ hi2[c] <= s
        <3>1. c \in Kids(v[q]) /\ c # n /\ c \in DOMAIN lo /\ v[c].parent = q /\ lv[c] + 1 = lv[q]
            BY <1>3, <1>15
        <3>2. CASE c = l
            <4>1. hi2[c] = hi[n] /\ lo2[c] = lo[l] /\ hi[n] # sep BY <1>4, <1>5, <1>6, <1>9, <3>2
            <4>2. hi[n] \in (D \ {sep}) \cup {hi[q]} /\ hi[n] <= hi[q] BY <1>4, <2>5, <4>1
            <4>3. \A s \in D \ {sep} : s <= lo[l] \/ hi[n] <= s
                <5>1. TAKE s \in D \ {sep}
                <5>2. (s <= lo[l] \/ sep <= s) /\ (s <= sep \/ hi[n] <= s) BY <1>4, <2>5
                <5>. QED BY <1>5, <1>6, <1>10, <5>2
            <4>. QED BY <1>16, <2>2, <3>1, <4>1, <4>2, <4>3
        <3>3. CASE c # l
            <4>1. lv[c] = 0 BY <1>3, <1>5, <1>6, <1>7, <3>1
            <4>2. hi[c] # sep BY <1>11, <3>1, <3>3, <4>1
            <4>3. hi2[c] = hi[c] /\ lo2[c] = lo[c] BY <1>9, <3>1, <3>3
            <4>. QED BY <1>16, <2>2, <2>5, <3>1, <4>2, <4>3
        <3>. QED BY <3>2, <3>3
    <2>7. NodeOK(w, lv, lo2, hi2, q) BY <1>12, <2>4, <2>6 DEF NodeOK
    <2>8. DOMAIN w[q].slots \subseteq Keys BY <1>2, <1>12
    <2>. QED BY <1>1, <2>1, <2>2, <2>3, <2>7, <2>8 DEF Stands, HasParent
<1>22. \A x \in DOMAIN lo2 : Stands(w, lv, r, lo2, hi2, x) BY <1>9, <1>19, <1>20, <1>21
<1>23. lo2[r] = 0 /\ hi2[r] = KeyEnd /\ w[r].parent = 0
    <2>1. lo[r] = 0 /\ hi[r] = KeyEnd /\ v[r].parent = 0 BY InTree
    <2>. QED BY <1>6, <1>9, <1>16, <1>17, <2>1
<1>. QED BY <1>5, <1>9, <1>17, <1>22, <1>23 DEF IsTree
------------------------------------------------------------------------------
(***************************************************************************)
(* Changes that keep what the leaves hold                                  *)
(***************************************************************************)
\* What the leaves of v hold the leaves of w hold.
Within(v, lo, w, lo2) ==
    \A x \in DOMAIN lo : v[x].type = "leaf" =>
        \A k \in DOMAIN v[x].slots : Ent(w, lo2, k, v[x].slots[k])

\* Two trees with the same entries hold the same map.
LEMMA HoldsKept ==
    ASSUME NEW v, NEW lo, NEW m, Holds(v, lo, m), NEW w, NEW lo2,
           Within(v, lo, w, lo2), Within(w, lo2, v, lo)
    PROVE  Holds(w, lo2, m)
<1>1. ASSUME NEW k \in Keys, NEW d \in Vals PROVE Ent(w, lo2, k, d) <=> Ent(v, lo, k, d)
    <2>1. Ent(w, lo2, k, d) => Ent(v, lo, k, d) BY DEF Ent, Within
    <2>2. Ent(v, lo, k, d) => Ent(w, lo2, k, d) BY DEF Ent, Within
    <2>. QED BY <2>1, <2>2
<1>. QED BY <1>1 DEF Holds

\* One leaf changed, at one key.
LeafSet(v, w, lo, p, f) ==
    /\ v[p].type = "leaf" /\ w[p].type = "leaf" /\ w[p].slots = f
    /\ \A x \in DOMAIN lo \ {p} : w[x] = v[x]

\* An entry put into the leaf of its key changes the map at this key only.
LEMMA HoldsWith ==
    ASSUME NEW v, NEW lv, NEW r, NEW lo, NEW hi, IsTree(v, lv, r, lo, hi),
           NEW w, NEW p \in DOMAIN lo, NEW k \in Keys, NEW d \in Vals,
           LeafSet(v, w, lo, p, With(v[p].slots, k, d)), Inside(lo, hi, p, k),
           NEW m, Holds(v, lo, m)
    PROVE  Holds(w, lo, [m EXCEPT ![k] = d])
<1>1. /\ v[p].type = "leaf" /\ w[p].type = "leaf" /\ w[p].slots = With(v[p].slots, k, d)
      /\ \A x \in DOMAIN lo \ {p} : w[x] = v[x]
    BY DEF LeafSet
<1>2. /\ DOMAIN w[p].slots = DOMAIN v[p].slots \cup {k} /\ w[p].slots[k] = d
      /\ \A j \in DOMAIN v[p].slots : j # k => w[p].slots[j] = v[p].slots[j]
    BY <1>1 DEF With
<1>3. ASSUME NEW j \in Keys, j # k, NEW e \in Vals PROVE Ent(w, lo, j, e) <=> Ent(v, lo, j, e)
    <2>1. \A x \in DOMAIN lo :
             (w[x].type = "leaf" /\ j \in DOMAIN w[x].slots /\ w[x].slots[j] = e)
             <=> (v[x].type = "leaf" /\ j \in DOMAIN v[x].slots /\ v[x].slots[j] = e)
        BY <1>1, <1>2, <1>3
    <2>. QED BY <2>1 DEF Ent
<1>4. ASSUME NEW e \in Vals PROVE Ent(w, lo, k, e) <=> d = e
    <2>1. Ent(w, lo, k, d) BY <1>1, <1>2 DEF Ent
    <2>2. ASSUME Ent(w, lo, k, e) PROVE d = e
        <3>1. PICK x \in DOMAIN lo : w[x].type = "leaf" /\ k \in DOMAIN w[x].slots /\ w[x].slots[k] = e
            BY <2>2 DEF Ent
        <3>2. x = p
            <4>1. SUFFICES ASSUME x # p PROVE FALSE OBVIOUS
            <4>2. v[x].type = "leaf" /\ k \in DOMAIN v[x].slots BY <1>1, <3>1, <4>1
            <4>3. x = p BY <1>1, <4>2, OneLeaf
            <4>. QED BY <4>1, <4>3
        <3>. QED BY <1>2, <3>1, <3>2
    <2>. QED BY <2>1, <2>2
<1>. QED BY <1>3, <1>4 DEF Holds

\* An entry taken from the leaf of its key changes the map at this key only.
LEMMA HoldsWithout ==
    ASSUME NEW v, NEW lv, NEW r, NEW lo, NEW hi, IsTree(v, lv, r, lo, hi),
           NEW w, NEW p \in DOMAIN lo, NEW k \in Keys,
           LeafSet(v, w, lo, p, Without(v[p].slots, k)), Inside(lo, hi, p, k),
           NEW m, Holds(v, lo, m)
    PROVE  Holds(w, lo, [m EXCEPT ![k] = Null])
<1>1. /\ v[p].type = "leaf" /\ w[p].type = "leaf" /\ w[p].slots = Without(v[p].slots, k)
      /\ \A x \in DOMAIN lo \ {p} : w[x] = v[x]
    BY DEF LeafSet
<1>2. /\ DOMAIN w[p].slots = DOMAIN v[p].slots \ {k}
      /\ \A j \in DOMAIN v[p].slots : j # k => w[p].slots[j] = v[p].slots[j]
    BY <1>1 DEF Without
<1>3. ASSUME NEW j \in Keys, j # k, NEW e \in Vals PROVE Ent(w, lo, j, e) <=> Ent(v, lo, j, e)
    <2>1. \A x \in DOMAIN lo :
             (w[x].type = "leaf" /\ j \in DOMAIN w[x].slots /\ w[x].slots[j] = e)
             <=> (v[x].type = "leaf" /\ j \in DOMAIN v[x].slots /\ v[x].slots[j] = e)
        BY <1>1, <1>2, <1>3
    <2>. QED BY <2>1 DEF Ent
<1>4. ASSUME NEW e \in Vals, Ent(w, lo, k, e) PROVE FALSE
    <2>1. PICK x \in DOMAIN lo : w[x].type = "leaf" /\ k \in DOMAIN w[x].slots
        BY <1>4 DEF Ent
    <2>2. x # p BY <1>2, <2>1
    <2>3. v[x].type = "leaf" /\ k \in DOMAIN v[x].slots BY <1>1, <2>1, <2>2
    <2>4. x = p BY <1>1, <2>3, OneLeaf
    <2>. QED BY <2>2, <2>4
<1>5. \A e \in Vals : Null # e BY KeysAssumption
<1>. QED BY <1>3, <1>4, <1>5 DEF Holds

\* Pages whose entries are divided between two, or are in no leaf.
LEMMA WithinSplit ==
    ASSUME NEW v, NEW lo, NEW w, NEW lo2, NEW p \in DOMAIN lo, NEW n, n \notin DOMAIN lo,
           DOMAIN lo2 = DOMAIN lo \cup {n},
           \A x \in DOMAIN lo \ {p} :
              w[x].type = v[x].type /\ (v[x].type = "leaf" => w[x].slots = v[x].slots),
           w[p].type = v[p].type, w[n].type = v[p].type,
           v[p].type = "leaf" =>
              /\ DOMAIN v[p].slots = DOMAIN w[p].slots \cup DOMAIN w[n].slots
              /\ \A k \in DOMAIN w[p].slots : w[p].slots[k] = v[p].slots[k]
              /\ \A k \in DOMAIN w[n].slots : w[n].slots[k] = v[p].slots[k]
    PROVE  Within(v, lo, w, lo2) /\ Within(w, lo2, v, lo)
<1>1. ASSUME NEW x \in DOMAIN lo, v[x].type = "leaf", NEW k \in DOMAIN v[x].slots
      PROVE  Ent(w, lo2, k, v[x].slots[k])
    <2>1. CASE x # p BY <1>1, <2>1 DEF Ent
    <2>2. CASE x = p /\ k \in DOMAIN w[p].slots BY <1>1, <2>2 DEF Ent
    <2>3. CASE x = p /\ k \notin DOMAIN w[p].slots
        <3>1. /\ k \in DOMAIN w[n].slots /\ w[n].slots[k] = v[p].slots[k] /\ n \in DOMAIN lo2
              /\ w[n].type = "leaf"
            BY <1>1, <2>3
        <3>. QED BY <2>3, <3>1 DEF Ent
    <2>. QED BY <2>1, <2>2, <2>3
<1>2. ASSUME NEW x \in DOMAIN lo2, w[x].type = "leaf", NEW k \in DOMAIN w[x].slots
      PROVE  Ent(v, lo, k, w[x].slots[k])
    <2>1. CASE x # p /\ x # n BY <1>2, <2>1 DEF Ent
    <2>2. CASE x = p \/ x = n
        <3>1. v[p].type = "leaf" /\ k \in DOMAIN v[p].slots /\ w[x].slots[k] = v[p].slots[k]
            BY <1>2, <2>2
        <3>. QED BY <3>1 DEF Ent
    <2>. QED BY <2>1, <2>2
<1>. QED BY <1>1, <1>2 DEF Within

\* A page that is no leaf joins or leaves the tree.
LEMMA WithinSame ==
    ASSUME NEW v, NEW lo, NEW w, NEW lo2,
           \A x \in DOMAIN lo : v[x].type = "leaf" =>
               x \in DOMAIN lo2 /\ w[x].type = "leaf" /\ w[x].slots = v[x].slots
    PROVE  Within(v, lo, w, lo2)
BY DEF Within, Ent

\* A merge of leaves keeps the entries.
LEMMA WithinMerge ==
    ASSUME NEW v, NEW lv, NEW r, NEW lo, NEW hi, IsTree(v, lv, r, lo, hi), NEW w, NEW lo2,
           NEW l \in DOMAIN lo, NEW n \in DOMAIN lo, l # n, NEW q, NEW sep,
           v[q].type = "internal",
           v[l].type = "leaf", v[n].type = "leaf",
           DOMAIN lo2 = DOMAIN lo \ {n}, MergeOf(v, w, lo, l, n, q, sep)
    PROVE  Within(v, lo, w, lo2) /\ Within(w, lo2, v, lo)
<1>1. /\ w[q].type = v[q].type
      /\ w[l].type = "leaf" /\ w[l].slots = Join(v[l].slots, v[n].slots)
      /\ \A x \in DOMAIN lo \ {l, n, q} : w[x] = v[x]
    BY DEF MergeOf
<1>2. /\ DOMAIN w[l].slots = DOMAIN v[l].slots \cup DOMAIN v[n].slots
      /\ \A k \in DOMAIN v[l].slots : w[l].slots[k] = v[l].slots[k]
      /\ \A k \in DOMAIN v[n].slots : k \notin DOMAIN v[l].slots => w[l].slots[k] = v[n].slots[k]
    BY <1>1 DEF Join
<1>3. ASSUME NEW k \in DOMAIN v[n].slots PROVE k \notin DOMAIN v[l].slots
    <2>1. Inside(lo, hi, n, k) BY LeafHas
    <2>. QED BY <2>1, OneLeaf
<1>4. ASSUME NEW x \in DOMAIN lo, v[x].type = "leaf", NEW k \in DOMAIN v[x].slots
      PROVE  Ent(w, lo2, k, v[x].slots[k])
    <2>1. CASE x # l /\ x # n BY <1>1, <1>4, <2>1 DEF Ent
    <2>2. CASE x = l \/ x = n
        <3>1. l \in DOMAIN lo2 /\ k \in DOMAIN w[l].slots /\ w[l].slots[k] = v[x].slots[k]
            BY <1>2, <1>3, <1>4, <2>2
        <3>. QED BY <1>1, <3>1 DEF Ent
    <2>. QED BY <2>1, <2>2
<1>5. ASSUME NEW x \in DOMAIN lo2, w[x].type = "leaf", NEW k \in DOMAIN w[x].slots
      PROVE  Ent(v, lo, k, w[x].slots[k])
    <2>1. CASE x # l BY <1>1, <1>5, <2>1 DEF Ent
    <2>2. CASE x = l BY <1>2, <1>3, <1>5, <2>2 DEF Ent
    <2>. QED BY <2>1, <2>2
<1>. QED BY <1>4, <1>5 DEF Within
------------------------------------------------------------------------------
(***************************************************************************)
(* Sums of weights                                                         *)
(***************************************************************************)
\* t adds up c along next from each s of I as long as it is in S.
AddsUp(t, I, S, next, c) ==
    t = [s \in I |-> IF s \in S THEN c[s] + t[next[s]] ELSE 0]

\* A sum along `next' that comes down in `rank' is defined, and in one way.
LEMMA SumDefined ==
    ASSUME NEW I, NEW S \in SUBSET I, NEW next \in [S -> I], NEW rank \in [I -> Nat],
           \A p \in S : rank[next[p]] < rank[p],
           NEW w \in [S -> Nat]
    PROVE  \E d : /\ AddsUp(d, I, S, next, w) /\ d \in [I -> Nat]
                  /\ \A e : AddsUp(e, I, S, next, w) => e = d
<1>. DEFINE Upto(n) == {p \in I : rank[p] <= n}
            Ok(n, d) == /\ d \in [Upto(n) -> Nat]
                        /\ \A p \in Upto(n) : d[p] = IF p \in S THEN w[p] + d[next[p]] ELSE 0
            Bad == {n \in Nat : ~\E d : Ok(n, d)}
<1>1. \A n \in Nat : \E d : Ok(n, d)
    <2>1. SUFFICES ASSUME Bad # {} PROVE FALSE OBVIOUS
    <2>2. PICK n \in Bad : \A m \in Bad : n <= m
        <3>. HIDE DEF Ok
        <3>. QED BY <2>1, LeastNatural
    <2>3. CASE n = 0
        <3>1. \A p \in Upto(0) : p \notin S BY <2>3
        <3>2. Ok(0, [p \in Upto(0) |-> 0]) BY <3>1
        <3>. QED BY <2>2, <2>3, <3>2
    <2>4. CASE n # 0
        <3>1. n - 1 \in Nat /\ ~(n - 1 \in Bad)
            <4>. HIDE DEF Ok
            <4>. QED BY <2>2, <2>4
        <3>2. PICK c : Ok(n - 1, c) BY <3>1
        <3>. DEFINE d == [p \in Upto(n) |-> IF p \in S THEN w[p] + c[next[p]] ELSE 0]
        <3>3. \A p \in Upto(n) : p \in S => next[p] \in Upto(n - 1)
            BY <2>2
        <3>4. \A p \in Upto(n - 1) : p \in Upto(n) /\ d[p] = c[p]
            BY <2>2, <3>1, <3>2, <3>3
        <3>5. d \in [Upto(n) -> Nat] BY <3>2, <3>3
        <3>6. \A p \in Upto(n) : d[p] = IF p \in S THEN w[p] + d[next[p]] ELSE 0
            BY <3>3, <3>4
        <3>7. Ok(n, d) BY <3>5, <3>6
        <3>. HIDE DEF Ok
        <3>. QED BY <2>2, <3>7
    <2>. QED BY <2>3, <2>4
<1>2. \A n, m \in Nat : \A c, d : Ok(n, c) /\ Ok(m, d) =>
         \A p \in Upto(n) \cap Upto(m) : c[p] = d[p]
    <2>1. SUFFICES ASSUME NEW n \in Nat, NEW m \in Nat, NEW c, NEW d, Ok(n, c), Ok(m, d),
                          NEW q \in Upto(n) \cap Upto(m), c[q] # d[q]
                   PROVE FALSE
        <3>. HIDE DEF Ok, Upto
        <3>. QED OBVIOUS
    <2>. DEFINE Differ == {i \in Nat : \E p \in Upto(n) \cap Upto(m) : rank[p] = i /\ c[p] # d[p]}
    <2>2. rank[q] \in Differ BY <2>1
    <2>3. PICK i \in Differ : \A j \in Differ : i <= j BY <2>2, LeastNatural
    <2>4. PICK p \in Upto(n) \cap Upto(m) : rank[p] = i /\ c[p] # d[p] BY <2>3
    <2>5. p \in S BY <2>1, <2>4
    <2>6. next[p] \in I /\ rank[next[p]] < rank[p] BY <2>5
    <2>7. next[p] \in Upto(n) \cap Upto(m) BY <2>4, <2>6
    <2>8. c[next[p]] = d[next[p]] BY <2>3, <2>4, <2>6, <2>7
    <2>. QED BY <2>1, <2>4, <2>5, <2>8
<1>. DEFINE first(p) == CHOOSE c : Ok(rank[p], c)
            d0 == [p \in I |-> first(p)[p]]
<1>3. \A p \in I : Ok(rank[p], first(p))
    <2>. HIDE DEF Ok
    <2>. QED BY <1>1
<1>4. \A n \in Nat : \A c : Ok(n, c) => \A p \in Upto(n) : c[p] = d0[p]
    <2>1. SUFFICES ASSUME NEW n \in Nat, NEW c, Ok(n, c), NEW p \in Upto(n) PROVE c[p] = d0[p]
        OBVIOUS
    <2>2. p \in Upto(rank[p]) /\ rank[p] \in Nat OBVIOUS
    <2>3. Ok(rank[p], first(p)) BY <1>3
    <2>. HIDE DEF Ok, first
    <2>4. c[p] = first(p)[p] BY <1>2, <2>1, <2>2, <2>3
    <2>. QED BY <2>2, <2>4
<1>5. \A p \in I : d0[p] \in Nat /\ d0[p] = IF p \in S THEN w[p] + d0[next[p]] ELSE 0
    <2>1. TAKE p \in I
    <2>2. PICK c : Ok(rank[p], c) BY <1>1
    <2>3. p \in Upto(rank[p]) /\ rank[p] \in Nat OBVIOUS
    <2>4. p \in S => next[p] \in Upto(rank[p]) OBVIOUS
    <2>5. c[p] \in Nat /\ c[p] = IF p \in S THEN w[p] + c[next[p]] ELSE 0 BY <2>2, <2>3
    <2>6. \A x \in Upto(rank[p]) : c[x] = d0[x]
        <3>. HIDE DEF Ok, d0
        <3>. QED BY <1>4, <2>2, <2>3
    <2>. HIDE DEF Ok, d0
    <2>. QED BY <2>3, <2>4, <2>5, <2>6
<1>6. AddsUp(d0, I, S, next, w) /\ d0 \in [I -> Nat]
    <2>1. d0 = [p \in I |-> d0[p]] OBVIOUS
    <2>. HIDE DEF d0
    <2>2. d0 = [p \in I |-> IF p \in S THEN w[p] + d0[next[p]] ELSE 0] /\ d0 \in [I -> Nat]
        BY <1>5, <2>1
    <2>. QED BY <2>2 DEF AddsUp
<1>7. ASSUME NEW e, AddsUp(e, I, S, next, w) PROVE e = d0
    <2>0. e = [p \in I |-> IF p \in S THEN w[p] + e[next[p]] ELSE 0] BY <1>7 DEF AddsUp
    <2>. DEFINE Differ == {i \in Nat : \E p \in I : rank[p] = i /\ e[p] # d0[p]}
    <2>. HIDE DEF d0
    <2>1. ASSUME Differ # {} PROVE FALSE
        <3>3. PICK i \in Differ : \A j \in Differ : i <= j BY <2>1, LeastNatural
        <3>4. PICK p \in I : rank[p] = i /\ e[p] # d0[p] BY <3>3
        <3>5. e[p] = (IF p \in S THEN w[p] + e[next[p]] ELSE 0) BY <2>0
        <3>6. d0[p] = (IF p \in S THEN w[p] + d0[next[p]] ELSE 0) BY <1>5
        <3>7. p \in S BY <3>4, <3>5, <3>6
        <3>8. next[p] \in I /\ rank[next[p]] < rank[p] BY <3>7
        <3>9. e[next[p]] = d0[next[p]] BY <3>3, <3>4, <3>8
        <3>. QED BY <3>4, <3>5, <3>6, <3>7, <3>9
    <2>2. \A p \in I : e[p] = d0[p] BY <2>1
    <2>3. e = [p \in I |-> e[p]] BY <2>0
    <2>4. d0 = [p \in I |-> d0[p]] BY <1>6 DEF AddsUp
    <2>. QED BY <2>2, <2>3, <2>4
<1>. HIDE DEF d0
<1>. QED BY <1>6, <1>7

\* Any element, the one a sum takes first.
One(s) == CHOOSE x \in s : TRUE

\* t is the sum of the weights w over each subset of S.
Sums(t, w, S) ==
    t = [s \in SUBSET S |-> IF s = {} THEN 0 ELSE w[One(s)] + t[s \ {One(s)}]]

\* w gives each element of a finite set a weight.
Weights(w, S) == IsFiniteSet(S) /\ \A x \in S : w[x] \in Nat

\* The sum of the weights of a set.
Total(w, S) == (CHOOSE t : Sums(t, w, S))[S]

\* The sum over a finite set is defined, and in one way.
LEMMA SumsDefined ==
    ASSUME NEW w, NEW S, Weights(w, S)
    PROVE  \E t : /\ Sums(t, w, S) /\ t \in [SUBSET S -> Nat]
                  /\ \A e : Sums(e, w, S) => e = t
<1>. DEFINE I == SUBSET S
            J == I \ {{}}
            next == [s \in J |-> s \ {One(s)}]
            c == [s \in J |-> w[One(s)]]
            rank == [s \in I |-> Cardinality(s)]
<1>1. \A s \in J : One(s) \in s BY DEF One
<1>2. next \in [J -> I] /\ c \in [J -> Nat] BY <1>1 DEF Weights
<1>3. \A s \in I : IsFiniteSet(s) /\ Cardinality(s) \in Nat
    BY FS_Subset, FS_CardinalityType DEF Weights
<1>4. rank \in [I -> Nat] BY <1>3
<1>5. \A s \in J : rank[next[s]] < rank[s]
    <2>1. TAKE s \in J
    <2>2. Cardinality(s \ {One(s)}) = Cardinality(s) - 1 BY <1>1, <1>3, FS_RemoveElement
    <2>3. Cardinality(s) \in Nat BY <1>3
    <2>. QED BY <2>2, <2>3
<1>6. PICK t : /\ AddsUp(t, I, J, next, c) /\ t \in [I -> Nat]
               /\ \A e : AddsUp(e, I, J, next, c) => e = t
    <2>1. J \in SUBSET I OBVIOUS
    <2>. HIDE DEF I, J, next, c, rank
    <2>. QED BY <1>2, <1>4, <1>5, <2>1, SumDefined
<1>7. \A e : AddsUp(e, I, J, next, c) <=> Sums(e, w, S)
    <2>1. TAKE e
    <2>2. \A s \in I : (IF s \in J THEN c[s] + e[next[s]] ELSE 0)
                       = (IF s = {} THEN 0 ELSE w[One(s)] + e[s \ {One(s)}])
        OBVIOUS
    <2>. HIDE DEF J, next, c
    <2>3. [s \in I |-> IF s \in J THEN c[s] + e[next[s]] ELSE 0]
           = [s \in I |-> IF s = {} THEN 0 ELSE w[One(s)] + e[s \ {One(s)}]]
        BY <2>2
    <2>. QED BY <2>3 DEF AddsUp, Sums
<1>. HIDE DEF I, J, next, c
<1>. QED BY <1>6, <1>7 DEF I

\* Whatever function adds the weights up, it gives the sum.
LEMMA TotalIs ==
    ASSUME NEW w, NEW S, Weights(w, S), NEW t, Sums(t, w, S)
    PROVE  /\ t \in [SUBSET S -> Nat]
           /\ \A s \in SUBSET S : t[s] = Total(w, s) /\ Total(w, s) \in Nat
<1>1. PICK u : /\ Sums(u, w, S) /\ u \in [SUBSET S -> Nat]
               /\ \A e : Sums(e, w, S) => e = u
    BY SumsDefined
<1>2. t = u BY <1>1
<1>3. ASSUME NEW s \in SUBSET S PROVE t[s] = Total(w, s)
    <2>1. Weights(w, s) BY FS_Subset DEF Weights
    <2>2. PICK v : /\ Sums(v, w, s) /\ v \in [SUBSET s -> Nat]
                   /\ \A e : Sums(e, w, s) => e = v
        BY <2>1, SumsDefined
    <2>3. Sums([x \in SUBSET s |-> t[x]], w, s)
        <3>1. \A x \in SUBSET S : t[x] = IF x = {} THEN 0 ELSE w[One(x)] + t[x \ {One(x)}]
            BY DEF Sums
        <3>2. \A x \in SUBSET s : x \in SUBSET S /\ x \ {One(x)} \in SUBSET s OBVIOUS
        <3>. QED BY <3>1, <3>2 DEF Sums
    <2>4. v[s] = t[s] BY <2>2, <2>3
    <2>5. (CHOOSE e : Sums(e, w, s)) = v BY <2>2, Zenon
    <2>. QED BY <2>4, <2>5 DEF Total
<1>. QED BY <1>1, <1>2, <1>3

\* The sum over the empty set, and over any other.
LEMMA TotalOne ==
    ASSUME NEW w, NEW S, Weights(w, S)
    PROVE  /\ Total(w, S) \in Nat
           /\ S = {} => Total(w, S) = 0
           /\ S # {} => One(S) \in S /\ Total(w, S) = w[One(S)] + Total(w, S \ {One(S)})
<1>1. PICK t : Sums(t, w, S) BY SumsDefined
<1>2. t[S] = IF S = {} THEN 0 ELSE w[One(S)] + t[S \ {One(S)}] BY <1>1 DEF Sums
<1>3. \A s \in SUBSET S : t[s] = Total(w, s) /\ Total(w, s) \in Nat BY <1>1, TotalIs
<1>4. S # {} => One(S) \in S BY DEF One
<1>5. S \in SUBSET S /\ S \ {One(S)} \in SUBSET S OBVIOUS
<1>. QED BY <1>2, <1>3, <1>4, <1>5

\* The sum over a set is that of any of its elements and of the rest.
LEMMA TotalRemove ==
    ASSUME NEW w, NEW S, Weights(w, S), NEW x \in S
    PROVE  Total(w, S) = w[x] + Total(w, S \ {x})
<1>. DEFINE Wrong(T) == \E y \in T : Total(w, T) # w[y] + Total(w, T \ {y})
            Bad == {n \in Nat : \E T \in SUBSET S : Cardinality(T) = n /\ Wrong(T)}
<1>0. \A T \in SUBSET S : Weights(w, T) /\ IsFiniteSet(T) /\ Cardinality(T) \in Nat
    BY FS_Subset, FS_CardinalityType DEF Weights
<1>1. ASSUME Bad # {} PROVE FALSE
    <2>1. PICK n \in Bad : \A m \in Bad : n <= m
        <3>. HIDE DEF Wrong
        <3>. QED BY <1>1, LeastNatural
    <2>2. PICK T \in SUBSET S : Cardinality(T) = n /\ Wrong(T) BY <2>1
    <2>3. PICK y \in T : Total(w, T) # w[y] + Total(w, T \ {y}) BY <2>2
    <2>4. PICK z : z = One(T) OBVIOUS
    <2>5. z \in T /\ Total(w, T) = w[z] + Total(w, T \ {z}) BY <1>0, <2>3, <2>4, TotalOne
    <2>6. z # y BY <2>3, <2>5
    <2>7. ASSUME NEW a \in T PROVE ~Wrong(T \ {a})
        <3>1. Cardinality(T \ {a}) = Cardinality(T) - 1 BY <1>0, FS_RemoveElement
        <3>2. T \ {a} \in SUBSET S /\ Cardinality(T \ {a}) \in Nat BY <1>0
        <3>3. ~(Cardinality(T \ {a}) \in Bad)
            <4>1. n \in Nat /\ Cardinality(T) = n BY <2>1, <2>2
            <4>. HIDE DEF Bad
            <4>. QED BY <2>1, <3>1, <4>1
        <3>. HIDE DEF Wrong
        <3>. QED BY <3>2, <3>3
    <2>8. Total(w, T \ {z}) = w[y] + Total(w, (T \ {z}) \ {y}) BY <2>3, <2>5, <2>6, <2>7
    <2>9. Total(w, T \ {y}) = w[z] + Total(w, (T \ {y}) \ {z}) BY <2>3, <2>5, <2>6, <2>7
    <2>10. (T \ {z}) \ {y} = (T \ {y}) \ {z} OBVIOUS
    <2>11. w[y] \in Nat /\ w[z] \in Nat BY <2>3, <2>5 DEF Weights
    <2>12. Total(w, (T \ {y}) \ {z}) \in Nat
        <3>1. (T \ {y}) \ {z} \in SUBSET S OBVIOUS
        <3>. QED BY <1>0, <3>1, TotalOne
    <2>. QED BY <2>3, <2>5, <2>8, <2>9, <2>10, <2>11, <2>12
<1>2. ~Wrong(S)
    <2>. HIDE DEF Wrong
    <2>1. S \in SUBSET S /\ Cardinality(S) \in Nat BY <1>0
    <2>. QED BY <1>1, <2>1
<1>. QED BY <1>2

\* Two sets whose elements pair off with equal weights have equal sums.
LEMMA TotalPaired ==
    ASSUME NEW w, NEW S, Weights(w, S), NEW u, NEW f,
           \A x, y \in S : f[x] = f[y] => x = y,
           \A x \in S : u[f[x]] = w[x],
           Weights(u, {f[x] : x \in S})
    PROVE  Total(u, {f[x] : x \in S}) = Total(w, S)
<1>. DEFINE Im(T) == {f[x] : x \in T}
            Wrong(T) == Total(u, Im(T)) # Total(w, T)
            Bad == {n \in Nat : \E T \in SUBSET S : Cardinality(T) = n /\ Wrong(T)}
<1>0. \A T \in SUBSET S :
         Weights(w, T) /\ IsFiniteSet(T) /\ Cardinality(T) \in Nat /\ Weights(u, Im(T))
    <2>1. TAKE T \in SUBSET S
    <2>2. Im(T) \subseteq Im(S) OBVIOUS
    <2>. QED BY <2>2, FS_Subset, FS_CardinalityType DEF Weights
<1>1. ASSUME Bad # {} PROVE FALSE
    <2>1. PICK n \in Bad : \A m \in Bad : n <= m
        <3>. HIDE DEF Wrong
        <3>. QED BY <1>1, LeastNatural
    <2>2. PICK T \in SUBSET S : Cardinality(T) = n /\ Wrong(T) BY <2>1
    <2>3. CASE T = {}
        <3>1. Im(T) = {} BY <2>3
        <3>. QED BY <1>0, <2>2, <2>3, <3>1, TotalOne
    <2>4. CASE T # {}
        <3>1. PICK a : a \in T BY <2>4
        <3>2. Cardinality(T \ {a}) = Cardinality(T) - 1 BY <1>0, <3>1, FS_RemoveElement
        <3>3. T \ {a} \in SUBSET S /\ Cardinality(T \ {a}) \in Nat BY <1>0
        <3>4. ~(Cardinality(T \ {a}) \in Bad)
            <4>1. n \in Nat /\ Cardinality(T) = n BY <2>1, <2>2
            <4>. HIDE DEF Bad
            <4>. QED BY <2>1, <3>2, <4>1
        <3>5. Total(u, Im(T \ {a})) = Total(w, T \ {a}) BY <3>3, <3>4
        <3>6. Im(T \ {a}) = Im(T) \ {f[a]} BY <3>1
        <3>7. Total(w, T) = w[a] + Total(w, T \ {a})
            <4>1. Weights(w, T) BY <1>0
            <4>. HIDE DEF Im, Wrong, Bad
            <4>. QED BY <3>1, <4>1, TotalRemove
        <3>8. Total(u, Im(T)) = u[f[a]] + Total(u, Im(T) \ {f[a]})
            <4>1. f[a] \in Im(T) /\ Weights(u, Im(T)) BY <1>0, <3>1
            <4>. HIDE DEF Im
            <4>. QED BY <4>1, TotalRemove
        <3>9. u[f[a]] = w[a] BY <3>1
        <3>. HIDE DEF Im
        <3>. QED BY <2>2, <3>5, <3>6, <3>7, <3>8, <3>9
    <2>. QED BY <2>3, <2>4
<1>2. ~Wrong(S)
    <2>1. S \in SUBSET S /\ Cardinality(S) \in Nat BY <1>0
    <2>. HIDE DEF Wrong
    <2>. QED BY <1>1, <2>1
<1>. QED BY <1>2

\* A part weighs no more than the whole, and each of n elements that weigh b at
\* most adds b at most.
LEMMA TotalPart ==
    ASSUME NEW w, NEW S, Weights(w, S), NEW T \in SUBSET S
    PROVE  Total(w, T) <= Total(w, S) /\ Total(w, T) \in Nat /\ Total(w, S) \in Nat
<1>. DEFINE Wrong(U) == ~(Total(w, T) <= Total(w, U))
            Bad == {n \in Nat : \E U \in SUBSET S : T \subseteq U /\ Cardinality(U) = n /\ Wrong(U)}
<1>0. \A U \in SUBSET S : /\ Weights(w, U) /\ IsFiniteSet(U) /\ Cardinality(U) \in Nat
                          /\ Total(w, U) \in Nat
    BY FS_Subset, FS_CardinalityType, TotalOne DEF Weights
<1>1. ASSUME Bad # {} PROVE FALSE
    <2>1. PICK n \in Bad : \A m \in Bad : n <= m
        <3>. HIDE DEF Wrong
        <3>. QED BY <1>1, LeastNatural
    <2>2. PICK U \in SUBSET S : T \subseteq U /\ Cardinality(U) = n /\ Wrong(U) BY <2>1
    <2>3. U # T BY <1>0, <2>2
    <2>4. PICK a \in U : a \notin T BY <2>2, <2>3
    <2>5. Cardinality(U \ {a}) = Cardinality(U) - 1 BY <1>0, <2>4, FS_RemoveElement
    <2>6. U \ {a} \in SUBSET S /\ Cardinality(U \ {a}) \in Nat /\ T \subseteq U \ {a}
        BY <1>0, <2>2, <2>4
    <2>7. ~(Cardinality(U \ {a}) \in Bad)
        <3>1. n \in Nat /\ Cardinality(U) = n BY <2>1, <2>2
        <3>. HIDE DEF Bad
        <3>. QED BY <2>1, <2>5, <3>1
    <2>8. Total(w, T) <= Total(w, U \ {a}) BY <2>6, <2>7
    <2>9. Total(w, U) = w[a] + Total(w, U \ {a}) BY <1>0, <2>4, TotalRemove
    <2>10. w[a] \in Nat BY <2>4 DEF Weights
    <2>11. Total(w, U \ {a}) \in Nat /\ Total(w, T) \in Nat BY <1>0, <2>6
    <2>. QED BY <2>2, <2>8, <2>9, <2>10, <2>11
<1>2. ~Wrong(S)
    <2>1. S \in SUBSET S /\ Cardinality(S) \in Nat BY <1>0
    <2>. HIDE DEF Wrong
    <2>. QED BY <1>1, <2>1
<1>. QED BY <1>0, <1>2

\* A function that adds the weights up gives the sum over the whole set.
LEMMA TotalWhole ==
    ASSUME NEW w, NEW S, Weights(w, S), NEW t, Sums(t, w, S)
    PROVE  t[S] = Total(w, S)
<1>1. \A s \in SUBSET S : t[s] = Total(w, s) /\ Total(w, s) \in Nat BY TotalIs
<1>. QED BY <1>1

\* Equal weights have equal sums.
LEMMA TotalSame ==
    ASSUME NEW w, NEW S, Weights(w, S), NEW u, \A x \in S : u[x] = w[x]
    PROVE  Total(u, S) = Total(w, S)
<1>1. PICK f : f = [x \in S |-> x] OBVIOUS
<1>2. \A x \in S : f[x] = x BY <1>1
<1>3. {f[x] : x \in S} = S BY <1>2
<1>4. Weights(u, S) BY DEF Weights
<1>5. PICK I : I = {f[x] : x \in S} OBVIOUS
<1>6. /\ \A x, y \in S : f[x] = f[y] => x = y
      /\ \A x \in S : u[f[x]] = w[x]
    BY <1>2
<1>7. Weights(u, {f[x] : x \in S}) BY <1>3, <1>4
<1>8. Total(u, {f[x] : x \in S}) = Total(w, S) BY <1>6, <1>7, TotalPaired
<1>. QED BY <1>3, <1>8
------------------------------------------------------------------------------
(***************************************************************************)
(* The room in a leaf                                                      *)
(***************************************************************************)
\* The entries of a leaf.
Entries(f) == DOMAIN f \subseteq Keys /\ \A k \in DOMAIN f : f[k] \in Vals

\* The bytes each entry takes.
LeafWeights(f) == [k \in DOMAIN f |-> Weight[f[k]]]

\* The entries of a leaf have weights.
LEMMA EntriesWeigh ==
    ASSUME NEW f, Entries(f)
    PROVE  Weights(LeafWeights(f), DOMAIN f) /\ \A k \in DOMAIN f : LeafWeights(f)[k] = Weight[f[k]]
BY KeysFinite, RoomAssumption DEF Entries, Weights, LeafWeights

\* LeafRoom is what the entries leave of LeafCap.
LEMMA RoomIs ==
    ASSUME NEW f, Entries(f)
    PROVE  LeafRoom(f) = LeafCap - Total(LeafWeights(f), DOMAIN f)
<1>0. PICK S, w : S = DOMAIN f /\ w = LeafWeights(f) OBVIOUS
<1>. DEFINE Iter(e) == e = [s \in SUBSET S |->
                              IF s = {} THEN 0
                              ELSE Weight[f[CHOOSE x \in s : TRUE]] + e[s \ {CHOOSE x \in s : TRUE}]]
<1>1. Weights(w, S) /\ \A k \in S : w[k] = Weight[f[k]] BY <1>0, EntriesWeigh
<1>2. \A e : Iter(e) <=> Sums(e, w, S)
    <2>1. TAKE e
    <2>2. \A s \in SUBSET S : s # {} => (CHOOSE x \in s : TRUE) \in S OBVIOUS
    <2>. QED BY <1>1, <2>2 DEF Sums, One
<1>3. PICK t : Sums(t, w, S) /\ \A e : Sums(e, w, S) => e = t BY <1>1, SumsDefined
<1>4. t[S] = Total(w, S)
    <2>1. S \in SUBSET S OBVIOUS
    <2>2. Sums(t, w, S) /\ Weights(w, S) BY <1>1, <1>3
    <2>. HIDE DEF Iter
    <2>. QED BY <2>2, TotalWhole
<1>5. \A e : Iter(e) => e = t BY <1>2, <1>3
<1>6. Iter(t) BY <1>2, <1>3
<1>7. PICK c : c = CHOOSE e : Iter(e) OBVIOUS
<1>8. c = t
    <2>. HIDE DEF Iter
    <2>. QED BY <1>5, <1>6, <1>7, Zenon
<1>9. LeafRoom(f) = LeafCap - c[S]
    <2>. QED BY <1>0, <1>7, Zenon DEF LeafRoom, MapThenSumSet, MapThenFoldSet
<1>. QED BY <1>0, <1>4, <1>8, <1>9

\* LeafRoom is a number, not above LeafCap.
LEMMA RoomType ==
    ASSUME NEW f, Entries(f)
    PROVE  LeafRoom(f) \in Int /\ LeafRoom(f) <= LeafCap
<1>1. Weights(LeafWeights(f), DOMAIN f) BY EntriesWeigh
<1>2. Total(LeafWeights(f), DOMAIN f) \in Nat BY <1>1, TotalOne
<1>. QED BY <1>2, RoomIs, RoomAssumption

\* A leaf with some of the entries of f has no less room.
LEMMA RoomPart ==
    ASSUME NEW f, Entries(f), NEW g, DOMAIN g \subseteq DOMAIN f, \A k \in DOMAIN g : g[k] = f[k]
    PROVE  Entries(g) /\ LeafRoom(f) <= LeafRoom(g)
<1>1. Entries(g) BY DEF Entries
<1>2. PICK D, E, u, w : /\ D = DOMAIN f /\ E = DOMAIN g
                        /\ w = LeafWeights(f) /\ u = LeafWeights(g)
    OBVIOUS
<1>3. Weights(w, D) /\ Weights(u, E) /\ \A k \in E : w[k] = u[k]
    BY <1>1, <1>2, EntriesWeigh
<1>4. E \in SUBSET D BY <1>2
<1>5. Total(w, E) <= Total(w, D) /\ Total(w, E) \in Nat /\ Total(w, D) \in Nat
    BY <1>3, <1>4, TotalPart
<1>6. Total(w, E) = Total(u, E) BY <1>3, TotalSame
<1>7. LeafRoom(f) = LeafCap - Total(w, D) /\ LeafRoom(g) = LeafCap - Total(u, E)
    BY <1>1, <1>2, RoomIs
<1>. QED BY <1>1, <1>5, <1>6, <1>7, RoomAssumption

\* An entry that goes gives its room back.
LEMMA RoomWithout ==
    ASSUME NEW f, Entries(f), NEW k \in DOMAIN f
    PROVE  /\ Entries(Without(f, k)) /\ Weight[f[k]] \in Nat
           /\ LeafRoom(Without(f, k)) = LeafRoom(f) + Weight[f[k]]
<1>1. PICK g : g = Without(f, k) OBVIOUS
<1>2. DOMAIN g = DOMAIN f \ {k} /\ \A j \in DOMAIN g : g[j] = f[j] BY <1>1 DEF Without
<1>3. Entries(g) BY <1>2 DEF Entries
<1>4. PICK D, u, w : D = DOMAIN f /\ w = LeafWeights(f) /\ u = LeafWeights(g)
    OBVIOUS
<1>5. /\ Weights(w, D) /\ Weights(u, D \ {k}) /\ k \in D /\ w[k] = Weight[f[k]]
      /\ \A j \in D \ {k} : w[j] = u[j]
    BY <1>2, <1>3, <1>4, EntriesWeigh
<1>6. Total(w, D) = w[k] + Total(w, D \ {k}) BY <1>5, TotalRemove
<1>7. Total(w, D \ {k}) = Total(u, D \ {k}) BY <1>5, TotalSame
<1>8. LeafRoom(f) = LeafCap - Total(w, D) /\ LeafRoom(g) = LeafCap - Total(u, D \ {k})
    BY <1>2, <1>3, <1>4, RoomIs
<1>9. Total(w, D) \in Nat /\ Total(u, D \ {k}) \in Nat BY <1>5, TotalOne
<1>10. Weight[f[k]] \in Nat BY RoomAssumption DEF Entries
<1>. QED BY <1>1, <1>3, <1>5, <1>6, <1>7, <1>8, <1>9, <1>10, RoomAssumption

\* An entry that comes takes its room.
LEMMA RoomWith ==
    ASSUME NEW f, Entries(f), NEW k \in Keys, k \notin DOMAIN f, NEW d \in Vals
    PROVE  /\ Entries(With(f, k, d)) /\ Weight[d] \in Nat
           /\ LeafRoom(With(f, k, d)) = LeafRoom(f) - Weight[d]
<1>1. PICK g : g = With(f, k, d) OBVIOUS
<1>2. DOMAIN g = DOMAIN f \cup {k} /\ g[k] = d /\ \A j \in DOMAIN f : g[j] = f[j]
    BY <1>1 DEF With
<1>3. Entries(g) BY <1>2 DEF Entries
<1>4. PICK h : h = Without(g, k) OBVIOUS
<1>5. DOMAIN h = DOMAIN f /\ \A j \in DOMAIN f : h[j] = f[j] BY <1>2, <1>4 DEF Without
<1>6. Entries(h) /\ Weight[g[k]] \in Nat /\ LeafRoom(h) = LeafRoom(g) + Weight[g[k]]
    BY <1>2, <1>3, <1>4, RoomWithout
<1>7. LeafRoom(h) <= LeafRoom(f)
    <2>1. DOMAIN f \subseteq DOMAIN h /\ \A j \in DOMAIN f : f[j] = h[j] BY <1>5
    <2>. QED BY <1>6, <2>1, RoomPart
<1>8. LeafRoom(f) <= LeafRoom(h)
    <2>1. DOMAIN h \subseteq DOMAIN f /\ \A j \in DOMAIN h : h[j] = f[j] BY <1>5
    <2>. QED BY <2>1, RoomPart
<1>9. LeafRoom(f) \in Int /\ LeafRoom(g) \in Int /\ LeafRoom(h) \in Int BY <1>3, <1>6, RoomType
<1>. QED BY <1>1, <1>2, <1>3, <1>6, <1>7, <1>8, <1>9

\* An empty leaf has all the room.
LEMMA RoomNone == Entries(NoSlots) /\ LeafRoom(NoSlots) = LeafCap
<1>1. DOMAIN NoSlots = {} BY DEF NoSlots
<1>2. Entries(NoSlots) BY <1>1 DEF Entries
<1>3. Total(LeafWeights(NoSlots), DOMAIN NoSlots) = 0 BY <1>1, <1>2, EntriesWeigh, TotalOne
<1>. QED BY <1>2, <1>3, RoomIs, RoomAssumption

\* Entries of which no two have one key.
Items(items) ==
    /\ IsFiniteSet(items)
    /\ \A i \in items : i.key \in Keys /\ i.data \in Vals
    /\ \A i, j \in items : i.key = j.key => i = j

\* Fits asks whether the entries weigh no more than LeafCap.
LEMMA FitsIs ==
    ASSUME NEW items, Items(items), NEW w, \A i \in items : w[i] = Weight[i.data]
    PROVE  Weights(w, items) /\ (Fits("leaf", items) <=> Total(w, items) <= LeafCap)
<1>. DEFINE Iter(e) == e = [s \in SUBSET items |->
                              IF s = {} THEN 0
                              ELSE Weight[(CHOOSE x \in s : TRUE).data] + e[s \ {CHOOSE x \in s : TRUE}]]
<1>1. Weights(w, items) BY RoomAssumption DEF Items, Weights
<1>2. \A e : Iter(e) <=> Sums(e, w, items)
    <2>1. TAKE e
    <2>2. \A s \in SUBSET items : s # {} => (CHOOSE x \in s : TRUE) \in items OBVIOUS
    <2>. QED BY <2>2 DEF Sums, One
<1>3. PICK t : Sums(t, w, items) /\ \A e : Sums(e, w, items) => e = t BY <1>1, SumsDefined
<1>4. t[items] = Total(w, items)
    <2>1. Sums(t, w, items) BY <1>3
    <2>. HIDE DEF Iter
    <2>. QED BY <1>1, <2>1, TotalWhole
<1>5. \A e : Iter(e) => e = t BY <1>2, <1>3
<1>6. Iter(t) BY <1>2, <1>3
<1>7. PICK c : c = CHOOSE e : Iter(e) OBVIOUS
<1>8. c = t
    <2>. HIDE DEF Iter
    <2>. QED BY <1>5, <1>6, <1>7, Zenon
<1>9. Fits("leaf", items) <=> c[items] <= LeafCap
    BY <1>7, Zenon DEF Fits, MapThenSumSet, MapThenFoldSet
<1>. QED BY <1>1, <1>4, <1>8, <1>9

\* The slots that are built from entries have their keys and their values.
LEMMA SlotsOfItems ==
    ASSUME NEW items, Items(items)
    PROVE  /\ Entries(SlotsOf(items)) /\ DOMAIN SlotsOf(items) = {i.key : i \in items}
           /\ \A i \in items : i.key \in DOMAIN SlotsOf(items) /\ SlotsOf(items)[i.key] = i.data
<1>1. \A i \in items : (CHOOSE j \in items : j.key = i.key) = i BY DEF Items
<1>. QED BY <1>1 DEF Items, SlotsOf, Entries

\* Entries fit an empty leaf if and only if the leaf they make has room left.
LEMMA FitsRoom ==
    ASSUME NEW items, Items(items)
    PROVE  Fits("leaf", items) <=> LeafRoom(SlotsOf(items)) >= 0
<1>1. PICK w, key : w = [i \in items |-> Weight[i.data]] /\ key = [i \in items |-> i.key] OBVIOUS
<1>2. \A i \in items : w[i] = Weight[i.data] /\ key[i] = i.key BY <1>1
<1>3. Weights(w, items) /\ (Fits("leaf", items) <=> Total(w, items) <= LeafCap) BY <1>2, FitsIs
<1>4. PICK g : g = SlotsOf(items) OBVIOUS
<1>5. /\ Entries(g) /\ DOMAIN g = {i.key : i \in items}
      /\ \A i \in items : i.key \in DOMAIN g /\ g[i.key] = i.data
    BY <1>4, SlotsOfItems
<1>6. PICK u : u = LeafWeights(g) OBVIOUS
<1>7. Weights(u, DOMAIN g) /\ \A k \in DOMAIN g : u[k] = Weight[g[k]] BY <1>5, <1>6, EntriesWeigh
<1>8. DOMAIN g = {key[i] : i \in items} BY <1>2, <1>5
<1>9. \A i \in items : u[key[i]] = w[i] BY <1>2, <1>5, <1>7
<1>10. \A i, j \in items : key[i] = key[j] => i = j BY <1>2 DEF Items
<1>11. Weights(u, {key[i] : i \in items}) BY <1>7, <1>8
<1>12. Total(u, {key[i] : i \in items}) = Total(w, items) BY <1>3, <1>9, <1>10, <1>11, TotalPaired
<1>13. LeafRoom(g) = LeafCap - Total(u, DOMAIN g) BY <1>5, <1>6, RoomIs
<1>14. Total(u, DOMAIN g) \in Nat BY <1>7, TotalOne
<1>. QED BY <1>3, <1>4, <1>8, <1>12, <1>13, <1>14, RoomAssumption
------------------------------------------------------------------------------
(***************************************************************************)
(* The halves of a page that is split                                      *)
(***************************************************************************)
\* The lower half of a page with a new entry, as SplitLeaf and SplitInternal take it.
Lower(f, k, d) == {i \in Sorted(f, k, d) : i.pos < (Cardinality(DOMAIN f) + 1) \div 2}
\* The upper half.
Upper(f, k, d) == Sorted(f, k, d) \ Lower(f, k, d)

\* The entries of a page, each at its place.
Placed(g) == {Entry(j, g[j], Rank(g, j)) : j \in DOMAIN g}

\* A new key moves the greater ones by one place.
LEMMA RankAdds ==
    ASSUME NEW f, DOMAIN f \subseteq Keys, NEW k \in Keys, k \notin DOMAIN f, NEW g,
           DOMAIN g = DOMAIN f \cup {k}, NEW j \in DOMAIN f
    PROVE  Rank(g, j) = Rank(f, j) + (IF k < j THEN 1 ELSE 0)
<1>1. PICK A, B : A = {i \in DOMAIN f : i < j} /\ B = {i \in DOMAIN g : i < j} OBVIOUS
<1>2. IsFiniteSet(A) /\ Cardinality(A) \in Nat
    <2>1. A \in SUBSET Keys BY <1>1
    <2>. QED BY <2>1, KeysFinite, FS_CardinalityType
<1>3. CASE k < j
    <2>1. B = A \cup {k} /\ k \notin A BY <1>1, <1>3
    <2>2. Cardinality(A \cup {k}) = Cardinality(A) + 1 BY <1>2, <2>1, FS_AddElement
    <2>. QED BY <1>1, <1>3, <2>1, <2>2 DEF Rank
<1>4. CASE ~(k < j)
    <2>1. B = A BY <1>1, <1>4
    <2>. QED BY <1>1, <1>2, <1>4, <2>1 DEF Rank
<1>. QED BY <1>3, <1>4

\* Sorted is the page with the new entry, each entry at its place.
LEMMA SortedIs ==
    ASSUME NEW f, DOMAIN f \subseteq Keys, NEW k \in Keys, k \notin DOMAIN f, NEW d
    PROVE  Sorted(f, k, d) = Placed(With(f, k, d))
<1>1. PICK g : g = With(f, k, d) OBVIOUS
<1>2. DOMAIN g = DOMAIN f \cup {k} /\ g[k] = d /\ \A j \in DOMAIN f : g[j] = f[j]
    BY <1>1 DEF With
<1>3. \A j \in DOMAIN f : Rank(g, j) = Rank(f, j) + (IF k < j THEN 1 ELSE 0)
    BY <1>2, RankAdds
<1>4. Rank(g, k) = Rank(f, k + 1)
    <2>1. \A i \in DOMAIN f : i \in Nat /\ i # k BY KeysNat
    <2>2. k \in Nat BY KeysNat
    <2>3. {i \in DOMAIN g : i < k} = {i \in DOMAIN f : i < k + 1} BY <1>2, <2>1, <2>2
    <2>. QED BY <2>3 DEF Rank
<1>5. \A j \in DOMAIN f : Entry(j, g[j], Rank(g, j))
                          = Entry(j, f[j], Rank(f, j) + (IF k < j THEN 1 ELSE 0))
    BY <1>2, <1>3
<1>6. Entry(k, g[k], Rank(g, k)) = Entry(k, d, Rank(f, k + 1)) BY <1>2, <1>4
<1>7. Placed(g) = {Entry(j, g[j], Rank(g, j)) : j \in DOMAIN f} \cup {Entry(k, g[k], Rank(g, k))}
    BY <1>2 DEF Placed
<1>8. {Entry(j, g[j], Rank(g, j)) : j \in DOMAIN f}
        = {Entry(j, f[j], Rank(f, j) + (IF k < j THEN 1 ELSE 0)) : j \in DOMAIN f}
    BY <1>5
<1>. QED BY <1>1, <1>6, <1>7, <1>8 DEF Sorted

\* The positions are in the order of the keys.
LEMMA RankOrder ==
    ASSUME NEW g, DOMAIN g \subseteq Keys, NEW i \in DOMAIN g, NEW j \in DOMAIN g, i < j
    PROVE  Rank(g, i) < Rank(g, j) /\ Rank(g, i) \in Nat /\ Rank(g, j) \in Nat
<1>1. PICK A, B : A = {x \in DOMAIN g : x < i} /\ B = {x \in DOMAIN g : x < j} OBVIOUS
<1>2. \A x \in DOMAIN g : x \in Nat BY KeysNat
<1>3. A \subseteq B /\ i \in B /\ i \notin A BY <1>1, <1>2
<1>4. IsFiniteSet(B) /\ IsFiniteSet(A) /\ Cardinality(A) \in Nat /\ Cardinality(B) \in Nat
    <2>1. A \in SUBSET Keys /\ B \in SUBSET Keys BY <1>1
    <2>. QED BY <2>1, KeysFinite, FS_CardinalityType
<1>5. Cardinality(A \cup {i}) = Cardinality(A) + 1 BY <1>3, <1>4, FS_AddElement
<1>6. Cardinality(A \cup {i}) <= Cardinality(B)
    <2>1. A \cup {i} \subseteq B BY <1>3
    <2>. QED BY <1>4, <2>1, FS_Subset
<1>. QED BY <1>1, <1>4, <1>5, <1>6 DEF Rank

\* The entries of Placed: one for each key, in the order of the keys.
LEMMA PlacedAre ==
    ASSUME NEW g, DOMAIN g \subseteq Keys
    PROVE  /\ \A i \in Placed(g) : /\ i.key \in DOMAIN g /\ i.data = g[i.key]
                                   /\ i.pos = Rank(g, i.key) /\ i.pos \in Nat
           /\ \A j \in DOMAIN g : \E i \in Placed(g) : i.key = j
           /\ \A i, j \in Placed(g) : /\ i.key = j.key => i = j
                                      /\ (i.pos < j.pos) = (i.key < j.key)
<1>1. \A i \in Placed(g) : /\ i.key \in DOMAIN g /\ i.data = g[i.key]
                           /\ i.pos = Rank(g, i.key) /\ i = Entry(i.key, g[i.key], Rank(g, i.key))
    BY DEF Placed, Entry
<1>2. \A j \in DOMAIN g : Rank(g, j) \in Nat BY RankNat
<1>3. \A j \in DOMAIN g : \E i \in Placed(g) : i.key = j
    <2>1. TAKE j \in DOMAIN g
    <2>2. Entry(j, g[j], Rank(g, j)) \in Placed(g) BY DEF Placed
    <2>3. Entry(j, g[j], Rank(g, j)).key = j BY DEF Entry
    <2>. QED BY <2>2, <2>3
<1>4. ASSUME NEW i \in Placed(g), NEW j \in Placed(g)
      PROVE  (i.pos < j.pos) = (i.key < j.key)
    <2>1. i.key \in DOMAIN g /\ j.key \in DOMAIN g /\ i.key \in Nat /\ j.key \in Nat
        BY <1>1, KeysNat
    <2>2. i.pos = Rank(g, i.key) /\ j.pos = Rank(g, j.key) BY <1>1
    <2>3. CASE i.key < j.key BY <2>1, <2>2, <2>3, RankOrder
    <2>4. CASE j.key < i.key
        <3>1. Rank(g, j.key) < Rank(g, i.key) /\ Rank(g, i.key) \in Nat /\ Rank(g, j.key) \in Nat
            BY <2>1, <2>4, RankOrder
        <3>. QED BY <2>1, <2>2, <2>4, <3>1
    <2>5. CASE i.key = j.key BY <1>2, <2>1, <2>2, <2>5
    <2>. QED BY <2>1, <2>3, <2>4, <2>5
<1>. QED BY <1>1, <1>2, <1>3, <1>4

\* First finds the entry at the least place.
LEMMA FirstLeast ==
    ASSUME NEW items, items # {}, \A i \in items : i.pos \in Nat
    PROVE  First(items) \in items /\ \A j \in items : First(items).pos <= j.pos
<1>. DEFINE P == {n \in Nat : \E i \in items : i.pos = n}
<1>1. PICK n \in P : \A m \in P : n <= m
    <2>. P # {} OBVIOUS
    <2>. QED BY LeastNatural
<1>2. PICK i \in items : i.pos = n OBVIOUS
<1>3. \A j \in items : i.pos <= j.pos BY <1>1, <1>2
<1>. QED BY <1>3 DEF First

\* A page is rebuilt with the entries it is given.
LEMMA SlotsOfPart ==
    ASSUME NEW g, DOMAIN g \subseteq Keys, NEW P \in SUBSET DOMAIN g,
           NEW items, items = {i \in Placed(g) : i.key \in P}
    PROVE  SlotsOf(items) = [j \in P |-> g[j]]
<1>1. {i.key : i \in items} = P BY PlacedAre
<1>2. \A j \in P : (CHOOSE i \in items : i.key = j).data = g[j] BY <1>1, PlacedAre
<1>. QED BY <1>1, <1>2 DEF SlotsOf

\* g is the page f with the new entry and m the entry it is split at.
SplitBy(f, k, d, g, m) == g = With(f, k, d) /\ m = First(Upper(f, k, d))

\* What the halves of a page that is split are: the keys below the first of the upper
\* half and the others.
Halved(f, k, d, g, m) ==
    /\ DOMAIN g = DOMAIN f \cup {k} /\ g[k] = d /\ \A j \in DOMAIN f : g[j] = f[j]
    /\ m \in Upper(f, k, d) /\ m \in Placed(g)
    /\ m.key \in DOMAIN g /\ m.data = g[m.key]
    /\ Sorted(f, k, d) = Placed(g)
    /\ \A i : i \in Lower(f, k, d) <=> i \in Placed(g) /\ i.key < m.key
    /\ \A i : i \in Upper(f, k, d) <=> i \in Placed(g) /\ m.key <= i.key
    /\ \A i : i \in Upper(f, k, d) \ {m} <=> i \in Placed(g) /\ m.key < i.key
    /\ DOMAIN f # {} => \E j \in DOMAIN g : j < m.key

\* Whatever page is split, the halves are as Halved says.
LEMMA Halves ==
    ASSUME NEW f, DOMAIN f \subseteq Keys, NEW k \in Keys, k \notin DOMAIN f, NEW d,
           NEW g, NEW m, SplitBy(f, k, d, g, m)
    PROVE  Halved(f, k, d, g, m)
<1>0. g = With(f, k, d) /\ m = First(Upper(f, k, d)) BY DEF SplitBy
<1>1. DOMAIN g = DOMAIN f \cup {k} /\ g[k] = d /\ \A j \in DOMAIN f : g[j] = f[j]
    BY <1>0 DEF With
<1>2. Sorted(f, k, d) = Placed(g) BY <1>0, SortedIs
<1>3. DOMAIN g \subseteq Keys BY <1>1
<1>4. PICK c, h : c = Cardinality(DOMAIN f) /\ h = (c + 1) \div 2 OBVIOUS
<1>5. c \in Nat BY <1>4, KeysFinite, FS_CardinalityType
<1>6. h \in Nat /\ h <= c /\ (c > 0 => h > 0) BY <1>4, <1>5
<1>7. PICK L, U : L = Lower(f, k, d) /\ U = Upper(f, k, d) OBVIOUS
<1>8. L = {i \in Placed(g) : i.pos < h} /\ U = {i \in Placed(g) : h <= i.pos}
    <2>1. \A i \in Placed(g) : i.pos \in Nat BY <1>3, PlacedAre
    <2>2. L = {i \in Placed(g) : i.pos < h} /\ U = Placed(g) \ L
        BY <1>2, <1>4, <1>7 DEF Lower, Upper
    <2>. QED BY <1>6, <2>1, <2>2
<1>9. /\ \A i \in Placed(g) : /\ i.key \in DOMAIN g /\ i.data = g[i.key] /\ i.key \in Nat
                              /\ i.pos = Rank(g, i.key) /\ i.pos \in Nat
      /\ \A i, j \in Placed(g) : /\ i.key = j.key => i = j
                                 /\ (i.pos < j.pos) = (i.key < j.key)
    BY <1>3, PlacedAre, KeysNat
<1>10. PICK e \in Placed(g) : e.pos = c
    <2>1. PICK x \in Sorted(f, k, d) : x.pos = c BY <1>4, LastEntry
    <2>. QED BY <1>2, <2>1
<1>11. U # {} /\ \A i \in U : i.pos \in Nat BY <1>5, <1>6, <1>8, <1>9, <1>10
<1>12. m \in U /\ \A i \in U : m.pos <= i.pos BY <1>0, <1>7, <1>11, FirstLeast
<1>13. m \in Placed(g) /\ h <= m.pos BY <1>8, <1>12
<1>14. \A i \in Placed(g) : (i.pos < m.pos) = (i.key < m.key) /\ (m.pos < i.pos) = (m.key < i.key)
    BY <1>9, <1>13
<1>15. \A i \in Placed(g) : i.pos < h <=> i.pos < m.pos
    BY <1>6, <1>8, <1>9, <1>12, <1>13
<1>16. L = {i \in Placed(g) : i.key < m.key} BY <1>8, <1>14, <1>15
<1>17. U = {i \in Placed(g) : m.key <= i.key}
    <2>1. \A i \in Placed(g) : h <= i.pos <=> ~(i.pos < h) BY <1>6, <1>9
    <2>2. \A i \in Placed(g) : m.key <= i.key <=> ~(i.key < m.key) BY <1>9, <1>13
    <2>. QED BY <1>8, <1>14, <1>15, <2>1, <2>2
<1>18. U \ {m} = {i \in Placed(g) : m.key < i.key} BY <1>9, <1>13, <1>17
<1>19. DOMAIN f # {} => \E j \in DOMAIN g : j < m.key
    <2>1. ASSUME DOMAIN f # {} PROVE \E j \in DOMAIN g : j < m.key
        <3>1. PICK j \in DOMAIN g : \A i \in DOMAIN g : j <= i
            <4>1. DOMAIN g \in SUBSET Nat /\ DOMAIN g # {} BY <1>1, <1>3, KeysNat
            <4>. QED BY <4>1, LeastNatural
        <3>2. {i \in DOMAIN g : i < j} = {}
            <4>1. \A i \in DOMAIN g : i \in Nat BY <1>3, KeysNat
            <4>. QED BY <3>1, <4>1
        <3>3. Rank(g, j) = 0 BY <3>2, FS_EmptySet DEF Rank
        <3>4. c > 0 BY <1>4, <1>5, <2>1, KeysFinite, FS_EmptySet
        <3>5. PICK i \in Placed(g) : i.key = j BY <1>3, PlacedAre
        <3>6. i.pos < h BY <1>6, <1>9, <3>3, <3>4, <3>5
        <3>. QED BY <1>14, <1>15, <3>5, <3>6
    <2>. QED BY <2>1
<1>. QED BY <1>1, <1>2, <1>7, <1>9, <1>12, <1>13, <1>16, <1>17, <1>18, <1>19 DEF Halved

\* A page has no more entries than keys.
LEMMA PlacedFinite ==
    ASSUME NEW g, DOMAIN g \subseteq Keys
    PROVE  /\ IsFiniteSet(Placed(g)) /\ Cardinality(Placed(g)) <= Cardinality(DOMAIN g)
           /\ Cardinality(Placed(g)) \in Nat
<1>1. PICK D, P, e : /\ D = DOMAIN g /\ P = Placed(g)
                     /\ e = [j \in DOMAIN g |-> Entry(j, g[j], Rank(g, j))]
    OBVIOUS
<1>2. \A i \in P : \E j \in D : e[j] = i BY <1>1 DEF Placed
<1>3. e \in [D -> P] BY <1>1 DEF Placed
<1>4. IsFiniteSet(D) BY <1>1, KeysFinite
<1>5. e \in Surjection(D, P) BY <1>2, <1>3 DEF Surjection
<1>. QED BY <1>1, <1>4, <1>5, FS_Surjection, FS_CardinalityType

\* Entries that fit are all inserted into an emptied leaf.
LEMMA LoadedLeaf ==
    ASSUME NEW items, Items(items), Fits("leaf", items)
    PROVE  Loaded("leaf", items) = items
<1>1. PICK w : w = [i \in items |-> Weight[i.data]] OBVIOUS
<1>2. \A i \in items : w[i] = Weight[i.data] BY <1>1
<1>3. Weights(w, items) /\ (Fits("leaf", items) <=> Total(w, items) <= LeafCap) BY <1>2, FitsIs
<1>4. ASSUME NEW i \in items
      PROVE  LET upto == {j \in items : j.pos <= i.pos}
             IN  (\A a, b \in upto : a.key = b.key => a = b) /\ Fits("leaf", upto)
    <2>1. PICK U : U = {j \in items : j.pos <= i.pos} OBVIOUS
    <2>2. U \in SUBSET items BY <2>1
    <2>3. Items(U) BY <2>2, FS_Subset DEF Items
    <2>4. \A j \in U : w[j] = Weight[j.data] BY <1>2, <2>2
    <2>5. Weights(w, U) /\ (Fits("leaf", U) <=> Total(w, U) <= LeafCap) BY <2>3, <2>4, FitsIs
    <2>6. Total(w, U) <= Total(w, items) /\ Total(w, U) \in Nat /\ Total(w, items) \in Nat
        BY <1>3, <2>2, TotalPart
    <2>7. Fits("leaf", U) BY <1>3, <2>5, <2>6, RoomAssumption
    <2>8. \A a, b \in U : a.key = b.key => a = b BY <2>3 DEF Items
    <2>. QED BY <2>1, <2>7, <2>8
<1>. QED BY <1>4 DEF Loaded

\* Separators that fit are all inserted into an emptied internal page.
LEMMA LoadedInternal ==
    ASSUME NEW items, IsFiniteSet(items), Cardinality(items) <= MaxSeps,
           \A i, j \in items : i.key = j.key => i = j
    PROVE  Loaded("internal", items) = items
<1>1. ASSUME NEW i \in items
      PROVE  LET upto == {j \in items : j.pos <= i.pos}
             IN  (\A a, b \in upto : a.key = b.key => a = b) /\ Fits("internal", upto)
    <2>1. PICK U : U = {j \in items : j.pos <= i.pos} OBVIOUS
    <2>2. U \in SUBSET items BY <2>1
    <2>3. /\ Cardinality(U) <= Cardinality(items) /\ Cardinality(U) \in Nat
          /\ Cardinality(items) \in Nat
        BY <2>2, FS_Subset, FS_CardinalityType
    <2>4. Fits("internal", U) BY <2>3, RoomAssumption DEF Fits
    <2>. QED BY <2>1, <2>2, <2>4
<1>. QED BY <1>1 DEF Loaded

\* Both halves of an internal page fit when the median has moved up.
LEMMA HalvesLoaded ==
    ASSUME NEW f, DOMAIN f \subseteq Keys, Cardinality(DOMAIN f) <= MaxSeps,
           NEW k \in Keys, k \notin DOMAIN f, NEW d,
           NEW g, NEW m, SplitBy(f, k, d, g, m),
           NEW S, S = Lower(f, k, d) \/ S = Upper(f, k, d) \ {m}
    PROVE  Loaded("internal", S) = S /\ Cardinality(S) <= MaxSeps
<1>1. /\ DOMAIN g = DOMAIN f \cup {k} /\ m \in Placed(g) /\ m \notin Lower(f, k, d)
      /\ Lower(f, k, d) \subseteq Placed(g) /\ Upper(f, k, d) \subseteq Placed(g)
    <2>1. /\ DOMAIN g = DOMAIN f \cup {k} /\ m \in Upper(f, k, d) /\ m \in Placed(g)
          /\ Sorted(f, k, d) = Placed(g)
        <3>1. Halved(f, k, d, g, m) BY Halves
        <3>. QED BY <3>1 DEF Halved
    <2>. QED BY <2>1 DEF Upper, Lower
<1>2. DOMAIN g \subseteq Keys BY <1>1
<1>3. S \subseteq Placed(g) \ {m} BY <1>1
<1>4. /\ IsFiniteSet(Placed(g)) /\ Cardinality(Placed(g)) <= Cardinality(DOMAIN g)
      /\ Cardinality(Placed(g)) \in Nat
    BY <1>2, PlacedFinite
<1>5. Cardinality(DOMAIN g) = Cardinality(DOMAIN f) + 1 /\ Cardinality(DOMAIN f) \in Nat
    BY <1>1, KeysFinite, FS_AddElement, FS_CardinalityType
<1>6. Cardinality(Placed(g) \ {m}) = Cardinality(Placed(g)) - 1 /\ IsFiniteSet(Placed(g) \ {m})
    BY <1>1, <1>4, FS_RemoveElement
<1>7. IsFiniteSet(S) /\ Cardinality(S) <= Cardinality(Placed(g) \ {m}) /\ Cardinality(S) \in Nat
    BY <1>3, <1>6, FS_Subset, FS_CardinalityType
<1>8. Cardinality(S) <= MaxSeps BY <1>4, <1>5, <1>6, <1>7, RoomAssumption
<1>9. \A i, j \in S : i.key = j.key => i = j BY <1>2, <1>3, PlacedAre
<1>. QED BY <1>7, <1>8, <1>9, LoadedInternal

\* The halves of a leaf that overflows fit a page each, wherever the median falls.
SplitsFit ==
    \A D \in SUBSET Keys : \A f \in [D -> Vals], k \in Keys \ D, d \in Vals :
        LeafRoom(f) \in 0..(Weight[d] - 1) =>
            Fits("leaf", Lower(f, k, d)) /\ Fits("leaf", Upper(f, k, d))

\* The slots below, from and above a separator.
Below(g, s) == [j \in {i \in DOMAIN g : i < s} |-> g[j]]
From(g, s) == [j \in {i \in DOMAIN g : s <= i} |-> g[j]]
Above(g, s) == [j \in {i \in DOMAIN g : s < i} |-> g[j]]

\* The halves of a page as the slots of two pages.
LEMMA HalvesSlots ==
    ASSUME NEW f, DOMAIN f \subseteq Keys, NEW k \in Keys, k \notin DOMAIN f, NEW d,
           NEW g, NEW m, SplitBy(f, k, d, g, m)
    PROVE  /\ SlotsOf(Lower(f, k, d)) = Below(g, m.key)
           /\ SlotsOf(Upper(f, k, d)) = From(g, m.key)
           /\ SlotsOf(Upper(f, k, d) \ {m}) = Above(g, m.key)
<1>1. /\ DOMAIN g = DOMAIN f \cup {k}
      /\ \A i : i \in Lower(f, k, d) <=> i \in Placed(g) /\ i.key < m.key
      /\ \A i : i \in Upper(f, k, d) <=> i \in Placed(g) /\ m.key <= i.key
      /\ \A i : i \in Upper(f, k, d) \ {m} <=> i \in Placed(g) /\ m.key < i.key
    BY Halves DEF Halved
<1>2. PICK L, U, A : L = Lower(f, k, d) /\ U = Upper(f, k, d) /\ A = Upper(f, k, d) \ {m}
    OBVIOUS
<1>3. PICK DL, DU, DA : /\ DL = {i \in DOMAIN g : i < m.key}
                        /\ DU = {i \in DOMAIN g : m.key <= i}
                        /\ DA = {i \in DOMAIN g : m.key < i}
    OBVIOUS
<1>4. DOMAIN g \subseteq Keys /\ \A i \in Placed(g) : i.key \in DOMAIN g
    <2>1. DOMAIN g \subseteq Keys BY <1>1
    <2>. QED BY <2>1, PlacedAre
<1>5. /\ L = {i \in Placed(g) : i.key \in DL}
      /\ U = {i \in Placed(g) : i.key \in DU}
      /\ A = {i \in Placed(g) : i.key \in DA}
    BY <1>1, <1>2, <1>3, <1>4
<1>6. DL \in SUBSET DOMAIN g /\ DU \in SUBSET DOMAIN g /\ DA \in SUBSET DOMAIN g BY <1>3
<1>7. SlotsOf(L) = [j \in DL |-> g[j]] BY <1>4, <1>5, <1>6, SlotsOfPart
<1>8. SlotsOf(U) = [j \in DU |-> g[j]] BY <1>4, <1>5, <1>6, SlotsOfPart
<1>9. SlotsOf(A) = [j \in DA |-> g[j]] BY <1>4, <1>5, <1>6, SlotsOfPart
<1>. QED BY <1>2, <1>3, <1>7, <1>8, <1>9 DEF Below, From, Above

\* The entries of a half have different keys.
LEMMA HalvesItems ==
    ASSUME NEW f, Entries(f), NEW k \in Keys, k \notin DOMAIN f, NEW d \in Vals,
           NEW S \in SUBSET Sorted(f, k, d)
    PROVE  Items(S)
<1>1. PICK g : g = With(f, k, d) OBVIOUS
<1>2. DOMAIN g \subseteq Keys /\ \A j \in DOMAIN g : g[j] \in Vals BY <1>1 DEF With, Entries
<1>3. S \subseteq Placed(g) BY <1>1, SortedIs DEF Entries
<1>4. IsFiniteSet(S) BY <1>2, <1>3, PlacedFinite, FS_Subset
<1>5. /\ \A i \in S : i.key \in Keys /\ i.data \in Vals
      /\ \A i, j \in S : i.key = j.key => i = j
    BY <1>2, <1>3, PlacedAre
<1>. QED BY <1>4, <1>5 DEF Items

\* A leaf that splits had entries, and neither half raises.
LEMMA LeafSplits ==
    ASSUME SplitsFit, NEW f, SlotMap(f, Vals), NEW k \in Keys, k \notin DOMAIN f, NEW d \in Vals,
           LeafRoom(f) >= 0, ~(Weight[d] <= LeafRoom(f)),
           NEW g, NEW m, SplitBy(f, k, d, g, m)
    PROVE  /\ Loaded("leaf", Lower(f, k, d)) = Lower(f, k, d)
           /\ Loaded("leaf", Upper(f, k, d)) = Upper(f, k, d)
           /\ LeafRoom(Below(g, m.key)) >= 0 /\ LeafRoom(From(g, m.key)) >= 0
           /\ DOMAIN f # {}
<1>1. Entries(f) /\ DOMAIN f \subseteq Keys BY DEF SlotMap, Entries
<1>2. LeafRoom(f) \in Int /\ Weight[d] \in Nat BY <1>1, RoomType, RoomAssumption
<1>3. LeafRoom(f) \in 0..(Weight[d] - 1) BY <1>2
<1>4. Fits("leaf", Lower(f, k, d)) /\ Fits("leaf", Upper(f, k, d))
    <2>1. f \in [DOMAIN f -> Vals] /\ DOMAIN f \in SUBSET Keys BY <1>1 DEF SlotMap
    <2>. QED BY <1>3, <2>1 DEF SplitsFit
<1>5. Items(Lower(f, k, d)) /\ Items(Upper(f, k, d))
    <2>1. Lower(f, k, d) \in SUBSET Sorted(f, k, d) /\ Upper(f, k, d) \in SUBSET Sorted(f, k, d)
        BY DEF Lower, Upper
    <2>. QED BY <1>1, <2>1, HalvesItems
<1>6. /\ LeafRoom(SlotsOf(Lower(f, k, d))) >= 0 /\ LeafRoom(SlotsOf(Upper(f, k, d))) >= 0
    BY <1>4, <1>5, FitsRoom
<1>7. /\ SlotsOf(Lower(f, k, d)) = Below(g, m.key)
      /\ SlotsOf(Upper(f, k, d)) = From(g, m.key)
      /\ SlotsOf(Upper(f, k, d) \ {m}) = Above(g, m.key)
    BY <1>1, HalvesSlots
<1>8. ASSUME DOMAIN f = {} PROVE FALSE
    <2>1. /\ DOMAIN g = DOMAIN f \cup {k} /\ g[k] = d /\ m.key \in DOMAIN g
        <3>1. Halved(f, k, d, g, m) BY <1>1, Halves
        <3>. QED BY <3>1 DEF Halved
    <2>2. \A j \in DOMAIN g : j = k /\ j \in Nat BY <1>8, <2>1, KeysNat
    <2>3. {i \in DOMAIN g : m.key <= i} = {k} BY <1>8, <2>1, <2>2
    <2>4. PICK h : h = From(g, m.key) OBVIOUS
    <2>5. DOMAIN h = {k} /\ h[k] = d BY <2>1, <2>3, <2>4 DEF From
    <2>6. LeafRoom(With(NoSlots, k, d)) = LeafRoom(NoSlots) - Weight[d]
        <3>1. k \notin DOMAIN NoSlots BY DEF NoSlots
        <3>. QED BY <3>1, RoomNone, RoomWith
    <2>7. Entries(With(NoSlots, k, d))
        <3>1. k \notin DOMAIN NoSlots BY DEF NoSlots
        <3>. QED BY <3>1, RoomNone, RoomWith
    <2>8. LeafRoom(h) <= LeafRoom(With(NoSlots, k, d)) 
        <3>1. Entries(h) BY <2>5 DEF Entries
        <3>2. /\ DOMAIN With(NoSlots, k, d) \subseteq DOMAIN h
              /\ \A j \in DOMAIN With(NoSlots, k, d) : With(NoSlots, k, d)[j] = h[j]
            BY <2>5 DEF With, NoSlots
        <3>. QED BY <3>1, <3>2, RoomPart
    <2>9. LeafRoom(h) >= 0 BY <1>6, <1>7, <2>4
    <2>10. LeafRoom(f) = LeafCap
        <3>1. DOMAIN NoSlots = {} BY DEF NoSlots
        <3>2. LeafRoom(NoSlots) <= LeafRoom(f)
            BY <1>1, <1>8, <3>1, RoomPart, RoomNone
        <3>. QED BY <1>1, <1>2, <3>2, RoomType, RoomNone, RoomAssumption
    <2>11. LeafRoom(With(NoSlots, k, d)) = LeafCap - Weight[d] BY <2>6, RoomNone
    <2>12. LeafCap < Weight[d] BY <1>2, <2>10
    <2>13. LeafRoom(h) \in Int
        <3>1. Entries(h) BY <2>5 DEF Entries
        <3>. QED BY <3>1, RoomType
    <2>. QED BY <1>2, <2>8, <2>9, <2>11, <2>12, <2>13, RoomAssumption
<1>. QED BY <1>4, <1>5, <1>6, <1>7, <1>8, LoadedLeaf
------------------------------------------------------------------------------
(***************************************************************************)
(* Splits fit if entries are alike                                         *)
(***************************************************************************)
\* The elements of a set weigh together as much as those of a part and the others.
LEMMA TotalSplit ==
    ASSUME NEW w, NEW S, Weights(w, S), NEW T \in SUBSET S
    PROVE  Total(w, S) = Total(w, T) + Total(w, S \ T)
<1>. DEFINE Wrong(U) == ~(Total(w, T \cup U) = Total(w, T) + Total(w, U))
            Bad == {n \in Nat : \E U \in SUBSET (S \ T) : Cardinality(U) = n /\ Wrong(U)}
<1>0. \A U \in SUBSET S : /\ Weights(w, U) /\ IsFiniteSet(U) /\ Cardinality(U) \in Nat
                          /\ Total(w, U) \in Nat
    BY FS_Subset, FS_CardinalityType, TotalOne DEF Weights
<1>1. ASSUME Bad # {} PROVE FALSE
    <2>1. PICK n \in Bad : \A m \in Bad : n <= m
        <3>. HIDE DEF Wrong
        <3>. QED BY <1>1, LeastNatural
    <2>2. PICK U \in SUBSET (S \ T) : Cardinality(U) = n /\ Wrong(U) BY <2>1
    <2>3. U \in SUBSET S /\ Total(w, T) \in Nat BY <1>0, <2>2
    <2>4. U # {}
        <3>1. ASSUME U = {} PROVE FALSE
            <4>1. T \cup U = T /\ Total(w, U) = 0 BY <1>0, <2>3, <3>1, TotalOne
            <4>. QED BY <2>2, <2>3, <4>1
        <3>. QED BY <3>1
    <2>5. PICK a \in U : TRUE BY <2>4
    <2>6. Cardinality(U \ {a}) = Cardinality(U) - 1 BY <1>0, <2>3, <2>5, FS_RemoveElement
    <2>7. U \ {a} \in SUBSET (S \ T) /\ U \ {a} \in SUBSET S /\ Cardinality(U \ {a}) \in Nat
        BY <1>0, <2>2, <2>3
    <2>8. ~(Cardinality(U \ {a}) \in Bad)
        <3>1. n \in Nat /\ Cardinality(U) = n BY <2>1, <2>2
        <3>. HIDE DEF Bad
        <3>. QED BY <2>1, <2>6, <3>1
    <2>9. Total(w, T \cup (U \ {a})) = Total(w, T) + Total(w, U \ {a}) BY <2>7, <2>8
    <2>10. Total(w, U) = w[a] + Total(w, U \ {a}) BY <1>0, <2>3, <2>5, TotalRemove
    <2>11. Total(w, T \cup U) = w[a] + Total(w, T \cup (U \ {a}))
        <3>1. (T \cup U) \ {a} = T \cup (U \ {a}) /\ a \in T \cup U /\ T \cup U \in SUBSET S
            BY <2>2, <2>3, <2>5
        <3>2. Weights(w, T \cup U) BY <1>0, <3>1
        <3>3. Total(w, T \cup U) = w[a] + Total(w, (T \cup U) \ {a}) BY <3>1, <3>2, TotalRemove
        <3>. QED BY <3>1, <3>3
    <2>12. w[a] \in Nat BY <2>3, <2>5 DEF Weights
    <2>13. Total(w, U \ {a}) \in Nat BY <1>0, <2>7
    <2>. QED BY <2>2, <2>3, <2>9, <2>10, <2>11, <2>12, <2>13
<1>2. ~Wrong(S \ T)
    <2>1. S \ T \in SUBSET (S \ T) /\ S \ T \in SUBSET S /\ Cardinality(S \ T) \in Nat BY <1>0
    <2>. HIDE DEF Wrong
    <2>. QED BY <1>1, <2>1
<1>3. T \cup (S \ T) = S OBVIOUS
<1>. QED BY <1>2, <1>3

\* If each of n elements weighs between a and b, all together weigh between n * a and n * b.
LEMMA TotalBetween ==
    ASSUME NEW w, NEW S, Weights(w, S), NEW a \in Nat, NEW b \in Nat,
           \A x \in S : a <= w[x] /\ w[x] <= b
    PROVE  /\ Cardinality(S) \in Nat /\ Total(w, S) \in Nat
           /\ Cardinality(S) * a <= Total(w, S) /\ Total(w, S) <= Cardinality(S) * b
<1>. DEFINE Right(U) == /\ Cardinality(U) * a <= Total(w, U)
                        /\ Total(w, U) <= Cardinality(U) * b
            Bad == {n \in Nat : \E U \in SUBSET S : Cardinality(U) = n /\ ~Right(U)}
<1>0. \A U \in SUBSET S : /\ Weights(w, U) /\ IsFiniteSet(U) /\ Cardinality(U) \in Nat
                          /\ Total(w, U) \in Nat
    BY FS_Subset, FS_CardinalityType, TotalOne DEF Weights
<1>1. ASSUME Bad # {} PROVE FALSE
    <2>1. PICK n \in Bad : \A m \in Bad : n <= m
        <3>. HIDE DEF Right
        <3>. QED BY <1>1, LeastNatural
    <2>2. PICK U \in SUBSET S : Cardinality(U) = n /\ ~Right(U) BY <2>1
    <2>3. n \in Nat /\ Weights(w, U) /\ IsFiniteSet(U) BY <1>0, <2>1, <2>2
    <2>4. U # {}
        <3>1. ASSUME U = {} PROVE FALSE
            <4>1. Cardinality(U) = 0 /\ Total(w, U) = 0 BY <2>3, <3>1, FS_EmptySet, TotalOne
            <4>. QED BY <2>2, <4>1
        <3>. QED BY <3>1
    <2>5. PICK x \in U : TRUE BY <2>4
    <2>6. Cardinality(U \ {x}) = n - 1 BY <2>2, <2>3, <2>5, FS_RemoveElement
    <2>7. U \ {x} \in SUBSET S /\ n - 1 \in Nat /\ Total(w, U \ {x}) \in Nat BY <1>0, <2>2, <2>6
    <2>8. Right(U \ {x})
        <3>1. ~(n - 1 \in Bad)
            <4>. HIDE DEF Bad
            <4>. QED BY <2>1, <2>3
        <3>. QED BY <2>6, <2>7, <3>1
    <2>9. Total(w, U) = w[x] + Total(w, U \ {x}) BY <2>3, <2>5, TotalRemove
    <2>10. w[x] \in Nat /\ a <= w[x] /\ w[x] <= b BY <2>2, <2>5 DEF Weights
    <2>11. n * a = (n - 1) * a + a /\ n * b = (n - 1) * b + b
           /\ n * a \in Nat /\ n * b \in Nat /\ (n - 1) * a \in Nat /\ (n - 1) * b \in Nat
        BY <2>3, <2>7
    <2>12. (n - 1) * a <= Total(w, U \ {x}) /\ Total(w, U \ {x}) <= (n - 1) * b BY <2>6, <2>8
    <2>13. n * a <= Total(w, U) /\ Total(w, U) <= n * b
        BY <2>7, <2>9, <2>10, <2>11, <2>12
    <2>. QED BY <2>2, <2>13
<1>2. Right(S)
    <2>1. S \in SUBSET S /\ Cardinality(S) \in Nat BY <1>0
    <2>. HIDE DEF Right
    <2>. QED BY <1>1, <2>1
<1>. QED BY <1>0, <1>2

\* The halves of a page have the same number of entries, or the upper one more.
LEMMA HalvesCount ==
    ASSUME NEW f, DOMAIN f \subseteq Keys, NEW k \in Keys, k \notin DOMAIN f, NEW d,
           NEW g, NEW m, SplitBy(f, k, d, g, m)
    PROVE  /\ (Cardinality(DOMAIN f) + 1) \div 2 <= Cardinality(DOMAIN Below(g, m.key))
           /\ (Cardinality(DOMAIN f) + 1) \div 2 <= Cardinality(DOMAIN From(g, m.key))
<1>0. PICK n : n = Cardinality(DOMAIN f) OBVIOUS
<1>1. Halved(f, k, d, g, m) BY Halves
<1>2. /\ DOMAIN g = DOMAIN f \cup {k} /\ g[k] = d /\ \A j \in DOMAIN f : g[j] = f[j]
      /\ Sorted(f, k, d) = Placed(g)
      /\ \A i : i \in Lower(f, k, d) <=> i \in Placed(g) /\ i.key < m.key
    BY <1>1 DEF Halved
<1>3. DOMAIN g \subseteq Keys /\ IsFiniteSet(DOMAIN f) /\ n \in Nat
    BY <1>0, <1>2, KeysFinite, FS_CardinalityType
<1>4. IsFiniteSet(DOMAIN g) /\ Cardinality(DOMAIN g) = n + 1 BY <1>0, <1>2, <1>3, FS_AddElement
<1>5. PICK mid, P, Q : /\ mid = (n + 1) \div 2 /\ P = {j \in DOMAIN g : j < m.key}
                       /\ Q = {j \in DOMAIN g : m.key <= j}
    OBVIOUS
<1>6. mid \in Nat /\ mid <= n + 1 BY <1>3, <1>5
<1>7. m.key \in Keys /\ m.key \in Nat
    <2>1. m \in Placed(g) BY <1>1 DEF Halved
    <2>. QED BY <1>3, <2>1, PlacedAre, KeysAssumption
<1>8. \A j \in DOMAIN g : j \in Nat BY <1>3, KeysAssumption
<1>9. ASSUME NEW j \in DOMAIN g
      PROVE  /\ Rank(g, j) \in Nat /\ Rank(g, j) <= n
             /\ (j < m.key) <=> (Rank(g, j) < mid)
    <2>1. PICK i \in Placed(g) : i.key = j BY <1>3, <1>9, PlacedAre
    <2>2. i.pos = Rank(g, j) BY <1>3, <2>1, PlacedAre
    <2>3. (j < m.key) <=> i \in Lower(f, k, d) BY <1>2, <2>1
    <2>4. i \in Lower(f, k, d) <=> i.pos < mid BY <1>0, <1>2, <1>5, <2>1 DEF Lower
    <2>5. PICK B : B = {i2 \in DOMAIN g : i2 < j} OBVIOUS
    <2>6. B \subseteq DOMAIN g \ {j} BY <1>8, <2>5
    <2>7. IsFiniteSet(DOMAIN g \ {j}) /\ Cardinality(DOMAIN g \ {j}) = n
        <3>1. IsFiniteSet(DOMAIN g \ {j}) /\ Cardinality(DOMAIN g \ {j}) = Cardinality(DOMAIN g) - 1
            BY <1>4, <1>9, FS_RemoveElement
        <3>. QED BY <1>3, <1>4, <3>1
    <2>8. Cardinality(B) \in Nat /\ Cardinality(B) <= n BY <2>6, <2>7, FS_Subset,
        FS_CardinalityType
    <2>. QED BY <2>2, <2>3, <2>4, <2>5, <2>8 DEF Rank
<1>10. \A i, j \in DOMAIN g : Rank(g, i) = Rank(g, j) => i = j
    <2>1. TAKE i, j \in DOMAIN g
    <2>. QED BY <1>3, <1>8, RankOrder
<1>11. PICK e : e = [j \in DOMAIN g |-> Rank(g, j)] OBVIOUS
<1>12. \A j \in DOMAIN g : e[j] = Rank(g, j) BY <1>11
<1>13. Cardinality(P) <= mid
    <2>1. PICK h : h = [j \in P |-> e[j]] OBVIOUS
    <2>2. \A j \in P : j \in DOMAIN g /\ h[j] \in 0..(mid - 1) BY <1>5, <1>6, <1>9, <1>12, <2>1
    <2>3. h \in [P -> 0..(mid - 1)] BY <2>1, <2>2
    <2>4. \A i, j \in P : h[i] = h[j] => i = j BY <1>10, <1>12, <2>1, <2>2
    <2>5. h \in Injection(P, 0..(mid - 1)) BY <2>3, <2>4 DEF Injection, IsInjective
    <2>6. IsFiniteSet(0..(mid - 1)) /\ Cardinality(0..(mid - 1)) = mid
        <3>1. mid - 1 \in Int /\ 0 \in Int /\ (0 > mid - 1 <=> mid = 0) /\ mid - 1 - 0 + 1 = mid
            BY <1>6
        <3>2. /\ IsFiniteSet(0..(mid - 1))
              /\ Cardinality(0..(mid - 1)) = IF 0 > mid - 1 THEN 0 ELSE mid - 1 - 0 + 1
            BY <3>1, FS_Interval
        <3>. QED BY <3>1, <3>2
    <2>. QED BY <2>5, <2>6, FS_Injection
<1>14. Cardinality(Q) <= n + 1 - mid
    <2>1. PICK h : h = [j \in Q |-> e[j]] OBVIOUS
    <2>2. \A j \in Q : j \in DOMAIN g /\ h[j] \in mid..n
        BY <1>5, <1>6, <1>7, <1>8, <1>9, <1>12, <2>1
    <2>3. h \in [Q -> mid..n] BY <2>1, <2>2
    <2>4. \A i, j \in Q : h[i] = h[j] => i = j BY <1>10, <1>12, <2>1, <2>2
    <2>5. h \in Injection(Q, mid..n) BY <2>3, <2>4 DEF Injection, IsInjective
    <2>6. IsFiniteSet(mid..n) /\ Cardinality(mid..n) = n + 1 - mid BY <1>3, <1>6, FS_Interval
    <2>. QED BY <2>5, <2>6, FS_Injection
<1>15. Cardinality(P) + Cardinality(Q) = n + 1 /\ Cardinality(P) \in Nat /\ Cardinality(Q) \in Nat
    <2>1. P \cup Q = DOMAIN g /\ P \cap Q = {}
        <3>1. \A j \in DOMAIN g : (m.key <= j) <=> ~(j < m.key) BY <1>7, <1>8
        <3>. QED BY <1>5, <3>1
    <2>2. IsFiniteSet(P) /\ IsFiniteSet(Q) BY <1>4, <2>1, FS_Subset
    <2>3. Cardinality(P \cup Q) = Cardinality(P) + Cardinality(Q) - Cardinality(P \cap Q)
        BY <2>2, FS_Union
    <2>4. Cardinality(P \cap Q) = 0 BY <2>1, FS_EmptySet
    <2>5. Cardinality(P) \in Nat /\ Cardinality(Q) \in Nat BY <2>2, FS_CardinalityType
    <2>. QED BY <1>4, <2>1, <2>3, <2>4, <2>5
<1>16. DOMAIN Below(g, m.key) = P /\ DOMAIN From(g, m.key) = Q BY <1>5 DEF Below, From
<1>17. mid <= Cardinality(P) /\ mid <= Cardinality(Q) BY <1>3, <1>5, <1>6, <1>13, <1>14, <1>15
<1>. QED BY <1>0, <1>5, <1>16, <1>17

\* A page takes entries enough that half of those in a full one weigh as much as
\* any entry.
Alike(a, b, c) ==
    /\ \A x \in Vals : a <= Weight[x] /\ Weight[x] <= b
    /\ b <= c * a /\ (2 * c - 1) * b <= LeafCap

\* Such entries fit when their leaf is split, whatever the order of the keys.
LEMMA SplitHalvesFit ==
    ASSUME NEW a \in Nat, NEW b \in Nat, NEW c \in Nat \ {0}, Alike(a, b, c),
           NEW f, Entries(f), NEW k \in Keys, k \notin DOMAIN f, NEW d \in Vals,
           LeafRoom(f) >= 0, LeafRoom(f) < Weight[d]
    PROVE  Fits("leaf", Lower(f, k, d)) /\ Fits("leaf", Upper(f, k, d))
<1>1. /\ \A x \in Vals : a <= Weight[x] /\ Weight[x] <= b
      /\ b <= c * a /\ (2 * c - 1) * b <= LeafCap
    BY DEF Alike
<1>2. DOMAIN f \subseteq Keys BY DEF Entries
<1>3. PICK g, m, n : SplitBy(f, k, d, g, m) /\ n = Cardinality(DOMAIN f) BY DEF SplitBy
<1>4. /\ n \in Nat /\ DOMAIN g = DOMAIN f \cup {k} /\ g[k] = d /\ \A j \in DOMAIN f : g[j] = f[j]
      /\ (n + 1) \div 2 <= Cardinality(DOMAIN Below(g, m.key))
      /\ (n + 1) \div 2 <= Cardinality(DOMAIN From(g, m.key))
    <2>1. /\ (Cardinality(DOMAIN f) + 1) \div 2 <= Cardinality(DOMAIN Below(g, m.key))
          /\ (Cardinality(DOMAIN f) + 1) \div 2 <= Cardinality(DOMAIN From(g, m.key))
        BY <1>2, <1>3, HalvesCount
    <2>2. Halved(f, k, d, g, m) BY <1>2, <1>3, Halves
    <2>3. DOMAIN g = DOMAIN f \cup {k} /\ g[k] = d /\ \A j \in DOMAIN f : g[j] = f[j]
        BY <2>2 DEF Halved
    <2>4. n \in Nat BY <1>2, <1>3, KeysFinite, FS_CardinalityType
    <2>. QED BY <1>3, <2>1, <2>3, <2>4
<1>5. LeafCap \in Nat /\ Weight[d] \in Nat /\ LeafRoom(f) \in Int BY RoomAssumption, RoomType
<1>6. PICK W, T : W = LeafWeights(f) /\ T = Total(W, DOMAIN f) OBVIOUS
<1>7. Weights(W, DOMAIN f) /\ \A j \in DOMAIN f : W[j] = Weight[f[j]] BY <1>2, <1>6, EntriesWeigh
<1>8. LeafRoom(f) = LeafCap - T BY <1>2, <1>6, RoomIs
<1>9. \A j \in DOMAIN f : a <= W[j] /\ W[j] <= b BY <1>1, <1>7 DEF Entries
<1>10. T \in Nat /\ T <= n * b BY <1>3, <1>6, <1>7, <1>9, TotalBetween
<1>11. c <= (n + 1) \div 2
    <2>1. LeafCap < n * b + b BY <1>1, <1>4, <1>5, <1>8, <1>10
    <2>2. (2 * c - 1) * b < (n + 1) * b
        <3>1. (n + 1) * b = n * b + b BY <1>4
        <3>2. (2 * c - 1) * b \in Int /\ n * b \in Int /\ (2 * c - 1) * b <= LeafCap BY <1>1, <1>4
        <3>. QED BY <1>5, <2>1, <3>1, <3>2
    <2>3. 2 * c - 1 \in Nat /\ n + 1 \in Nat BY <1>4
    <2>4. 2 * c - 1 < n + 1
        <3>1. PICK x, y : x = 2 * c - 1 /\ y = n + 1 OBVIOUS
        <3>2. x \in Nat /\ y \in Nat /\ x * b < y * b BY <2>2, <2>3, <3>1
        <3>3. x < y
            <4>1. ASSUME y <= x PROVE FALSE
                <5>1. y * b <= x * b BY <3>2, <4>1
                <5>2. y * b \in Nat /\ x * b \in Nat BY <3>2
                <5>. QED BY <3>2, <5>1, <5>2
            <4>. QED BY <3>2, <4>1
        <3>. QED BY <3>1, <3>3
    <2>. QED BY <1>4, <2>4
\* A half that has the new entry loses as much to the other as the entry weighs.
<1>12. ASSUME NEW P \in SUBSET DOMAIN g, NEW h, h = [j \in P |-> g[j]],
              (n + 1) \div 2 <= Cardinality(DOMAIN g \ P)
       PROVE  LeafRoom(h) >= 0
    <2>1. DOMAIN h = P /\ \A j \in P : h[j] = g[j] BY <1>12
    <2>2. CASE k \notin P
        <3>1. DOMAIN h \subseteq DOMAIN f /\ \A j \in DOMAIN h : h[j] = f[j] BY <1>4, <2>1, <2>2
        <3>2. Entries(h) /\ LeafRoom(f) <= LeafRoom(h) BY <1>2, <3>1, RoomPart
        <3>3. LeafRoom(h) \in Int BY <3>2, RoomType
        <3>. QED BY <1>5, <3>2, <3>3
    <2>3. CASE k \in P
        <3>1. PICK Q, R, old : Q = DOMAIN g \ P /\ R = P \ {k} /\ old = [j \in R |-> f[j]] OBVIOUS
        <3>2. /\ Q \in SUBSET DOMAIN f /\ R \in SUBSET DOMAIN f /\ DOMAIN f \ Q = R /\ R \cup {k} = P
              /\ k \notin R
            BY <1>2, <1>4, <2>3, <3>1
        <3>3. T = Total(W, Q) + Total(W, R) BY <1>6, <1>7, <3>2, TotalSplit
        <3>4. Weights(W, Q) /\ Weights(W, R) BY <1>7, <3>2, FS_Subset DEF Weights
        <3>5. /\ Cardinality(Q) \in Nat /\ Total(W, Q) \in Nat /\ Cardinality(Q) * a <= Total(W, Q)
              /\ Total(W, R) \in Nat
            BY <1>9, <3>2, <3>4, TotalBetween
        <3>6. c * a <= Cardinality(Q) * a
            <4>1. c <= Cardinality(Q) /\ Cardinality(Q) \in Nat /\ c \in Nat
                BY <1>4, <1>11, <1>12, <3>1, <3>5
            <4>. QED BY <4>1
        <3>7. Weight[d] <= Total(W, Q)
            <4>1. c * a \in Nat /\ Cardinality(Q) * a \in Nat BY <3>5
            <4>2. Weight[d] <= b /\ b <= c * a BY <1>1
            <4>. QED BY <1>5, <3>5, <3>6, <4>1, <4>2
        <3>8. DOMAIN old = R /\ \A j \in R : old[j] = f[j] BY <3>1
        <3>9. Entries(old) BY <1>2, <3>2, <3>8 DEF Entries
        <3>10. LeafRoom(old) = LeafCap - Total(W, R)
            <4>1. PICK W2 : W2 = LeafWeights(old) OBVIOUS
            <4>2. \A j \in R : W2[j] = Weight[old[j]] BY <3>8, <3>9, <4>1, EntriesWeigh
            <4>3. \A j \in R : W2[j] = W[j] BY <1>7, <3>2, <3>8, <4>2
            <4>4. Total(W2, R) = Total(W, R) BY <3>4, <4>3, TotalSame
            <4>5. LeafRoom(old) = LeafCap - Total(W2, DOMAIN old) BY <3>9, <4>1, RoomIs
            <4>. QED BY <3>8, <4>4, <4>5
        <3>11. h = With(old, k, d)
            <4>1. DOMAIN With(old, k, d) = R \cup {k} BY <3>8 DEF With
            <4>2. \A j \in P : With(old, k, d)[j] = h[j]
                BY <1>4, <2>1, <3>2, <3>8 DEF With
            <4>. QED BY <1>12, <2>1, <3>2, <4>1, <4>2 DEF With
        <3>12. LeafRoom(With(old, k, d)) = LeafRoom(old) - Weight[d]
            BY <1>2, <3>2, <3>8, <3>9, RoomWith
        <3>. QED BY <1>5, <1>8, <1>10, <3>3, <3>5, <3>7, <3>10, <3>11, <3>12
    <2>. QED BY <2>2, <2>3
<1>13. DOMAIN g \subseteq Keys /\ m.key \in Nat
    <2>1. Halved(f, k, d, g, m) BY <1>2, <1>3, Halves
    <2>2. m.key \in DOMAIN g BY <2>1 DEF Halved
    <2>. QED BY <1>2, <1>4, <2>2, KeysAssumption
<1>14. /\ DOMAIN g \ DOMAIN Below(g, m.key) = DOMAIN From(g, m.key)
       /\ DOMAIN g \ DOMAIN From(g, m.key) = DOMAIN Below(g, m.key)
       /\ DOMAIN Below(g, m.key) \in SUBSET DOMAIN g /\ DOMAIN From(g, m.key) \in SUBSET DOMAIN g
    <2>1. \A j \in DOMAIN g : (m.key <= j) <=> ~(j < m.key) BY <1>13, KeysAssumption
    <2>. QED BY <2>1 DEF Below, From
<1>15. LeafRoom(Below(g, m.key)) >= 0
    <2>1. Below(g, m.key) = [j \in DOMAIN Below(g, m.key) |-> g[j]] BY DEF Below
    <2>. QED BY <1>4, <1>12, <1>14, <2>1
<1>16. LeafRoom(From(g, m.key)) >= 0
    <2>1. From(g, m.key) = [j \in DOMAIN From(g, m.key) |-> g[j]] BY DEF From
    <2>. QED BY <1>4, <1>12, <1>14, <2>1
<1>17. /\ SlotsOf(Lower(f, k, d)) = Below(g, m.key)
       /\ SlotsOf(Upper(f, k, d)) = From(g, m.key)
       /\ SlotsOf(Upper(f, k, d) \ {m}) = Above(g, m.key)
    BY <1>2, <1>3, HalvesSlots
<1>18. Lower(f, k, d) \in SUBSET Sorted(f, k, d) /\ Upper(f, k, d) \in SUBSET Sorted(f, k, d)
    BY DEF Lower, Upper
<1>19. Items(Lower(f, k, d)) /\ Items(Upper(f, k, d)) BY <1>2, <1>18, HalvesItems
<1>. QED BY <1>15, <1>16, <1>17, <1>19, FitsRoom

\* If the entries are alike, no half of a leaf that is split is too large for its page.
\* With a = b and c = 1: entries of one size that fit an empty page.
THEOREM EntriesAlikeFit ==
    ASSUME NEW a \in Nat, NEW b \in Nat, NEW c \in Nat \ {0}, Alike(a, b, c)
    PROVE  SplitsFit
<1>1. SUFFICES ASSUME NEW D \in SUBSET Keys, NEW f \in [D -> Vals], NEW k \in Keys \ D,
                      NEW d \in Vals, LeafRoom(f) \in 0..(Weight[d] - 1)
               PROVE  Fits("leaf", Lower(f, k, d)) /\ Fits("leaf", Upper(f, k, d))
    BY DEF SplitsFit
<1>2. Entries(f) /\ k \in Keys /\ k \notin DOMAIN f BY <1>1 DEF Entries
<1>3. LeafRoom(f) >= 0 /\ LeafRoom(f) < Weight[d] BY <1>1, RoomAssumption
<1>. QED BY <1>2, <1>3, SplitHalvesFit
------------------------------------------------------------------------------
(***************************************************************************)
(* A page is split                                                         *)
(***************************************************************************)
\* The pages p and n of w share what page p of v had, from sep on in n.
HalvesOf(v, w, p, n, sep) ==
    IF v[p].type = "leaf"
      THEN /\ w[p].slots = Below(v[p].slots, sep) /\ w[p].link = n
           /\ w[n].slots = From(v[p].slots, sep) /\ w[n].link = v[p].link
      ELSE /\ sep \in DOMAIN v[p].slots
           /\ w[p].slots = Below(v[p].slots, sep) /\ w[p].link = v[p].link
           /\ w[n].slots = Above(v[p].slots, sep) /\ w[n].link = v[p].slots[sep]

\* The two halves of a leaf are leaves of their ranges.
LEMMA DivideLeaf ==
    ASSUME NEW v, NEW lv, NEW r, NEW lo, NEW hi, IsTree(v, lv, r, lo, hi),
           NEW p \in DOMAIN lo, v[p].type = "leaf", NEW n, n \notin DOMAIN lo, n # 0,
           NEW sep \in Keys, lo[p] < sep, sep < hi[p],
           NEW w, HalvesOf(v, w, p, n, sep), SplitOf(v, w, lo, p, n, sep),
           NEW lo2, NEW hi2, SplitRanges(lo, hi, p, n, sep, lo2, hi2)
    PROVE  LeafOK(w, lo2, hi2, p) /\ LeafOK(w, lo2, hi2, n)
<1>1. LeafOK(v, lo, hi, p) /\ 0 \notin DOMAIN lo BY InTree
<1>2. /\ \A k \in DOMAIN v[p].slots : lo[p] <= k /\ k < hi[p] /\ v[p].slots[k] \in Vals /\ k \in Nat
      /\ IF v[p].link = 0 THEN hi[p] = KeyEnd
         ELSE v[p].link \in DOMAIN lo /\ v[v[p].link].type = "leaf" /\ lo[v[p].link] = hi[p]
    <2>1. DOMAIN v[p].slots \subseteq Keys BY InTree
    <2>2. \A k \in DOMAIN v[p].slots : k \in Nat BY <2>1, KeysNat
    <2>. QED BY <1>1, <2>2 DEF LeafOK
<1>3. DOMAIN hi = DOMAIN lo BY DEF IsTree
<1>4. /\ DOMAIN lo2 = DOMAIN lo \cup {n} /\ lo2[n] = sep /\ hi2[n] = hi[p] /\ hi2[p] = sep
      /\ \A x \in DOMAIN lo : lo2[x] = lo[x]
    BY <1>3 DEF With, SplitRanges
<1>5. /\ w[p].slots = Below(v[p].slots, sep) /\ w[p].link = n
      /\ w[n].slots = From(v[p].slots, sep) /\ w[n].link = v[p].link
    BY DEF HalvesOf
<1>6. w[n].type = "leaf" /\ (v[p].link # 0 => w[v[p].link].type = "leaf")
    <2>1. /\ \A z \in {p, n} : w[z].type = v[p].type
          /\ \A x \in DOMAIN lo \ {p, v[p].parent} : w[x].type = v[x].type
          /\ w[v[p].parent].type = v[v[p].parent].type
        BY DEF SplitOf, SameBut
    <2>. QED BY <1>2, <2>1
<1>7. /\ \A k \in DOMAIN w[p].slots : k \in DOMAIN v[p].slots /\ k < sep /\ w[p].slots[k] = v[p].slots[k]
      /\ \A k \in DOMAIN w[n].slots : k \in DOMAIN v[p].slots /\ sep <= k /\ w[n].slots[k] = v[p].slots[k]
    BY <1>5 DEF Below, From
<1>8. LeafOK(w, lo2, hi2, p)
    <2>1. \A k \in DOMAIN w[p].slots : lo2[p] <= k /\ k < hi2[p] /\ w[p].slots[k] \in Vals
        BY <1>2, <1>4, <1>7
    <2>. QED BY <1>4, <1>5, <1>6, <2>1 DEF LeafOK
<1>9. LeafOK(w, lo2, hi2, n)
    <2>1. \A k \in DOMAIN w[n].slots : lo2[n] <= k /\ k < hi2[n] /\ w[n].slots[k] \in Vals
        BY <1>2, <1>4, <1>7
    <2>2. IF w[n].link = 0 THEN hi2[n] = KeyEnd
          ELSE w[n].link \in DOMAIN lo2 /\ w[w[n].link].type = "leaf" /\ lo2[w[n].link] = hi2[n]
        BY <1>2, <1>4, <1>5, <1>6
    <2>. QED BY <2>1, <2>2 DEF LeafOK
<1>. QED BY <1>8, <1>9

\* The two halves of an internal page are pages of their ranges.
LEMMA DivideNode ==
    ASSUME NEW v, NEW lv, NEW r, NEW lo, NEW hi, IsTree(v, lv, r, lo, hi),
           NEW p \in DOMAIN lo, v[p].type = "internal", NEW n, n \notin DOMAIN lo, n # 0,
           NEW sep \in Keys, lo[p] < sep, sep < hi[p],
           NEW w, HalvesOf(v, w, p, n, sep), SplitOf(v, w, lo, p, n, sep),
           NEW lv2, \A x \in DOMAIN lo : lv2[x] = lv[x], lv2[n] = lv[p],
           NEW lo2, NEW hi2, SplitRanges(lo, hi, p, n, sep, lo2, hi2)
    PROVE  NodeOK(w, lv2, lo2, hi2, p) /\ NodeOK(w, lv2, lo2, hi2, n)
<1>1. PICK D, g, l : D = DOMAIN v[p].slots /\ g = v[p].slots /\ l = v[p].link OBVIOUS
<1>2. /\ \A s \in D : lo[p] < s /\ s < hi[p] /\ g[s] \in DOMAIN lo /\ lo[g[s]] = s
      /\ l \in DOMAIN lo /\ lo[l] = lo[p]
      /\ \A c \in Kids(v[p]) :
            /\ v[c].parent = p /\ lv[c] + 1 = lv[p]
            /\ hi[c] \in D \cup {hi[p]} /\ hi[c] <= hi[p]
            /\ \A s \in D : s <= lo[c] \/ hi[c] <= s
    BY <1>1, InTree DEF NodeOK
<1>3. D \subseteq Nat /\ D \subseteq Keys /\ sep \in Nat /\ sep \in D
    BY <1>1, InTree, KeysNat DEF HalvesOf
<1>4. \A x \in DOMAIN lo : lo[x] \in Nat /\ hi[x] \in Nat /\ lo[x] < hi[x] /\ lv[x] \in Nat
    BY Ends
<1>5. DOMAIN hi = DOMAIN lo BY DEF IsTree
<1>6. /\ DOMAIN lo2 = DOMAIN lo \cup {n} /\ lo2[n] = sep /\ hi2[n] = hi[p] /\ hi2[p] = sep
      /\ \A x \in DOMAIN lo : lo2[x] = lo[x] /\ (x # p => hi2[x] = hi[x])
    BY <1>5 DEF With, SplitRanges
<1>7. /\ DOMAIN w[p].slots = {s \in D : s < sep} /\ \A s \in D : s < sep => w[p].slots[s] = g[s]
      /\ DOMAIN w[n].slots = {s \in D : sep < s} /\ \A s \in D : sep < s => w[n].slots[s] = g[s]
      /\ w[p].link = l /\ w[n].link = g[sep]
    BY <1>1 DEF HalvesOf, Below, Above
<1>8. Kids(v[p]) = {l} \cup {g[s] : s \in D} BY <1>1 DEF Kids
<1>9. \A c \in Kids(v[p]) : /\ c \in DOMAIN lo /\ c # p /\ c # v[p].parent
                            /\ w[c].parent \in {p, n} /\ c \in Kids(w[w[c].parent])
    <2>1. TAKE c \in Kids(v[p])
    <2>2. c \in DOMAIN lo /\ v[c].parent = p /\ lv[c] + 1 = lv[p] BY <1>2, <1>8
    <2>3. c # p BY <1>4, <2>2
    <2>4. c # v[p].parent
        <3>1. CASE p = r
            <4>. QED BY <2>2, <3>1, InTree
        <3>2. CASE p # r
            <4>1. lv[v[p].parent] = lv[p] + 1 BY <3>2, ParentIn
            <4>. QED BY <1>4, <2>2, <4>1
        <3>. QED BY <3>1, <3>2
    <2>5. w[c].parent \in {p, n} /\ c \in Kids(w[w[c].parent])
        BY <2>2, <2>3, <2>4 DEF SplitOf
    <2>. QED BY <2>2, <2>3, <2>4, <2>5
<1>10. Kids(w[p]) = {l} \cup {g[s] : s \in {t \in D : t < sep}} BY <1>7 DEF Kids
<1>11. Kids(w[n]) = {g[sep]} \cup {g[s] : s \in {t \in D : sep < t}} BY <1>7 DEF Kids
<1>12. \A c \in Kids(w[p]) : c \in Kids(v[p]) /\ lo[p] <= lo[c] /\ lo[c] < sep
    <2>1. TAKE c \in Kids(w[p])
    <2>2. CASE c = l BY <1>2, <1>4, <1>8, <2>2
    <2>3. CASE \E s \in D : s < sep /\ c = g[s] BY <1>2, <1>3, <1>4, <1>8, <2>3
    <2>. QED BY <1>10, <2>2, <2>3
<1>13. \A c \in Kids(w[n]) : c \in Kids(v[p]) /\ lo[c] \in D /\ sep <= lo[c]
    <2>1. TAKE c \in Kids(w[n])
    <2>2. CASE c = g[sep] BY <1>2, <1>3, <1>8, <2>2
    <2>3. CASE \E s \in D : sep < s /\ c = g[s] BY <1>2, <1>3, <1>8, <2>3
    <2>. QED BY <1>11, <2>2, <2>3
<1>14. \A c \in Kids(w[p]) : w[c].parent = p
    <2>1. TAKE c \in Kids(w[p])
    <2>2. lo[c] < sep /\ lo[c] \in Nat BY <1>4, <1>9, <1>12
    <2>3. ~(c \in Kids(w[n])) BY <1>3, <1>13, <2>2
    <2>. QED BY <1>9, <1>12, <2>3
<1>15. \A c \in Kids(w[n]) : w[c].parent = n
    <2>1. TAKE c \in Kids(w[n])
    <2>2. sep <= lo[c] /\ lo[c] \in Nat BY <1>4, <1>9, <1>13
    <2>3. ~(c \in Kids(w[p])) BY <1>3, <1>12, <2>2
    <2>. QED BY <1>9, <1>13, <2>3
<1>16. NodeOK(w, lv2, lo2, hi2, p)
    <2>1. \A s \in DOMAIN w[p].slots :
            /\ lo2[p] < s /\ s < hi2[p]
            /\ w[p].slots[s] \in DOMAIN lo2 /\ lo2[w[p].slots[s]] = s
        BY <1>2, <1>6, <1>7
    <2>2. w[p].link \in DOMAIN lo2 /\ lo2[w[p].link] = lo2[p] BY <1>2, <1>6, <1>7
    <2>3. ASSUME NEW c \in Kids(w[p])
          PROVE  /\ w[c].parent = p /\ lv2[c] + 1 = lv2[p]
                 /\ hi2[c] \in DOMAIN w[p].slots \cup {hi2[p]} /\ hi2[c] <= hi2[p]
                 /\ \A s \in DOMAIN w[p].slots : s <= lo2[c] \/ hi2[c] <= s
        <3>1. c \in Kids(v[p]) /\ c \in DOMAIN lo /\ c # p /\ lo[c] < sep BY <1>9, <1>12
        <3>2. hi2[c] = hi[c] /\ lo2[c] = lo[c] BY <1>6, <3>1
        <3>3. hi[c] <= sep BY <1>2, <1>3, <1>4, <3>1
        <3>4. hi[c] \in D BY <1>2, <1>3, <1>4, <3>1, <3>3
        <3>5. hi[c] \in DOMAIN w[p].slots \cup {sep}
            <4>1. hi[c] \in Nat /\ sep \in Nat BY <1>3, <3>4
            <4>2. hi[c] < sep \/ hi[c] = sep BY <3>3, <4>1
            <4>. QED BY <1>7, <3>4, <4>2
        <3>6. w[c].parent = p /\ lv2[c] + 1 = lv2[p] BY <1>2, <1>14, <3>1
        <3>7. \A s \in DOMAIN w[p].slots : s <= lo[c] \/ hi[c] <= s BY <1>2, <1>7, <3>1
        <3>. QED BY <1>6, <3>2, <3>3, <3>5, <3>6, <3>7
    <2>. QED BY <2>1, <2>2, <2>3 DEF NodeOK
<1>17. NodeOK(w, lv2, lo2, hi2, n)
    <2>1. \A s \in DOMAIN w[n].slots :
            /\ lo2[n] < s /\ s < hi2[n]
            /\ w[n].slots[s] \in DOMAIN lo2 /\ lo2[w[n].slots[s]] = s
        BY <1>2, <1>6, <1>7
    <2>2. w[n].link \in DOMAIN lo2 /\ lo2[w[n].link] = lo2[n] BY <1>2, <1>3, <1>6, <1>7
    <2>3. ASSUME NEW c \in Kids(w[n])
          PROVE  /\ w[c].parent = n /\ lv2[c] + 1 = lv2[n]
                 /\ hi2[c] \in DOMAIN w[n].slots \cup {hi2[n]} /\ hi2[c] <= hi2[n]
                 /\ \A s \in DOMAIN w[n].slots : s <= lo2[c] \/ hi2[c] <= s
        <3>1. c \in Kids(v[p]) /\ c \in DOMAIN lo /\ c # p /\ sep <= lo[c] BY <1>9, <1>13
        <3>2. hi2[c] = hi[c] /\ lo2[c] = lo[c] BY <1>6, <3>1
        <3>3. hi[c] \in D \cup {hi[p]} /\ hi[c] <= hi[p] BY <1>2, <3>1
        <3>4. sep < hi[c] BY <1>3, <1>4, <3>1
        <3>5. hi[c] \in DOMAIN w[n].slots \cup {hi[p]} BY <1>3, <1>7, <3>3, <3>4
        <3>6. w[c].parent = n /\ lv2[c] + 1 = lv2[n] BY <1>2, <1>15, <3>1
        <3>7. \A s \in DOMAIN w[n].slots : s <= lo[c] \/ hi[c] <= s BY <1>2, <1>7, <3>1
        <3>. QED BY <1>6, <3>2, <3>3, <3>5, <3>6, <3>7
    <2>. QED BY <2>1, <2>2, <2>3 DEF NodeOK
<1>. QED BY <1>16, <1>17

\* w is a tree of the pages S that holds what the tree v holds.
Reshaped(v, lo, w, lv2, r2, S) ==
    \E lo2, hi2 : /\ IsTree(w, lv2, r2, lo2, hi2) /\ DOMAIN lo2 = S
                  /\ Within(v, lo, w, lo2) /\ Within(w, lo2, v, lo)

\* Page p, which is not the root, is divided between itself and the new page n.
LEMMA CutInner ==
    ASSUME NEW v, NEW lv, NEW r, NEW lo, NEW hi, IsTree(v, lv, r, lo, hi),
           NEW w, NEW lv2, NEW p \in DOMAIN lo, p # r, NEW n, n \notin DOMAIN lo, n # 0,
           NEW sep \in Keys, lo[p] < sep, sep < hi[p],
           DOMAIN lo \cup {n} \subseteq DOMAIN w,
           \A x \in DOMAIN lo : lv2[x] = lv[x], lv2[n] = lv[p],
           SplitOf(v, w, lo, p, n, sep), HalvesOf(v, w, p, n, sep)
    PROVE  Reshaped(v, lo, w, lv2, r, DOMAIN lo \cup {n})
<1>1. PICK lo2, hi2 : SplitRanges(lo, hi, p, n, sep, lo2, hi2) BY DEF SplitRanges
<1>2. v[p].type \in {"leaf", "internal"} BY LeafLevel
<1>3. IF v[p].type = "leaf" THEN LeafOK(w, lo2, hi2, p) /\ LeafOK(w, lo2, hi2, n)
      ELSE NodeOK(w, lv2, lo2, hi2, p) /\ NodeOK(w, lv2, lo2, hi2, n)
    <2>1. CASE v[p].type = "leaf" BY <1>1, <2>1, DivideLeaf
    <2>2. CASE v[p].type = "internal" BY <1>1, <2>2, DivideNode
    <2>. QED BY <1>2, <2>1, <2>2
<1>4. IsTree(w, lv2, r, lo2, hi2) BY <1>1, <1>3, SplitPage
<1>5. DOMAIN lo2 = DOMAIN lo \cup {n} BY <1>1 DEF SplitRanges, With
<1>6. PICK q : q = v[p].parent OBVIOUS
<1>7. q \in DOMAIN lo /\ v[q].type = "internal" BY <1>6, ParentIn
<1>8. /\ w[q].type = v[q].type
      /\ \A z \in {p, n} : w[z].type = v[p].type
      /\ \A x \in DOMAIN lo \ {p, q} : SameBut(v, w, x)
    BY <1>6 DEF SplitOf
<1>9. \A x \in DOMAIN lo \ {p} :
         w[x].type = v[x].type /\ (v[x].type = "leaf" => w[x].slots = v[x].slots)
    BY <1>7, <1>8 DEF SameBut
<1>10. v[p].type = "leaf" =>
         /\ DOMAIN v[p].slots = DOMAIN w[p].slots \cup DOMAIN w[n].slots
         /\ \A k \in DOMAIN w[p].slots : w[p].slots[k] = v[p].slots[k]
         /\ \A k \in DOMAIN w[n].slots : w[n].slots[k] = v[p].slots[k]
    <2>1. ASSUME v[p].type = "leaf"
          PROVE  w[p].slots = Below(v[p].slots, sep) /\ w[n].slots = From(v[p].slots, sep)
        BY <2>1 DEF HalvesOf
    <2>2. \A k \in DOMAIN v[p].slots : k \in Nat
        <3>1. DOMAIN v[p].slots \subseteq Keys BY InTree
        <3>. QED BY <3>1, KeysNat
    <2>3. sep \in Nat BY KeysNat
    <2>. QED BY <2>1, <2>2, <2>3 DEF Below, From
<1>11. w[p].type = v[p].type /\ w[n].type = v[p].type BY <1>8
<1>12. Within(v, lo, w, lo2) /\ Within(w, lo2, v, lo) BY <1>5, <1>9, <1>10, <1>11, WithinSplit
<1>. QED BY <1>4, <1>5, <1>12 DEF Reshaped

\* What is held is held on the way through a third tree.
LEMMA WithinTrans ==
    ASSUME NEW v, NEW lo, NEW u, NEW lo1, NEW w, NEW lo2,
           Within(v, lo, u, lo1), Within(u, lo1, w, lo2)
    PROVE  Within(v, lo, w, lo2)
<1>1. SUFFICES ASSUME NEW x \in DOMAIN lo, v[x].type = "leaf", NEW k \in DOMAIN v[x].slots
               PROVE  Ent(w, lo2, k, v[x].slots[k])
    BY DEF Within
<1>2. PICK y \in DOMAIN lo1 :
         u[y].type = "leaf" /\ k \in DOMAIN u[y].slots /\ u[y].slots[k] = v[x].slots[k]
    <2>1. Ent(u, lo1, k, v[x].slots[k]) BY <1>1 DEF Within
    <2>. QED BY <2>1 DEF Ent
<1>3. Ent(w, lo2, k, u[y].slots[k]) BY <1>2 DEF Within
<1>. QED BY <1>2, <1>3

\* The root p is divided between itself and n, under a new root q.
RootCut(v, w, lo, p, n, sep, q) ==
    /\ w[q].type = "internal" /\ w[q].link = p /\ w[q].parent = 0
    /\ w[q].slots = With(NoSlots, sep, n)
    /\ \A z \in {p, n} :
          w[z].type = v[p].type /\ w[z].parent = q /\ DOMAIN w[z].slots \subseteq Keys
    /\ \A x \in DOMAIN lo \ {p} :
          /\ SameBut(v, w, x)
          /\ IF v[x].parent = p THEN w[x].parent \in {p, n} /\ x \in Kids(w[w[x].parent])
                                ELSE w[x].parent = v[x].parent

\* The root, divided under a new root, leaves a tree with the same entries.
LEMMA CutRoot ==
    ASSUME NEW v, NEW lv, NEW r, NEW lo, NEW hi, IsTree(v, lv, r, lo, hi),
           NEW w, NEW lv2, NEW n, n \notin DOMAIN lo, n # 0,
           NEW q, q \notin DOMAIN lo, q # 0, q # n,
           NEW sep \in Keys, lo[r] < sep, sep < hi[r],
           DOMAIN lo \cup {n, q} \subseteq DOMAIN w,
           \A x \in DOMAIN lo : lv2[x] = lv[x], lv2[n] = lv[r], lv2[q] = lv[r] + 1,
           RootCut(v, w, lo, r, n, sep, q), HalvesOf(v, w, r, n, sep)
    PROVE  Reshaped(v, lo, w, lv2, q, DOMAIN lo \cup {n, q})
<1>1. PICK u : u = [x \in DOMAIN lo \cup {q} |->
                      IF x = q THEN Internal(0, r, NoSlots)
                      ELSE [type |-> v[x].type, link |-> v[x].link, slots |-> v[x].slots,
                            parent |-> IF x = r THEN q ELSE v[x].parent]]
    OBVIOUS
<1>2. DOMAIN u = DOMAIN lo \cup {q} /\ r \in DOMAIN lo BY <1>1, InTree
<1>3. \A x \in DOMAIN lo : SameBut(v, u, x) /\ u[x].parent = IF x = r THEN q ELSE v[x].parent
    BY <1>1 DEF SameBut
<1>4. u[q].type = "internal" /\ u[q].parent = 0 /\ u[q].link = r /\ u[q].slots = NoSlots
    BY <1>1 DEF Internal
<1>5. DOMAIN u[q].slots = {} BY <1>4 DEF NoSlots
<1>6. PICK lo1, hi1 : lo1 = With(lo, q, 0) /\ hi1 = With(hi, q, KeyEnd) OBVIOUS
<1>7. IsTree(u, lv2, q, lo1, hi1) BY <1>2, <1>3, <1>4, <1>5, <1>6, LiftRoot
<1>8. DOMAIN hi = DOMAIN lo BY DEF IsTree
<1>9. /\ DOMAIN lo1 = DOMAIN lo \cup {q} /\ lo1[r] = lo[r] /\ hi1[r] = hi[r]
    BY <1>2, <1>6, <1>8 DEF With
<1>10. /\ w[q].type = "internal" /\ w[q].link = r /\ w[q].parent = 0
       /\ w[q].slots = With(NoSlots, sep, n)
       /\ \A z \in {r, n} :
             w[z].type = v[r].type /\ w[z].parent = q /\ DOMAIN w[z].slots \subseteq Keys
       /\ \A x \in DOMAIN lo \ {r} :
             /\ SameBut(v, w, x)
             /\ IF v[x].parent = r THEN w[x].parent \in {r, n} /\ x \in Kids(w[w[x].parent])
                                   ELSE w[x].parent = v[x].parent
    BY DEF RootCut
<1>11. u[r].type = v[r].type /\ u[r].slots = v[r].slots /\ u[r].link = v[r].link /\ u[r].parent = q
    BY <1>2, <1>3 DEF SameBut
<1>12. SplitOf(u, w, lo1, r, n, sep)
    <2>1. /\ w[q].type = u[q].type /\ w[q].link = u[q].link /\ w[q].parent = u[q].parent
          /\ w[q].slots = With(u[q].slots, sep, n)
        BY <1>4, <1>10
    <2>2. \A z \in {r, n} :
             w[z].type = u[r].type /\ w[z].parent = q /\ DOMAIN w[z].slots \subseteq Keys
        BY <1>10, <1>11
    <2>3. ASSUME NEW x \in DOMAIN lo1 \ {r, q}
          PROVE  /\ SameBut(u, w, x)
                 /\ IF u[x].parent = r THEN w[x].parent \in {r, n} /\ x \in Kids(w[w[x].parent])
                                       ELSE w[x].parent = u[x].parent
        <3>1. x \in DOMAIN lo \ {r} BY <1>9
        <3>2. SameBut(v, u, x) /\ u[x].parent = v[x].parent BY <1>3, <3>1
        <3>3. SameBut(v, w, x) BY <1>10, <3>1
        <3>4. SameBut(u, w, x) BY <3>2, <3>3 DEF SameBut
        <3>. QED BY <1>10, <3>1, <3>2, <3>4
    <2>. QED BY <1>11, <2>1, <2>2, <2>3 DEF SplitOf
<1>13. HalvesOf(u, w, r, n, sep) BY <1>11 DEF HalvesOf
<1>14. PICK l1 : l1 = lv2 OBVIOUS
<1>15. PICK lo2, hi2 : /\ IsTree(w, lv2, q, lo2, hi2) /\ DOMAIN lo2 = DOMAIN lo1 \cup {n}
                       /\ Within(u, lo1, w, lo2) /\ Within(w, lo2, u, lo1)
    <2>1. r \in DOMAIN lo1 /\ r # q /\ n \notin DOMAIN lo1 /\ DOMAIN lo1 \cup {n} \subseteq DOMAIN w
        BY <1>2, <1>9
    <2>2. lo1[r] < sep /\ sep < hi1[r] BY <1>9
    <2>3. lv2[n] = l1[r] BY <1>2, <1>14
    <2>4. \A x \in DOMAIN lo1 : lv2[x] = l1[x] BY <1>14
    <2>5. IsTree(u, l1, q, lo1, hi1) BY <1>7, <1>14
    <2>6. Reshaped(u, lo1, w, lv2, q, DOMAIN lo1 \cup {n})
        BY <1>12, <1>13, <2>1, <2>2, <2>3, <2>4, <2>5, CutInner
    <2>. QED BY <2>6 DEF Reshaped
<1>16. Within(v, lo, u, lo1)
    <2>1. \A x \in DOMAIN lo : v[x].type = "leaf" =>
             x \in DOMAIN lo1 /\ u[x].type = "leaf" /\ u[x].slots = v[x].slots
        BY <1>3, <1>9 DEF SameBut
    <2>. QED BY <2>1, WithinSame
<1>17. Within(u, lo1, v, lo)
    <2>1. \A x \in DOMAIN lo1 : u[x].type = "leaf" =>
             x \in DOMAIN lo /\ v[x].type = "leaf" /\ v[x].slots = u[x].slots
        BY <1>3, <1>4, <1>9 DEF SameBut
    <2>. QED BY <2>1, WithinSame
<1>18. DOMAIN lo2 = DOMAIN lo \cup {n, q} BY <1>9, <1>15
<1>19. Within(v, lo, w, lo2) /\ Within(w, lo2, v, lo) BY <1>15, <1>16, <1>17, WithinTrans
<1>. QED BY <1>15, <1>18, <1>19 DEF Reshaped
------------------------------------------------------------------------------
(***************************************************************************)
(* Two leaves side by side are merged, or share their entries anew         *)
(***************************************************************************)
\* The leaves l and n are next to each other, with the separator sep of page q between.
Beside(v, lo, hi, l, n, q, sep) ==
    /\ q \in DOMAIN lo /\ v[q].type = "internal" /\ sep \in DOMAIN v[q].slots
    /\ n = v[q].slots[sep] /\ l \in Kids(v[q]) /\ hi[l] = sep /\ v[l].type = "leaf"

\* What it means for two leaves to be next to each other.
LEMMA BesideFacts ==
    ASSUME NEW v, NEW lv, NEW r, NEW lo, NEW hi, IsTree(v, lv, r, lo, hi),
           NEW l, NEW n, NEW q, NEW sep, Beside(v, lo, hi, l, n, q, sep)
    PROVE  /\ l \in DOMAIN lo /\ n \in DOMAIN lo /\ v[n].type = "leaf" /\ lo[n] = sep
           /\ l # n /\ l # q /\ n # q /\ l # r /\ n # r
           /\ v[l].parent = q /\ v[n].parent = q
           /\ lo[l] < sep /\ sep < hi[n] /\ v[l].link = n
           /\ \A s \in DOMAIN v[q].slots : s <= lo[l] \/ s = sep \/ hi[n] <= s
<1>1. /\ q \in DOMAIN lo /\ v[q].type = "internal" /\ sep \in DOMAIN v[q].slots
      /\ n = v[q].slots[sep] /\ l \in Kids(v[q]) /\ hi[l] = sep /\ v[l].type = "leaf"
    BY DEF Beside
<1>2. n \in Kids(v[q]) BY <1>1 DEF Kids
<1>3. \A c \in Kids(v[q]) : c \in DOMAIN lo /\ v[c].parent = q /\ lv[c] + 1 = lv[q] /\ c # r
    BY <1>1, RefsIn
<1>4. /\ \A s \in DOMAIN v[q].slots : lo[v[q].slots[s]] = s
      /\ \A c \in Kids(v[q]) : \A s \in DOMAIN v[q].slots : s <= lo[c] \/ hi[c] <= s
    BY <1>1, InTree DEF NodeOK
<1>5. \A x \in DOMAIN lo : /\ lo[x] \in Nat /\ hi[x] \in Nat /\ lo[x] < hi[x] /\ lv[x] \in Nat
                           /\ hi[x] <= KeyEnd /\ KeyEnd \in Nat
    BY Ends
<1>6. lo[n] = sep BY <1>1, <1>4
<1>7. l # n BY <1>1, <1>3, <1>5, <1>6
<1>8. v[n].type = "leaf" /\ lv[n] = lv[l] /\ lv[n] = 0
    <2>1. n \in DOMAIN lo /\ l \in DOMAIN lo /\ lv[n] + 1 = lv[q] /\ lv[l] + 1 = lv[q]
        BY <1>1, <1>2, <1>3
    <2>2. lv[n] = lv[l] BY <1>5, <2>1
    <2>3. lv[l] = 0 BY <1>1, <2>1, LeafLevel
    <2>. QED BY <2>1, <2>2, <2>3, LeafLevel
<1>9. v[l].link = n
    <2>1. hi[l] # KeyEnd BY <1>1, <1>2, <1>3, <1>5, <1>6
    <2>2. LeafOK(v, lo, hi, l) BY <1>1, <1>3, InTree
    <2>3. v[l].link \in DOMAIN lo /\ v[v[l].link].type = "leaf" /\ lo[v[l].link] = sep
        BY <1>1, <2>1, <2>2 DEF LeafOK
    <2>4. lv[v[l].link] = lv[n] BY <1>8, <2>3, LeafLevel
    <2>5. Inside(lo, hi, v[l].link, sep) /\ Inside(lo, hi, n, sep) /\ sep \in Nat
        BY <1>1, <1>2, <1>3, <1>5, <1>6, <2>3 DEF Inside
    <2>. QED BY <1>2, <1>3, <2>3, <2>4, <2>5, Apart
<1>10. \A s \in DOMAIN v[q].slots : s <= lo[l] \/ s = sep \/ hi[n] <= s
    <2>1. TAKE s \in DOMAIN v[q].slots
    <2>2. s \in Nat
        <3>1. DOMAIN v[q].slots \subseteq Keys BY <1>1, InTree
        <3>. QED BY <3>1, KeysNat
    <2>3. (s <= lo[l] \/ hi[l] <= s) /\ (s <= lo[n] \/ hi[n] <= s) BY <1>1, <1>2, <1>4
    <2>4. sep \in Nat BY <1>1, <1>3, <1>5
    <2>. QED BY <1>1, <1>6, <2>2, <2>3, <2>4
<1>. QED BY <1>1, <1>2, <1>3, <1>5, <1>6, <1>7, <1>8, <1>9, <1>10

\* The leaf l takes over what the leaf n holds, and page q their separator.
LEMMA Merge ==
    ASSUME NEW v, NEW lv, NEW r, NEW lo, NEW hi, IsTree(v, lv, r, lo, hi),
           NEW w, DOMAIN lo \subseteq DOMAIN w,
           NEW l, NEW n, NEW q, NEW sep, Beside(v, lo, hi, l, n, q, sep),
           MergeOf(v, w, lo, l, n, q, sep)
    PROVE  Reshaped(v, lo, w, lv, r, DOMAIN lo \ {n})
<1>1. PICK lo2, hi2 : MergeRanges(lo, hi, l, n, lo2, hi2) BY DEF MergeRanges
<1>2. /\ q \in DOMAIN lo /\ v[q].type = "internal" /\ sep \in DOMAIN v[q].slots
      /\ n = v[q].slots[sep] /\ l \in Kids(v[q]) /\ hi[l] = sep /\ v[l].type = "leaf"
    BY DEF Beside
<1>3. IsTree(w, lv, r, lo2, hi2) BY <1>1, <1>2, MergePages
<1>4. DOMAIN lo2 = DOMAIN lo \ {n} BY <1>1 DEF MergeRanges, Without
<1>5. l \in DOMAIN lo /\ n \in DOMAIN lo /\ l # n /\ v[n].type = "leaf" BY BesideFacts
<1>6. Within(v, lo, w, lo2) /\ Within(w, lo2, v, lo) BY <1>2, <1>4, <1>5, WithinMerge
<1>. QED BY <1>3, <1>4, <1>6 DEF Reshaped

\* The leaves l and n share what they hold anew, from `new' on in n.
ShiftOf(v, w, lo, l, n, q, sep, new) ==
    /\ w[q].type = v[q].type /\ w[q].link = v[q].link /\ w[q].parent = v[q].parent
    /\ w[q].slots = With(Without(v[q].slots, sep), new, n)
    /\ \A z \in {l, n} : w[z].type = "leaf" /\ w[z].parent = q
    /\ w[l].slots = Below(Join(v[l].slots, v[n].slots), new) /\ w[l].link = n
    /\ w[n].slots = From(Join(v[l].slots, v[n].slots), new) /\ w[n].link = v[n].link
    /\ \A x \in DOMAIN lo \ {l, n, q} : w[x] = v[x]

\* Two leaves that share their entries anew, with their new separator in the parent,
\* leave a tree with the same entries.
LEMMA Shift ==
    ASSUME NEW v, NEW lv, NEW r, NEW lo, NEW hi, IsTree(v, lv, r, lo, hi),
           NEW w, DOMAIN lo \subseteq DOMAIN w,
           NEW l, NEW n, NEW q, NEW sep, Beside(v, lo, hi, l, n, q, sep),
           NEW new \in Keys, lo[l] < new, new < hi[n],
           ShiftOf(v, w, lo, l, n, q, sep, new)
    PROVE  Reshaped(v, lo, w, lv, r, DOMAIN lo)
<1>1. /\ l \in DOMAIN lo /\ n \in DOMAIN lo /\ v[n].type = "leaf"
      /\ l # n /\ l # q /\ n # q /\ l # r /\ n # r /\ v[l].parent = q /\ v[n].parent = q
    BY BesideFacts
<1>2. /\ q \in DOMAIN lo /\ v[q].type = "internal" /\ sep \in DOMAIN v[q].slots
      /\ n = v[q].slots[sep] /\ l \in Kids(v[q]) /\ hi[l] = sep /\ v[l].type = "leaf"
    BY DEF Beside
<1>3. PICK J : J = Join(v[l].slots, v[n].slots) OBVIOUS
<1>4. DOMAIN J \subseteq Keys
    <2>1. DOMAIN v[l].slots \subseteq Keys /\ DOMAIN v[n].slots \subseteq Keys BY <1>1, InTree
    <2>. QED BY <1>3, <2>1 DEF Join
<1>5. PICK u : u = [x \in DOMAIN lo |->
                      IF x = q THEN [type |-> v[q].type, link |-> v[q].link, parent |-> v[q].parent,
                                     slots |-> Without(v[q].slots, sep)]
                      ELSE IF x = l THEN Leaf(q, v[n].link, J) ELSE v[x]]
    OBVIOUS
<1>6. /\ DOMAIN u = DOMAIN lo
      /\ u[q].type = v[q].type /\ u[q].link = v[q].link /\ u[q].parent = v[q].parent
      /\ u[q].slots = Without(v[q].slots, sep)
      /\ u[l].type = "leaf" /\ u[l].parent = q /\ u[l].link = v[n].link /\ u[l].slots = J
      /\ \A x \in DOMAIN lo \ {l, n, q} : u[x] = v[x]
    BY <1>1, <1>2, <1>5 DEF Leaf
<1>7. MergeOf(v, u, lo, l, n, q, sep) BY <1>3, <1>6 DEF MergeOf
<1>8. PICK lo1, hi1 : MergeRanges(lo, hi, l, n, lo1, hi1) BY DEF MergeRanges
<1>9. IsTree(u, lv, r, lo1, hi1) BY <1>2, <1>6, <1>7, <1>8, MergePages
<1>10. DOMAIN hi = DOMAIN lo BY DEF IsTree
<1>11. DOMAIN lo1 = DOMAIN lo \ {n} /\ lo1[l] = lo[l] /\ hi1[l] = hi[n]
    BY <1>1, <1>8, <1>10 DEF MergeRanges, Without
<1>12. Within(v, lo, u, lo1) /\ Within(u, lo1, v, lo) BY <1>1, <1>2, <1>7, <1>11, WithinMerge
<1>13. /\ w[q].type = v[q].type /\ w[q].link = v[q].link /\ w[q].parent = v[q].parent
       /\ w[q].slots = With(Without(v[q].slots, sep), new, n)
       /\ \A z \in {l, n} : w[z].type = "leaf" /\ w[z].parent = q
       /\ w[l].slots = Below(J, new) /\ w[l].link = n
       /\ w[n].slots = From(J, new) /\ w[n].link = v[n].link
       /\ \A x \in DOMAIN lo \ {l, n, q} : w[x] = v[x]
    BY <1>3 DEF ShiftOf
<1>14. SplitOf(u, w, lo1, l, n, new)
    <2>1. /\ w[q].type = u[q].type /\ w[q].link = u[q].link /\ w[q].parent = u[q].parent
          /\ w[q].slots = With(u[q].slots, new, n)
        BY <1>6, <1>13
    <2>2. DOMAIN w[l].slots \subseteq Keys /\ DOMAIN w[n].slots \subseteq Keys
        BY <1>4, <1>13 DEF Below, From
    <2>3. \A z \in {l, n} :
             w[z].type = u[l].type /\ w[z].parent = q /\ DOMAIN w[z].slots \subseteq Keys
        BY <1>6, <1>13, <2>2
    <2>4. ASSUME NEW x \in DOMAIN lo1 \ {l, q}
          PROVE  SameBut(u, w, x) /\ u[x].parent # l /\ w[x].parent = u[x].parent
        <3>1. x \in DOMAIN lo \ {l, n, q} BY <1>11
        <3>2. w[x] = v[x] /\ u[x] = v[x] BY <1>6, <1>13, <3>1
        <3>3. v[x].parent # l
            <4>1. CASE x = r BY <1>1, <4>1, InTree
            <4>2. CASE x # r
                <5>1. v[v[x].parent].type = "internal" BY <3>1, <4>2, InTree
                <5>. QED BY <1>2, <5>1
            <4>. QED BY <4>1, <4>2
        <3>. QED BY <3>2, <3>3 DEF SameBut
    <2>5. u[l].parent = q BY <1>6
    <2>. QED BY <2>1, <2>3, <2>4, <2>5 DEF SplitOf
<1>15. HalvesOf(u, w, l, n, new) BY <1>6, <1>13 DEF HalvesOf
<1>16. Reshaped(u, lo1, w, lv, r, DOMAIN lo1 \cup {n})
    <2>1. l \in DOMAIN lo1 /\ n \notin DOMAIN lo1 /\ DOMAIN lo1 \cup {n} \subseteq DOMAIN w
        BY <1>1, <1>11
    <2>2. n # 0 BY <1>1, InTree
    <2>3. lo1[l] < new /\ new < hi1[l] BY <1>11
    <2>4. lv[n] = lv[l]
        <3>1. lv[n] = 0 /\ lv[l] = 0 BY <1>1, <1>2, LeafLevel
        <3>. QED BY <3>1
    <2>5. PICK l2 : l2 = lv OBVIOUS
    <2>6. \A x \in DOMAIN lo1 : l2[x] = lv[x] BY <2>5
    <2>7. l2[n] = lv[l] BY <2>4, <2>5
    <2>8. Reshaped(u, lo1, w, l2, r, DOMAIN lo1 \cup {n})
        BY <1>1, <1>9, <1>14, <1>15, <2>1, <2>2, <2>3, <2>6, <2>7, CutInner
    <2>. QED BY <2>5, <2>8
<1>17. PICK lo2, hi2 : /\ IsTree(w, lv, r, lo2, hi2) /\ DOMAIN lo2 = DOMAIN lo1 \cup {n}
                       /\ Within(u, lo1, w, lo2) /\ Within(w, lo2, u, lo1)
    BY <1>16 DEF Reshaped
<1>18. Within(v, lo, w, lo2) /\ Within(w, lo2, v, lo) BY <1>12, <1>17, WithinTrans
<1>19. DOMAIN lo2 = DOMAIN lo BY <1>1, <1>11, <1>17
<1>. QED BY <1>17, <1>18, <1>19 DEF Reshaped
------------------------------------------------------------------------------
(***************************************************************************)
(* The siblings the repairs look for                                       *)
(***************************************************************************)
\* The child at the separator s of page q begins at s, and no other child does.
LEMMA OwnSep ==
    ASSUME NEW lv, NEW r, NEW lo, NEW hi, IsTree(pages, lv, r, lo, hi),
           NEW p \in DOMAIN lo, p # r, NEW q, q = pages[p].parent
    PROVE  /\ q \in DOMAIN lo /\ pages[q].type = "internal" /\ p \in Kids(pages[q]) /\ IsChild(p)
           /\ NodeOK(pages, lv, lo, hi, q) /\ DOMAIN pages[q].slots \subseteq Keys
           /\ lo[q] <= lo[p] /\ hi[p] <= hi[q]
           /\ \A s \in DOMAIN pages[q].slots : pages[q].slots[s] = p => s = lo[p]
           /\ p # pages[q].link => /\ lo[p] \in DOMAIN pages[q].slots
                                   /\ pages[q].slots[lo[p]] = p /\ OwnSeps(p) = {lo[p]}
           /\ p = pages[q].link => lo[p] = lo[q]
<1>1. /\ q \in DOMAIN lo /\ pages[q].type = "internal" /\ p \in Kids(pages[q])
      /\ lo[q] <= lo[p] /\ hi[p] <= hi[q]
    BY ParentIn
<1>2. NodeOK(pages, lv, lo, hi, q) /\ DOMAIN pages[q].slots \subseteq Keys BY <1>1, InTree
<1>3. \A s \in DOMAIN pages[q].slots : lo[pages[q].slots[s]] = s BY <1>2 DEF NodeOK
<1>4. \A s \in DOMAIN pages[q].slots : pages[q].slots[s] = p => s = lo[p] BY <1>3
<1>5. p # pages[q].link => \E s \in DOMAIN pages[q].slots : pages[q].slots[s] = p
    BY <1>1 DEF Kids
<1>6. OwnSeps(p) = {s \in DOMAIN pages[q].slots : pages[q].slots[s] = p} BY DEF OwnSeps, Parent
<1>7. p # pages[q].link => /\ lo[p] \in DOMAIN pages[q].slots
                           /\ pages[q].slots[lo[p]] = p /\ OwnSeps(p) = {lo[p]}
    BY <1>4, <1>5, <1>6
<1>8. IsChild(p) BY <1>7 DEF IsChild, Parent
<1>9. p = pages[q].link => lo[p] = lo[q] BY <1>2 DEF NodeOK
<1>. QED BY <1>1, <1>2, <1>4, <1>7, <1>8, <1>9

\* Min finds the least number.
LEMMA MinIs ==
    ASSUME NEW S \in SUBSET Nat, NEW n \in S, \A m \in S : n <= m
    PROVE  Min(S) = n
<1>1. PICK x : x = Min(S) OBVIOUS
<1>2. Min(S) \in S /\ \A m \in S : Min(S) <= m BY MinIn
<1>3. x \in S /\ \A m \in S : x <= m BY <1>1, <1>2
<1>4. x <= n /\ n <= x /\ x \in Nat /\ n \in Nat BY <1>3
<1>. QED BY <1>1, <1>4

\* The right sibling that the code finds begins where the page ends.
LEMMA RightOf ==
    ASSUME NEW lv, NEW r, NEW lo, NEW hi, IsTree(pages, lv, r, lo, hi),
           NEW p \in DOMAIN lo, p # r, NEW q, q = pages[p].parent, HasRight(p)
    PROVE  /\ RightSep(p) \in DOMAIN pages[q].slots /\ hi[p] = RightSep(p)
           /\ RightSib(p) = pages[q].slots[RightSep(p)]
<1>1. /\ q \in DOMAIN lo /\ p \in Kids(pages[q]) /\ NodeOK(pages, lv, lo, hi, q)
      /\ DOMAIN pages[q].slots \subseteq Keys
      /\ p # pages[q].link => OwnSeps(p) = {lo[p]}
      /\ p = pages[q].link => lo[p] = lo[q]
    BY OwnSep
<1>2. PICK D : D = DOMAIN pages[q].slots OBVIOUS
<1>3. /\ \A s \in D : lo[q] < s /\ s < hi[q]
      /\ hi[p] \in D \cup {hi[q]} /\ \A s \in D : s <= lo[p] \/ hi[p] <= s
    BY <1>1, <1>2 DEF NodeOK
<1>4. /\ D \in SUBSET Nat /\ lo[p] \in Nat /\ hi[p] \in Nat /\ lo[p] < hi[p] /\ lo[q] \in Nat
      /\ hi[q] \in Nat
    <2>1. D \in SUBSET Nat BY <1>1, <1>2, KeysNat
    <2>. QED BY <1>1, <2>1, Ends
<1>5. PICK R : R = RightSeps(p) OBVIOUS
<1>6. R = {s \in D : lo[p] < s}
    <2>1. R = {s \in D : p # pages[q].link => s > Min(OwnSeps(p))}
        BY <1>2, <1>5 DEF RightSeps, HasLeft, LeftSep, Parent
    <2>2. CASE p = pages[q].link
        <3>1. R = D BY <2>1, <2>2
        <3>. QED BY <1>1, <1>3, <2>2, <3>1
    <2>3. CASE p # pages[q].link
        <3>1. Min({lo[p]}) = lo[p]
            <4>1. {lo[p]} \in SUBSET Nat BY <1>4
            <4>. QED BY <1>4, <4>1, MinIs
        <3>2. R = {s \in D : s > lo[p]} BY <1>1, <2>1, <2>3, <3>1
        <3>. QED BY <1>4, <3>2
    <2>. QED BY <2>2, <2>3
<1>7. hi[p] \in R /\ \A s \in R : hi[p] <= s
    <2>1. PICK s \in R : TRUE BY <1>5 DEF HasRight
    <2>2. s \in D /\ lo[p] < s BY <1>6
    <2>3. s \in Nat BY <1>4, <2>2
    <2>4. hi[p] <= s BY <1>3, <1>4, <2>2, <2>3
    <2>5. s < hi[q] BY <1>3, <2>2
    <2>6. hi[p] # hi[q] BY <1>4, <2>3, <2>4, <2>5
    <2>7. hi[p] \in D BY <1>3, <2>6
    <2>8. \A t \in R : hi[p] <= t
        <3>1. TAKE t \in R
        <3>2. t \in D /\ lo[p] < t /\ t \in Nat BY <1>4, <1>6
        <3>. QED BY <1>3, <1>4, <3>2
    <2>. QED BY <1>4, <1>6, <2>7, <2>8
<1>8. Min(R) = hi[p]
    <2>1. R \in SUBSET Nat BY <1>4, <1>6
    <2>. QED BY <1>7, <2>1, MinIs
<1>9. RightSep(p) = hi[p] BY <1>5, <1>8 DEF RightSep
<1>10. hi[p] \in D BY <1>6, <1>7
<1>. QED BY <1>2, <1>9, <1>10 DEF RightSib, Parent

\* The left sibling that the code finds ends where the page begins.
LEMMA LeftOf ==
    ASSUME NEW lv, NEW r, NEW lo, NEW hi, IsTree(pages, lv, r, lo, hi),
           NEW p \in DOMAIN lo, p # r, NEW q, q = pages[p].parent, HasLeft(p)
    PROVE  /\ LeftSep(p) = lo[p] /\ lo[p] \in DOMAIN pages[q].slots /\ pages[q].slots[lo[p]] = p
           /\ LeftSib(p) \in Kids(pages[q]) /\ hi[LeftSib(p)] = lo[p]
           /\ lv[LeftSib(p)] = lv[p] /\ LeftSib(p) \in DOMAIN lo
<1>0. p # pages[q].link BY DEF HasLeft, Parent
<1>1. /\ q \in DOMAIN lo /\ p \in Kids(pages[q]) /\ NodeOK(pages, lv, lo, hi, q)
      /\ DOMAIN pages[q].slots \subseteq Keys /\ pages[q].type = "internal"
      /\ OwnSeps(p) = {lo[p]} /\ lo[p] \in DOMAIN pages[q].slots /\ pages[q].slots[lo[p]] = p
      /\ hi[p] <= hi[q]
    BY <1>0, OwnSep
<1>2. PICK D : D = DOMAIN pages[q].slots OBVIOUS
<1>3. \A x \in DOMAIN lo : lo[x] \in Nat /\ hi[x] \in Nat /\ lo[x] < hi[x] /\ lv[x] \in Nat
    BY Ends
<1>4. LeftSep(p) = lo[p]
    <2>1. {lo[p]} \in SUBSET Nat /\ lo[p] \in Nat BY <1>3
    <2>2. Min({lo[p]}) = lo[p] BY <2>1, MinIs
    <2>. QED BY <1>1, <2>2 DEF LeftSep
<1>5. lo[q] < lo[p] BY <1>1 DEF NodeOK
<1>6. PICK k : k = lo[p] - 1 OBVIOUS
<1>7. k \in Nat /\ Inside(lo, hi, q, k) BY <1>1, <1>3, <1>5, <1>6 DEF Inside
<1>8. PICK l : l = LeftSib(p) OBVIOUS
<1>9. l = ChildFor(pages[q], k) BY <1>4, <1>6, <1>8 DEF LeftSib, Parent
<1>10. /\ l \in DOMAIN lo /\ Inside(lo, hi, l, k) /\ l \in Kids(pages[q]) /\ lv[l] + 1 = lv[q]
    BY <1>1, <1>7, <1>9, Route
<1>11. \A s \in D : s <= lo[l] \/ hi[l] <= s BY <1>1, <1>2, <1>10 DEF NodeOK
<1>12. hi[l] = lo[p]
    <2>1. lo[l] <= k /\ k < hi[l] BY <1>10 DEF Inside
    <2>2. lo[p] <= lo[l] \/ hi[l] <= lo[p] BY <1>1, <1>2, <1>11
    <2>3. lo[l] \in Nat /\ hi[l] \in Nat /\ lo[p] \in Nat BY <1>3, <1>10
    <2>. QED BY <1>6, <2>1, <2>2, <2>3
<1>13. lv[l] = lv[p]
    <2>1. lv[p] + 1 = lv[q] BY <1>1, RefsIn
    <2>. QED BY <1>3, <1>10, <2>1
<1>. QED BY <1>1, <1>4, <1>8, <1>10, <1>12, <1>13

\* A page with no sibling is the only child of its parent.
LEMMA OnlyChild ==
    ASSUME NEW lv, NEW r, NEW lo, NEW hi, IsTree(pages, lv, r, lo, hi),
           NEW p \in DOMAIN lo, p # r, NEW q, q = pages[p].parent, ~HasLeft(p), ~HasRight(p)
    PROVE  DOMAIN pages[q].slots = {}
BY DEF HasLeft, HasRight, RightSeps, Parent
==============================================================================
