--------------------------- MODULE TreeShapeProofs ---------------------------
(***************************************************************************)
(* TypeOK, Balanced and RightKindOfPage hold in every behaviour of         *)
(* TreeShape, for every set of keys, capacity and sequence of calls.       *)
(*                                                                         *)
(* None of the three is inductive alone: that a leaf gets values and not   *)
(* page ids when it is merged with its sibling rests on the siblings being *)
(* at one level, which rests on every id a page holds naming a page of     *)
(* the level below that can itself be descended from.  WellShaped says     *)
(* this of all the pages at once, dead ones included.                      *)
(***************************************************************************)
EXTENDS TreeShape, WellFoundedInduction, FiniteSetTheorems, TLAPS

SlotMap(f, R) == DOMAIN f \subseteq Keys /\ f \in [DOMAIN f -> R]

\* The pages of level n that have all their children.
LiveAt(pgs, lev, n) ==
    {q \in 1..Len(pgs) : lev[q] = n /\ (pgs[q].type = "leaf" \/ pgs[q].link # 0)}

\* Page pg may stand at level n.
FitsAt(pg, n, pgs, lev) ==
    /\ pg \in [type : {"leaf", "internal"}, parent : {0} \cup LiveAt(pgs, lev, n + 1),
               link : Nat, slots : {pg.slots}]
    /\ pg.type = "leaf" =>
         n = 0 /\ pg.link \in {0} \cup LiveAt(pgs, lev, 0) /\ SlotMap(pg.slots, Vals)
    /\ pg.type = "internal" =>
         /\ n > 0 /\ pg.link \in {0} \cup LiveAt(pgs, lev, n - 1)
         /\ SlotMap(pg.slots, LiveAt(pgs, lev, n - 1))
         /\ pg.link = 0 => DOMAIN pg.slots = {}

\* `new' is what the pages `old' become when pages are changed and none is
\* allocated: each fits its level, and none loses or gains its leftmost child.
InPlace(old, lev, new) ==
    /\ new = [p \in 1..Len(old) |-> new[p]]
    /\ \A p \in 1..Len(old) :
          /\ FitsAt(new[p], lev[p], old, lev)
          /\ new[p].type = old[p].type
          /\ new[p].type = "internal" => (new[p].link = 0) = (old[p].link = 0)

Anything == {f \in UNION {[D -> Vals \cup Nat] : D \in SUBSET Keys} : TRUE}
Records == [type : {"leaf", "internal"}, parent : Nat, link : Nat, slots : Anything]

WellShaped(pgs, lev) ==
    /\ pgs \in Seq(Records) /\ lev \in Seq(Nat) /\ Len(lev) = Len(pgs)
    /\ \A p \in 1..Len(pgs) : FitsAt(pgs[p], lev[p], pgs, lev)

\* Append, as an operator whose uses the provers recognise in the lemmas about it.
Longer(s, e) == Append(s, e)

IInv == WellShaped(pages, level) /\ ControlOK /\ RightKindOfPage
------------------------------------------------------------------------------
(***************************************************************************)
(* Least and greatest elements.                                            *)
(***************************************************************************)
LEMMA LeastNatural ==
    ASSUME NEW S \in SUBSET Nat, S # {}
    PROVE  \E n \in S : \A m \in S : n <= m
<1>1. PICK n \in S : \A m \in S : ~ (<<m, n>> \in OpToRel(<, Nat))
    BY NatLessThanWellFounded, WFMin
<1>2. \A m \in S : ~(m < n)
    BY <1>1 DEF OpToRel
<1>. QED BY <1>2

LEMMA MinIn ==
    ASSUME NEW S \in SUBSET Nat, S # {}
    PROVE  Min(S) \in S /\ \A m \in S : Min(S) <= m
BY LeastNatural DEF Min

LEMMA MaxIn ==
    ASSUME NEW S \in SUBSET Nat, S # {}, NEW b \in Nat, \A n \in S : n <= b
    PROVE  Max(S) \in S /\ \A m \in S : m <= Max(S)
<1>. DEFINE T == {d \in Nat : \E n \in S : n + d = b}
<1>1. \A n \in S : b - n \in T BY SMT
<1>2. T # {} BY <1>1
<1>3. PICK t \in T : \A u \in T : t <= u BY <1>2, LeastNatural
<1>4. PICK n \in S : n + t = b BY <1>3
<1>5. \A m \in S : m <= n
    <2>1. TAKE m \in S
    <2>2. t <= b - m BY <1>1, <1>3
    <2>. QED BY <1>4, <2>2
<1>. QED BY <1>5 DEF Max

LEMMA KeysNat == Keys \in SUBSET Nat /\ Max(Keys) \in Nat /\ \A k \in Keys : k <= Max(Keys)
BY KeysAssumption

LEMMA KeysMin ==
    ASSUME NEW S \in SUBSET Keys, S # {}
    PROVE  Min(S) \in S
BY KeysNat, MinIn

LEMMA KeysMax ==
    ASSUME NEW S \in SUBSET Keys, S # {}
    PROVE  Max(S) \in S /\ \A m \in S : m <= Max(S)
<1>1. S \in SUBSET Nat /\ Max(Keys) \in Nat /\ \A k \in S : k <= Max(Keys)
    BY KeysNat
<1>. QED BY <1>1, MaxIn

LEMMA KeysFinite == ASSUME NEW S \in SUBSET Keys PROVE IsFiniteSet(S)
<1>1. S \in SUBSET Nat /\ Max(Keys) \in Nat /\ \A k \in S : k <= Max(Keys)
    BY KeysNat
<1>. QED BY <1>1, FS_BoundedSetOfNaturals
------------------------------------------------------------------------------
(***************************************************************************)
(* Slots.                                                                  *)
(***************************************************************************)
LEMMA SlotMapNone == ASSUME NEW R PROVE SlotMap(NoSlots, R) /\ DOMAIN NoSlots = {}
BY DEF SlotMap, NoSlots

LEMMA SlotMapWithout ==
    ASSUME NEW f, NEW R, SlotMap(f, R), NEW k
    PROVE  SlotMap(Without(f, k), R) /\ DOMAIN Without(f, k) = DOMAIN f \ {k}
BY DEF SlotMap, Without

LEMMA SlotMapWith ==
    ASSUME NEW f, NEW R, SlotMap(f, R), NEW k \in Keys, NEW d \in R
    PROVE  SlotMap(With(f, k, d), R)
BY DEF SlotMap, With

LEMMA SlotMapJoin ==
    ASSUME NEW f, NEW g, NEW R, SlotMap(f, R), SlotMap(g, R)
    PROVE  SlotMap(Join(f, g), R)
BY DEF SlotMap, Join

LEMMA SlotMapReplaced ==
    ASSUME NEW f, NEW R, SlotMap(f, R), NEW old \in DOMAIN f, NEW new \in Keys
    PROVE  SlotMap(Replaced(f, old, new), R)
BY SlotMapWithout, SlotMapWith DEF Replaced, SlotMap

LEMMA SlotMapOf ==
    ASSUME NEW items, NEW R, \A i \in items : i.key \in Keys /\ i.data \in R
    PROVE  SlotMap(SlotsOf(items), R) /\ (items = {} => DOMAIN SlotsOf(items) = {})
<1>1. \A k \in {i.key : i \in items} : (CHOOSE i \in items : i.key = k).data \in R
    OBVIOUS
<1>. QED BY <1>1 DEF SlotMap, SlotsOf

\* Every entry a page is rebuilt from is one the page or the call had.
LEMMA SortedFrom ==
    ASSUME NEW f, NEW R, SlotMap(f, R), NEW k \in Keys, NEW d \in R
    PROVE  \A i \in Sorted(f, k, d) : i.key \in Keys /\ i.data \in R
<1>1. SUFFICES ASSUME NEW i \in Sorted(f, k, d) PROVE i.key \in Keys /\ i.data \in R
    OBVIOUS
<1>2. \/ \E j \in DOMAIN f : i.key = j /\ i.data = f[j]
      \/ i.key = k /\ i.data = d
    BY DEF Sorted, Entry
<1>. QED BY <1>2 DEF SlotMap

LEMMA ConcatFrom ==
    ASSUME NEW f, NEW g, NEW R, SlotMap(f, R), SlotMap(g, R), NEW k \in Keys, NEW d \in R
    PROVE  \A i \in Concat(f, k, d, g) : i.key \in Keys /\ i.data \in R
<1>1. SUFFICES ASSUME NEW i \in Concat(f, k, d, g) PROVE i.key \in Keys /\ i.data \in R
    OBVIOUS
<1>2. \/ \E j \in DOMAIN f : i.key = j /\ i.data = f[j]
      \/ i.key = k /\ i.data = d
      \/ \E j \in DOMAIN g : i.key = j /\ i.data = g[j]
    BY DEF Concat, Entry
<1>. QED BY <1>2 DEF SlotMap

LEMMA LoadedFrom == ASSUME NEW type, NEW items PROVE Loaded(type, items) \subseteq items
BY DEF Loaded

LEMMA RankNat == ASSUME NEW f, DOMAIN f \subseteq Keys, NEW k PROVE Rank(f, k) \in Nat
<1>1. {j \in DOMAIN f : j < k} \in SUBSET Keys OBVIOUS
<1>. QED BY <1>1, KeysFinite, FS_CardinalityType DEF Rank

LEMMA SortedPos ==
    ASSUME NEW f, DOMAIN f \subseteq Keys, NEW k, NEW d
    PROVE  \A i \in Sorted(f, k, d) : i.pos \in Nat
<1>1. SUFFICES ASSUME NEW i \in Sorted(f, k, d) PROVE i.pos \in Nat
    OBVIOUS
<1>2. \/ \E j \in DOMAIN f : i.pos = Rank(f, j) + (IF k < j THEN 1 ELSE 0)
      \/ i.pos = Rank(f, k + 1)
    BY DEF Sorted, Entry
<1>. QED BY <1>2, RankNat

\* The last of the entries has as many before it as the page had slots.
LEMMA LastEntry ==
    ASSUME NEW f, DOMAIN f \subseteq Keys, NEW k \in Keys, NEW d
    PROVE  \E i \in Sorted(f, k, d) : i.pos = Cardinality(DOMAIN f)
<1>. DEFINE D == DOMAIN f
<1>0. k \in Nat /\ \A j \in D : j \in Nat BY KeysNat
<1>1. CASE \A j \in D : j <= k
    <2>1. {j \in D : j < k + 1} = D BY <1>0, <1>1
    <2>2. Entry(k, d, Rank(f, k + 1)) \in Sorted(f, k, d) BY DEF Sorted
    <2>. QED BY <2>1, <2>2 DEF Rank, Entry
<1>2. CASE ~ \A j \in D : j <= k
    <2>1. PICK m \in D : \A j \in D : j <= m BY <1>2, KeysMax
    <2>2. k < m BY <1>0, <1>2, <2>1
    <2>3. {j \in D : j < m} = D \ {m} BY <1>0, <2>1
    <2>4. Rank(f, m) = Cardinality(D) - 1
        BY <2>1, <2>3, KeysFinite, FS_RemoveElement DEF Rank
    <2>5. Cardinality(D) \in Nat BY KeysFinite, FS_CardinalityType
    <2>6. Entry(m, f[m], Rank(f, m) + (IF k < m THEN 1 ELSE 0)) \in Sorted(f, k, d)
        BY <2>1 DEF Sorted
    <2>. QED BY <2>2, <2>4, <2>5, <2>6 DEF Entry
<1>. QED BY <1>1, <1>2

LEMMA FirstIn ==
    ASSUME NEW items, items # {}, \A i \in items : i.pos \in Nat
    PROVE  First(items) \in items
<1>. DEFINE P == {n \in Nat : \E i \in items : i.pos = n}
<1>1. PICK n \in P : \A m \in P : n <= m
    <2>. P # {} OBVIOUS
    <2>. QED BY LeastNatural
<1>2. PICK i \in items : i.pos = n OBVIOUS
<1>3. \A j \in items : i.pos <= j.pos BY <1>1, <1>2
<1>. QED BY <1>3 DEF First

\* A page that is split has a median: the upper half of its entries is not empty.
LEMMA UpperHalf ==
    ASSUME NEW f, DOMAIN f \subseteq Keys, NEW k \in Keys, NEW d
    PROVE  LET all  == Sorted(f, k, d)
               left == {i \in all : i.pos < (Cardinality(DOMAIN f) + 1) \div 2}
           IN  First(all \ left) \in all \ left
<1>. DEFINE all  == Sorted(f, k, d)
            left == {i \in all : i.pos < (Cardinality(DOMAIN f) + 1) \div 2}
<1>1. PICK i \in all : i.pos = Cardinality(DOMAIN f) BY LastEntry
<1>2. Cardinality(DOMAIN f) \in Nat BY KeysFinite, FS_CardinalityType
<1>3. i \in all \ left BY <1>1, <1>2
<1>4. \A j \in all \ left : j.pos \in Nat BY SortedPos
<1>. QED BY <1>3, <1>4, FirstIn
------------------------------------------------------------------------------
(***************************************************************************)
(* Pages.                                                                  *)
(***************************************************************************)
LEMMA FitsRecord ==
    ASSUME NEW pgs, Len(pgs) \in Nat, NEW lev, NEW n, NEW pg, FitsAt(pg, n, pgs, lev)
    PROVE  pg \in Records
<1>1. \A m : LiveAt(pgs, lev, m) \subseteq Nat BY DEF LiveAt
<1>2. pg.slots \in Anything
    <2>1. CASE pg.type = "leaf" BY <2>1 DEF FitsAt, SlotMap, Anything
    <2>2. CASE pg.type = "internal" BY <2>2, <1>1 DEF FitsAt, SlotMap, Anything
    <2>. QED BY <2>1, <2>2 DEF FitsAt
<1>. QED BY <1>1, <1>2 DEF FitsAt, Records

\* A field of a page is replaced by another that fits.
LEMMA FitsSlots ==
    ASSUME NEW pgs, NEW lev, NEW n, NEW pg, FitsAt(pg, n, pgs, lev), NEW f,
           pg.type = "leaf" => SlotMap(f, Vals),
           pg.type = "internal" => /\ SlotMap(f, LiveAt(pgs, lev, n - 1))
                                   /\ pg.link = 0 => DOMAIN f = {}
    PROVE  /\ FitsAt([pg EXCEPT !.slots = f], n, pgs, lev)
           /\ [pg EXCEPT !.slots = f].type = pg.type
           /\ [pg EXCEPT !.slots = f].link = pg.link
BY DEF FitsAt

LEMMA FitsParent ==
    ASSUME NEW pgs, NEW lev, NEW n, NEW pg, FitsAt(pg, n, pgs, lev),
           NEW q \in {0} \cup LiveAt(pgs, lev, n + 1)
    PROVE  /\ FitsAt([pg EXCEPT !.parent = q], n, pgs, lev)
           /\ [pg EXCEPT !.parent = q].type = pg.type
           /\ [pg EXCEPT !.parent = q].link = pg.link
BY DEF FitsAt

\* Pages that are changed in place, each to one that fits its level, stay well
\* shaped, if no internal page loses or gains its leftmost child.
LEMMA Rewrite ==
    ASSUME NEW old, NEW lev, WellShaped(old, lev), NEW new, InPlace(old, lev, new)
    PROVE  /\ WellShaped(new, lev) /\ Len(new) = Len(old)
           /\ \A n : LiveAt(new, lev, n) = LiveAt(old, lev, n)
           /\ \A p \in 1..Len(old) : /\ new[p].type = old[p].type
                                     /\ new[p].type = "internal" =>
                                          (new[p].link = 0) = (old[p].link = 0)
<1>1. Len(old) \in Nat BY DEF WellShaped
<1>2. \A p \in 1..Len(old) : new[p] \in Records BY <1>1, FitsRecord DEF InPlace
<1>3. new \in Seq(Records) /\ Len(new) = Len(old) BY <1>1, <1>2 DEF InPlace
<1>4. \A n : LiveAt(new, lev, n) = LiveAt(old, lev, n)
    <2>1. \A p \in 1..Len(old) : old[p].type = "leaf" \/ old[p].type = "internal"
        BY DEF WellShaped, FitsAt
    <2>2. \A p \in 1..Len(old) : /\ new[p].type = old[p].type
                                 /\ new[p].type = "internal" =>
                                      (new[p].link = 0) = (old[p].link = 0)
        BY DEF InPlace
    <2>. QED BY <1>3, <2>1, <2>2 DEF LiveAt
<1>5. \A p \in 1..Len(new) : FitsAt(new[p], lev[p], new, lev)
    BY <1>3, <1>4 DEF FitsAt, InPlace
<1>. QED BY <1>3, <1>4, <1>5 DEF WellShaped, InPlace

LEMMA InPlaceSame ==
    ASSUME NEW old, NEW lev, WellShaped(old, lev)
    PROVE  InPlace(old, lev, old)
BY DEF InPlace, WellShaped

\* Changes in place are made one page after another.
LEMMA InPlaceAt ==
    ASSUME NEW old, NEW lev, NEW x, InPlace(old, lev, x), NEW a \in 1..Len(old),
           NEW pg, FitsAt(pg, lev[a], old, lev), pg.type = old[a].type,
           pg.type = "internal" => (pg.link = 0) = (old[a].link = 0)
    PROVE  InPlace(old, lev, [x EXCEPT ![a] = pg])
BY DEF InPlace

LEMMA InPlaceSlots ==
    ASSUME NEW old, NEW lev, NEW x, InPlace(old, lev, x), NEW a \in 1..Len(old), NEW f,
           old[a].type = "leaf" => SlotMap(f, Vals),
           old[a].type = "internal" =>
              old[a].link # 0 /\ SlotMap(f, LiveAt(old, lev, lev[a] - 1))
    PROVE  InPlace(old, lev, [x EXCEPT ![a].slots = f])
<1>. DEFINE pg == [x[a] EXCEPT !.slots = f]
<1>1. /\ FitsAt(x[a], lev[a], old, lev) /\ x[a].type = old[a].type
      /\ x[a].type = "internal" => x[a].link # 0
    BY DEF InPlace
<1>2. FitsAt(pg, lev[a], old, lev) /\ pg.type = x[a].type /\ pg.link = x[a].link
    <2>1. x[a].type = "leaf" => SlotMap(f, Vals) BY <1>1
    <2>2. x[a].type = "internal" =>
             SlotMap(f, LiveAt(old, lev, lev[a] - 1)) /\ (x[a].link = 0 => DOMAIN f = {})
        BY <1>1
    <2>3. FitsAt(x[a], lev[a], old, lev) BY <1>1
    <2>. HIDE DEF InPlace
    <2>. QED BY <2>1, <2>2, <2>3, FitsSlots
<1>3. pg.type = "internal" => (pg.link = 0) = (old[a].link = 0) BY <1>1, <1>2
<1>4. InPlace(old, lev, [x EXCEPT ![a] = pg]) BY <1>1, <1>2, <1>3, InPlaceAt
<1>5. [x EXCEPT ![a].slots = f] = [x EXCEPT ![a] = pg] OBVIOUS
<1>. QED BY <1>4, <1>5

LEMMA InPlaceParents ==
    ASSUME NEW old, NEW lev, Len(old) \in Nat, NEW x, InPlace(old, lev, x), NEW ids, NEW q,
           \A i \in ids \cap (1..Len(old)) : q \in {0} \cup LiveAt(old, lev, lev[i] + 1)
    PROVE  InPlace(old, lev, SetParents(x, ids, q))
<1>. DEFINE y == SetParents(x, ids, q)
<1>1. x = [i \in 1..Len(old) |-> x[i]] BY DEF InPlace
<1>2. Len(x) = Len(old) BY <1>1
<1>3. /\ y = [i \in 1..Len(old) |-> y[i]]
      /\ \A i \in 1..Len(old) : y[i] = IF i \in ids THEN [x[i] EXCEPT !.parent = q] ELSE x[i]
    BY <1>2 DEF SetParents
<1>4. ASSUME NEW i \in 1..Len(old)
      PROVE  FitsAt(y[i], lev[i], old, lev) /\ y[i].type = x[i].type /\ y[i].link = x[i].link
    <2>1. FitsAt(x[i], lev[i], old, lev) BY DEF InPlace
    <2>2. CASE i \in ids
        <3>1. q \in {0} \cup LiveAt(old, lev, lev[i] + 1) BY <2>2
        <3>2. y[i] = [x[i] EXCEPT !.parent = q] BY <1>3, <2>2
        <3>3. FitsAt([x[i] EXCEPT !.parent = q], lev[i], old, lev)
            BY <2>1, <3>1, FitsParent
        <3>4. /\ [x[i] EXCEPT !.parent = q].type = x[i].type
              /\ [x[i] EXCEPT !.parent = q].link = x[i].link
            BY <2>1, <3>1, FitsParent
        <3>. QED BY <3>2, <3>3, <3>4
    <2>. QED BY <1>3, <2>1, <2>2
<1>. QED BY <1>3, <1>4 DEF InPlace

\* A new page that fits level n among the pages there are.
LEMMA Extend ==
    ASSUME NEW old, NEW lev, WellShaped(old, lev), NEW n \in Nat, NEW e, FitsAt(e, n, old, lev)
    PROVE  LET new    == Longer(old, e)
               newLev == Longer(lev, n)
           IN  /\ WellShaped(new, newLev) /\ Len(new) = Len(old) + 1
               /\ \A p \in 1..Len(old) : new[p] = old[p] /\ newLev[p] = lev[p]
               /\ new[Len(old) + 1] = e /\ newLev[Len(old) + 1] = n
               /\ \A m : LiveAt(old, lev, m) \subseteq LiveAt(new, newLev, m)
               /\ e.type = "leaf" \/ e.link # 0 => Len(old) + 1 \in LiveAt(new, newLev, n)
<1>. DEFINE new    == Longer(old, e)
            newLev == Longer(lev, n)
<1>1. Len(old) \in Nat /\ e \in Records BY FitsRecord DEF WellShaped
<1>2. /\ new \in Seq(Records) /\ newLev \in Seq(Nat)
      /\ Len(new) = Len(old) + 1 /\ Len(newLev) = Len(old) + 1
      /\ \A p \in 1..Len(old) : new[p] = old[p] /\ newLev[p] = lev[p]
      /\ new[Len(old) + 1] = e /\ newLev[Len(old) + 1] = n
    BY <1>1 DEF WellShaped, Longer
<1>. HIDE DEF new, newLev
<1>3. \A m : LiveAt(old, lev, m) \subseteq LiveAt(new, newLev, m)
    BY <1>1, <1>2 DEF LiveAt
<1>4. \A pg, m : FitsAt(pg, m, old, lev) => FitsAt(pg, m, new, newLev)
    <2>1. SUFFICES ASSUME NEW pg, NEW m, FitsAt(pg, m, old, lev) PROVE FitsAt(pg, m, new, newLev)
        OBVIOUS
    <2>. QED BY <2>1, <1>3 DEF FitsAt, SlotMap
<1>5. \A p \in 1..Len(new) : FitsAt(new[p], newLev[p], new, newLev)
    <2>1. TAKE p \in 1..Len(new)
    <2>2. CASE p = Len(old) + 1 BY <2>2, <1>2, <1>4
    <2>3. CASE p \in 1..Len(old) BY <2>3, <1>2, <1>4 DEF WellShaped
    <2>. QED BY <1>1, <1>2, <2>2, <2>3
<1>6. e.type = "leaf" \/ e.link # 0 => Len(old) + 1 \in LiveAt(new, newLev, n)
    BY <1>1, <1>2 DEF LiveAt
<1>7. WellShaped(new, newLev) BY <1>2, <1>5 DEF WellShaped
<1>. QED BY <1>2, <1>3, <1>6, <1>7 DEF new, newLev

LEMMA LinkedLive ==
    ASSUME WellShaped(pages, level)
    PROVE  /\ \A p \in Linked : p \in LiveAt(pages, level, level[p]) /\ level[p] \in Nat
           /\ \A n : LiveAt(pages, level, n) \subseteq Linked
           /\ Linked \subseteq Id /\ Len(pages) \in Nat
BY DEF WellShaped, Linked, LiveAt, Id

LEMMA ChildLive ==
    ASSUME WellShaped(pages, level), NEW p \in Linked, pages[p].type = "internal", NEW k
    PROVE  ChildFor(pages[p], k) \in LiveAt(pages, level, level[p] - 1)
<1>1. FitsAt(pages[p], level[p], pages, level) /\ pages[p].link # 0
    BY DEF WellShaped, Linked, Id
<1>. DEFINE below == {s \in DOMAIN pages[p].slots : s <= k}
<1>2. below \subseteq DOMAIN pages[p].slots /\ below \in SUBSET Keys
    BY <1>1 DEF FitsAt, SlotMap
<1>3. CASE below = {} BY <1>1, <1>3 DEF ChildFor, FitsAt
<1>4. CASE below # {}
    <2>1. Max(below) \in DOMAIN pages[p].slots BY <1>2, <1>4, KeysMax
    <2>2. pages[p].slots[Max(below)] \in LiveAt(pages, level, level[p] - 1)
        BY <1>1, <2>1 DEF FitsAt, SlotMap
    <2>. QED BY <1>4, <2>2 DEF ChildFor
<1>. QED BY <1>3, <1>4

\* What _find_sibling_info returns: separators of the parent, and pages of the
\* level of the page it is asked about.
LEMMA Siblings ==
    ASSUME WellShaped(pages, level), NEW p \in Id, pages[p].parent # 0, IsChild(p)
    PROVE  /\ pages[p].parent \in LiveAt(pages, level, level[p] + 1)
           /\ Parent(p).type = "internal" /\ level[pages[p].parent] = level[p] + 1
           /\ HasRight(p) => /\ RightSep(p) \in DOMAIN Parent(p).slots
                             /\ RightSib(p) \in LiveAt(pages, level, level[p])
           /\ HasLeft(p)  => /\ LeftSep(p) \in DOMAIN Parent(p).slots
                             /\ LeftSib(p) \in LiveAt(pages, level, level[p])
<1>. DEFINE q == pages[p].parent
<1>1. level[p] \in Nat /\ FitsAt(pages[p], level[p], pages, level)
    BY DEF WellShaped, Id
<1>2. q \in LiveAt(pages, level, level[p] + 1) BY <1>1 DEF FitsAt
<1>3. q \in Linked /\ q \in Id /\ level[q] = level[p] + 1
    BY <1>2, LinkedLive DEF LiveAt
<1>4. FitsAt(pages[q], level[q], pages, level) BY <1>3 DEF WellShaped, Id
<1>5. pages[q].type = "internal" BY <1>1, <1>3, <1>4 DEF FitsAt
<1>6. SlotMap(pages[q].slots, LiveAt(pages, level, level[p]))
    BY <1>1, <1>3, <1>4, <1>5 DEF FitsAt
<1>7. ASSUME HasRight(p)
      PROVE  RightSep(p) \in DOMAIN pages[q].slots
    <2>1. RightSeps(p) \in SUBSET Keys /\ RightSeps(p) # {}
        BY <1>6, <1>7 DEF HasRight, RightSeps, Parent, SlotMap
    <2>2. RightSep(p) \in RightSeps(p) BY <2>1, KeysMin DEF RightSep
    <2>. QED BY <2>2 DEF RightSeps, Parent
<1>8. HasRight(p) => RightSib(p) \in LiveAt(pages, level, level[p])
    BY <1>6, <1>7 DEF RightSib, Parent, SlotMap
<1>9. ASSUME HasLeft(p)
      PROVE  LeftSep(p) \in DOMAIN pages[q].slots
    <2>1. OwnSeps(p) \in SUBSET Keys /\ OwnSeps(p) # {}
        BY <1>6, <1>9 DEF HasLeft, IsChild, OwnSeps, Parent, SlotMap
    <2>2. LeftSep(p) \in OwnSeps(p) BY <2>1, KeysMin DEF LeftSep
    <2>. QED BY <2>2 DEF OwnSeps, Parent
<1>10. LeftSib(p) \in LiveAt(pages, level, level[p])
    <2>1. LeftSib(p) \in LiveAt(pages, level, level[q] - 1)
        BY <1>3, <1>5, ChildLive DEF LeftSib, Parent
    <2>. QED BY <2>1, <1>1, <1>3
<1>. QED BY <1>2, <1>3, <1>5, <1>7, <1>8, <1>9, <1>10 DEF Parent
------------------------------------------------------------------------------
(***************************************************************************)
(* What the steps have in common.                                          *)
(***************************************************************************)
\* Pages changed in place: none is allocated, none loses its leftmost child.
LEMMA Rewritten ==
    ASSUME WellShaped(pages, level), Grow, InPlace(pages, level, pages')
    PROVE  /\ WellShaped(pages, level)' /\ level' = level /\ Linked' = Linked
           /\ \A p \in Linked : pages'[p].type = pages[p].type
<1>1. /\ WellShaped(pages', level) /\ Len(pages') = Len(pages)
      /\ \A p \in Id : /\ pages'[p].type = pages[p].type
                       /\ pages'[p].type = "internal" => (pages'[p].link = 0) = (pages[p].link = 0)
    BY Rewrite DEF Id
<1>2. level' = level BY <1>1 DEF Grow
<1>3. Linked' = Linked BY <1>1 DEF Linked, Id, WellShaped, FitsAt
<1>. QED BY <1>1, <1>2, <1>3 DEF Linked

LEMMA Returned ==
    ASSUME IInv, NEW r \in Vals \cup {Null, "none", "ok", "error"}, Return(r), root' \in Linked'
    PROVE  ControlOK' /\ RightKindOfPage'
BY DEF Return, ControlOK, RightKindOfPage, NoPend, NoCall, OpsAt

LEMMA DeleteReturned ==
    ASSUME IInv, DeleteReturns, root' \in Linked', pc \in {"remove", "fixLeaf", "fixInner", "unlink"}
    PROVE  ControlOK' /\ RightKindOfPage'
<1>1. call \in Requests /\ call.op \in {"delete", "update"}
    BY DEF IInv, ControlOK, OpsAt, NoCall
<1>2. CASE call.op = "update"
    <2>1. pc' = "add" /\ at' = root' /\ pend' = NoPend /\ call' = call /\ reply' = reply
        BY <1>2 DEF DeleteReturns, Goto
    <2>2. root' # 0 BY DEF Linked, Id
    <2>. QED BY <1>1, <1>2, <2>1, <2>2
             DEF IInv, ControlOK, RightKindOfPage, NoPend, OpsAt
<1>3. CASE call.op # "update"
    <2>1. Return("ok") BY <1>3 DEF DeleteReturns
    <2>. QED BY <2>1, Returned
<1>. QED BY <1>2, <1>3

LEMMA SamePages ==
    ASSUME WellShaped(pages, level), Grow, UNCHANGED pages
    PROVE  WellShaped(pages, level)' /\ level' = level /\ Linked' = Linked
BY DEF Grow, Linked, Id

LEMMA Here ==
    ASSUME IInv, at # 0
    PROVE  /\ at \in Id /\ at \in Linked /\ at \in LiveAt(pages, level, level[at])
           /\ level[at] \in Nat /\ FitsAt(pages[at], level[at], pages, level)
           /\ pages[at].type = "internal" => pages[at].link # 0
           /\ \A p \in Id : FitsAt(pages[p], level[p], pages, level)
           /\ InPlace(pages, level, pages)
BY LinkedLive, InPlaceSame DEF IInv, ControlOK, WellShaped, Linked, Id
\* One page is allocated, and then pages are changed in place.
LEMMA Allocated ==
    ASSUME WellShaped(pages, level), Grow, NEW n \in Nat, NEW e, FitsAt(e, n, pages, level),
           n = IF pc = "newRoot" THEN level[pend.left] + 1 ELSE level[at],
           InPlace(Longer(pages, e), Longer(level, n), pages')
    PROVE  /\ WellShaped(pages, level)' /\ Linked \subseteq Linked'
           /\ \A p \in Linked : level'[p] = level[p] /\ pages'[p].type = pages[p].type
           /\ e.type = "leaf" \/ e.link # 0 =>
                Len(pages) + 1 \in Linked' /\ level'[Len(pages) + 1] = n
<1>. DEFINE mid == Longer(pages, e)
            lev == Longer(level, n)
            new == Len(pages) + 1
<1>1. /\ WellShaped(mid, lev) /\ Len(mid) = new
      /\ \A p \in 1..Len(pages) : mid[p] = pages[p] /\ lev[p] = level[p]
      /\ mid[new] = e /\ lev[new] = n
    BY Extend
<1>2. /\ WellShaped(pages', lev) /\ Len(pages') = Len(mid)
      /\ \A p \in 1..Len(mid) : /\ pages'[p].type = mid[p].type
                                /\ pages'[p].type = "internal" =>
                                     (pages'[p].link = 0) = (mid[p].link = 0)
    <2>1. InPlace(mid, lev, pages') OBVIOUS
    <2>. HIDE DEF mid, lev
    <2>. QED BY <1>1, <2>1, Rewrite
<1>3. Len(pages) \in Nat BY DEF WellShaped
<1>4. level' = lev BY <1>1, <1>2, <1>3 DEF Grow, Longer
<1>5. \A p \in Linked : p \in Linked' /\ pages'[p].type = pages[p].type
    <2>1. TAKE p \in Linked
    <2>2. p \in 1..Len(pages) /\ p \in 1..Len(mid) BY <1>1, <1>3 DEF Linked, Id
    <2>3. pages[p].type \in {"leaf", "internal"} BY <2>2 DEF WellShaped, FitsAt
    <2>. QED BY <1>1, <1>2, <2>2, <2>3 DEF Linked, Id
<1>6. e.type = "leaf" \/ e.link # 0 => new \in Linked'
    <2>1. e.type \in {"leaf", "internal"} BY DEF FitsAt
    <2>2. new \in 1..Len(mid) BY <1>1, <1>3
    <2>. QED BY <1>1, <1>2, <2>1, <2>2 DEF Linked, Id
<1>. QED BY <1>1, <1>2, <1>4, <1>5, <1>6 DEF Linked, Id

LEMMA LinkedRight ==
    ASSUME IInv, pc \in {"add", "link"}, at # 0, NEW sep \in Keys, NEW new,
           LinkRight(at, sep, new, pages[at].parent), root' = root,
           Linked \subseteq Linked', new \in Linked', level'[new] = level[at],
           \A p \in Linked : level'[p] = level[p] /\ pages'[p].type = pages[p].type
    PROVE  ControlOK' /\ RightKindOfPage'
<1>. DEFINE q == pages[at].parent
<1>1. at \in Linked /\ q \in {0} \cup LiveAt(pages, level, level[at] + 1)
    BY Here DEF FitsAt
<1>2. q # 0 => q \in Linked /\ level[q] = level[at] + 1
    BY <1>1, LinkedLive DEF IInv, LiveAt
<1>3. level[at] \in Nat BY Here
<1>4. q # 0 => pages[q].type = "internal"
    <2>1. q # 0 => q \in 1..Len(pages) /\ level[q] # 0
        BY <1>2, <1>3 DEF Linked, Id
    <2>2. \A p \in 1..Len(pages) : FitsAt(pages[p], level[p], pages, level)
        BY DEF IInv, WellShaped
    <2>3. \A p \in 1..Len(pages) : pages[p].type = "internal" \/ level[p] = 0
        BY <2>2 DEF FitsAt
    <2>. QED BY <2>1, <2>3
<1>5. new # 0 BY DEF Linked, Id
<1>6. call \in Requests /\ call.op \in {"insert", "update"}
    BY DEF IInv, ControlOK, OpsAt, NoCall
<1>7. /\ pc' = IF q = 0 THEN "newRoot" ELSE "link"
      /\ at' = q /\ call' = call /\ reply' = reply
      /\ pend' = [left |-> at, sep |-> sep, right |-> new]
    BY DEF LinkRight, Goto
<1>8. ControlOK'
    <2>1. pend' \in [left : {0} \cup Linked', sep : Keys \cup {Null}, right : {0} \cup Linked']
        BY <1>1, <1>7
    <2>2. at' \in {0} \cup Linked' /\ (at' = 0) = (pc' \in {"idle", "newRoot"})
        BY <1>2, <1>7
    <2>3. root' \in Linked' /\ reply' \in Vals \cup {Null, "none", "ok", "error"}
        BY <1>7 DEF IInv, ControlOK
    <2>4. call' \in Requests \cup {NoCall} /\ call'.op \in OpsAt(pc')
        BY <1>6, <1>7 DEF OpsAt
    <2>. QED BY <1>5, <1>7, <2>1, <2>2, <2>3, <2>4 DEF ControlOK
<1>9. RightKindOfPage' BY <1>1, <1>2, <1>4, <1>7 DEF RightKindOfPage
<1>. QED BY <1>8, <1>9

------------------------------------------------------------------------------
(***************************************************************************)
(* The steps.                                                              *)
(***************************************************************************)
LEMMA InitShape == SInit => IInv
<1>1. SUFFICES ASSUME SInit PROVE IInv OBVIOUS
<1>. DEFINE e == Leaf(0, 0, NoSlots)
<1>2. pages = <<e>> /\ level = <<0>> /\ Len(pages) = 1 /\ pages[1] = e /\ Len(level) = 1 /\ level[1] = 0
    BY <1>1 DEF SInit, Init
<1>3. FitsAt(e, 0, pages, level) BY SlotMapNone DEF FitsAt, Leaf
<1>4. e \in Records BY <1>2, <1>3, FitsRecord
<1>5. WellShaped(pages, level) BY <1>2, <1>3, <1>4 DEF WellShaped
<1>6. Linked = {1} BY <1>2 DEF Linked, Id, Leaf
<1>7. ControlOK BY <1>1, <1>6 DEF SInit, Init, ControlOK, NoCall, NoPend, OpsAt
<1>8. RightKindOfPage BY <1>1 DEF SInit, Init, RightKindOfPage
<1>. QED BY <1>5, <1>7, <1>8 DEF IInv

LEMMA CallShape == ASSUME IInv, NEW req \in Requests, SCall(req) PROVE IInv'
<1>1. /\ pages' = pages /\ level' = level /\ root' = root /\ pend' = pend
      /\ call' = req /\ at' = root /\ reply' = "none" /\ pc = "idle"
    BY DEF SCall, Call
<1>2. WellShaped(pages, level)' /\ Linked' = Linked BY <1>1 DEF IInv, Linked, Id
<1>3. \/ req.op = "insert" /\ pc' = "add"
      \/ req.op = "delete" /\ pc' = "remove"
      \/ req.op \in {"search", "update"} /\ pc' = "find"
    BY DEF SCall, Call, Requests
<1>4. root # 0 BY DEF IInv, ControlOK, Linked, Id
<1>5. ControlOK' BY <1>1, <1>2, <1>3, <1>4 DEF IInv, ControlOK, OpsAt
<1>6. RightKindOfPage' BY <1>3 DEF RightKindOfPage
<1>. QED BY <1>2, <1>5, <1>6 DEF IInv

LEMMA DescendShape == ASSUME IInv, Descend, Grow PROVE IInv'
<1>1. WellShaped(pages, level)' /\ Linked' = Linked /\ level' = level
    BY SamePages DEF IInv, Descend
<1>2. at \in Linked BY DEF IInv, ControlOK, Descend
<1>3. at' \in Linked
    BY <1>2, ChildLive, LinkedLive DEF IInv, Descend, Goto
<1>4. at' # 0 BY <1>3 DEF Linked, Id
<1>5. ControlOK' BY <1>1, <1>3, <1>4 DEF IInv, ControlOK, Descend, Goto
<1>6. RightKindOfPage' BY DEF Descend, Goto, RightKindOfPage
<1>. QED BY <1>1, <1>5, <1>6 DEF IInv

\* The leaf's value, if the key is there.
LEMMA SearchShape == ASSUME IInv, Search, Grow PROVE IInv'
<1>1. WellShaped(pages, level)' /\ Linked' = Linked /\ root' = root
    BY SamePages DEF IInv, Search
<1>2. at \in Id /\ FitsAt(pages[at], level[at], pages, level)
    BY DEF IInv, ControlOK, Search, Linked, WellShaped, Id
<1>. DEFINE r == IF call.key \in DOMAIN pages[at].slots THEN pages[at].slots[call.key] ELSE Null
<1>3. r \in Vals \cup {Null} BY <1>2 DEF Search, FitsAt, SlotMap
<1>4. Return(r) BY DEF Search
<1>5. ControlOK' /\ RightKindOfPage'
    BY <1>1, <1>3, <1>4, Returned DEF IInv, ControlOK
<1>. QED BY <1>1, <1>5 DEF IInv

\* The steps that change no page and return, raise or go on from the root.
LEMMA UnchangedShape ==
    ASSUME IInv, Grow, UpdateFinds \/ InsertDuplicate \/ DeleteMissing
                          \/ NothingToRepair \/ SiblingNotFound
    PROVE  IInv'
<1>1. UNCHANGED <<pages, root>>
    BY DEF UpdateFinds, InsertDuplicate, DeleteMissing, NothingToRepair, SiblingNotFound
<1>2. WellShaped(pages, level)' /\ Linked' = Linked /\ root' = root
    BY <1>1, SamePages DEF IInv
<1>3. root' \in Linked' BY <1>2 DEF IInv, ControlOK
<1>4. CASE Raise
    BY <1>2, <1>3, <1>4, Returned DEF Raise, IInv
<1>5. CASE NothingToRepair
    BY <1>2, <1>3, <1>5, DeleteReturned DEF NothingToRepair, IInv
<1>6. CASE UpdateFinds /\ ~Raise
    <2>1. Goto("remove", root) /\ UNCHANGED pend /\ pc = "find" /\ call.op = "update"
        BY <1>6 DEF UpdateFinds
    <2>2. root # 0 BY DEF IInv, ControlOK, Linked, Id
    <2>3. ControlOK' BY <1>2, <2>1, <2>2 DEF IInv, ControlOK, Goto, OpsAt
    <2>4. RightKindOfPage' BY <2>1 DEF Goto, RightKindOfPage
    <2>. QED BY <1>2, <2>3, <2>4 DEF IInv
<1>. QED BY <1>4, <1>5, <1>6 DEF InsertDuplicate, DeleteMissing, SiblingNotFound

LEMMA InsertIntoLeafShape == ASSUME IInv, Grow, InsertIntoLeaf PROVE IInv'
<1>. DEFINE f == With(pages[at].slots, call.key, call.val)
<1>1. at # 0 /\ pages[at].type = "leaf" /\ call.key \in Keys /\ call.val \in Vals
    BY DEF IInv, ControlOK, InsertIntoLeaf, AddLeaf, Requests, NoCall, OpsAt
<1>2. SlotMap(f, Vals) BY <1>1, Here, SlotMapWith DEF FitsAt
<1>3. pages' = [pages EXCEPT ![at].slots = f]
    BY DEF InsertIntoLeaf
<1>4. WellShaped(pages, level)' /\ Linked' = Linked
    <2>1. InPlace(pages, level, [pages EXCEPT ![at].slots = f])
        BY <1>1, <1>2, Here, InPlaceSlots DEF Id
    <2>. QED BY <1>3, <2>1, Rewritten DEF IInv
<1>5. ControlOK' /\ RightKindOfPage'
    BY <1>4, Returned DEF InsertIntoLeaf, IInv, ControlOK
<1>. QED BY <1>4, <1>5 DEF IInv

LEMMA DeleteFromLeafShape == ASSUME IInv, Grow, DeleteFromLeaf PROVE IInv'
<1>. DEFINE f == Without(pages[at].slots, call.key)
<1>1. at # 0 /\ pages[at].type = "leaf" /\ root' = root /\ pc = "remove"
    BY DEF IInv, ControlOK, DeleteFromLeaf
<1>2. SlotMap(f, Vals) BY <1>1, Here, SlotMapWithout DEF FitsAt
<1>3. pages' = [pages EXCEPT ![at].slots = f]
    BY DEF DeleteFromLeaf
<1>4. /\ WellShaped(pages, level)' /\ Linked' = Linked
      /\ \A p \in Linked : pages'[p].type = pages[p].type
    <2>1. InPlace(pages, level, [pages EXCEPT ![at].slots = f])
        BY <1>1, <1>2, Here, InPlaceSlots DEF Id
    <2>. QED BY <1>3, <2>1, Rewritten DEF IInv
<1>5. CASE DeleteReturns
    <2>1. ControlOK' /\ RightKindOfPage'
        BY <1>1, <1>4, <1>5, DeleteReturned DEF IInv, ControlOK
    <2>. QED BY <1>4, <2>1 DEF IInv
<1>6. CASE Goto("fixLeaf", at) /\ UNCHANGED pend
    <2>1. ControlOK' BY <1>1, <1>4, <1>6 DEF IInv, ControlOK, Goto, OpsAt
    <2>2. RightKindOfPage' BY <1>1, <1>4, <1>6, Here DEF Goto, RightKindOfPage
    <2>. QED BY <1>4, <2>1, <2>2 DEF IInv
<1>. QED BY <1>5, <1>6 DEF DeleteFromLeaf

LEMMA InsertIntoParentShape == ASSUME IInv, Grow, InsertIntoParent PROVE IInv'
<1>1. /\ pc = "link" /\ at # 0 /\ pages[at].type = "internal" /\ root' = root
      /\ pend.sep \in Keys /\ pend.right \in Linked /\ pend.left \in Linked
      /\ level[at] = level[pend.right] + 1
    BY DEF IInv, ControlOK, RightKindOfPage, InsertIntoParent
<1>2. CASE Raise /\ UNCHANGED pages
    <2>1. WellShaped(pages, level)' /\ Linked' = Linked BY <1>2, SamePages DEF IInv
    <2>2. ControlOK' /\ RightKindOfPage'
        BY <1>1, <1>2, <2>1, Returned DEF Raise, IInv, ControlOK
    <2>. QED BY <2>1, <2>2 DEF IInv
<1>3. CASE pend.sep \notin DOMAIN pages[at].slots
    <2>. DEFINE f == With(pages[at].slots, pend.sep, pend.right)
                r == pend.right
    <2>1. r \in Id /\ r # at /\ level[r] \in Nat /\ r \in LiveAt(pages, level, level[at] - 1)
        BY <1>1, Here, LinkedLive DEF IInv
    <2>2. SlotMap(f, LiveAt(pages, level, level[at] - 1))
        BY <1>1, <2>1, Here, SlotMapWith DEF FitsAt
    <2>. DEFINE x == [pages EXCEPT ![at].slots = f]
    <2>3. InPlace(pages, level, x)
        BY <1>1, <2>2, Here, InPlaceSlots DEF Id
    <2>4. InPlace(pages, level, [x EXCEPT ![r] = [pages[r] EXCEPT !.parent = at]])
        <3>. DEFINE pg == [pages[r] EXCEPT !.parent = at]
        <3>1. FitsAt(pages[r], level[r], pages, level) BY <2>1, Here, <1>1
        <3>2. at \in LiveAt(pages, level, level[r] + 1) BY <1>1, Here
        <3>3. FitsAt(pg, level[r], pages, level) /\ pg.type = pages[r].type /\ pg.link = pages[r].link
            BY <3>1, <3>2, FitsParent
        <3>. QED BY <2>1, <2>3, <3>3, InPlaceAt DEF Id
    <2>5. pages' = [x EXCEPT ![r] = [pages[r] EXCEPT !.parent = at]]
        BY <1>3, <2>1 DEF InsertIntoParent
    <2>6. WellShaped(pages, level)' /\ Linked' = Linked
        BY <2>4, <2>5, Rewritten DEF IInv
    <2>7. ControlOK' /\ RightKindOfPage'
        BY <1>1, <1>3, <2>6, Returned DEF InsertIntoParent, IInv, ControlOK
    <2>. QED BY <2>6, <2>7 DEF IInv
<1>. QED BY <1>2, <1>3 DEF InsertIntoParent

LEMMA SplitLeafShape == ASSUME IInv, Grow, SplitLeaf PROVE IInv'
<1>. DEFINE old   == pages[at]
            new   == Len(pages) + 1
            all   == Sorted(old.slots, call.key, call.val)
            split == (NumSlots(at) + 1) \div 2
            left  == {i \in all : i.pos < split}
            right == all \ left
            leftDone  == Loaded("leaf", left)
            rightDone == IF leftDone = left THEN Loaded("leaf", right) ELSE {}
            e   == Leaf(old.parent, old.link, SlotsOf(rightDone))
            pg  == Leaf(old.parent, new, SlotsOf(leftDone))
            mid == Longer(pages, e)
            lev == Longer(level, 0)
<1>1. /\ pc = "add" /\ at # 0 /\ old.type = "leaf" /\ root' = root
      /\ call.key \in Keys /\ call.val \in Vals
    BY DEF IInv, ControlOK, SplitLeaf, AddLeaf, Requests, NoCall, OpsAt
<1>2. /\ level[at] = 0 /\ SlotMap(old.slots, Vals)
      /\ old.parent \in {0} \cup LiveAt(pages, level, 1)
      /\ old.link \in {0} \cup LiveAt(pages, level, 0)
    BY <1>1, Here DEF FitsAt
<1>3. \A i \in all : i.key \in Keys /\ i.data \in Vals BY <1>1, <1>2, SortedFrom
<1>4. leftDone \subseteq all /\ rightDone \subseteq all BY LoadedFrom
<1>5. SlotMap(SlotsOf(leftDone), Vals) /\ SlotMap(SlotsOf(rightDone), Vals)
    BY <1>3, <1>4, SlotMapOf
<1>6. Len(pages) \in Nat /\ at \in 1..Len(pages) BY <1>1, Here DEF IInv, WellShaped, Id
<1>7. FitsAt(e, 0, pages, level) /\ e.type = "leaf"
    BY <1>2, <1>5, <1>6 DEF FitsAt, Leaf, LiveAt
<1>8. /\ WellShaped(mid, lev) /\ Len(mid) = new /\ mid[at] = old /\ lev[at] = 0
      /\ \A m : LiveAt(pages, level, m) \subseteq LiveAt(mid, lev, m)
      /\ new \in LiveAt(mid, lev, 0)
    <2>. HIDE DEF e
    <2>. QED BY <1>1, <1>2, <1>6, <1>7, Extend DEF IInv
<1>9. FitsAt(pg, 0, mid, lev) /\ pg.type = "leaf"
    <2>1. old.parent \in {0} \cup LiveAt(mid, lev, 1) BY <1>2, <1>8
    <2>. HIDE DEF mid, lev
    <2>. QED BY <1>5, <1>6, <1>8, <2>1 DEF FitsAt, Leaf, LiveAt
<1>10. InPlace(mid, lev, [mid EXCEPT ![at] = pg])
    <2>1. InPlace(mid, lev, mid) /\ at \in 1..Len(mid) BY <1>6, <1>8, InPlaceSame
    <2>. HIDE DEF mid, lev, pg
    <2>. QED BY <1>1, <1>8, <1>9, <2>1, InPlaceAt
<1>11. pages' = [mid EXCEPT ![at] = pg] BY DEF SplitLeaf, Longer
<1>12. /\ WellShaped(pages, level)' /\ Linked \subseteq Linked' /\ new \in Linked'
       /\ level'[new] = 0
       /\ \A p \in Linked : level'[p] = level[p] /\ pages'[p].type = pages[p].type
    <2>1. InPlace(mid, lev, pages') BY <1>10, <1>11
    <2>. HIDE DEF e, pg
    <2>. QED BY <1>1, <1>2, <1>7, <2>1, Allocated DEF IInv
<1>13. CASE Raise
    BY <1>1, <1>12, <1>13, Returned DEF Raise, IInv, ControlOK
<1>14. CASE LinkRight(at, First(right).key, new, old.parent)
    <2>1. First(right) \in right
        BY <1>1, <1>2, UpperHalf DEF SlotMap, NumSlots
    <2>2. First(right).key \in Keys BY <1>3, <2>1
    <2>. HIDE DEF right
    <2>. QED BY <1>1, <1>2, <1>12, <1>14, <2>2, LinkedRight DEF IInv
<1>. QED BY <1>13, <1>14 DEF SplitLeaf

LEMMA CreateNewRootShape == ASSUME IInv, Grow, CreateNewRoot PROVE IInv'
<1>. DEFINE new == Len(pages) + 1
            n   == level[pend.left] + 1
            e   == Internal(0, pend.left, With(NoSlots, pend.sep, pend.right))
            mid == Longer(pages, e)
            lev == Longer(level, n)
            ids == {pend.left, pend.right}
<1>1. /\ pc = "newRoot" /\ pend.left \in Linked /\ pend.right \in Linked /\ pend.sep \in Keys
      /\ level[pend.left] = level[pend.right] /\ root' = new /\ Return("ok")
    BY DEF IInv, ControlOK, RightKindOfPage, CreateNewRoot
<1>2. /\ level[pend.left] \in Nat /\ ids \subseteq LiveAt(pages, level, n - 1)
      /\ Len(pages) \in Nat /\ ids \subseteq 1..Len(pages) /\ pend.left # 0
    BY <1>1, LinkedLive DEF IInv, Id
<1>3. SlotMap(With(NoSlots, pend.sep, pend.right), LiveAt(pages, level, n - 1))
    BY <1>1, <1>2, SlotMapNone, SlotMapWith
<1>4. FitsAt(e, n, pages, level) /\ e.type = "internal" /\ e.link # 0
    BY <1>2, <1>3 DEF FitsAt, Internal
<1>5. /\ WellShaped(mid, lev) /\ Len(mid) = new
      /\ \A p \in 1..Len(pages) : mid[p] = pages[p] /\ lev[p] = level[p]
      /\ new \in LiveAt(mid, lev, n)
    <2>1. n \in Nat BY <1>2
    <2>. HIDE DEF e, n
    <2>. QED BY <1>2, <1>4, <2>1, Extend DEF IInv
<1>6. InPlace(mid, lev, SetParents(mid, ids, new))
    <2>1. InPlace(mid, lev, mid) /\ Len(mid) \in Nat BY <1>2, <1>5, InPlaceSame
    <2>2. \A i \in ids : lev[i] + 1 = n BY <1>1, <1>2, <1>5
    <2>. HIDE DEF mid, lev, ids, n
    <2>. QED BY <1>5, <2>1, <2>2, InPlaceParents
<1>7. pages' = SetParents(mid, ids, new) BY DEF CreateNewRoot, Longer
<1>8. WellShaped(pages, level)' /\ new \in Linked'
    <2>1. InPlace(mid, lev, pages') /\ n \in Nat BY <1>2, <1>6, <1>7
    <2>. HIDE DEF e
    <2>. QED BY <1>1, <1>4, <2>1, Allocated DEF IInv
<1>9. ControlOK' /\ RightKindOfPage' BY <1>1, <1>8, Returned
<1>. QED BY <1>8, <1>9 DEF IInv

LEMMA SplitInternalShape == ASSUME IInv, Grow, SplitInternal PROVE IInv'
<1>. DEFINE old   == pages[at]
            new   == Len(pages) + 1
            n     == level[at]
            R     == LiveAt(pages, level, n - 1)
            all   == Sorted(old.slots, pend.sep, pend.right)
            split == (NumSlots(at) + 1) \div 2
            left  == {i \in all : i.pos < split}
            median == First(all \ left)
            right == all \ (left \cup {median})
            leftDone  == Loaded("internal", left)
            rightDone == IF leftDone = left THEN Loaded("internal", right) ELSE {}
            link  == IF leftDone = left THEN median.data ELSE 0
            e     == Internal(old.parent, link, SlotsOf(rightDone))
            mid   == Longer(pages, e)
            lev   == Longer(level, n)
            x     == [mid EXCEPT ![at].slots = SlotsOf(leftDone)]
            ids   == {median.data} \cup {i.data : i \in right}
<1>1. /\ pc = "link" /\ at # 0 /\ old.type = "internal" /\ root' = root
      /\ pend.sep \in Keys /\ pend.left \in Linked /\ pend.right \in Linked
      /\ n = level[pend.left] + 1 /\ level[pend.left] = level[pend.right]
    BY DEF IInv, ControlOK, RightKindOfPage, SplitInternal
<1>2. /\ n \in Nat /\ at \in 1..Len(pages) /\ Len(pages) \in Nat /\ at \in Linked
      /\ FitsAt(old, n, pages, level)
    BY <1>1, Here DEF IInv, WellShaped, Id
<1>3. /\ SlotMap(old.slots, R) /\ n > 0 /\ old.link # 0
      /\ old.parent \in {0} \cup LiveAt(pages, level, n + 1)
    BY <1>1, <1>2, Here DEF FitsAt
<1>4. pend.right \in R BY <1>1, <1>2, LinkedLive DEF IInv
<1>5. \A i \in all : i.key \in Keys /\ i.data \in R
    <2>. HIDE DEF R
    <2>. QED BY <1>1, <1>3, <1>4, SortedFrom
<1>6. median \in all \ left
    BY <1>1, <1>3, UpperHalf DEF SlotMap, NumSlots
<1>7. leftDone \subseteq all /\ rightDone \subseteq all BY LoadedFrom
<1>8. /\ SlotMap(SlotsOf(leftDone), R) /\ SlotMap(SlotsOf(rightDone), R)
      /\ rightDone = {} => DOMAIN SlotsOf(rightDone) = {}
    <2>. HIDE DEF R, all, leftDone, rightDone
    <2>. QED BY <1>5, <1>7, SlotMapOf
<1>9. /\ link \in {0} \cup R /\ (link = 0 => rightDone = {})
      /\ (leftDone = left => link # 0) /\ 0 \notin R /\ R \subseteq 1..Len(pages)
    <2>1. median.key \in Keys /\ median.data \in R BY <1>5, <1>6
    <2>2. R \subseteq 1..Len(pages) BY DEF LiveAt
    <2>. HIDE DEF R, median, left, leftDone
    <2>. QED BY <2>1, <2>2
<1>10. FitsAt(e, n, pages, level) /\ e.type = "internal" /\ e.link = link
    <2>1. e.slots = SlotsOf(rightDone) /\ e.parent = old.parent /\ e.type = "internal" /\ e.link = link
        BY DEF Internal
    <2>2. e \in [type : {"leaf", "internal"}, parent : {0} \cup LiveAt(pages, level, n + 1),
                 link : Nat, slots : {e.slots}]
        <3>1. link \in Nat BY <1>2, <1>9
        <3>. HIDE DEF link, rightDone
        <3>. QED BY <1>3, <3>1 DEF Internal
    <2>3. link = 0 => DOMAIN SlotsOf(rightDone) = {} BY <1>8, <1>9
    <2>. HIDE DEF e, link, rightDone
    <2>. QED BY <1>3, <1>8, <1>9, <2>1, <2>2, <2>3 DEF FitsAt
<1>11. /\ WellShaped(mid, lev) /\ Len(mid) = new
       /\ \A p \in 1..Len(pages) : mid[p] = pages[p] /\ lev[p] = level[p]
       /\ \A m : LiveAt(pages, level, m) \subseteq LiveAt(mid, lev, m)
       /\ link # 0 => new \in LiveAt(mid, lev, n)
    <2>. HIDE DEF e, n, link
    <2>. QED BY <1>2, <1>10, Extend DEF IInv
<1>12. InPlace(mid, lev, x) /\ Len(mid) \in Nat
    <2>1. SlotMap(SlotsOf(leftDone), LiveAt(mid, lev, lev[at] - 1))
        <3>1. LiveAt(pages, level, n - 1) \subseteq LiveAt(mid, lev, n - 1) BY <1>11
        <3>2. lev[at] = n BY <1>2, <1>11
        <3>. HIDE DEF mid, lev, n, leftDone
        <3>. QED BY <1>8, <3>1, <3>2 DEF SlotMap
    <2>2. mid[at].type = "internal" /\ mid[at].link # 0 /\ at \in 1..Len(mid)
        <3>. HIDE DEF mid
        <3>. QED BY <1>1, <1>2, <1>3, <1>11
    <2>3. InPlace(mid, lev, mid) /\ Len(mid) \in Nat
        <3>. HIDE DEF mid, lev
        <3>. QED BY <1>2, <1>11, InPlaceSame
    <2>. HIDE DEF mid, lev, leftDone
    <2>4. InPlace(mid, lev, [mid EXCEPT ![at].slots = SlotsOf(leftDone)])
        BY <2>1, <2>2, <2>3, InPlaceSlots
    <2>. QED BY <2>3, <2>4
<1>. DEFINE After == /\ WellShaped(pages, level)' /\ Linked \subseteq Linked'
                     /\ \A p \in Linked : level'[p] = level[p] /\ pages'[p].type = pages[p].type
                     /\ link # 0 => new \in Linked' /\ level'[new] = n
<1>13. ASSUME InPlace(mid, lev, pages') PROVE After
    <2>. HIDE DEF e, link
    <2>. QED BY <1>1, <1>2, <1>10, <1>13, Allocated DEF IInv
<1>14. CASE leftDone = left /\ rightDone = right
    <2>1. /\ pages' = SetParents(x, ids, new)
          /\ LinkRight(at, median.key, new, old.parent)
        BY <1>14 DEF SplitInternal, Longer
    <2>2. ids \subseteq R BY <1>5, <1>6
    <2>3. \A i \in ids : lev[i] + 1 = n /\ i \in 1..Len(mid)
        <3>1. R \subseteq 1..Len(pages) /\ \A i \in R : level[i] = n - 1 BY DEF LiveAt
        <3>. HIDE DEF R, ids, mid, lev, n
        <3>. QED BY <1>2, <1>11, <2>2, <3>1
    <2>4. new \in LiveAt(mid, lev, n) BY <1>9, <1>11, <1>14
    <2>5. InPlace(mid, lev, pages')
        <3>. HIDE DEF mid, lev, ids, n, x
        <3>. QED BY <1>12, <2>1, <2>3, <2>4, InPlaceParents
    <2>6. After /\ link # 0 BY <1>9, <1>13, <1>14, <2>5
    <2>7. ControlOK' /\ RightKindOfPage'
        <3>1. median.key \in Keys BY <1>5, <1>6
        <3>. HIDE DEF median, link
        <3>. QED BY <1>1, <2>1, <2>6, <3>1, LinkedRight
    <2>. QED BY <2>6, <2>7 DEF IInv
<1>15. CASE ~(leftDone = left /\ rightDone = right)
    <2>1. pages' = x /\ Raise BY <1>15 DEF SplitInternal, Longer
    <2>2. After
        <3>. HIDE DEF mid, lev, x, After
        <3>. QED BY <1>12, <1>13, <2>1
    <2>3. ControlOK' /\ RightKindOfPage'
        <3>1. root' \in Linked' BY <1>1, <2>2 DEF IInv, ControlOK
        <3>. QED BY <2>1, <3>1, Returned DEF Raise
    <2>. QED BY <2>2, <2>3 DEF IInv
<1>. QED BY <1>14, <1>15

LEMMA PagesDomain == WellShaped(pages, level) => DOMAIN pages = Id
BY DEF WellShaped, Id

LEMMA ReplaceDone ==
    ASSUME IInv, NEW q, NEW old, NEW new, ReplaceSeparator(q, old, new), root' \in Linked',
           pc \in {"fixLeaf", "fixInner"}
    PROVE  ControlOK' /\ RightKindOfPage'
BY Returned, DeleteReturned DEF ReplaceSeparator, Raise

\* A page that can spare a slot has two.
LEMMA Spare ==
    ASSUME NEW S \in SUBSET Keys, Cardinality(S) > MIN_SLOTS_THRESHOLD
    PROVE  /\ Min(S) \in S /\ Max(S) \in S
           /\ Min(S \ {Min(S)}) \in S
<1>1. S # {} BY FS_EmptySet DEF MIN_SLOTS_THRESHOLD
<1>2. Min(S) \in S /\ Max(S) \in S BY <1>1, KeysMin, KeysMax
<1>3. Cardinality(S \ {Min(S)}) = Cardinality(S) - 1 /\ Cardinality(S) \in Nat
    BY <1>2, KeysFinite, FS_RemoveElement, FS_CardinalityType
<1>4. S \ {Min(S)} # {}
    <2>1. Cardinality(S \ {Min(S)}) # 0 BY <1>3 DEF MIN_SLOTS_THRESHOLD
    <2>. QED BY <2>1, FS_EmptySet
<1>5. Min(S \ {Min(S)}) \in S \ {Min(S)} BY <1>4, KeysMin
<1>. QED BY <1>2, <1>5

\* What a repair is about: the page, its parent one level up, its siblings.
LEMMA Repaired ==
    ASSUME IInv, pc \in {"fixLeaf", "fixInner"}, pages[at].parent # 0, IsChild(at)
    PROVE  LET q == pages[at].parent IN
           /\ at \in Linked /\ at \in Id /\ level[at] \in Nat /\ at # 0
           /\ q \in Linked /\ q \in Id /\ level[q] = level[at] + 1
           /\ pages[q].type = "internal" /\ pages[q].link # 0
           /\ SlotMap(pages[q].slots, LiveAt(pages, level, level[q] - 1))
           /\ \A p \in LiveAt(pages, level, level[at]) :
                 /\ p \in Linked /\ p \in Id /\ p # q /\ level[p] = level[at]
                 /\ pages[p].type = pages[at].type
                 /\ pages[p].type = "leaf" => SlotMap(pages[p].slots, Vals)
                 /\ pages[p].type = "internal" =>
                      /\ pages[p].link # 0 /\ pages[p].link \in LiveAt(pages, level, level[at] - 1)
                      /\ SlotMap(pages[p].slots, LiveAt(pages, level, level[at] - 1))
           /\ at \in LiveAt(pages, level, level[at])
           /\ HasRight(at) => /\ RightSep(at) \in DOMAIN pages[q].slots
                              /\ RightSib(at) \in LiveAt(pages, level, level[at])
           /\ HasLeft(at)  => /\ LeftSep(at) \in DOMAIN pages[q].slots
                              /\ LeftSib(at) \in LiveAt(pages, level, level[at])
<1>. DEFINE q == pages[at].parent
<1>1. at # 0 BY DEF IInv, ControlOK
<1>2. /\ at \in Linked /\ at \in Id /\ level[at] \in Nat
      /\ at \in LiveAt(pages, level, level[at])
    BY <1>1, Here
<1>3. /\ q \in LiveAt(pages, level, level[at] + 1) /\ pages[q].type = "internal"
      /\ level[q] = level[at] + 1
      /\ HasRight(at) => /\ RightSep(at) \in DOMAIN pages[q].slots
                         /\ RightSib(at) \in LiveAt(pages, level, level[at])
      /\ HasLeft(at)  => /\ LeftSep(at) \in DOMAIN pages[q].slots
                         /\ LeftSib(at) \in LiveAt(pages, level, level[at])
    BY <1>2, Siblings DEF IInv, Parent
<1>4. q \in Linked /\ q \in Id BY <1>3, LinkedLive DEF IInv
<1>5. \A p \in Id : FitsAt(pages[p], level[p], pages, level) BY <1>1, Here
<1>6. SlotMap(pages[q].slots, LiveAt(pages, level, level[q] - 1)) /\ pages[q].link # 0
    BY <1>3, <1>4, <1>5 DEF FitsAt, Linked
<1>7. ASSUME NEW p \in LiveAt(pages, level, level[at])
      PROVE  /\ p \in Linked /\ p \in Id /\ p # q /\ level[p] = level[at]
             /\ pages[p].type = pages[at].type
             /\ pages[p].type = "leaf" => SlotMap(pages[p].slots, Vals)
             /\ pages[p].type = "internal" =>
                  /\ pages[p].link # 0 /\ pages[p].link \in LiveAt(pages, level, level[at] - 1)
                  /\ SlotMap(pages[p].slots, LiveAt(pages, level, level[at] - 1))
    <2>1. p \in Linked /\ p \in Id /\ level[p] = level[at] BY <1>7, LinkedLive DEF IInv, LiveAt
    <2>2. FitsAt(pages[p], level[at], pages, level) /\ FitsAt(pages[at], level[at], pages, level)
        BY <1>2, <1>5, <2>1
    <2>3. pages[p].type = pages[at].type BY <1>2, <2>2 DEF FitsAt
    <2>4. p # q BY <1>2, <1>3, <2>1
    <2>5. pages[p].type = "leaf" \/ pages[p].link # 0 BY <2>1 DEF Linked
    <2>. QED BY <2>1, <2>2, <2>3, <2>4, <2>5 DEF FitsAt
<1>. QED BY <1>1, <1>2, <1>3, <1>4, <1>6, <1>7

\* A borrow: slots of two pages of one level, then a separator of their parent.
LEMMA Borrowed ==
    ASSUME IInv, Grow, pc \in {"fixLeaf", "fixInner"}, pages[at].parent # 0, IsChild(at),
           NEW x, InPlace(pages, level, x), x[pages[at].parent] = pages[pages[at].parent],
           NEW old \in DOMAIN pages[pages[at].parent].slots, NEW new \in Keys,
           pages' = [x EXCEPT ![pages[at].parent].slots =
                                Replaced(pages[pages[at].parent].slots, old, new)],
           root' = root, ReplaceSeparator(pages[at].parent, old, new)
    PROVE  IInv'
<1>. DEFINE q == pages[at].parent
            f == Replaced(pages[q].slots, old, new)
<1>1. /\ q \in Id /\ pages[q].type = "internal" /\ pages[q].link # 0
      /\ SlotMap(pages[q].slots, LiveAt(pages, level, level[q] - 1))
    BY Repaired
<1>2. SlotMap(f, LiveAt(pages, level, level[q] - 1))
    BY <1>1, SlotMapReplaced
<1>3. InPlace(pages, level, [x EXCEPT ![q].slots = f])
    <2>. HIDE DEF q, f
    <2>. QED BY <1>1, <1>2, InPlaceSlots DEF Id
<1>4. WellShaped(pages, level)' /\ Linked' = Linked
    BY <1>3, Rewritten DEF IInv
<1>5. ControlOK' /\ RightKindOfPage'
    <2>1. root' \in Linked' BY <1>4 DEF IInv, ControlOK
    <2>. QED BY <2>1, ReplaceDone
<1>. QED BY <1>4, <1>5 DEF IInv

LEMMA BorrowRightLeafShape == ASSUME IInv, Grow, BorrowRightLeaf PROVE IInv'
<1>. DEFINE q    == pages[at].parent
            sib  == RightSib(at)
            low  == Min(DOMAIN pages[sib].slots)
            rest == Without(pages[sib].slots, low)
            new  == Min(DOMAIN rest)
            x    == [pages EXCEPT ![at].slots = With(pages[at].slots, low, pages[sib].slots[low])]
            y    == [x EXCEPT ![sib].slots = rest]
<1>1. /\ pc = "fixLeaf" /\ q # 0 /\ IsChild(at) /\ HasRight(at) /\ pages[at].type = "leaf"
      /\ Cardinality(DOMAIN pages[sib].slots) > MIN_SLOTS_THRESHOLD
    BY DEF BorrowRightLeaf, BorrowRight, Underflow, CanBorrowRight, NumSlots, IInv, RightKindOfPage
<1>2. /\ at \in Id /\ sib \in Id /\ q \in Id /\ sib # q /\ at # q /\ pages[sib].type = "leaf"
      /\ SlotMap(pages[at].slots, Vals) /\ SlotMap(pages[sib].slots, Vals)
      /\ RightSep(at) \in DOMAIN pages[q].slots
    BY <1>1, Repaired
<1>3. low \in DOMAIN pages[sib].slots /\ new \in Keys /\ DOMAIN pages[sib].slots \subseteq Keys
    BY <1>1, <1>2, Spare, SlotMapWithout DEF SlotMap
<1>4. InPlace(pages, level, x)
    <2>1. SlotMap(With(pages[at].slots, low, pages[sib].slots[low]), Vals)
        <3>1. pages[sib].slots[low] \in Vals /\ low \in Keys BY <1>2, <1>3 DEF SlotMap
        <3>. HIDE DEF low
        <3>. QED BY <1>2, <3>1, SlotMapWith
    <2>2. InPlace(pages, level, pages) BY InPlaceSame DEF IInv
    <2>. QED BY <1>1, <1>2, <2>1, <2>2, InPlaceSlots DEF Id
<1>5. InPlace(pages, level, y)
    <2>1. SlotMap(rest, Vals) BY <1>2, SlotMapWithout
    <2>. HIDE DEF x, rest, sib
    <2>. QED BY <1>2, <1>4, <2>1, InPlaceSlots DEF Id
<1>6. y[q] = pages[q] BY <1>2, PagesDomain DEF IInv
<1>7. /\ pages' = [y EXCEPT ![q].slots = Replaced(pages[q].slots, RightSep(at), new)]
      /\ root' = root /\ ReplaceSeparator(q, RightSep(at), new)
    BY <1>6 DEF BorrowRightLeaf
<1>. HIDE DEF new, y, sib
<1>. QED BY <1>1, <1>2, <1>3, <1>5, <1>6, <1>7, Borrowed

LEMMA BorrowLeftLeafShape == ASSUME IInv, Grow, BorrowLeftLeaf PROVE IInv'
<1>. DEFINE q    == pages[at].parent
            sib  == LeftSib(at)
            high == Max(DOMAIN pages[sib].slots)
            x    == [pages EXCEPT ![at].slots = With(pages[at].slots, high, pages[sib].slots[high])]
            y    == [x EXCEPT ![sib].slots = Without(pages[sib].slots, high)]
<1>1. /\ pc = "fixLeaf" /\ q # 0 /\ IsChild(at) /\ HasLeft(at) /\ pages[at].type = "leaf"
      /\ Cardinality(DOMAIN pages[sib].slots) > MIN_SLOTS_THRESHOLD
    BY DEF BorrowLeftLeaf, BorrowLeft, Underflow, CanBorrowLeft, NumSlots, IInv, RightKindOfPage
<1>2. /\ at \in Id /\ sib \in Id /\ q \in Id /\ sib # q /\ at # q /\ pages[sib].type = "leaf"
      /\ SlotMap(pages[at].slots, Vals) /\ SlotMap(pages[sib].slots, Vals)
      /\ LeftSep(at) \in DOMAIN pages[q].slots
    BY <1>1, Repaired
<1>3. high \in DOMAIN pages[sib].slots /\ high \in Keys
    BY <1>1, <1>2, Spare DEF SlotMap
<1>4. InPlace(pages, level, x)
    <2>1. SlotMap(With(pages[at].slots, high, pages[sib].slots[high]), Vals)
        <3>1. pages[sib].slots[high] \in Vals BY <1>2, <1>3 DEF SlotMap
        <3>. HIDE DEF high
        <3>. QED BY <1>2, <1>3, <3>1, SlotMapWith
    <2>2. InPlace(pages, level, pages) BY InPlaceSame DEF IInv
    <2>. QED BY <1>1, <1>2, <2>1, <2>2, InPlaceSlots DEF Id
<1>5. InPlace(pages, level, y)
    <2>. HIDE DEF x, high, sib
    <2>1. SlotMap(Without(pages[sib].slots, high), Vals) BY <1>2, SlotMapWithout
    <2>. QED BY <1>2, <1>4, <2>1, InPlaceSlots DEF Id, y
<1>6. y[q] = pages[q] BY <1>2, PagesDomain DEF IInv
<1>7. /\ pages' = [y EXCEPT ![q].slots = Replaced(pages[q].slots, LeftSep(at), high)]
      /\ root' = root /\ ReplaceSeparator(q, LeftSep(at), high)
    BY <1>6 DEF BorrowLeftLeaf
<1>. HIDE DEF high, y, sib
<1>. QED BY <1>1, <1>2, <1>3, <1>5, <1>6, <1>7, Borrowed

LEMMA BorrowRightInternalShape == ASSUME IInv, Grow, BorrowRightInternal PROVE IInv'
<1>. DEFINE q    == pages[at].parent
            sib  == RightSib(at)
            new  == Min(DOMAIN pages[sib].slots)
            R    == LiveAt(pages, level, level[at] - 1)
            x    == [pages EXCEPT ![at].slots =
                                    With(pages[at].slots, RightSep(at), pages[sib].link)]
            pg   == Internal(pages[sib].parent, pages[sib].slots[new],
                             Without(pages[sib].slots, new))
            y    == [x EXCEPT ![sib] = pg]
<1>1. /\ pc = "fixInner" /\ q # 0 /\ IsChild(at) /\ HasRight(at) /\ pages[at].type = "internal"
      /\ Cardinality(DOMAIN pages[sib].slots) > MIN_SLOTS_THRESHOLD
    BY DEF BorrowRightInternal, BorrowRight, Underflow, CanBorrowRight, NumSlots, IInv, RightKindOfPage
<1>2. /\ at \in Id /\ sib \in Id /\ q \in Id /\ sib # q /\ at # q
      /\ pages[sib].type = "internal" /\ level[sib] = level[at] /\ level[at] \in Nat
      /\ SlotMap(pages[at].slots, R) /\ SlotMap(pages[sib].slots, R)
      /\ pages[at].link # 0 /\ pages[sib].link # 0 /\ pages[sib].link \in R
      /\ RightSep(at) \in DOMAIN pages[q].slots
      /\ SlotMap(pages[q].slots, LiveAt(pages, level, level[q] - 1))
    BY <1>1, Repaired
<1>3. new \in DOMAIN pages[sib].slots /\ new \in Keys
    BY <1>1, <1>2, Spare DEF SlotMap
<1>4. RightSep(at) \in Keys BY <1>2 DEF SlotMap
<1>5. InPlace(pages, level, x)
    <2>1. SlotMap(With(pages[at].slots, RightSep(at), pages[sib].link), R)
        <3>. HIDE DEF R, sib
        <3>. QED BY <1>2, <1>4, SlotMapWith
    <2>2. InPlace(pages, level, pages) BY InPlaceSame DEF IInv
    <2>. HIDE DEF sib
    <2>. QED BY <1>1, <1>2, <2>1, <2>2, InPlaceSlots DEF Id
<1>6. FitsAt(pages[sib], level[sib], pages, level) BY <1>2 DEF IInv, WellShaped, Id
<1>7. FitsAt(pg, level[sib], pages, level) /\ pg.type = "internal" /\ pg.link # 0
    <2>1. pages[sib].slots[new] \in R /\ 0 \notin R /\ R \subseteq Nat
        BY <1>2, <1>3 DEF SlotMap, LiveAt
    <2>2. SlotMap(Without(pages[sib].slots, new), R) BY <1>2, SlotMapWithout
    <2>. HIDE DEF new, sib
    <2>. QED BY <1>2, <1>6, <2>1, <2>2 DEF FitsAt, Internal
<1>8. InPlace(pages, level, y)
    <2>. HIDE DEF x, pg, sib
    <2>. QED BY <1>2, <1>5, <1>7, InPlaceAt DEF Id
<1>9. y[q] = pages[q] BY <1>2, PagesDomain DEF IInv
<1>10. /\ pages' = [y EXCEPT ![q].slots = Replaced(pages[q].slots, RightSep(at), new)]
       /\ root' = root /\ ReplaceSeparator(q, RightSep(at), new)
    BY <1>9 DEF BorrowRightInternal
<1>. HIDE DEF new, y, sib
<1>. QED BY <1>1, <1>2, <1>3, <1>8, <1>9, <1>10, Borrowed

LEMMA BorrowLeftInternalShape == ASSUME IInv, Grow, BorrowLeftInternal PROVE IInv'
<1>. DEFINE q    == pages[at].parent
            sib  == LeftSib(at)
            high == Max(DOMAIN pages[sib].slots)
            R    == LiveAt(pages, level, level[at] - 1)
            x    == [pages EXCEPT ![sib].slots = Without(pages[sib].slots, high)]
<1>1. /\ pc = "fixInner" /\ q # 0 /\ IsChild(at) /\ HasLeft(at) /\ pages[at].type = "internal"
      /\ Cardinality(DOMAIN pages[sib].slots) > MIN_SLOTS_THRESHOLD
    BY DEF BorrowLeftInternal, BorrowLeft, Underflow, CanBorrowLeft, NumSlots, IInv, RightKindOfPage
<1>2. /\ at \in Id /\ sib \in Id /\ q \in Id /\ sib # q
      /\ pages[sib].type = "internal" /\ level[sib] = level[at]
      /\ SlotMap(pages[sib].slots, R) /\ pages[sib].link # 0
      /\ LeftSep(at) \in DOMAIN pages[q].slots
    BY <1>1, Repaired
<1>3. high \in Keys BY <1>1, <1>2, Spare DEF SlotMap
<1>4. InPlace(pages, level, x)
    <2>1. SlotMap(Without(pages[sib].slots, high), R) BY <1>2, SlotMapWithout
    <2>2. InPlace(pages, level, pages) BY InPlaceSame DEF IInv
    <2>. HIDE DEF sib, high
    <2>. QED BY <1>2, <2>1, <2>2, InPlaceSlots DEF Id
<1>5. x[q] = pages[q] BY <1>2, PagesDomain DEF IInv
<1>6. /\ pages' = [x EXCEPT ![q].slots = Replaced(pages[q].slots, LeftSep(at), high)]
      /\ root' = root /\ ReplaceSeparator(q, LeftSep(at), high)
    BY <1>5 DEF BorrowLeftInternal
<1>. HIDE DEF high, x, sib
<1>. QED BY <1>1, <1>2, <1>3, <1>4, <1>5, <1>6, Borrowed

\* The pages a merge joins are siblings.
LEMMA Merged ==
    ASSUME IInv, pc \in {"fixLeaf", "fixInner"}, MergeSiblings(pc)
    PROVE  LET m == MergePair(at) IN
           /\ pages[at].parent # 0 /\ IsChild(at)
           /\ m \in [left : LiveAt(pages, level, level[at]), sep : Keys,
                     right : LiveAt(pages, level, level[at])]
<1>1. pages[at].parent # 0 /\ IsChild(at) /\ (HasLeft(at) \/ HasRight(at))
    BY DEF MergeSiblings, Underflow
<1>2. CASE HasRight(at)
    <2>1. RightSep(at) \in Keys BY <1>1, <1>2, Repaired DEF SlotMap
    <2>2. /\ at \in LiveAt(pages, level, level[at])
          /\ RightSib(at) \in LiveAt(pages, level, level[at])
        BY <1>1, <1>2, Repaired
    <2>. QED BY <1>1, <1>2, <2>1, <2>2 DEF MergePair
<1>3. CASE ~HasRight(at)
    <2>1. LeftSep(at) \in Keys BY <1>1, <1>3, Repaired DEF SlotMap
    <2>2. /\ at \in LiveAt(pages, level, level[at])
          /\ LeftSib(at) \in LiveAt(pages, level, level[at])
        BY <1>1, <1>3, Repaired
    <2>. QED BY <1>1, <1>3, <2>1, <2>2 DEF MergePair
<1>. QED BY <1>2, <1>3

\* A merge goes on by taking the right page out of the parent.
LEMMA ToUnlink ==
    ASSUME IInv, pc \in {"fixLeaf", "fixInner"}, pages[at].parent # 0, IsChild(at),
           Linked' = Linked, level' = level, \A p \in Linked : pages'[p].type = pages[p].type,
           root' = root, Goto("unlink", pages[at].parent),
           pend' \in [left : LiveAt(pages, level, level[at]), sep : Keys,
                      right : LiveAt(pages, level, level[at])]
    PROVE  ControlOK' /\ RightKindOfPage'
<1>. DEFINE q == pages[at].parent
<1>1. q \in Linked /\ q # 0 /\ pages[q].type = "internal" BY Repaired
<1>2. LiveAt(pages, level, level[at]) \subseteq Linked BY LinkedLive DEF IInv
<1>3. call \in Requests /\ call.op \in {"delete", "update"}
    BY DEF IInv, ControlOK, OpsAt, NoCall
<1>4. pc' = "unlink" /\ at' = q /\ call' = call /\ reply' = reply BY DEF Goto
<1>5. pend' \in [left : {0} \cup Linked', sep : Keys \cup {Null}, right : {0} \cup Linked']
    BY <1>2
<1>6. ControlOK' BY <1>1, <1>3, <1>4, <1>5 DEF IInv, ControlOK, OpsAt
<1>7. RightKindOfPage' BY <1>1, <1>4 DEF RightKindOfPage
<1>. QED BY <1>6, <1>7

LEMMA MergeLeavesShape == ASSUME IInv, Grow, MergeLeaves PROVE IInv'
<1>. DEFINE m  == MergePair(at)
            L  == LiveAt(pages, level, level[at])
            pg == LeavesJoined(pages[m.left], pages[m.right])
<1>1. pc = "fixLeaf" /\ MergeSiblings(pc) /\ pages[at].type = "leaf"
    BY DEF MergeLeaves, MergeSiblings, Underflow, IInv, RightKindOfPage
<1>2. /\ pages[at].parent # 0 /\ IsChild(at)
      /\ m \in [left : L, sep : Keys, right : L]
    BY <1>1, Merged
<1>3. ASSUME NEW p \in L
      PROVE  /\ p \in Id /\ p \in Linked /\ level[p] = level[at] /\ pages[p].type = "leaf"
             /\ SlotMap(pages[p].slots, Vals)
    BY <1>1, <1>2, <1>3, Repaired
<1>4. m.left \in L /\ m.right \in L BY <1>2
<1>5. InPlace(pages, level, [pages EXCEPT ![m.left] = pg])
    <2>. HIDE DEF m, L
    <2>1. /\ FitsAt(pages[m.left], level[at], pages, level)
          /\ FitsAt(pages[m.right], level[at], pages, level)
        BY <1>3, <1>4 DEF IInv, WellShaped, Id
    <2>2. SlotMap(Join(pages[m.left].slots, pages[m.right].slots), Vals)
        BY <1>3, <1>4, SlotMapJoin
    <2>3. FitsAt(pg, level[at], pages, level) /\ pg.type = "leaf"
        BY <1>3, <1>4, <2>1, <2>2 DEF FitsAt, LeavesJoined
    <2>4. InPlace(pages, level, pages) BY InPlaceSame DEF IInv
    <2>. HIDE DEF pg
    <2>. QED BY <1>3, <1>4, <2>3, <2>4, InPlaceAt DEF Id
<1>6. pages' = [pages EXCEPT ![m.left] = pg] BY DEF MergeLeaves
<1>7. /\ WellShaped(pages, level)' /\ level' = level /\ Linked' = Linked
      /\ \A p \in Linked : pages'[p].type = pages[p].type
    BY <1>5, <1>6, Rewritten DEF IInv
<1>8. ControlOK' /\ RightKindOfPage'
    <2>1. /\ Goto("unlink", pages[at].parent) /\ root' = root
          /\ pend' \in [left : L, sep : Keys, right : L]
        BY <1>2 DEF MergeLeaves
    <2>. QED BY <1>1, <1>2, <1>7, <2>1, ToUnlink
<1>. QED BY <1>7, <1>8 DEF IInv

LEMMA MergeInternalsShape == ASSUME IInv, Grow, MergeInternals PROVE IInv'
<1>. DEFINE m    == MergePair(at)
            L    == LiveAt(pages, level, level[at])
            R    == LiveAt(pages, level, level[at] - 1)
            all  == Concat(pages[m.left].slots, m.sep, pages[m.right].link,
                           pages[m.right].slots)
            done == Loaded("internal", all)
            ids  == {i.data : i \in done}
            x    == [pages EXCEPT ![m.left].slots = SlotsOf(done)]
<1>1. pc = "fixInner" /\ MergeSiblings(pc) /\ pages[at].type = "internal"
    BY DEF MergeInternals, MergeSiblings, Underflow, IInv, RightKindOfPage
<1>2. /\ pages[at].parent # 0 /\ IsChild(at)
      /\ m \in [left : L, sep : Keys, right : L]
    BY <1>1, Merged
<1>3. ASSUME NEW p \in L
      PROVE  /\ p \in Id /\ p \in Linked /\ level[p] = level[at] /\ pages[p].type = "internal"
             /\ pages[p].link # 0 /\ pages[p].link \in R /\ SlotMap(pages[p].slots, R)
    BY <1>1, <1>2, <1>3, Repaired
<1>4. m.left \in L /\ m.right \in L /\ m.sep \in Keys BY <1>2
<1>5. \A i \in all : i.key \in Keys /\ i.data \in R
    <2>. HIDE DEF m, L, R
    <2>. QED BY <1>3, <1>4, ConcatFrom
<1>6. done \subseteq all BY LoadedFrom
<1>7. SlotMap(SlotsOf(done), R) /\ ids \subseteq R
    <2>. HIDE DEF R, all, done
    <2>. QED BY <1>5, <1>6, SlotMapOf
<1>8. InPlace(pages, level, x)
    <2>1. InPlace(pages, level, pages) BY InPlaceSame DEF IInv
    <2>2. level[m.left] = level[at] BY <1>3, <1>4
    <2>3. SlotMap(SlotsOf(done), LiveAt(pages, level, level[m.left] - 1)) BY <1>7, <2>2
    <2>. HIDE DEF m, L, done
    <2>. QED BY <1>3, <1>4, <2>1, <2>3, InPlaceSlots DEF Id
<1>9. InPlace(pages, level, SetParents(x, ids, m.left))
    <2>1. \A i \in ids : m.left \in LiveAt(pages, level, level[i] + 1)
        <3>1. \A i \in R : level[i] + 1 = level[at]
            <4>1. level[at] \in Nat BY <1>1, <1>2, Repaired
            <4>. QED BY <4>1 DEF LiveAt
        <3>. HIDE DEF R, ids, m
        <3>. QED BY <1>4, <1>7, <3>1
    <2>2. Len(pages) \in Nat BY DEF IInv, WellShaped
    <2>. HIDE DEF x, ids, m
    <2>. QED BY <1>8, <2>1, <2>2, InPlaceParents
<1>10. pages' = SetParents(x, ids, m.left) BY DEF MergeInternals
<1>11. /\ WellShaped(pages, level)' /\ level' = level /\ Linked' = Linked
       /\ \A p \in Linked : pages'[p].type = pages[p].type
    BY <1>9, <1>10, Rewritten DEF IInv
<1>12. root' = root BY DEF MergeInternals
<1>13. CASE Goto("unlink", pages[at].parent) /\ pend' = m
    <2>1. pend' \in [left : L, sep : Keys, right : L] BY <1>2, <1>13
    <2>2. ControlOK' /\ RightKindOfPage'
        BY <1>1, <1>2, <1>11, <1>12, <1>13, <2>1, ToUnlink
    <2>. QED BY <1>11, <2>2 DEF IInv
<1>14. CASE Raise
    <2>1. ControlOK' /\ RightKindOfPage'
        BY <1>11, <1>12, <1>14, Returned DEF Raise, IInv, ControlOK
    <2>. QED BY <1>11, <2>1 DEF IInv
<1>. QED BY <1>13, <1>14 DEF MergeInternals

LEMMA UnlinkShape == ASSUME IInv, Grow, Unlink \/ UnlinkUnderflows \/ ShrinkRoot PROVE IInv'
<1>. DEFINE R == LiveAt(pages, level, level[at] - 1)
            l == pages[at].link
            x == [pages EXCEPT ![at].slots = Remaining]
<1>1. /\ pc = "unlink" /\ at # 0 /\ pages[at].type = "internal"
      /\ at \in Id /\ at \in Linked /\ level[at] \in Nat
    BY Here DEF IInv, ControlOK, RightKindOfPage, Unlink, UnlinkUnderflows, ShrinkRoot
<1>2. l # 0 /\ l \in R /\ SlotMap(pages[at].slots, R) BY <1>1, Here DEF FitsAt
<1>3. InPlace(pages, level, x)
    <2>1. SlotMap(Remaining, R) BY <1>2, SlotMapWithout DEF Remaining
    <2>2. InPlace(pages, level, pages) BY InPlaceSame DEF IInv
    <2>. QED BY <1>1, <1>2, <2>1, <2>2, InPlaceSlots DEF Id
<1>4. CASE Unlink \/ UnlinkUnderflows
    <2>0. pages' = x BY <1>4 DEF Unlink, UnlinkUnderflows
    <2>1. /\ WellShaped(pages, level)' /\ level' = level /\ Linked' = Linked
          /\ \A p \in Linked : pages'[p].type = pages[p].type
        BY <1>3, <2>0, Rewritten DEF IInv
    <2>2. CASE Unlink
        <3>1. ControlOK' /\ RightKindOfPage'
            BY <1>1, <2>1, <2>2, DeleteReturned DEF Unlink, IInv, ControlOK
        <3>. QED BY <2>1, <3>1 DEF IInv
    <2>3. CASE UnlinkUnderflows
        <3>1. Goto("fixInner", at) /\ pend' = NoPend /\ root' = root BY <2>3 DEF UnlinkUnderflows
        <3>2. ControlOK' BY <1>1, <2>1, <3>1 DEF IInv, ControlOK, Goto, OpsAt, NoPend
        <3>3. RightKindOfPage' BY <1>1, <2>1, <3>1 DEF Goto, RightKindOfPage
        <3>. QED BY <2>1, <3>2, <3>3 DEF IInv
    <2>. QED BY <1>4, <2>2, <2>3
<1>5. CASE ShrinkRoot
    <2>. DEFINE pg == [x[l] EXCEPT !.parent = 0]
    <2>1. l \in Id /\ l \in Linked BY <1>2, LinkedLive DEF IInv
    <2>2. FitsAt(x[l], level[l], pages, level) /\ x[l].type = pages[l].type
          /\ (x[l].type = "internal" => (x[l].link = 0) = (pages[l].link = 0))
        BY <1>3, <2>1 DEF InPlace, Id
    <2>3. FitsAt(pg, level[l], pages, level) /\ pg.type = x[l].type /\ pg.link = x[l].link
        <3>. HIDE DEF x, l
        <3>. QED BY <2>2, FitsParent
    <2>4. InPlace(pages, level, [x EXCEPT ![l] = pg])
        <3>. HIDE DEF x, l, pg
        <3>. QED BY <1>3, <2>1, <2>2, <2>3, InPlaceAt DEF Id
    <2>5. pages' = [x EXCEPT ![l] = pg] /\ root' = l /\ DeleteReturns BY <1>5 DEF ShrinkRoot
    <2>6. WellShaped(pages, level)' /\ Linked' = Linked
        <3>. HIDE DEF x, l, pg
        <3>. QED BY <2>4, <2>5, Rewritten DEF IInv
    <2>7. ControlOK' /\ RightKindOfPage' BY <1>1, <2>1, <2>5, <2>6, DeleteReturned
    <2>. QED BY <2>6, <2>7 DEF IInv
<1>. QED BY <1>4, <1>5
------------------------------------------------------------------------------
LEMMA StepShape == IInv /\ [SNext]_svars => IInv'
<1>1. SUFFICES ASSUME IInv, [SNext]_svars PROVE IInv' OBVIOUS
<1>2. CASE UNCHANGED svars
    BY <1>1, <1>2 DEF svars, IInv, ControlOK, RightKindOfPage, Linked, Id
<1>3. CASE \E req \in Requests : SCall(req) BY <1>1, <1>3, CallShape
<1>4. CASE SStep
    <2>1. Step /\ Grow BY <1>4 DEF SStep
    <2>2. CASE Descend BY <1>1, <2>1, <2>2, DescendShape
    <2>3. CASE Search BY <1>1, <2>1, <2>3, SearchShape
    <2>4. CASE UpdateFinds \/ InsertDuplicate \/ DeleteMissing
                 \/ NothingToRepair \/ SiblingNotFound
        BY <1>1, <2>1, <2>4, UnchangedShape
    <2>5. CASE InsertIntoLeaf BY <1>1, <2>1, <2>5, InsertIntoLeafShape
    <2>6. CASE SplitLeaf BY <1>1, <2>1, <2>6, SplitLeafShape
    <2>7. CASE CreateNewRoot BY <1>1, <2>1, <2>7, CreateNewRootShape
    <2>8. CASE InsertIntoParent BY <1>1, <2>1, <2>8, InsertIntoParentShape
    <2>9. CASE SplitInternal BY <1>1, <2>1, <2>9, SplitInternalShape
    <2>10. CASE DeleteFromLeaf BY <1>1, <2>1, <2>10, DeleteFromLeafShape
    <2>11. CASE BorrowRightLeaf BY <1>1, <2>1, <2>11, BorrowRightLeafShape
    <2>12. CASE BorrowLeftLeaf BY <1>1, <2>1, <2>12, BorrowLeftLeafShape
    <2>13. CASE BorrowRightInternal BY <1>1, <2>1, <2>13, BorrowRightInternalShape
    <2>14. CASE BorrowLeftInternal BY <1>1, <2>1, <2>14, BorrowLeftInternalShape
    <2>15. CASE MergeLeaves BY <1>1, <2>1, <2>15, MergeLeavesShape
    <2>16. CASE MergeInternals BY <1>1, <2>1, <2>16, MergeInternalsShape
    <2>17. CASE Unlink \/ UnlinkUnderflows \/ ShrinkRoot BY <1>1, <2>1, <2>17, UnlinkShape
    <2>. QED BY <2>1, <2>2, <2>3, <2>4, <2>5, <2>6, <2>7, <2>8, <2>9, <2>10, <2>11, <2>12,
                <2>13, <2>14, <2>15, <2>16, <2>17 DEF Step, Insertion, Deletion
<1>. QED BY <1>1, <1>2, <1>3, <1>4 DEF SNext

LEMMA ShapeTypeOK == IInv => TypeOK
<1>1. SUFFICES ASSUME IInv PROVE TypeOK OBVIOUS
<1>2. Len(pages) \in Nat /\ pages \in Seq({pages[p] : p \in Id})
    BY <1>1 DEF IInv, WellShaped, Id
<1>3. \A n : LiveAt(pages, level, n) \subseteq Linked BY <1>1, LinkedLive DEF IInv
<1>4. \A p \in Id : PageOK(pages[p], Linked)
    <2>1. TAKE p \in Id
    <2>2. FitsAt(pages[p], level[p], pages, level) BY <1>1 DEF IInv, WellShaped, Id
    <2>. QED BY <1>3, <2>2 DEF FitsAt, PageOK, SlotMap
<1>. QED BY <1>1, <1>2, <1>4 DEF IInv, TypeOK, PagesOK

LEMMA ShapeBalanced == IInv => Balanced
<1>1. SUFFICES ASSUME IInv, NEW p \in Id
      PROVE  /\ (pages[p].type = "leaf") = (level[p] = 0)
             /\ \A c \in Children(p) : level[p] = level[c] + 1
             /\ pages[p].parent # 0 => level[pages[p].parent] = level[p] + 1
    BY DEF Balanced
<1>2. FitsAt(pages[p], level[p], pages, level) /\ level[p] \in Nat
    BY <1>1 DEF IInv, WellShaped, Id
<1>3. ASSUME NEW c \in Children(p) PROVE level[p] = level[c] + 1
    <2>1. c \in LiveAt(pages, level, level[p] - 1)
        BY <1>2, <1>3 DEF Children, FitsAt, SlotMap
    <2>. QED BY <1>2, <2>1 DEF LiveAt
<1>4. pages[p].parent # 0 => level[pages[p].parent] = level[p] + 1
    BY <1>2 DEF FitsAt, LiveAt
<1>5. (pages[p].type = "leaf") = (level[p] = 0) BY <1>2 DEF FitsAt
<1>. QED BY <1>3, <1>4, <1>5

\* The inductive invariant: every page fits its level, the running function holds
\* ids of live pages, and it runs on a page of the kind it takes for granted.  It
\* holds through every call of btree.py, also through those that raise half way.
THEOREM ShapeInvariant == SSpec => []IInv
<1>1. SInit => IInv BY InitShape
<1>2. IInv /\ [SNext]_svars => IInv' BY StepShape
<1>. QED BY <1>1, <1>2, PTL DEF SSpec

\* No page id in the store dangles: every id in a page, in the root and in the
\* running function of btree.py names an allocated page of the right kind.
THEOREM TypeCorrect == SSpec => []TypeOK
BY ShapeInvariant, ShapeTypeOK, PTL

\* Every path from a page to a leaf has the same length, whatever calls of
\* btree.py failed half way.
THEOREM TreeStaysBalanced == SSpec => []Balanced
BY ShapeInvariant, ShapeBalanced, PTL

\* Leaves are repaired as leaves and internal pages as internal pages, and a split
\* passes its halves to a page one level up.
THEOREM FunctionsGetTheirKindOfPage == SSpec => []RightKindOfPage
<1>1. IInv => RightKindOfPage BY DEF IInv
<1>. QED BY <1>1, ShapeInvariant, PTL
==============================================================================
