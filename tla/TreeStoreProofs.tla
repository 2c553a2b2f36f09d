--------------------------- MODULE TreeStoreProofs ---------------------------
(***************************************************************************)
(* The tree as the map of KVStore: proofs for TreeStore, for any keys,     *)
(* values and room in the pages, and any number of calls.                  *)
(***************************************************************************)
EXTENDS TreeRangeProofs

LEMMA StoreIsTree == HSpec => SSpec
<1>1. HInit => SInit BY DEF HInit
<1>2. [HNext]_hvars => [SNext]_svars
    <2>1. SUFFICES ASSUME [HNext]_hvars PROVE [SNext]_svars OBVIOUS
    <2>2. CASE HStep BY <2>2 DEF HStep, SNext
    <2>3. CASE \E req \in Expected :
                 SCall(req) /\ calls' = calls + 1 /\ UNCHANGED before
        <3>1. PICK req \in Expected : SCall(req) BY <2>3
        <3>2. req \in Requests BY DEF Expected
        <3>. QED BY <3>1, <3>2 DEF SNext
    <2>4. CASE UNCHANGED hvars BY <2>4 DEF hvars, svars
    <2>. QED BY <2>1, <2>2, <2>3, <2>4 DEF HNext
<1>. QED BY <1>1, <1>2, PTL DEF HSpec, SSpec

\* Whatever the callers ask of search, insert, update and delete, no page id dangles
\* and every page of the tree keeps its kind of slots.
THEOREM StoreTypeCorrect == HSpec => []TypeOK
BY StoreIsTree, TypeCorrect, PTL

\* Whatever the callers ask, all the leaves stay at one depth.
THEOREM StoreBalanced == HSpec => []Balanced
BY StoreIsTree, TreeStaysBalanced, PTL
------------------------------------------------------------------------------
(***************************************************************************)
(* The inductive invariant                                                 *)
(***************************************************************************)
\* The pages as they are when the separator of a split is in the parent.
PagesLinked == [pages EXCEPT ![at].slots = With(@, pend.sep, pend.right)]
\* The pages as they are when the separator of a merge is gone from the parent.
PagesUnlinked == [pages EXCEPT ![at].slots = Without(@, pend.sep)]
\* The pages with the new root that a split of the root goes on to.
PagesRooted ==
    SetParents(Append(pages, Internal(0, pend.left, With(NoSlots, pend.sep, pend.right))),
               {pend.left, pend.right}, Len(pages) + 1)
\* The levels with the new root.
LevelsRooted == Append(level, level[pend.left] + 1)

\* What each page of the file keeps.
PageFine(pg) ==
    IF pg.type = "leaf" THEN LeafRoom(pg.slots) >= 0
    ELSE pg.link # 0 /\ Cardinality(DOMAIN pg.slots) <= MaxSeps
\* Every page is as its split left it, and no page is higher than there are pages.
Grown == \A p \in Id : PageFine(pages[p]) /\ level[p] < Len(pages)

\* No leaf but the root and e is empty, and a root above the leaves has a separator.
Filled(v, lv, r, S, e) ==
    /\ \A p \in S : v[p].type = "leaf" /\ DOMAIN v[p].slots = {} => p = r \/ p = e
    /\ lv[r] = 1 => DOMAIN v[r].slots # {}

\* The pages v are a tree that holds m, and no leaf but e waits for a repair.
Kept(v, lv, r, lo, hi, m, e) ==
    IsTree(v, lv, r, lo, hi) /\ Holds(v, lo, m) /\ Filled(v, lv, r, DOMAIN lo, e)
\* They are such a tree for some ranges, and none waits.
Keeps(v, lv, r, m) == \E lo, hi : Kept(v, lv, r, lo, hi, m, 0)

\* The map m with d for k.
Set(m, k, d) == [m EXCEPT ![k] = d]

\* The map the leaves hold while a call runs.
Now ==
    CASE pc \in {"link", "newRoot"} -> Set(before, call.key, call.val)
      [] pc \in {"fixLeaf", "unlink"} \/ (pc = "add" /\ call.op = "update") ->
           Set(before, call.key, Null)
      [] OTHER -> before

\* The call is none of those Avoid leaves out.
Careful(lo) ==
    /\ pc = "add" /\ call.op = "insert" =>
         \A p \in DOMAIN lo : pages[p].type = "leaf" /\ call.key \in DOMAIN pages[p].slots =>
            Weight[call.val] <= LeafRoom(pages[p].slots)
    /\ pc \in {"find", "remove"} /\ call.op \in {"update", "delete"} /\ level[root] > 1 =>
         \A p \in DOMAIN lo : pages[p].type = "leaf" => DOMAIN pages[p].slots # {call.key}

\* On the way down, the key belongs to the page that was come to.
Descending ==
    \E lo, hi : /\ Kept(pages, level, root, lo, hi, Now, 0)
                /\ at \in DOMAIN lo /\ Inside(lo, hi, at, call.key) /\ Careful(lo)
\* The split leaves a tree once its separator is in the parent.
Linking ==
    \E lo, hi : /\ Kept(PagesLinked, level, root, lo, hi, Now, 0)
                /\ at \in DOMAIN lo /\ pend.sep \notin DOMAIN pages[at].slots
\* The split of the root leaves a tree once there is a new root.
Rooting == Keeps(PagesRooted, LevelsRooted, Len(pages) + 1, Now)
\* One leaf is empty, right below the root.
Fixing ==
    /\ level[root] = 1
    /\ \E lo, hi : /\ Kept(pages, level, root, lo, hi, Now, at)
                   /\ at \in DOMAIN lo \ {root} /\ DOMAIN pages[at].slots = {}
\* The merge leaves a tree once its separator is gone from the root, of which nothing
\* is said until then: it may have no separator left.
Unlinking ==
    /\ at = root /\ level[root] = 1
    /\ \E lo, hi : /\ IsTree(PagesUnlinked, level, root, lo, hi) /\ Holds(PagesUnlinked, lo, Now)
                   /\ \A p \in DOMAIN lo : pages[p].type = "leaf" => DOMAIN pages[p].slots # {}

\* What the function that runs next finds.
Placing ==
    CASE pc = "idle" -> Keeps(pages, level, root, before)
      [] pc \in {"find", "add", "remove"} -> Descending
      [] pc = "link" -> Linking
      [] pc = "newRoot" -> Rooting
      [] pc = "fixLeaf" -> Fixing
      [] pc = "unlink" -> Unlinking
      [] OTHER -> FALSE

\* What the call that runs has found out about its key.
Asked ==
    /\ before \in [Keys -> Vals \cup {Null}]
    /\ pc \in {"fixLeaf", "unlink"} \/ (pc \in {"remove", "add", "link", "newRoot"} /\ call.op = "update")
          => before[call.key] # Null
    /\ pc \in {"link", "newRoot"} /\ call.op = "insert" => before[call.key] = Null

\* The inductive invariant.
MapInv == IInv /\ Grown /\ Placing /\ Asked

\* The step is one of the map of KVStore, or none.
StoreStep == [Store!Next]_<<before, call, reply>>
\* What has to be shown of each step.
Done == MapInv' /\ StoreStep

\* What IInv and Grown say of every page.
LEMMA Basics ==
    ASSUME IInv, Grown
    PROVE  /\ Len(pages) \in Nat /\ DOMAIN pages = Id /\ Len(level) = Len(pages)
           /\ Linked = Id /\ root \in Id /\ root # 0
           /\ \A p \in Id : /\ pages[p].type \in {"leaf", "internal"} /\ level[p] \in Nat
                            /\ (pages[p].type = "leaf") = (level[p] = 0)
                            /\ pages[p].type = "leaf" => SlotMap(pages[p].slots, Vals)
                            /\ DOMAIN pages[p].slots \subseteq Keys
                            /\ level[p] < Len(pages) /\ PageFine(pages[p])
<1>1. Len(pages) \in Nat /\ DOMAIN pages = Id /\ Len(level) = Len(pages)
    BY PagesDomain DEF IInv, WellShaped
<1>2. \A p \in Id : FitsAt(pages[p], level[p], pages, level) /\ level[p] \in Nat
    BY <1>1 DEF IInv, WellShaped, Id
<1>3. \A p \in Id : /\ pages[p].type \in {"leaf", "internal"} /\ level[p] \in Nat
                    /\ (pages[p].type = "leaf") = (level[p] = 0)
                    /\ pages[p].type = "leaf" => SlotMap(pages[p].slots, Vals)
                    /\ DOMAIN pages[p].slots \subseteq Keys
    <2>1. TAKE p \in Id
    <2>. QED BY <1>2 DEF FitsAt, SlotMap
<1>4. Linked = Id BY <1>3 DEF Grown, PageFine, Linked
<1>5. root \in Id /\ root # 0 BY <1>4 DEF IInv, ControlOK, Id
<1>. QED BY <1>1, <1>3, <1>4, <1>5 DEF Grown

\* A search finds what the tree holds.
FindsContents == \A m : Keeps(pages, level, root, m) => Contents = m

\* If the pages keep a map, Contents is this map.
LEMMA ContentsKept == IInv /\ Grown => FindsContents
<1>1. SUFFICES ASSUME IInv, Grown, NEW m, Keeps(pages, level, root, m) PROVE Contents = m
    BY DEF FindsContents
<1>2. PICK lo, hi : Kept(pages, level, root, lo, hi, m, 0) BY <1>1 DEF Keeps
<1>3. Sound(lo, hi) BY <1>1, <1>2, Basics DEF Sound, IInv, Kept
<1>4. Holds(pages, lo, m) BY <1>2 DEF Kept
<1>. QED BY <1>3, <1>4, ContentsAre

\* The call in progress asks for a key and, if it stores one, a value.
LEMMA Request ==
    ASSUME IInv, pc # "idle"
    PROVE  /\ call \in Requests /\ call.key \in Keys
           /\ call.op \in {"search", "insert", "update", "delete"}
           /\ call.op \in {"insert", "update"} => call.val \in Vals
           /\ call # NoCall
<1>1. call \in Requests BY DEF IInv, ControlOK, OpsAt, NoCall
<1>. QED BY <1>1 DEF Requests, NoCall

\* Maps that are changed at one key.
LEMMA SetType ==
    ASSUME NEW m \in [Keys -> Vals \cup {Null}], NEW k \in Keys, NEW d \in Vals \cup {Null}
    PROVE  /\ Set(m, k, d) \in [Keys -> Vals \cup {Null}] /\ Set(m, k, d)[k] = d
           /\ Set(Set(m, k, Null), k, d) = Set(m, k, d)
           /\ m[k] = d => Set(m, k, d) = m
BY DEF Set

\* A call that is finished leaves the pages with the map m.
LEMMA Returning ==
    ASSUME MapInv, IInv', Grown', HStep, NEW r, Return(r), NEW m, Keeps(pages', level', root', m),
           m \in [Keys -> Vals \cup {Null}]
    PROVE  MapInv' /\ before' = m /\ call' = NoCall /\ reply' = r
<1>1. FindsContents' BY ContentsKept, PTL
<1>2. Contents' = m BY <1>1 DEF FindsContents
<1>3. pc' = "idle" /\ call' = NoCall /\ reply' = r BY DEF Return
<1>4. before' = m BY <1>2, <1>3 DEF HStep
<1>5. Placing' BY <1>3, <1>4 DEF Placing
<1>6. Asked' BY <1>3, <1>4 DEF Asked
<1>. QED BY <1>3, <1>4, <1>5, <1>6 DEF MapInv

\* A call that ends with its value in the map is an Insert or an Update of KVStore.
LEMMA Stores ==
    ASSUME MapInv, pc # "idle", call.op \in {"insert", "update"},
           before' = Set(before, call.key, call.val), call' = NoCall, reply' = "ok",
           call.op = "insert" => before[call.key] = Null,
           call.op = "update" => before[call.key] # Null
    PROVE  StoreStep
<1>1. CASE call.op = "insert"
    <2>1. Store!Insert
        BY <1>1 DEF Store!Insert, Store!Answer, Store!Present, Store!NoRequest, NoCall, Set
    <2>. QED BY <2>1 DEF StoreStep, Store!Next
<1>2. CASE call.op = "update"
    <2>1. Store!Update
        BY <1>2 DEF Store!Update, Store!Answer, Store!Present, Store!NoRequest, NoCall, Set
    <2>. QED BY <2>1 DEF StoreStep, Store!Next
<1>. QED BY <1>1, <1>2

\* A call that ends with an error and no change is a Refuse of KVStore.
LEMMA Refuses ==
    ASSUME MapInv, pc # "idle", before' = before, call' = NoCall, reply' = "error",
           \/ call.op = "insert" /\ before[call.key] # Null
           \/ call.op \in {"update", "delete"} /\ before[call.key] = Null
    PROVE  StoreStep
<1>1. Store!Refuse
    BY DEF Store!Refuse, Store!Answer, Store!Present, Store!NoRequest, NoCall
<1>. QED BY <1>1 DEF StoreStep, Store!Next

\* A step inside a call is none of the store.
LEMMA Inner == ASSUME before' = before, call' = call, reply' = reply PROVE StoreStep
BY DEF StoreStep

\* A function starts to descend from the root.
LEMMA FromRoot ==
    ASSUME NEW lv, NEW r, NEW v, NEW m, NEW lo, NEW hi, Kept(v, lv, r, lo, hi, m, 0),
           NEW k \in Keys
    PROVE  r \in DOMAIN lo /\ Inside(lo, hi, r, k)
<1>1. r \in DOMAIN lo /\ lo[r] = 0 /\ hi[r] = KeyEnd BY InTree DEF Kept
<1>. QED BY <1>1, KeyBelowEnd DEF Inside

\* A removal that is complete ends a delete, and lets an update go on to insert.
LEMMA DeleteReturning ==
    ASSUME MapInv, IInv', Grown', HStep, DeleteReturns, pc # "idle",
           call.op \in {"delete", "update"}, before[call.key] # Null,
           Keeps(pages', level', root', Set(before, call.key, Null))
    PROVE  Done
<1>0. /\ call \in Requests /\ call.key \in Keys /\ before \in [Keys -> Vals \cup {Null}]
    BY Request DEF MapInv, Asked
<1>1. CASE call.op = "update"
    <2>1. pc' = "add" /\ at' = root' /\ call' = call /\ reply' = reply
        BY <1>1 DEF DeleteReturns, Goto
    <2>2. before' = before BY <2>1 DEF HStep
    <2>3. Asked' BY <1>1, <2>1, <2>2 DEF MapInv, Asked
    <2>4. Now' = Set(before, call.key, Null) BY <1>1, <2>1, <2>2 DEF Now
    <2>5. PICK lo, hi : Kept(pages', level', root', lo, hi, Now', 0) BY <2>4 DEF Keeps
    <2>6. root' \in DOMAIN lo /\ Inside(lo, hi, root', call.key) BY <1>0, <2>5, FromRoot
    <2>7. Careful(lo)' BY <1>1, <2>1 DEF Careful
    <2>8. Descending' BY <2>1, <2>5, <2>6, <2>7 DEF Descending
    <2>9. Placing' BY <2>1, <2>8 DEF Placing
    <2>10. MapInv' BY <2>3, <2>9 DEF MapInv
    <2>. QED BY <2>1, <2>2, <2>10, Inner DEF Done
<1>2. CASE call.op = "delete"
    <2>1. Return("ok") BY <1>2 DEF DeleteReturns
    <2>2. Set(before, call.key, Null) \in [Keys -> Vals \cup {Null}] BY <1>0, SetType
    <2>3. MapInv' /\ before' = Set(before, call.key, Null) /\ call' = NoCall /\ reply' = "ok"
        BY <2>1, <2>2, Returning
    <2>4. Store!Delete
        BY <1>2, <2>3 DEF Store!Delete, Store!Answer, Store!Present, Store!NoRequest, NoCall, Set
    <2>. QED BY <2>3, <2>4 DEF Done, StoreStep, Store!Next
<1>. QED BY <1>1, <1>2
------------------------------------------------------------------------------
(***************************************************************************)
(* A call begins and comes down to a leaf                                  *)
(***************************************************************************)
\* Pages that are changed in place keep Grown.
LEMMA GrownInPlace ==
    ASSUME IInv, Grown, Grow, Len(pages') = Len(pages), \A p \in Id : PageFine(pages'[p])
    PROVE  Grown' /\ level' = level /\ Id' = Id
<1>1. level' = level /\ Id' = Id BY DEF Grow, Id
<1>. QED BY <1>1 DEF Grown

\* So do pages that are not changed.
LEMMA GrownUnchanged ==
    ASSUME IInv, Grown, Grow, UNCHANGED pages
    PROVE  Grown' /\ level' = level /\ Id' = Id
<1>1. \A p \in Id : PageFine(pages'[p]) BY DEF Grown
<1>. QED BY <1>1, GrownInPlace

\* What the leaf that a key belongs to has for the key.
LEMMA HereIs ==
    ASSUME NEW v, NEW lv, NEW r, NEW lo, NEW hi, IsTree(v, lv, r, lo, hi), NEW m, Holds(v, lo, m),
           NEW p \in DOMAIN lo, v[p].type = "leaf", NEW k \in Keys, Inside(lo, hi, p, k)
    PROVE  /\ k \in DOMAIN v[p].slots => m[k] = v[p].slots[k] /\ m[k] # Null /\ m[k] \in Vals
           /\ k \notin DOMAIN v[p].slots => m[k] = Null
<1>1. m \in [Keys -> Vals \cup {Null}] /\ \A d \in Vals : Ent(v, lo, k, d) <=> m[k] = d
    BY DEF Holds
<1>2. Null \notin Vals BY KeysAssumption
<1>3. CASE k \in DOMAIN v[p].slots
    <2>1. v[p].slots[k] \in Vals BY <1>3, LeafHas
    <2>2. Ent(v, lo, k, v[p].slots[k]) BY <1>3 DEF Ent
    <2>. QED BY <1>1, <1>2, <1>3, <2>1, <2>2
<1>4. CASE k \notin DOMAIN v[p].slots
    <2>1. SUFFICES ASSUME m[k] \in Vals PROVE FALSE BY <1>1, <1>4
    <2>2. PICK q \in DOMAIN lo : v[q].type = "leaf" /\ k \in DOMAIN v[q].slots
        BY <1>1, <2>1 DEF Ent
    <2>3. q = p BY <2>2, OneLeaf
    <2>. QED BY <1>4, <2>2, <2>3
<1>. QED BY <1>3, <1>4

\* What Avoided leaves out, of the leaves of the tree.
LEMMA AskedCarefully ==
    ASSUME IInv, Grown, NEW lo, NEW hi, Kept(pages, level, root, lo, hi, before, 0),
           Avoid = {"duplicate", "tallUnderflow"}, NEW req \in Requests, ~Avoided(req)
    PROVE  /\ req.op = "insert" =>
                \A p \in DOMAIN lo : pages[p].type = "leaf" /\ req.key \in DOMAIN pages[p].slots =>
                   Weight[req.val] <= LeafRoom(pages[p].slots)
           /\ req.op \in {"update", "delete"} /\ level[root] > 1 =>
                \A p \in DOMAIN lo : pages[p].type = "leaf" => DOMAIN pages[p].slots # {req.key}
<1>1. IsTree(pages, level, root, lo, hi) /\ Holds(pages, lo, before) BY DEF Kept
<1>2. Sound(lo, hi) BY <1>1, Basics DEF Sound, IInv
<1>3. PICK k : k = req.key OBVIOUS
<1>4. k \in Keys /\ k \in Nat /\ k < KeyEnd BY <1>3, KeyBelowEnd DEF Requests
<1>5. PICK q : q = LeafFor(k) OBVIOUS
<1>6. q \in DOMAIN lo /\ pages[q].type = "leaf" /\ Inside(lo, hi, q, k) BY <1>2, <1>4, <1>5,
    SearchEnds
<1>7. \A p \in DOMAIN lo : pages[p].type = "leaf" /\ k \in DOMAIN pages[p].slots => p = q
    BY <1>1, <1>6, OneLeaf
<1>8. ASSUME req.op = "insert", k \in DOMAIN pages[q].slots
      PROVE  Weight[req.val] <= LeafRoom(pages[q].slots)
    <2>1. before[k] # Null BY <1>1, <1>4, <1>6, <1>8, HereIs
    <2>2. ~(Weight[req.val] > LeafRoom(pages[q].slots))
        BY <1>3, <1>5, <1>8, <2>1 DEF Avoided, FullLeafHas
    <2>3. Weight[req.val] \in Nat BY <1>8, RoomAssumption DEF Requests
    <2>4. q \in Id BY <1>1, <1>6, InTree, Basics
    <2>5. LeafRoom(pages[q].slots) \in Int
        <3>1. SlotMap(pages[q].slots, Vals) BY <1>6, <2>4, Basics
        <3>2. Entries(pages[q].slots) BY <3>1 DEF Entries, SlotMap
        <3>. QED BY <3>2, RoomType
    <2>. QED BY <2>2, <2>3, <2>5
<1>9. ASSUME req.op \in {"update", "delete"}, level[root] > 1
      PROVE  DOMAIN pages[q].slots # {k}
    BY <1>3, <1>5, <1>9 DEF Avoided, EmptiesLeafOfTallTree
<1>. QED BY <1>3, <1>7, <1>8, <1>9

\* A call that Avoid does not leave out begins at the root.
LEMMA CallMap ==
    ASSUME MapInv, IInv', calls \in Nat, Preload = <<>>, Avoid = {"duplicate", "tallUnderflow"},
           NEW req \in Expected, SCall(req), UNCHANGED before
    PROVE  Done
<1>1. /\ pages' = pages /\ level' = level /\ root' = root /\ before' = before
      /\ call' = req /\ at' = root /\ reply' = "none" /\ pc = "idle"
    BY DEF SCall, Call
<1>2. /\ pc' = CASE req.op = "insert" -> "add"
                 [] req.op = "delete" -> "remove"
                 [] OTHER             -> "find"
    BY DEF SCall, Call
<1>3. req \in Requests /\ ~Avoided(req)
    <2>2. ~(calls < Len(Preload)) OBVIOUS
    <2>. QED BY <2>2 DEF Expected
<1>4. req.op \in {"search", "insert", "update", "delete"} /\ req.key \in Keys BY <1>3 DEF Requests
<1>5. Grown' BY <1>1 DEF MapInv, Grown, Id
<1>6. PICK lo, hi : Kept(pages, level, root, lo, hi, before, 0)
    BY <1>1 DEF MapInv, Placing, Keeps
<1>7. root \in DOMAIN lo /\ Inside(lo, hi, root, req.key) BY <1>4, <1>6, FromRoot
<1>8. Careful(lo)'
    <2>1. /\ pc' = "add" => req.op = "insert"
          /\ pc' \in {"find", "remove"} => req.op # "insert"
        BY <1>2
    <2>. QED BY <1>1, <1>3, <1>6, <2>1, AskedCarefully DEF Careful, MapInv
<1>9. pc' \in {"find", "add", "remove"} /\ (pc' = "remove" => req.op = "delete") /\ (pc' = "add" => req.op = "insert")
    BY <1>2
<1>10. Now' = before BY <1>1, <1>9 DEF Now
<1>11. Descending' BY <1>1, <1>6, <1>7, <1>8, <1>10 DEF Descending
<1>12. Placing' BY <1>9, <1>11 DEF Placing
<1>13. Asked' BY <1>1, <1>9 DEF MapInv, Asked
<1>14. Store!Ask(req)
    <2>1. call = NoCall BY <1>1 DEF MapInv, IInv, ControlOK, OpsAt, Requests, NoCall
    <2>. QED BY <1>1, <2>1 DEF Store!Ask, Store!NoRequest, NoCall
<1>15. StoreStep BY <1>3, <1>14 DEF StoreStep, Store!Next, Store!Requests, Requests
<1>. QED BY <1>5, <1>12, <1>13, <1>15 DEF Done, MapInv

\* What is known at a leaf that a call has come to.
LEMMA AtLeaf ==
    ASSUME MapInv, pc \in {"find", "add", "remove"}, pages[at].type = "leaf"
    PROVE  \E lo, hi : /\ Kept(pages, level, root, lo, hi, Now, 0) /\ Careful(lo)
                       /\ at \in DOMAIN lo /\ Inside(lo, hi, at, call.key)
                       /\ call.key \in DOMAIN pages[at].slots =>
                             Now[call.key] = pages[at].slots[call.key] /\ Now[call.key] # Null
                       /\ call.key \notin DOMAIN pages[at].slots => Now[call.key] = Null
<1>1. PICK lo, hi : /\ Kept(pages, level, root, lo, hi, Now, 0)
                    /\ at \in DOMAIN lo /\ Inside(lo, hi, at, call.key) /\ Careful(lo)
    BY DEF MapInv, Placing, Descending
<1>2. IsTree(pages, level, root, lo, hi) /\ Holds(pages, lo, Now) BY <1>1 DEF Kept
<1>3. call.key \in Keys BY Request DEF MapInv
<1>4. PICK k, m : k = call.key /\ m = Now OBVIOUS
<1>5. /\ k \in DOMAIN pages[at].slots => m[k] = pages[at].slots[k] /\ m[k] # Null
      /\ k \notin DOMAIN pages[at].slots => m[k] = Null
    BY <1>1, <1>2, <1>3, <1>4, HereIs
<1>. QED BY <1>1, <1>4, <1>5

\* Descend comes to the child that the key belongs to.
LEMMA DescendMap == ASSUME MapInv, IInv', HStep, Descend, Grow PROVE Done
<1>1. /\ pc' = pc /\ pc \in {"find", "add", "remove"} /\ at' = ChildFor(pages[at], call.key)
      /\ pages' = pages /\ root' = root /\ call' = call /\ reply' = reply
      /\ pages[at].type = "internal"
    BY DEF Descend, Goto
<1>2. before' = before BY <1>1 DEF HStep
<1>3. Grown' /\ level' = level BY <1>1, GrownUnchanged DEF MapInv
<1>4. PICK lo, hi : /\ Kept(pages, level, root, lo, hi, Now, 0)
                    /\ at \in DOMAIN lo /\ Inside(lo, hi, at, call.key) /\ Careful(lo)
    BY <1>1 DEF MapInv, Placing, Descending
<1>5. call.key \in Keys /\ call.key \in Nat BY <1>1, Request, KeyBelowEnd DEF MapInv
<1>6. at' \in DOMAIN lo /\ Inside(lo, hi, at', call.key)
    <2>1. PICK k, c : k = call.key /\ c = ChildFor(pages[at], k) OBVIOUS
    <2>2. IsTree(pages, level, root, lo, hi) BY <1>4 DEF Kept
    <2>3. c \in DOMAIN lo /\ Inside(lo, hi, c, k) BY <1>1, <1>4, <1>5, <2>1, <2>2, Route
    <2>. QED BY <1>1, <2>1, <2>3
<1>7. Careful(lo)' BY <1>1, <1>3, <1>4 DEF Careful
<1>8. Now' = Now BY <1>1, <1>2 DEF Now
<1>9. Descending' BY <1>1, <1>3, <1>4, <1>6, <1>7, <1>8 DEF Descending
<1>10. Placing' BY <1>1, <1>9 DEF Placing
<1>11. Asked' BY <1>1, <1>2 DEF MapInv, Asked
<1>. QED BY <1>1, <1>2, <1>3, <1>10, <1>11, Inner DEF Done, MapInv

\* A tree that is Kept keeps its map.
LEMMA KeepsMap ==
    ASSUME NEW v, NEW lv, NEW r, NEW lo, NEW hi, NEW m, Kept(v, lv, r, lo, hi, m, 0)
    PROVE  Keeps(v, lv, r, m) /\ m \in [Keys -> Vals \cup {Null}]
BY DEF Keeps, Kept, Holds

\* Search answers as the map does.
LEMMA SearchMap == ASSUME MapInv, IInv', HStep, Search, Grow PROVE Done
<1>1. /\ pc = "find" /\ call.op = "search" /\ pages[at].type = "leaf"
      /\ pages' = pages /\ root' = root
    BY DEF Search
<1>2. PICK r : r = IF call.key \in DOMAIN pages[at].slots THEN pages[at].slots[call.key] ELSE Null
    OBVIOUS
<1>3. Return(r) BY <1>2 DEF Search
<1>4. Grown' /\ level' = level BY <1>1, GrownUnchanged DEF MapInv
<1>5. Now = before BY <1>1 DEF Now
<1>6. PICK lo, hi : /\ Kept(pages, level, root, lo, hi, before, 0)
                    /\ call.key \in DOMAIN pages[at].slots => before[call.key] = pages[at].slots[call.key]
                    /\ call.key \notin DOMAIN pages[at].slots => before[call.key] = Null
    BY <1>1, <1>5, AtLeaf
<1>7. Keeps(pages', level', root', before) /\ before \in [Keys -> Vals \cup {Null}]
    BY <1>1, <1>4, <1>6, KeepsMap
<1>8. MapInv' /\ before' = before /\ call' = NoCall /\ reply' = r BY <1>3, <1>4, <1>7, Returning
<1>9. Store!Search
    BY <1>1, <1>2, <1>6, <1>8 DEF Store!Search, Store!Answer, Store!NoRequest, NoCall
<1>. QED BY <1>8, <1>9 DEF Done, StoreStep, Store!Next
------------------------------------------------------------------------------
(***************************************************************************)
(* One leaf changes                                                        *)
(***************************************************************************)
\* w is v with other slots in the leaf p.
LeafBecomes(v, w, S, p, f) ==
    /\ v[p].type = "leaf" /\ w[p].type = "leaf" /\ w[p].parent = v[p].parent
    /\ w[p].link = v[p].link /\ w[p].slots = f /\ \A x \in S \ {p} : w[x] = v[x]

\* An entry is put into its leaf.
LEMMA LeafPut ==
    ASSUME NEW v, NEW lv, NEW r, NEW lo, NEW hi, IsTree(v, lv, r, lo, hi), NEW m, Holds(v, lo, m),
           NEW w, DOMAIN lo \subseteq DOMAIN w, NEW p \in DOMAIN lo, NEW k \in Keys,
           NEW d \in Vals,
           Inside(lo, hi, p, k), LeafBecomes(v, w, DOMAIN lo, p, With(v[p].slots, k, d))
    PROVE  IsTree(w, lv, r, lo, hi) /\ Holds(w, lo, Set(m, k, d))
<1>1. /\ v[p].type = "leaf" /\ w[p].type = "leaf" /\ w[p].parent = v[p].parent
      /\ w[p].link = v[p].link /\ w[p].slots = With(v[p].slots, k, d)
      /\ \A x \in DOMAIN lo \ {p} : w[x] = v[x]
    BY DEF LeafBecomes
<1>2. \A j \in DOMAIN v[p].slots : j \in Keys /\ Inside(lo, hi, p, j) /\ v[p].slots[j] \in Vals
    BY <1>1, LeafHas
<1>3. /\ DOMAIN w[p].slots \subseteq Keys
      /\ \A j \in DOMAIN w[p].slots : Inside(lo, hi, p, j) /\ w[p].slots[j] \in Vals
    BY <1>1, <1>2 DEF With
<1>4. IsTree(w, lv, r, lo, hi) BY <1>1, <1>3, LeafChanged
<1>5. LeafSet(v, w, lo, p, With(v[p].slots, k, d)) BY <1>1 DEF LeafSet
<1>6. Holds(w, lo, [m EXCEPT ![k] = d]) BY <1>5, HoldsWith
<1>. QED BY <1>4, <1>6 DEF Set

\* An entry is taken from its leaf.
LEMMA LeafCut ==
    ASSUME NEW v, NEW lv, NEW r, NEW lo, NEW hi, IsTree(v, lv, r, lo, hi), NEW m, Holds(v, lo, m),
           NEW w, DOMAIN lo \subseteq DOMAIN w, NEW p \in DOMAIN lo, NEW k \in Keys,
           Inside(lo, hi, p, k), LeafBecomes(v, w, DOMAIN lo, p, Without(v[p].slots, k))
    PROVE  IsTree(w, lv, r, lo, hi) /\ Holds(w, lo, Set(m, k, Null))
<1>1. /\ v[p].type = "leaf" /\ w[p].type = "leaf" /\ w[p].parent = v[p].parent
      /\ w[p].link = v[p].link /\ w[p].slots = Without(v[p].slots, k)
      /\ \A x \in DOMAIN lo \ {p} : w[x] = v[x]
    BY DEF LeafBecomes
<1>2. \A j \in DOMAIN v[p].slots : j \in Keys /\ Inside(lo, hi, p, j) /\ v[p].slots[j] \in Vals
    BY <1>1, LeafHas
<1>3. /\ DOMAIN w[p].slots \subseteq Keys
      /\ \A j \in DOMAIN w[p].slots : Inside(lo, hi, p, j) /\ w[p].slots[j] \in Vals
    BY <1>1, <1>2 DEF Without
<1>4. IsTree(w, lv, r, lo, hi) BY <1>1, <1>3, LeafChanged
<1>5. LeafSet(v, w, lo, p, Without(v[p].slots, k)) BY <1>1 DEF LeafSet
<1>6. Holds(w, lo, [m EXCEPT ![k] = Null]) BY <1>5, HoldsWithout
<1>. QED BY <1>4, <1>6 DEF Set

\* No other leaf becomes empty.
LEMMA LeafFilled ==
    ASSUME NEW v, NEW lv, NEW r, NEW lo, NEW hi, IsTree(v, lv, r, lo, hi),
           Filled(v, lv, r, DOMAIN lo, 0), NEW w, NEW p \in DOMAIN lo, NEW f,
           LeafBecomes(v, w, DOMAIN lo, p, f), NEW e, DOMAIN f = {} => p = r \/ p = e
    PROVE  Filled(w, lv, r, DOMAIN lo, e)
<1>1. /\ v[p].type = "leaf" /\ w[p].type = "leaf" /\ w[p].slots = f
      /\ \A x \in DOMAIN lo \ {p} : w[x] = v[x]
    BY DEF LeafBecomes
<1>2. 0 \notin DOMAIN lo /\ r \in DOMAIN lo BY InTree
<1>3. \A x \in DOMAIN lo : w[x].type = "leaf" /\ DOMAIN w[x].slots = {} => x = r \/ x = e
    <2>1. TAKE x \in DOMAIN lo
    <2>2. CASE x = p BY <1>1, <2>2
    <2>3. CASE x # p BY <1>1, <1>2, <2>3 DEF Filled
    <2>. QED BY <2>2, <2>3
<1>4. lv[r] = 1 => DOMAIN w[r].slots # {}
    <2>1. lv[r] = 1 => v[r].type # "leaf" BY <1>2, LeafLevel
    <2>2. lv[r] = 1 => w[r] = v[r] BY <1>1, <1>2, <2>1
    <2>. QED BY <2>2 DEF Filled
<1>. QED BY <1>3, <1>4 DEF Filled

\* UpdateFinds goes on with the removal of a key that is in the map, or refuses.
LEMMA UpdateFindsMap == ASSUME MapInv, IInv', HStep, UpdateFinds, Grow PROVE Done
<1>1. /\ pc = "find" /\ call.op = "update" /\ pages[at].type = "leaf"
      /\ pages' = pages /\ root' = root
    BY DEF UpdateFinds
<1>2. Grown' /\ level' = level BY <1>1, GrownUnchanged DEF MapInv
<1>3. Now = before BY <1>1 DEF Now
<1>4. PICK lo, hi : /\ Kept(pages, level, root, lo, hi, before, 0) /\ Careful(lo)
                    /\ call.key \in DOMAIN pages[at].slots => before[call.key] # Null
                    /\ call.key \notin DOMAIN pages[at].slots => before[call.key] = Null
    BY <1>1, <1>3, AtLeaf
<1>5. call.key \in Keys BY <1>1, Request DEF MapInv
<1>6. CASE call.key \in DOMAIN pages[at].slots
    <2>1. pc' = "remove" /\ at' = root /\ call' = call /\ reply' = reply
        BY <1>6 DEF UpdateFinds, Goto
    <2>2. before' = before BY <2>1 DEF HStep
    <2>3. Asked' BY <1>4, <1>6, <2>1, <2>2 DEF MapInv, Asked
    <2>4. Now' = before BY <2>1, <2>2 DEF Now
    <2>5. root' \in DOMAIN lo /\ Inside(lo, hi, root', call.key) BY <1>1, <1>4, <1>5, FromRoot
    <2>6. Careful(lo)' BY <1>1, <1>2, <1>4, <2>1 DEF Careful
    <2>7. Descending' BY <1>1, <1>2, <1>4, <2>1, <2>4, <2>5, <2>6 DEF Descending
    <2>8. Placing' BY <2>1, <2>7 DEF Placing
    <2>. QED BY <1>2, <2>1, <2>2, <2>3, <2>8, Inner DEF Done, MapInv
<1>7. CASE call.key \notin DOMAIN pages[at].slots
    <2>1. Return("error") BY <1>7 DEF UpdateFinds, Raise
    <2>2. Keeps(pages', level', root', before) /\ before \in [Keys -> Vals \cup {Null}]
        BY <1>1, <1>2, <1>4, KeepsMap
    <2>3. MapInv' /\ before' = before /\ call' = NoCall /\ reply' = "error"
        BY <1>2, <2>1, <2>2, Returning
    <2>4. StoreStep BY <1>1, <1>4, <1>7, <2>3, Refuses
    <2>. QED BY <2>3, <2>4 DEF Done
<1>. QED BY <1>6, <1>7

\* InsertDuplicate refuses a key that is in the map.
LEMMA InsertDuplicateMap == ASSUME MapInv, IInv', HStep, InsertDuplicate, Grow PROVE Done
<1>1. /\ pc = "add" /\ call.key \in DOMAIN pages[at].slots /\ pages[at].type = "leaf"
      /\ pages' = pages /\ root' = root /\ Return("error")
    BY DEF InsertDuplicate, AddLeaf, Raise
<1>2. Grown' /\ level' = level BY <1>1, GrownUnchanged DEF MapInv
<1>3. PICK lo, hi : Kept(pages, level, root, lo, hi, Now, 0) /\ Now[call.key] # Null
    BY <1>1, AtLeaf
<1>4. call.op = "insert" /\ Now = before
    <2>1. call.op \in {"insert", "update"} BY <1>1 DEF MapInv, IInv, ControlOK, OpsAt
    <2>2. CASE call.op = "update"
        <3>1. Now = Set(before, call.key, Null) BY <1>1, <2>2 DEF Now
        <3>2. Now[call.key] = Null BY <1>1, <3>1, Request, SetType DEF MapInv, Asked
        <3>. QED BY <1>3, <3>2
    <2>. QED BY <1>1, <2>1, <2>2 DEF Now
<1>5. Keeps(pages', level', root', before) /\ before \in [Keys -> Vals \cup {Null}]
    BY <1>1, <1>2, <1>3, <1>4, KeepsMap
<1>6. MapInv' /\ before' = before /\ call' = NoCall /\ reply' = "error"
    BY <1>1, <1>2, <1>5, Returning
<1>7. StoreStep BY <1>1, <1>3, <1>4, <1>6, Refuses
<1>. QED BY <1>6, <1>7 DEF Done

\* DeleteMissing refuses a key that is not in the map.
LEMMA DeleteMissingMap == ASSUME MapInv, IInv', HStep, DeleteMissing, Grow PROVE Done
<1>1. /\ pc = "remove" /\ call.key \notin DOMAIN pages[at].slots /\ pages[at].type = "leaf"
      /\ pages' = pages /\ root' = root /\ Return("error")
    BY DEF DeleteMissing, Raise
<1>2. Grown' /\ level' = level BY <1>1, GrownUnchanged DEF MapInv
<1>3. Now = before BY <1>1 DEF Now
<1>4. PICK lo, hi : Kept(pages, level, root, lo, hi, before, 0) /\ before[call.key] = Null
    BY <1>1, <1>3, AtLeaf
<1>5. call.op \in {"update", "delete"} BY <1>1 DEF MapInv, IInv, ControlOK, OpsAt
<1>6. Keeps(pages', level', root', before) /\ before \in [Keys -> Vals \cup {Null}]
    BY <1>1, <1>2, <1>4, KeepsMap
<1>7. MapInv' /\ before' = before /\ call' = NoCall /\ reply' = "error"
    BY <1>1, <1>2, <1>6, Returning
<1>8. StoreStep BY <1>1, <1>4, <1>5, <1>7, Refuses
<1>. QED BY <1>7, <1>8 DEF Done

\* Insertion ends with the new entry in the map.
LEMMA InsertReturning ==
    ASSUME MapInv, IInv', Grown', HStep, Return("ok"), pc # "idle",
           call.op \in {"insert", "update"},
           call.op = "insert" => before[call.key] = Null,
           call.op = "update" => before[call.key] # Null,
           Keeps(pages', level', root', Set(before, call.key, call.val))
    PROVE  Done
<1>1. call.key \in Keys /\ call.val \in Vals /\ before \in [Keys -> Vals \cup {Null}]
    BY Request DEF MapInv, Asked
<1>2. Set(before, call.key, call.val) \in [Keys -> Vals \cup {Null}] BY <1>1, SetType
<1>3. /\ MapInv' /\ before' = Set(before, call.key, call.val) /\ call' = NoCall /\ reply' = "ok"
    BY <1>2, Returning
<1>4. StoreStep BY <1>3, Stores
<1>. QED BY <1>3, <1>4 DEF Done

\* A leaf that an entry is to be added to and that does not have the key.
LEMMA Adding ==
    ASSUME MapInv, AddLeaf, call.key \notin DOMAIN pages[at].slots
    PROVE  /\ call.op \in {"insert", "update"} /\ call.key \in Keys /\ call.val \in Vals
           /\ call.op = "insert" => before[call.key] = Null
           /\ call.op = "update" => before[call.key] # Null
           /\ Set(Now, call.key, call.val) = Set(before, call.key, call.val)
           /\ \E lo, hi : /\ Kept(pages, level, root, lo, hi, Now, 0)
                          /\ at \in DOMAIN lo /\ Inside(lo, hi, at, call.key)
<1>1. pc = "add" /\ pages[at].type = "leaf" BY DEF AddLeaf
<1>2. call.op \in {"insert", "update"} BY <1>1 DEF MapInv, IInv, ControlOK, OpsAt
<1>3. call.key \in Keys /\ call.val \in Vals BY <1>1, <1>2, Request DEF MapInv
<1>4. PICK lo, hi : /\ Kept(pages, level, root, lo, hi, Now, 0)
                    /\ at \in DOMAIN lo /\ Inside(lo, hi, at, call.key) /\ Now[call.key] = Null
    BY <1>1, AtLeaf
<1>5. CASE call.op = "insert"
    <2>1. Now = before BY <1>1, <1>5 DEF Now
    <2>. QED BY <1>2, <1>3, <1>4, <1>5, <2>1
<1>6. CASE call.op = "update"
    <2>1. Now = Set(before, call.key, Null) BY <1>1, <1>6 DEF Now
    <2>2. before[call.key] # Null /\ before \in [Keys -> Vals \cup {Null}]
        BY <1>1, <1>6 DEF MapInv, Asked
    <2>3. Set(Set(before, call.key, Null), call.key, call.val) = Set(before, call.key, call.val)
        BY <1>3, <2>2, SetType
    <2>. QED BY <1>2, <1>3, <1>4, <1>6, <2>1, <2>2, <2>3
<1>. QED BY <1>2, <1>5, <1>6

\* The pages after the slots of one leaf were replaced.
LEMMA OneLeafChanged ==
    ASSUME IInv, Grown, Grow, NEW p \in Id, pages[p].type = "leaf", NEW f, LeafRoom(f) >= 0,
           pages' = [pages EXCEPT ![p].slots = f]
    PROVE  /\ Grown' /\ level' = level /\ DOMAIN pages' = Id
           /\ \A S : S \subseteq Id => LeafBecomes(pages, pages', S, p, f)
<1>1. DOMAIN pages = Id /\ Len(pages) \in Nat BY Basics
<1>2. /\ DOMAIN pages' = Id /\ pages'[p].type = "leaf" /\ pages'[p].parent = pages[p].parent
      /\ pages'[p].link = pages[p].link /\ pages'[p].slots = f
      /\ \A x \in Id \ {p} : pages'[x] = pages[x]
    <2>1. FitsAt(pages[p], level[p], pages, level) BY DEF IInv, WellShaped, Id
    <2>2. pages[p] \in [type : {"leaf", "internal"}, parent : {0} \cup LiveAt(pages, level, level[p] + 1),
               link : Nat, slots : {pages[p].slots}] BY <2>1 DEF FitsAt
    <2>. QED BY <1>1, <2>2
<1>3. Len(pages') = Len(pages)
    <2>1. DOMAIN pages' = 1..Len(pages) BY <1>2 DEF Id
    <2>2. pages' = [i \in 1..Len(pages) |-> pages'[i]] BY <1>1 DEF Id
    <2>. QED BY <1>1, <2>1, <2>2
<1>4. \A x \in Id : PageFine(pages'[x])
    <2>1. TAKE x \in Id
    <2>2. CASE x = p BY <1>2, <2>2 DEF PageFine
    <2>3. CASE x # p BY <1>2, <2>3 DEF Grown
    <2>. QED BY <2>2, <2>3
<1>5. Grown' /\ level' = level BY <1>3, <1>4, GrownInPlace
<1>. QED BY <1>2, <1>5 DEF LeafBecomes

\* The pages of a tree are allocated.
LEMMA InId ==
    ASSUME IInv, Grown, NEW lv, NEW r, NEW lo, NEW hi, IsTree(pages, lv, r, lo, hi)
    PROVE  DOMAIN lo \subseteq Id
BY InTree, Basics

\* A leaf has entries that fit.
LEMMA EntriesAt ==
    ASSUME IInv, Grown, NEW p \in Id, pages[p].type = "leaf"
    PROVE  /\ Entries(pages[p].slots) /\ SlotMap(pages[p].slots, Vals)
           /\ LeafRoom(pages[p].slots) \in Int
           /\ LeafRoom(pages[p].slots) >= 0
<1>1. SlotMap(pages[p].slots, Vals) BY Basics
<1>2. Entries(pages[p].slots) BY <1>1 DEF Entries, SlotMap
<1>3. LeafRoom(pages[p].slots) >= 0 BY DEF Grown, PageFine
<1>. QED BY <1>1, <1>2, <1>3, RoomType

\* InsertIntoLeaf adds the entry to the map.
LEMMA InsertIntoLeafMap == ASSUME MapInv, IInv', HStep, InsertIntoLeaf, Grow PROVE Done
<1>1. /\ AddLeaf /\ pages[at].type = "leaf" /\ pc # "idle" /\ root' = root /\ Return("ok")
      /\ Weight[call.val] <= LeafRoom(pages[at].slots) /\ call.key \notin DOMAIN pages[at].slots
    BY DEF InsertIntoLeaf, AddLeaf, HasRoom
<1>2. PICK p, k, d, f : /\ p = at /\ k = call.key /\ d = call.val
                        /\ f = With(pages[p].slots, k, d) OBVIOUS
<1>3. pages' = [pages EXCEPT ![p].slots = f] BY <1>2 DEF InsertIntoLeaf
<1>4. /\ call.op \in {"insert", "update"} /\ k \in Keys /\ d \in Vals
      /\ call.op = "insert" => before[k] = Null
      /\ call.op = "update" => before[k] # Null
      /\ Set(Now, k, d) = Set(before, k, d)
    BY <1>1, <1>2, Adding
<1>5. PICK lo, hi, m : /\ Kept(pages, level, root, lo, hi, m, 0) /\ m = Now
                       /\ p \in DOMAIN lo /\ Inside(lo, hi, p, k)
    BY <1>1, <1>2, Adding
<1>6. /\ IsTree(pages, level, root, lo, hi) /\ Holds(pages, lo, m)
      /\ Filled(pages, level, root, DOMAIN lo, 0) /\ DOMAIN lo \subseteq Id /\ IInv /\ Grown
    BY <1>5, InId DEF Kept, MapInv
<1>7. LeafRoom(f) >= 0
    <2>1. Entries(pages[p].slots) /\ LeafRoom(pages[p].slots) \in Int BY <1>1, <1>2, <1>5, <1>6,
        EntriesAt
    <2>2. Weight[d] \in Nat /\ LeafRoom(f) = LeafRoom(pages[p].slots) - Weight[d]
        BY <1>1, <1>2, <1>4, <2>1, RoomWith
    <2>. QED BY <1>1, <1>2, <2>1, <2>2
<1>8. /\ Grown' /\ level' = level /\ DOMAIN pages' = Id
      /\ LeafBecomes(pages, pages', DOMAIN lo, p, f)
    BY <1>1, <1>2, <1>3, <1>5, <1>6, <1>7, OneLeafChanged
<1>9. IsTree(pages', level, root, lo, hi) /\ Holds(pages', lo, Set(m, k, d))
    BY <1>2, <1>4, <1>5, <1>6, <1>8, LeafPut
<1>10. Filled(pages', level, root, DOMAIN lo, 0)
    <2>1. DOMAIN f # {} BY <1>2 DEF With
    <2>2. DOMAIN f = {} => p = root \/ p = 0 BY <2>1
    <2>. QED BY <1>5, <1>6, <1>8, <2>2, LeafFilled
<1>11. Keeps(pages', level', root', Set(before, k, d))
    BY <1>1, <1>4, <1>5, <1>8, <1>9, <1>10 DEF Kept, Keeps
<1>. QED BY <1>1, <1>2, <1>4, <1>8, <1>11, InsertReturning

\* DeleteFromLeaf takes the entry from the map, and a repair begins if its leaf is empty.
LEMMA DeleteFromLeafMap == ASSUME MapInv, IInv', HStep, DeleteFromLeaf, Grow PROVE Done
<1>1. /\ pc = "remove" /\ pages[at].type = "leaf" /\ root' = root
      /\ call.key \in DOMAIN pages[at].slots
    BY DEF DeleteFromLeaf
<1>2. PICK p, k, f : p = at /\ k = call.key /\ f = Without(pages[p].slots, k) OBVIOUS
<1>3. /\ pages' = [pages EXCEPT ![p].slots = f]
      /\ IF p # root /\ Cardinality(DOMAIN f) < 1
           THEN Goto("fixLeaf", p) /\ UNCHANGED pend ELSE DeleteReturns
    BY <1>2 DEF DeleteFromLeaf, MIN_SLOTS_THRESHOLD
<1>4. Now = before BY <1>1 DEF Now
<1>5. PICK lo, hi, m : /\ Kept(pages, level, root, lo, hi, m, 0) /\ m = before /\ Careful(lo)
                       /\ p \in DOMAIN lo /\ Inside(lo, hi, p, k) /\ m[k] # Null
    BY <1>1, <1>2, <1>4, AtLeaf
<1>6. /\ IsTree(pages, level, root, lo, hi) /\ Holds(pages, lo, m)
      /\ Filled(pages, level, root, DOMAIN lo, 0) /\ DOMAIN lo \subseteq Id /\ IInv /\ Grown
    BY <1>5, InId DEF Kept, MapInv
<1>7. k \in Keys /\ call.op \in {"update", "delete"}
    BY <1>1, <1>2, Request DEF MapInv, IInv, ControlOK, OpsAt
<1>8. LeafRoom(f) >= 0 /\ DOMAIN f = DOMAIN pages[p].slots \ {k} /\ IsFiniteSet(DOMAIN f)
    <2>1. /\ Entries(pages[p].slots) /\ LeafRoom(pages[p].slots) \in Int
          /\ LeafRoom(pages[p].slots) >= 0
        BY <1>1, <1>2, <1>5, <1>6, EntriesAt
    <2>2. /\ Weight[pages[p].slots[k]] \in Nat /\ Entries(f)
          /\ LeafRoom(f) = LeafRoom(pages[p].slots) + Weight[pages[p].slots[k]]
        BY <1>1, <1>2, <2>1, RoomWithout
    <2>3. IsFiniteSet(DOMAIN f) BY <2>2, KeysFinite DEF Entries
    <2>4. DOMAIN f = DOMAIN pages[p].slots \ {k} BY <1>2 DEF Without
    <2>. QED BY <2>1, <2>2, <2>3, <2>4
<1>9. /\ Grown' /\ level' = level /\ DOMAIN pages' = Id
      /\ LeafBecomes(pages, pages', DOMAIN lo, p, f)
    BY <1>1, <1>2, <1>3, <1>5, <1>6, <1>8, OneLeafChanged
<1>10. IsTree(pages', level, root, lo, hi) /\ Holds(pages', lo, Set(m, k, Null))
    BY <1>2, <1>5, <1>6, <1>7, <1>9, LeafCut
<1>11. CASE p # root /\ Cardinality(DOMAIN f) < 1
    <2>1. /\ pc' = "fixLeaf" /\ at' = p /\ call' = call /\ reply' = reply /\ before' = before
        BY <1>3, <1>11 DEF Goto, HStep
    <2>2. DOMAIN f = {} BY <1>8, <1>11, FS_CardinalityType, FS_EmptySet
    <2>3. Filled(pages', level, root, DOMAIN lo, p) BY <1>5, <1>6, <1>9, LeafFilled
    <2>4. level[root] = 1
        <3>1. DOMAIN pages[p].slots = {k} BY <1>1, <1>2, <1>8, <2>2
        <3>2. ~(level[root] > 1) BY <1>1, <1>2, <1>5, <1>7, <3>1 DEF Careful
        <3>3. level[p] < level[root] /\ level[p] \in Nat /\ level[root] \in Nat
            BY <1>5, <1>6, <1>11, InTree
        <3>. QED BY <3>2, <3>3
    <2>5. Now' = Set(m, k, Null) BY <1>2, <1>5, <2>1 DEF Now
    <2>6. pages'[p].slots = f BY <1>9 DEF LeafBecomes
    <2>7. Kept(pages', level', root', lo, hi, Now', at') BY <1>1, <1>9, <1>10, <2>1, <2>3,
        <2>5 DEF Kept
    <2>8. Fixing' BY <1>1, <1>5, <1>9, <1>11, <2>1, <2>2, <2>4, <2>6, <2>7 DEF Fixing
    <2>9. Placing' BY <2>1, <2>8 DEF Placing
    <2>10. Asked' BY <1>2, <1>5, <2>1 DEF MapInv, Asked
    <2>. QED BY <1>9, <2>1, <2>9, <2>10, Inner DEF Done, MapInv
<1>12. CASE ~(p # root /\ Cardinality(DOMAIN f) < 1)
    <2>1. DeleteReturns BY <1>3, <1>12
    <2>2. DOMAIN f = {} => p = root \/ p = 0
        <3>1. Cardinality({}) = 0 BY FS_EmptySet
        <3>. QED BY <1>12, <3>1
    <2>3. Filled(pages', level, root, DOMAIN lo, 0) BY <1>5, <1>6, <1>9, <2>2, LeafFilled
    <2>4. Keeps(pages', level', root', Set(before, k, Null))
        BY <1>1, <1>5, <1>9, <1>10, <2>3 DEF Kept, Keeps
    <2>. QED BY <1>1, <1>2, <1>5, <1>7, <1>9, <2>1, <2>4, DeleteReturning
<1>. QED BY <1>11, <1>12
------------------------------------------------------------------------------
(***************************************************************************)
(* A leaf is split                                                         *)
(***************************************************************************)
\* The pages of a sequence with one more.
LEMMA AppendIs ==
    ASSUME NEW s \in Seq(Records), NEW e
    PROVE  /\ Len(s) \in Nat /\ Len(Append(s, e)) = Len(s) + 1
           /\ DOMAIN Append(s, e) = 1..(Len(s) + 1)
           /\ Append(s, e)[Len(s) + 1] = e /\ \A i \in 1..Len(s) : Append(s, e)[i] = s[i]
<1>1. s \in Seq(Records \cup {e}) /\ e \in Records \cup {e} OBVIOUS
<1>. QED BY <1>1

\* Page p of v is divided between p and n in x, from s on in n.
Cut(v, x, lo, p, n, s) ==
    /\ HalvesOf(v, x, p, n, s)
    /\ \A z \in {p, n} : /\ x[z].type = v[p].type /\ x[z].parent = v[p].parent
                         /\ DOMAIN x[z].slots \subseteq Keys
                         /\ v[p].type = "leaf" => DOMAIN x[z].slots # {}
    /\ \A y \in DOMAIN lo \ {p} :
          /\ SameBut(v, x, y)
          /\ IF v[y].parent = p THEN x[y].parent \in {p, n} /\ y \in Kids(x[x[y].parent])
                                ELSE x[y].parent = v[y].parent

\* w is x with the separator s of page n in page q.
LinkedAt(x, w, q, s, n) ==
    /\ DOMAIN w = DOMAIN x
    /\ w[q].type = x[q].type /\ w[q].link = x[q].link /\ w[q].parent = x[q].parent
    /\ w[q].slots = With(x[q].slots, s, n)
    /\ \A y \in DOMAIN x \ {q} : w[y] = x[y]

\* w is x with a new root q above p and n.
RootedAt(x, w, p, n, s, q) ==
    /\ DOMAIN x \cup {q} \subseteq DOMAIN w
    /\ w[q].type = "internal" /\ w[q].link = p /\ w[q].parent = 0
    /\ w[q].slots = With(NoSlots, s, n)
    /\ \A y \in DOMAIN x : SameBut(x, w, y) /\ w[y].parent = IF y \in {p, n} THEN q ELSE x[y].parent

\* A page that is cut and linked leaves a tree, which its parent belongs to.
LEMMA LinkOn ==
    ASSUME NEW v, NEW lv, NEW r, NEW lo, NEW hi, IsTree(v, lv, r, lo, hi),
           Filled(v, lv, r, DOMAIN lo, 0),
           NEW p \in DOMAIN lo, p # r, NEW n, n \notin DOMAIN lo, n # 0,
           NEW s \in Keys, lo[p] < s, s < hi[p],
           NEW x, DOMAIN lo \cup {n} \subseteq DOMAIN x, Cut(v, x, lo, p, n, s),
           NEW w, LinkedAt(x, w, v[p].parent, s, n),
           NEW lv2, \A y \in DOMAIN lo : lv2[y] = lv[y], lv2[n] = lv[p]
    PROVE  /\ Reshaped(v, lo, w, lv2, r, DOMAIN lo \cup {n})
           /\ Filled(w, lv2, r, DOMAIN lo \cup {n}, 0)
           /\ v[p].parent \in DOMAIN lo /\ s \notin DOMAIN x[v[p].parent].slots
<1>. DEFINE q == v[p].parent
<1>1. q \in DOMAIN lo /\ v[q].type = "internal" /\ p \in Kids(v[q]) /\ lv[q] = lv[p] + 1
    BY ParentIn
<1>2. \A y \in DOMAIN lo : lv[y] \in Nat /\ lo[y] \in Nat /\ hi[y] \in Nat BY Ends
<1>3. q # p /\ q # n BY <1>1, <1>2
<1>4. v[q].parent # p
    <2>1. q # r => lv[v[q].parent] = lv[q] + 1 BY <1>1, ParentIn
    <2>2. q = r => v[q].parent = 0 /\ 0 \notin DOMAIN lo BY InTree
    <2>. QED BY <1>1, <1>2, <2>1, <2>2
<1>5. /\ x[q].type = v[q].type /\ x[q].link = v[q].link /\ x[q].slots = v[q].slots
      /\ x[q].parent = v[q].parent
    BY <1>1, <1>3, <1>4 DEF Cut, SameBut
<1>6. SplitOf(v, w, lo, p, n, s)
    <2>1. /\ w[q].type = v[q].type /\ w[q].link = v[q].link /\ w[q].parent = v[q].parent
          /\ w[q].slots = With(v[q].slots, s, n)
        BY <1>5 DEF LinkedAt
    <2>2. w[p] = x[p] /\ w[n] = x[n] BY <1>3 DEF LinkedAt
    <2>3. \A z \in {p, n} :
             w[z].type = v[p].type /\ w[z].parent = q /\ DOMAIN w[z].slots \subseteq Keys
        BY <2>2 DEF Cut
    <2>4. ASSUME NEW y \in DOMAIN lo \ {p, q}
          PROVE  /\ SameBut(v, w, y)
                 /\ IF v[y].parent = p THEN w[y].parent \in {p, n} /\ y \in Kids(w[w[y].parent])
                                       ELSE w[y].parent = v[y].parent
        <3>1. w[y] = x[y] BY DEF LinkedAt
        <3>2. /\ SameBut(v, x, y)
              /\ IF v[y].parent = p THEN x[y].parent \in {p, n} /\ y \in Kids(x[x[y].parent])
                                    ELSE x[y].parent = v[y].parent
            BY DEF Cut
        <3>. QED BY <2>2, <3>1, <3>2 DEF SameBut
    <2>. QED BY <2>1, <2>3, <2>4 DEF SplitOf
<1>7. HalvesOf(v, w, p, n, s)
    <2>1. w[p] = x[p] /\ w[n] = x[n] BY <1>3 DEF LinkedAt
    <2>. QED BY <2>1 DEF Cut, HalvesOf
<1>8. DOMAIN lo \cup {n} \subseteq DOMAIN w BY DEF LinkedAt
<1>9. Reshaped(v, lo, w, lv2, r, DOMAIN lo \cup {n}) BY <1>6, <1>7, <1>8, CutInner
<1>10. s \notin DOMAIN x[q].slots
    <2>1. NodeOK(v, lv, lo, hi, q) /\ DOMAIN v[q].slots \subseteq Keys BY <1>1, InTree
    <2>2. \A t \in DOMAIN v[q].slots : t <= lo[p] \/ hi[p] <= t BY <1>1, <2>1 DEF NodeOK
    <2>3. s \in Nat BY KeysNat
    <2>. QED BY <1>2, <1>5, <2>2, <2>3
<1>11. Filled(w, lv2, r, DOMAIN lo \cup {n}, 0)
    <2>1. /\ w[p] = x[p] /\ w[n] = x[n] /\ w[q].type = "internal"
          /\ w[q].slots = With(x[q].slots, s, n)
        BY <1>1, <1>3, <1>5 DEF LinkedAt
    <2>2. \A z \in {p, n} : x[z].type = "leaf" => DOMAIN x[z].slots # {} BY DEF Cut
    <2>3. \A y \in DOMAIN lo \ {p, q} : w[y] = x[y] /\ SameBut(v, x, y) BY DEF LinkedAt, Cut
    <2>4. \A y \in DOMAIN lo \cup {n} :
             w[y].type = "leaf" /\ DOMAIN w[y].slots = {} => y = r \/ y = 0
        <3>1. TAKE y \in DOMAIN lo \cup {n}
        <3>2. CASE y \in {p, n} BY <2>1, <2>2, <3>2
        <3>3. CASE y = q BY <2>1, <3>3
        <3>4. CASE y \notin {p, n, q} BY <2>3, <3>4 DEF SameBut, Filled
        <3>. QED BY <3>2, <3>3, <3>4
    <2>5. lv2[r] = 1 => DOMAIN w[r].slots # {}
        <3>1. r \in DOMAIN lo BY InTree
        <3>2. CASE r = q BY <2>1, <3>2 DEF With
        <3>3. CASE r # q BY <2>3, <3>1, <3>3 DEF SameBut, Filled
        <3>. QED BY <3>2, <3>3
    <2>. QED BY <2>4, <2>5 DEF Filled
<1>. QED BY <1>1, <1>9, <1>10, <1>11

\* A root that is cut leaves a tree when the new root is above it.
LEMMA RootOn ==
    ASSUME NEW v, NEW lv, NEW r, NEW lo, NEW hi, IsTree(v, lv, r, lo, hi),
           Filled(v, lv, r, DOMAIN lo, 0),
           NEW n, n \notin DOMAIN lo, n # 0, NEW q, q \notin DOMAIN lo, q # 0, q # n,
           NEW s \in Keys, lo[r] < s, s < hi[r],
           NEW x, DOMAIN lo \cup {n} \subseteq DOMAIN x, Cut(v, x, lo, r, n, s),
           NEW w, RootedAt(x, w, r, n, s, q),
           NEW lv2, \A y \in DOMAIN lo : lv2[y] = lv[y], lv2[n] = lv[r], lv2[q] = lv[r] + 1
    PROVE  /\ Reshaped(v, lo, w, lv2, q, DOMAIN lo \cup {n, q})
           /\ Filled(w, lv2, q, DOMAIN lo \cup {n, q}, 0)
<1>1. r \in DOMAIN lo BY InTree
<1>2. /\ w[q].type = "internal" /\ w[q].link = r /\ w[q].parent = 0 /\ w[q].slots = With(NoSlots, s, n)
      /\ \A y \in DOMAIN lo \cup {n} :
            SameBut(x, w, y) /\ w[y].parent = IF y \in {r, n} THEN q ELSE x[y].parent
      /\ DOMAIN lo \cup {n, q} \subseteq DOMAIN w
    BY DEF RootedAt
<1>3. RootCut(v, w, lo, r, n, s, q)
    <2>1. \A z \in {r, n} :
             w[z].type = v[r].type /\ w[z].parent = q /\ DOMAIN w[z].slots \subseteq Keys
        BY <1>1, <1>2 DEF Cut, SameBut
    <2>2. ASSUME NEW y \in DOMAIN lo \ {r}
          PROVE  /\ SameBut(v, w, y)
                 /\ IF v[y].parent = r THEN w[y].parent \in {r, n} /\ y \in Kids(w[w[y].parent])
                                       ELSE w[y].parent = v[y].parent
        <3>1. SameBut(x, w, y) /\ w[y].parent = x[y].parent BY <1>2
        <3>2. /\ SameBut(v, x, y)
              /\ IF v[y].parent = r THEN x[y].parent \in {r, n} /\ y \in Kids(x[x[y].parent])
                                    ELSE x[y].parent = v[y].parent
            BY DEF Cut
        <3>3. \A z \in {r, n} : Kids(w[z]) = Kids(x[z]) BY <1>1, <1>2 DEF SameBut, Kids
        <3>. QED BY <3>1, <3>2, <3>3 DEF SameBut
    <2>. QED BY <1>2, <2>1, <2>2 DEF RootCut
<1>4. HalvesOf(v, w, r, n, s)
    <2>1. SameBut(x, w, r) /\ SameBut(x, w, n) BY <1>1, <1>2
    <2>. QED BY <2>1 DEF Cut, HalvesOf, SameBut
<1>5. Reshaped(v, lo, w, lv2, q, DOMAIN lo \cup {n, q})
    <2>1. DOMAIN lo \cup {n, q} \subseteq DOMAIN w BY <1>2
    <2>. QED BY <2>1, <1>3, <1>4, CutRoot
<1>6. Filled(w, lv2, q, DOMAIN lo \cup {n, q}, 0)
    <2>1. DOMAIN w[q].slots # {} BY <1>2 DEF With
    <2>2. \A y \in DOMAIN lo \cup {n} : w[y].type = x[y].type /\ w[y].slots = x[y].slots
        BY <1>2 DEF SameBut
    <2>3. \A z \in {r, n} : x[z].type = "leaf" => DOMAIN x[z].slots # {} BY DEF Cut
    <2>4. \A y \in DOMAIN lo \ {r} : SameBut(v, x, y) BY DEF Cut
    <2>5. ASSUME NEW y \in DOMAIN lo \cup {n, q}, w[y].type = "leaf", DOMAIN w[y].slots = {}
          PROVE  y = q \/ y = 0
        <3>1. CASE y \in {r, n} BY <1>1, <2>2, <2>3, <2>5, <3>1
        <3>2. CASE y \in DOMAIN lo \ {r} BY <2>2, <2>4, <2>5, <3>2 DEF SameBut, Filled
        <3>. QED BY <3>1, <3>2
    <2>. QED BY <2>1, <2>5 DEF Filled
<1>. QED BY <1>5, <1>6

\* The levels with one more.
LEMMA LevelsGrow ==
    ASSUME IInv, Grown, NEW e \in Nat
    PROVE  /\ Append(level, e)[Len(pages) + 1] = e
           /\ \A x \in Id : Append(level, e)[x] = level[x]
<1>1. level \in Seq(Nat) /\ Len(level) = Len(pages) BY DEF IInv, WellShaped
<1>2. Len(Append(level, e)) = Len(level) + 1 /\ Append(level, e)[Len(level) + 1] = e
      /\ \A i \in 1..Len(level) : Append(level, e)[i] = level[i]
    BY <1>1
<1>. QED BY <1>1, <1>2 DEF Id

\* A split of page `at' allocates a page of its level.
LEMMA GrownByOne ==
    ASSUME IInv, Grown, Grow, pc # "newRoot", at \in Id, NEW n, n = Len(pages) + 1,
           Len(pages') = n,
           \A x \in Id : PageFine(pages'[x]), PageFine(pages'[n])
    PROVE  /\ Grown' /\ Id' = Id \cup {n} /\ n \in Nat /\ n \notin Id /\ n # 0
           /\ \A x \in Id : level'[x] = level[x] /\ level'[n] = level[at]
<1>1. Len(pages) \in Nat /\ level[at] \in Nat /\ level[at] < Len(pages) BY Basics
<1>2. n \in Nat /\ n # Len(pages) /\ Id' = Id \cup {n} /\ n \notin Id /\ n # 0 BY <1>1 DEF Id
<1>3. PICK lv : lv = Append(level, level[at]) OBVIOUS
<1>4. level' = lv BY <1>2, <1>3 DEF Grow
<1>5. lv[n] = level[at] /\ \A x \in Id : lv[x] = level[x] BY <1>1, <1>3, LevelsGrow
<1>6. \A x \in Id : level[x] < Len(pages) /\ level[x] \in Nat BY Basics
<1>7. \A x \in Id' : level'[x] < n BY <1>1, <1>2, <1>4, <1>5, <1>6
<1>8. \A x \in Id' : PageFine(pages'[x]) BY <1>2
<1>9. Grown' BY <1>7, <1>8 DEF Grown
<1>. QED BY <1>2, <1>4, <1>5, <1>9

\* What a split that goes on leaves behind.
LEMMA HoldsReshaped ==
    ASSUME NEW v, NEW lo, NEW m, Holds(v, lo, m), NEW w, NEW lv, NEW r, NEW S,
           Reshaped(v, lo, w, lv, r, S), Filled(w, lv, r, S, 0)
    PROVE  \E lo2, hi2 : Kept(w, lv, r, lo2, hi2, m, 0) /\ DOMAIN lo2 = S
<1>1. PICK lo2, hi2 : /\ IsTree(w, lv, r, lo2, hi2) /\ DOMAIN lo2 = S
                      /\ Within(v, lo, w, lo2) /\ Within(w, lo2, v, lo)
    BY DEF Reshaped
<1>2. Holds(w, lo2, m) BY <1>1, HoldsKept
<1>. QED BY <1>1, <1>2 DEF Kept

\* A separator is put into a page.
LEMMA PutIn ==
    ASSUME NEW x, NEW q \in DOMAIN x,
           x[q] \in [type : {"leaf", "internal"}, parent : Nat, link : Nat, slots : {x[q].slots}],
           NEW s, NEW n
    PROVE  LinkedAt(x, [x EXCEPT ![q].slots = With(@, s, n)], q, s, n)
BY DEF LinkedAt

\* A new root is put above two pages.
LEMMA PutRoot ==
    ASSUME NEW x, NEW N \in Nat, x \in Seq(Records), Len(x) = N, DOMAIN x = 1..N,
           NEW p, NEW n, NEW s, NEW q, q = N + 1, p \in 1..N, n \in 1..N
    PROVE  RootedAt(x, SetParents(Append(x, Internal(0, p, With(NoSlots, s, n))), {p, n}, q), p, n, s, q)
<1>. DEFINE e == Internal(0, p, With(NoSlots, s, n))
<1>1. PICK y : y = Append(x, e) OBVIOUS
<1>2. /\ Len(y) = q /\ y[q] = e /\ \A i \in 1..N : y[i] = x[i]
    BY <1>1, AppendIs
<1>3. PICK w : w = SetParents(y, {p, n}, q) OBVIOUS
<1>4. /\ DOMAIN w = 1..q
      /\ \A i \in 1..q : w[i] = IF i \in {p, n} THEN [y[i] EXCEPT !.parent = q] ELSE y[i]
    BY <1>2, <1>3 DEF SetParents
<1>5. w[q] = e
    <2>1. q \notin {p, n} /\ q \in 1..q OBVIOUS
    <2>. QED BY <1>2, <1>4, <2>1
<1>6. ASSUME NEW i \in 1..N
      PROVE  SameBut(x, w, i) /\ w[i].parent = IF i \in {p, n} THEN q ELSE x[i].parent
    <2>1. y[i] = x[i] /\ i \in 1..q BY <1>2
    <2>2. x[i] \in Records OBVIOUS
    <2>3. x[i] \in [type : {"leaf", "internal"}, parent : Nat, link : Nat, slots : Anything]
        BY <2>2 DEF Records
    <2>4. CASE i \in {p, n}
        <3>1. w[i] = [x[i] EXCEPT !.parent = q] BY <1>4, <2>1, <2>4
        <3>. QED BY <2>3, <2>4, <3>1 DEF SameBut
    <2>5. CASE i \notin {p, n}
        <3>1. w[i] = x[i] BY <1>4, <2>1, <2>5
        <3>. QED BY <2>5, <3>1 DEF SameBut
    <2>. QED BY <2>4, <2>5
<1>7. DOMAIN x \cup {q} \subseteq DOMAIN w BY <1>4
<1>8. e.type = "internal" /\ e.link = p /\ e.parent = 0 /\ e.slots = With(NoSlots, s, n)
    BY DEF Internal
<1>9. RootedAt(x, w, p, n, s, q) BY <1>5, <1>6, <1>7, <1>8 DEF RootedAt
<1>. QED BY <1>1, <1>3, <1>9

\* The page p of the tree v is divided between itself and n in x.
Divided(v, lv, r, lo, hi, x, p, n, s) ==
    /\ IsTree(v, lv, r, lo, hi) /\ Filled(v, lv, r, DOMAIN lo, 0)
    /\ p \in DOMAIN lo /\ s \in Keys /\ lo[p] < s /\ s < hi[p]
    /\ n \notin DOMAIN lo /\ n # 0 /\ DOMAIN lo \cup {n} \subseteq DOMAIN x
    /\ Cut(v, x, lo, p, n, s)

\* w is x with the separator s of page n in the parent q that p has in v.
LinkedAbove(v, x, w, p, n, s, q) == q = v[p].parent /\ LinkedAt(x, w, q, s, n)

\* The tree w that a page s of q belongs to, which q does not have in x.
LinkedTree(w, lv, r, m, q, x, s) ==
    /\ \E lo, hi : Kept(w, lv, r, lo, hi, m, 0) /\ q \in DOMAIN lo
    /\ s \notin DOMAIN x[q].slots

\* What a divided page leaves for its parent to do.
LEMMA LinkDivided ==
    ASSUME NEW v, NEW lv, NEW r, NEW lo, NEW hi, NEW x, NEW p, NEW n, NEW s,
           Divided(v, lv, r, lo, hi, x, p, n, s), p # r,
           NEW q, NEW w, LinkedAbove(v, x, w, p, n, s, q),
           NEW lv2, \A y \in DOMAIN lo : lv2[y] = lv[y], lv2[n] = lv[p],
           NEW m, Holds(v, lo, m)
    PROVE  LinkedTree(w, lv2, r, m, q, x, s)
<1>1. /\ IsTree(v, lv, r, lo, hi) /\ Filled(v, lv, r, DOMAIN lo, 0)
      /\ p \in DOMAIN lo /\ s \in Keys /\ lo[p] < s /\ s < hi[p]
      /\ n \notin DOMAIN lo /\ n # 0 /\ DOMAIN lo \cup {n} \subseteq DOMAIN x
      /\ Cut(v, x, lo, p, n, s)
      /\ q = v[p].parent /\ LinkedAt(x, w, q, s, n)
    BY DEF Divided, LinkedAbove
<1>2. /\ Reshaped(v, lo, w, lv2, r, DOMAIN lo \cup {n})
      /\ Filled(w, lv2, r, DOMAIN lo \cup {n}, 0)
      /\ v[p].parent \in DOMAIN lo /\ s \notin DOMAIN x[v[p].parent].slots
    BY <1>1, LinkOn
<1>3. PICK lo2, hi2 : Kept(w, lv2, r, lo2, hi2, m, 0) /\ DOMAIN lo2 = DOMAIN lo \cup {n}
    BY <1>2, HoldsReshaped
<1>. QED BY <1>1, <1>2, <1>3 DEF LinkedTree

\* What a divided root leaves for the new root.
LEMMA RootDivided ==
    ASSUME NEW v, NEW lv, NEW r, NEW lo, NEW hi, NEW x, NEW n, NEW s,
           Divided(v, lv, r, lo, hi, x, r, n, s), NEW q, q \notin DOMAIN lo, q # 0, q # n,
           NEW w, RootedAt(x, w, r, n, s, q),
           NEW lv2, \A y \in DOMAIN lo : lv2[y] = lv[y], lv2[n] = lv[r], lv2[q] = lv[r] + 1,
           NEW m, Holds(v, lo, m)
    PROVE  Keeps(w, lv2, q, m)
<1>1. /\ IsTree(v, lv, r, lo, hi) /\ Filled(v, lv, r, DOMAIN lo, 0)
      /\ s \in Keys /\ lo[r] < s /\ s < hi[r]
      /\ n \notin DOMAIN lo /\ n # 0 /\ DOMAIN lo \cup {n} \subseteq DOMAIN x
      /\ Cut(v, x, lo, r, n, s)
    BY DEF Divided
<1>2. /\ Reshaped(v, lo, w, lv2, q, DOMAIN lo \cup {n, q})
      /\ Filled(w, lv2, q, DOMAIN lo \cup {n, q}, 0)
    BY <1>1, RootOn
<1>3. PICK lo2, hi2 : Kept(w, lv2, q, lo2, hi2, m, 0)
    BY <1>2, HoldsReshaped
<1>. QED BY <1>3 DEF Keeps

\* A page that was divided hands its separator on, to its parent or to a new root.
LEMMA SplitGoesOn ==
    ASSUME MapInv, IInv', HStep, Grow, root' = root, pc \in {"add", "link"},
           call.op = "insert" => before[call.key] = Null,
           call.op = "update" => before[call.key] # Null,
           NEW m, m = Set(before, call.key, call.val),
           NEW v, NEW lo, NEW hi, Holds(v, lo, m), DOMAIN lo \subseteq Id,
           NEW p, p = at, NEW n, n = Len(pages) + 1, NEW s,
           Divided(v, level, root, lo, hi, pages', p, n, s),
           NEW q, q = pages[p].parent, v[p].parent = q, LinkRight(p, s, n, q),
           Len(pages') = n, \A x \in Id : PageFine(pages'[x]), PageFine(pages'[n])
    PROVE  Done
<1>0. /\ p \in DOMAIN lo /\ p \in Id /\ IsTree(v, level, root, lo, hi) /\ s \in Keys
    BY DEF Divided
<1>1. /\ Grown' /\ Id' = Id \cup {n} /\ n \in Nat /\ n \notin Id /\ n # 0
      /\ \A x \in Id : level'[x] = level[x] /\ level'[n] = level[p]
    BY <1>0, GrownByOne DEF MapInv
<1>2. /\ DOMAIN pages' = Id' /\ Len(pages') \in Nat
      /\ pages' \in Seq(Records)
    <2>1. DOMAIN pages = Id /\ Len(pages) \in Nat BY Basics DEF MapInv
    <2>2. WellShaped(pages', level') BY DEF IInv
    <2>3. pages' \in Seq(Records) BY <2>2 DEF WellShaped
    <2>. QED BY <2>1, <2>3 DEF Id
<1>4. /\ pc' = IF q = 0 THEN "newRoot" ELSE "link"
      /\ at' = q /\ call' = call /\ reply' = reply
      /\ pend' = [left |-> p, sep |-> s, right |-> n]
    BY DEF LinkRight, Goto
<1>5. before' = before BY <1>4 DEF HStep
<1>6. Asked' BY <1>4, <1>5 DEF MapInv, Asked
<1>7. Now' = m BY <1>4, <1>5 DEF Now
<1>8. PICK x, lv2 : x = pages' /\ lv2 = level' OBVIOUS
<1>9. /\ 0 \notin DOMAIN lo /\ root \in DOMAIN lo /\ v[root].parent = 0
      /\ p # root => q \in DOMAIN lo
    BY <1>0, InTree
<1>10. /\ \A y \in DOMAIN lo : lv2[y] = level[y]
       /\ lv2[n] = level[p] /\ Divided(v, level, root, lo, hi, x, p, n, s)
    <2>1. Divided(v, level, root, lo, hi, x, p, n, s) BY <1>8
    <2>2. \A y \in Id : lv2[y] = level[y] BY <1>1, <1>8
    <2>3. lv2[n] = level[p] BY <1>0, <1>1, <1>8
    <2>. QED BY <2>1, <2>2, <2>3
<1>11. DOMAIN lo \cup {n} \subseteq DOMAIN x /\ DOMAIN lo \cup {n} \subseteq 1..n
    <2>1. DOMAIN lo \cup {n} \subseteq Id' BY <1>1
    <2>2. Id' = 1..n BY DEF Id
    <2>. QED BY <1>2, <1>8, <2>1, <2>2
<1>12. CASE q # 0
    <2>1. p # root BY <1>9, <1>12
    <2>2. PICK w : w = PagesLinked' OBVIOUS
    <2>3. q \in DOMAIN lo BY <1>9, <2>1
    <2>4. LinkedAt(x, w, q, s, n)
        <3>1. w = [x EXCEPT ![q].slots = With(@, s, n)] BY <1>4, <1>8, <2>2 DEF PagesLinked
        <3>2. q \in DOMAIN x BY <1>11, <2>3
        <3>3. x[q] \in Records BY <1>2, <1>8, <3>2
        <3>. QED BY <3>1, <3>2, <3>3, PutIn DEF Records
    <2>5. PICK lo2, hi2 : /\ Kept(w, lv2, root, lo2, hi2, m, 0) /\ q \in DOMAIN lo2
                          /\ s \notin DOMAIN x[q].slots
        <3>1. LinkedAbove(v, x, w, p, n, s, q) BY <2>4 DEF LinkedAbove
        <3>2. LinkedTree(w, lv2, root, m, q, x, s) BY <1>10, <2>1, <3>1, LinkDivided
        <3>. QED BY <3>2 DEF LinkedTree
    <2>6. Kept(PagesLinked', level', root', lo2, hi2, Now', 0) BY <1>7, <1>8, <2>2, <2>5
    <2>7. at' \in DOMAIN lo2 /\ pend'.sep \notin DOMAIN pages'[at'].slots
        BY <1>4, <1>8, <2>5
    <2>8. Linking' BY <2>6, <2>7 DEF Linking
    <2>9. Placing' BY <1>4, <1>12, <2>8 DEF Placing
    <2>. QED BY <1>1, <1>4, <1>5, <1>6, <2>9, Inner DEF Done, MapInv
<1>13. CASE q = 0
    <2>1. p = root BY <1>9, <1>13
    <2>2. PICK w, q2, lv3 : w = PagesRooted' /\ q2 = n + 1 /\ lv3 = LevelsRooted' OBVIOUS
    <2>3. RootedAt(x, w, root, n, s, q2)
        <3>1. w = SetParents(Append(x, Internal(0, p, With(NoSlots, s, n))), {p, n}, q2)
            BY <1>4, <1>8, <2>2 DEF PagesRooted
        <3>2. x \in Seq(Records) /\ Len(x) = n /\ DOMAIN x = 1..n BY <1>2, <1>8 DEF Id
        <3>3. p \in 1..n /\ n \in 1..n BY <1>0, <1>11
        <3>4. RootedAt(x, w, p, n, s, q2) BY <1>1, <2>2, <3>1, <3>2, <3>3, PutRoot
        <3>. QED BY <2>1, <3>4
    <2>4. /\ \A y \in DOMAIN lo : lv3[y] = level[y]
          /\ lv3[n] = level[root] /\ lv3[q2] = level[root] + 1
        <3>1. lv3 = Append(lv2, lv2[p] + 1) BY <1>4, <1>8, <2>2 DEF LevelsRooted
        <3>2. level[p] \in Nat /\ lv2[p] = level[p] BY <1>0, <1>10, InTree
        <3>3. lv2 \in Seq(Nat) /\ Len(lv2) = n BY <1>8 DEF IInv, WellShaped
        <3>4. /\ Append(lv2, lv2[p] + 1)[Len(lv2) + 1] = lv2[p] + 1
              /\ \A i \in 1..Len(lv2) : Append(lv2, lv2[p] + 1)[i] = lv2[i]
            BY <3>2, <3>3
        <3>5. \A i \in 1..n : lv3[i] = lv2[i] BY <3>1, <3>3, <3>4
        <3>6. lv3[q2] = level[root] + 1 BY <2>1, <2>2, <3>1, <3>2, <3>3, <3>4
        <3>. QED BY <1>10, <1>11, <2>1, <3>5, <3>6
    <2>5. q2 \notin DOMAIN lo /\ q2 # 0 /\ q2 # n
        <3>1. q2 \notin 1..n /\ q2 # 0 /\ q2 # n BY <1>1, <2>2
        <3>. QED BY <1>11, <3>1
    <2>6. Keeps(w, lv3, q2, m) BY <1>10, <2>1, <2>3, <2>4, <2>5, RootDivided
    <2>7. Rooting' BY <1>7, <2>2, <2>6 DEF Rooting
    <2>8. Placing' BY <1>4, <1>13, <2>7 DEF Placing
    <2>. QED BY <1>1, <1>4, <1>5, <1>6, <2>8, Inner DEF Done, MapInv
<1>. QED BY <1>12, <1>13

\* The pages with other slots in one of them.
LEMMA SlotsPut ==
    ASSUME IInv, Grown, NEW p \in Id, NEW f, NEW v, v = [pages EXCEPT ![p].slots = f]
    PROVE  /\ DOMAIN v = Id /\ Len(v) = Len(pages)
           /\ v[p].type = pages[p].type /\ v[p].parent = pages[p].parent
           /\ v[p].link = pages[p].link /\ v[p].slots = f /\ \A x \in Id \ {p} : v[x] = pages[x]
<1>1. DOMAIN pages = Id /\ Len(pages) \in Nat BY Basics
<1>2. pages[p] \in [type : {"leaf", "internal"}, parent : {0} \cup LiveAt(pages, level, level[p] + 1),
                    link : Nat, slots : {pages[p].slots}]
    BY DEF IInv, WellShaped, Id, FitsAt
<1>3. /\ DOMAIN v = Id /\ v[p].type = pages[p].type /\ v[p].parent = pages[p].parent
      /\ v[p].link = pages[p].link /\ v[p].slots = f /\ \A x \in Id \ {p} : v[x] = pages[x]
    BY <1>1, <1>2
<1>4. Len(v) = Len(pages)
    <2>1. v = [i \in 1..Len(pages) |-> v[i]] BY <1>1 DEF Id
    <2>. QED BY <1>1, <2>1
<1>. QED BY <1>3, <1>4

\* A page of the tree with the ranges of a leaf is no page's parent.
LEMMA NoChildren ==
    ASSUME NEW v, NEW lv, NEW r, NEW lo, NEW hi, IsTree(v, lv, r, lo, hi),
           NEW p \in DOMAIN lo, v[p].type = "leaf", NEW y \in DOMAIN lo
    PROVE  v[y].parent # p
<1>1. CASE y = r
    <2>1. v[r].parent = 0 /\ 0 \notin DOMAIN lo BY InTree
    <2>. QED BY <1>1, <2>1
<1>2. CASE y # r
    <2>1. v[v[y].parent].type = "internal" BY <1>2, ParentIn
    <2>. QED BY <2>1
<1>. QED BY <1>1, <1>2

\* A leaf that is split does not have the key: Avoid leaves the duplicate out.
LEMMA NoDuplicate ==
    ASSUME MapInv, AddLeaf, ~HasRoom
    PROVE  call.key \notin DOMAIN pages[at].slots
<1>1. pc = "add" /\ pages[at].type = "leaf" BY DEF AddLeaf
<1>2. PICK lo, hi : /\ Careful(lo) /\ at \in DOMAIN lo
                    /\ call.key \in DOMAIN pages[at].slots => Now[call.key] # Null
    BY <1>1, AtLeaf
<1>3. CASE call.op = "insert" BY <1>1, <1>2, <1>3 DEF Careful, HasRoom
<1>4. CASE call.op = "update"
    <2>1. Now = Set(before, call.key, Null) BY <1>1, <1>4 DEF Now
    <2>2. before \in [Keys -> Vals \cup {Null}] /\ call.key \in Keys BY <1>1, Request DEF MapInv,
        Asked
    <2>3. Now[call.key] = Null BY <2>1, <2>2, SetType
    <2>. QED BY <1>2, <2>3
<1>. QED BY <1>1, <1>3, <1>4 DEF MapInv, IInv, ControlOK, OpsAt

\* What SplitLeaf does when neither half raises.
SplitInto(p, n, s, f, g) ==
    /\ pages' = [Append(pages, Leaf(pages[p].parent, pages[p].link, g))
                   EXCEPT ![p] = Leaf(pages[p].parent, n, f)]
    /\ LinkRight(p, s, n, pages[p].parent)

\* SplitLeaf, when neither half raises.
LEMMA SplitLeafDoes ==
    ASSUME SplitLeaf, NEW S, NEW T, S = Lower(pages[at].slots, call.key, call.val),
           T = Upper(pages[at].slots, call.key, call.val),
           Loaded("leaf", S) = S, Loaded("leaf", T) = T
    PROVE  SplitInto(at, Len(pages) + 1, First(T).key, SlotsOf(S), SlotsOf(T))
<1>1. /\ pages' = [Append(pages, Leaf(pages[at].parent, pages[at].link,
                                SlotsOf(IF Loaded("leaf", S) = S THEN Loaded("leaf", T) ELSE {})))
                       EXCEPT ![at] = Leaf(pages[at].parent, Len(pages) + 1, SlotsOf(Loaded("leaf", S)))]
      /\ IF (IF Loaded("leaf", S) = S THEN Loaded("leaf", T) ELSE {}) = T
           THEN LinkRight(at, First(T).key, Len(pages) + 1, pages[at].parent) ELSE Raise
    BY DEF SplitLeaf, Lower, Upper, NumSlots
<1>2. (IF Loaded("leaf", S) = S THEN Loaded("leaf", T) ELSE {}) = T OBVIOUS
<1>. QED BY <1>1, <1>2 DEF SplitInto

\* The pages after that.
PagesSplit(p, n, f, g) ==
    /\ Len(pages') = n /\ DOMAIN pages' = Id \cup {n} /\ n \notin Id
    /\ pages'[p] = Leaf(pages[p].parent, n, f)
    /\ pages'[n] = Leaf(pages[p].parent, pages[p].link, g)
    /\ \A x \in Id \ {p} : pages'[x] = pages[x]

\* They are the pages after SplitInto.
LEMMA SplitPages ==
    ASSUME IInv, Grown, NEW p \in Id, NEW n, n = Len(pages) + 1, NEW s, NEW f, NEW g,
           SplitInto(p, n, s, f, g)
    PROVE  PagesSplit(p, n, f, g)
<1>1. pages \in Seq(Records) /\ Len(pages) \in Nat BY Basics DEF IInv, WellShaped
<1>2. PICK e, y : e = Leaf(pages[p].parent, pages[p].link, g) /\ y = Append(pages, e) OBVIOUS
<1>3. Len(y) = n /\ DOMAIN y = 1..n /\ y[n] = e /\ \A i \in 1..Len(pages) : y[i] = pages[i]
    BY <1>1, <1>2, AppendIs
<1>4. n \notin Id /\ 1..n = Id \cup {n} BY <1>1 DEF Id
<1>5. PICK h : h = Leaf(pages[p].parent, n, f) OBVIOUS
<1>6. pages' = [y EXCEPT ![p] = h] BY <1>2, <1>5 DEF SplitInto
<1>7. DOMAIN pages' = Id \cup {n} /\ pages'[p] = h /\ pages'[n] = e /\ \A x \in Id \ {p} :
                                                                          pages'[x] = pages[x]
    BY <1>3, <1>4, <1>6 DEF Id
<1>8. Len(pages') = n
    <2>1. pages' = [i \in 1..n |-> pages'[i]] BY <1>3, <1>6
    <2>2. n \in Nat BY <1>1
    <2>. QED BY <2>1, <2>2
<1>. QED BY <1>2, <1>4, <1>5, <1>7, <1>8 DEF PagesSplit

\* A leaf that is divided, as it would be with the new entry and as it is in x.
LEMMA LeafDivided ==
    ASSUME NEW v, NEW lv, NEW r, NEW lo, NEW hi, IsTree(v, lv, r, lo, hi),
           Filled(v, lv, r, DOMAIN lo, 0),
           NEW p \in DOMAIN lo, v[p].type = "leaf", NEW g, v[p].slots = g,
           NEW s \in DOMAIN g, \E j \in DOMAIN g : j < s,
           NEW n, n \notin DOMAIN lo, n # 0, NEW x, DOMAIN lo \cup {n} \subseteq DOMAIN x,
           x[p] = Leaf(v[p].parent, n, Below(g, s)),
           x[n] = Leaf(v[p].parent, v[p].link, From(g, s)),
           \A y \in DOMAIN lo \ {p} : x[y] = v[y]
    PROVE  Divided(v, lv, r, lo, hi, x, p, n, s)
<1>1. \A j \in DOMAIN g : j \in Keys /\ j \in Nat /\ lo[p] <= j /\ j < hi[p] BY LeafHas DEF Inside
<1>2. lo[p] \in Nat BY Ends
<1>3. PICK j \in DOMAIN g : j < s OBVIOUS
<1>4. s \in Keys /\ lo[p] < s /\ s < hi[p] BY <1>1, <1>2, <1>3
<1>5. /\ x[p].type = "leaf" /\ x[p].parent = v[p].parent /\ x[p].link = n /\ x[p].slots = Below(g, s)
      /\ x[n].type = "leaf" /\ x[n].parent = v[p].parent /\ x[n].link = v[p].link
      /\ x[n].slots = From(g, s)
    BY DEF Leaf
<1>6. /\ DOMAIN Below(g, s) \subseteq Keys /\ DOMAIN From(g, s) \subseteq Keys
      /\ DOMAIN Below(g, s) # {} /\ DOMAIN From(g, s) # {}
    BY <1>1, <1>3 DEF Below, From
<1>7. Cut(v, x, lo, p, n, s)
    <2>1. HalvesOf(v, x, p, n, s) BY <1>5 DEF HalvesOf
    <2>2. \A y \in DOMAIN lo \ {p} :
             SameBut(v, x, y) /\ v[y].parent # p /\ x[y].parent = v[y].parent
        BY NoChildren DEF SameBut
    <2>. QED BY <1>5, <1>6, <2>1, <2>2 DEF Cut
<1>. QED BY <1>4, <1>7 DEF Divided

\* SplitLeaf, for entries of which no half raises, goes on with a leaf that is divided.
LEMMA SplitLeafMap == ASSUME SplitsFit, MapInv, IInv', HStep, SplitLeaf, Grow PROVE Done
<1>1. AddLeaf /\ ~HasRoom /\ pc = "add" /\ pages[at].type = "leaf" /\ root' = root
    BY DEF SplitLeaf, AddLeaf
<1>2. PICK p, k, d, f : p = at /\ k = call.key /\ d = call.val /\ f = pages[p].slots OBVIOUS
<1>3. k \notin DOMAIN f BY <1>1, <1>2, NoDuplicate
<1>4. /\ call.op \in {"insert", "update"} /\ k \in Keys /\ d \in Vals
      /\ call.op = "insert" => before[k] = Null
      /\ call.op = "update" => before[k] # Null
      /\ Set(Now, k, d) = Set(before, k, d)
    BY <1>1, <1>2, <1>3, Adding
<1>5. PICK lo, hi, m0 : /\ Kept(pages, level, root, lo, hi, m0, 0) /\ m0 = Now
                        /\ p \in DOMAIN lo /\ Inside(lo, hi, p, k)
    BY <1>1, <1>2, <1>3, Adding
<1>6. /\ IsTree(pages, level, root, lo, hi) /\ Holds(pages, lo, m0)
      /\ Filled(pages, level, root, DOMAIN lo, 0) /\ DOMAIN lo \subseteq Id /\ IInv /\ Grown
      /\ p \in Id
    BY <1>5, InId DEF Kept, MapInv
<1>7. Entries(f) /\ SlotMap(f, Vals) /\ LeafRoom(f) \in Int /\ LeafRoom(f) >= 0
    BY <1>1, <1>2, <1>6, EntriesAt
<1>8. PICK g, i : g = With(f, k, d) /\ i = First(Upper(f, k, d)) OBVIOUS
<1>9. SplitBy(f, k, d, g, i) BY <1>8 DEF SplitBy
<1>10. DOMAIN f \subseteq Keys BY <1>7 DEF SlotMap
<1>11. /\ SlotsOf(Lower(f, k, d)) = Below(g, i.key) /\ SlotsOf(Upper(f, k, d)) = From(g, i.key)
    <2>1. /\ SlotsOf(Lower(f, k, d)) = Below(g, i.key)
          /\ SlotsOf(Upper(f, k, d)) = From(g, i.key)
          /\ SlotsOf(Upper(f, k, d) \ {i}) = Above(g, i.key)
        BY <1>3, <1>4, <1>9, <1>10, HalvesSlots
    <2>. QED BY <2>1
<1>12. ~(Weight[d] <= LeafRoom(f)) BY <1>1, <1>2 DEF HasRoom
<1>13. /\ Loaded("leaf", Lower(f, k, d)) = Lower(f, k, d)
       /\ Loaded("leaf", Upper(f, k, d)) = Upper(f, k, d)
       /\ LeafRoom(Below(g, i.key)) >= 0 /\ LeafRoom(From(g, i.key)) >= 0
       /\ DOMAIN f # {}
    BY <1>3, <1>4, <1>7, <1>9, <1>12, LeafSplits
<1>14. i.key \in DOMAIN g /\ \E j \in DOMAIN g : j < i.key
    <2>1. Halved(f, k, d, g, i) BY <1>3, <1>4, <1>9, <1>10, Halves
    <2>. QED BY <1>13, <2>1 DEF Halved
<1>15. PICK s, n, b, c : /\ s = i.key /\ n = Len(pages) + 1 /\ b = Below(g, s) /\ c = From(g, s)
    OBVIOUS
<1>16. SplitInto(p, n, s, b, c)
    <2>1. SplitInto(at, Len(pages) + 1, First(Upper(f, k, d)).key, SlotsOf(Lower(f, k, d)), SlotsOf(Upper(f, k, d)))
        BY <1>2, <1>13, SplitLeafDoes
    <2>. QED BY <1>2, <1>8, <1>11, <1>15, <2>1
<1>17. /\ Len(pages') = n /\ DOMAIN pages' = Id \cup {n} /\ n \notin Id
       /\ pages'[p] = Leaf(pages[p].parent, n, b)
       /\ pages'[n] = Leaf(pages[p].parent, pages[p].link, c)
       /\ \A x \in Id \ {p} : pages'[x] = pages[x]
    <2>1. n = Len(pages) + 1 BY <1>15
    <2>2. PagesSplit(p, n, b, c) BY <1>6, <1>16, <2>1, SplitPages
    <2>. QED BY <2>2 DEF PagesSplit
<1>18. (\A x \in Id : PageFine(pages'[x])) /\ PageFine(pages'[n])
    <2>1. PageFine(pages'[p]) /\ PageFine(pages'[n]) BY <1>13, <1>15, <1>17 DEF PageFine, Leaf
    <2>2. \A x \in Id \ {p} : PageFine(pages'[x]) BY <1>6, <1>17 DEF Grown
    <2>. QED BY <2>1, <2>2
<1>19. PICK v : v = [pages EXCEPT ![p].slots = g] OBVIOUS
<1>20. /\ DOMAIN v = Id
       /\ v[p].type = "leaf" /\ v[p].parent = pages[p].parent
       /\ v[p].link = pages[p].link /\ v[p].slots = g /\ \A x \in Id \ {p} : v[x] = pages[x]
    BY <1>1, <1>2, <1>6, <1>19, SlotsPut
<1>21. LeafBecomes(pages, v, DOMAIN lo, p, g)
    BY <1>1, <1>2, <1>6, <1>20 DEF LeafBecomes
<1>22. IsTree(v, level, root, lo, hi) /\ Holds(v, lo, Set(m0, k, d))
    <2>1. LeafBecomes(pages, v, DOMAIN lo, p, With(pages[p].slots, k, d)) BY <1>2, <1>8, <1>21
    <2>. QED BY <1>4, <1>5, <1>6, <1>20, <2>1, LeafPut
<1>23. Filled(v, level, root, DOMAIN lo, 0)
    <2>1. DOMAIN g = {} => p = root \/ p = 0 BY <1>14
    <2>. QED BY <1>5, <1>6, <1>21, <2>1, LeafFilled
<1>24. PICK x : x = pages' OBVIOUS
<1>25. Divided(v, level, root, lo, hi, x, p, n, s)
    <2>1. n \notin DOMAIN lo /\ n # 0 /\ DOMAIN lo \cup {n} \subseteq DOMAIN x
        <3>1. Len(pages) \in Nat BY <1>6, Basics
        <3>. QED BY <1>6, <1>15, <1>17, <1>24, <3>1
    <2>2. /\ x[p] = Leaf(v[p].parent, n, Below(g, s)) /\ x[n] = Leaf(v[p].parent, v[p].link, From(g, s))
          /\ \A y \in DOMAIN lo \ {p} : x[y] = v[y]
        BY <1>6, <1>15, <1>17, <1>20, <1>24
    <2>3. s \in DOMAIN g /\ \E j \in DOMAIN g : j < s BY <1>14, <1>15
    <2>. QED BY <1>5, <1>20, <1>22, <1>23, <2>1, <2>2, <2>3, LeafDivided
<1>26. PICK m, q : m = Set(before, k, d) /\ q = pages[p].parent OBVIOUS
<1>27. Holds(v, lo, m) /\ LinkRight(p, s, n, q) /\ v[p].parent = q
    BY <1>4, <1>5, <1>16, <1>20, <1>22, <1>26 DEF SplitInto
<1>28. Divided(v, level, root, lo, hi, pages', p, n, s) BY <1>24, <1>25
<1>. QED BY <1>1, <1>2, <1>4, <1>6, <1>15, <1>17, <1>18, <1>26, <1>27, <1>28, SplitGoesOn
------------------------------------------------------------------------------
(***************************************************************************)
(* A split goes on                                                         *)
(***************************************************************************)
\* What a call that goes on with a split knows.
LEMMA Splitting ==
    ASSUME MapInv, pc \in {"link", "newRoot"}
    PROVE  /\ call.op \in {"insert", "update"} /\ call.key \in Keys /\ call.val \in Vals
           /\ call.op = "insert" => before[call.key] = Null
           /\ call.op = "update" => before[call.key] # Null
           /\ Now = Set(before, call.key, call.val)
           /\ pend.left \in Id /\ pend.right \in Id /\ pend.sep \in Keys /\ pend.left # 0
           /\ pend.right # 0
<1>1. IInv /\ Grown BY DEF MapInv
<1>2. call.op \in {"insert", "update"} BY DEF MapInv, IInv, ControlOK, OpsAt
<1>3. Now = Set(before, call.key, call.val) BY DEF Now
<1>4. Linked = Id BY <1>1, Basics
<1>5. /\ pend \in [left : {0} \cup Linked, sep : Keys \cup {Null}, right : {0} \cup Linked]
      /\ pend.left # 0 /\ pend.sep \in Keys /\ pend.right # 0
    BY <1>1 DEF IInv, ControlOK
<1>6. call.key \in Keys /\ call.val \in Vals BY <1>1, <1>2, Request
<1>. QED BY <1>2, <1>3, <1>4, <1>5, <1>6 DEF MapInv, Asked

\* CreateNewRoot ends the call with the entry in the map.
LEMMA CreateNewRootMap == ASSUME MapInv, IInv', HStep, CreateNewRoot, Grow PROVE Done
<1>1. /\ pc = "newRoot" /\ Return("ok") /\ pages' = PagesRooted /\ root' = Len(pages) + 1
    BY DEF CreateNewRoot, PagesRooted
<1>2. IInv /\ Grown BY DEF MapInv
<1>3. Len(pages) \in Nat /\ DOMAIN pages = Id /\ pages \in Seq(Records)
    BY <1>2, Basics DEF IInv, WellShaped
<1>4. PICK p, n, s, q : /\ p = pend.left /\ n = pend.right /\ s = pend.sep
                        /\ q = Len(pages) + 1 OBVIOUS
<1>5. p \in Id /\ n \in Id /\ s \in Keys /\ p # 0 BY <1>1, <1>4, Splitting
<1>6. RootedAt(pages, pages', p, n, s, q)
    <2>1. p \in 1..Len(pages) /\ n \in 1..Len(pages) BY <1>5 DEF Id
    <2>2. RootedAt(pages, SetParents(Append(pages, Internal(0, p, With(NoSlots, s, n))), {p, n}, q), p, n, s, q)
        BY <1>3, <1>4, <2>1, PutRoot DEF Id
    <2>. QED BY <1>1, <1>4, <2>2 DEF PagesRooted
<1>7. Len(pages') = q
    <2>1. PICK e : e = Internal(0, pend.left, With(NoSlots, pend.sep, pend.right)) OBVIOUS
    <2>2. Len(Append(pages, e)) = q BY <1>3, <1>4, AppendIs
    <2>3. q \in Nat BY <1>3, <1>4
    <2>4. pages' = [i \in 1..q |-> IF i \in {p, n} THEN [Append(pages, e)[i] EXCEPT !.parent = q] ELSE Append(pages, e)[i]]
        BY <1>1, <1>4, <2>1, <2>2 DEF PagesRooted, SetParents
    <2>. QED BY <2>3, <2>4
<1>8. level' = LevelsRooted BY <1>1, <1>3, <1>4, <1>7 DEF Grow, LevelsRooted
<1>9. level[p] \in Nat /\ level[p] < Len(pages) /\ Id' = Id \cup {q}
    <2>1. Id' = 1..q BY <1>7 DEF Id
    <2>2. 1..q = Id \cup {q} BY <1>3, <1>4 DEF Id
    <2>. QED BY <1>2, <1>5, <2>1, <2>2, Basics
<1>10. level'[q] = level[p] + 1 /\ \A x \in Id : level'[x] = level[x]
    <2>1. PICK e : e = level[p] + 1 OBVIOUS
    <2>2. e \in Nat /\ level' = Append(level, e) BY <1>4, <1>8, <1>9, <2>1 DEF LevelsRooted
    <2>. QED BY <1>2, <1>4, <2>1, <2>2, LevelsGrow
<1>11. Grown'
    <2>1. \A x \in Id : PageFine(pages'[x]) /\ level'[x] < q
        <3>1. TAKE x \in Id
        <3>2. PageFine(pages[x]) /\ level[x] < Len(pages) /\ level[x] \in Nat BY <1>2, Basics
        <3>3. SameBut(pages, pages', x) BY <1>3, <1>6 DEF RootedAt
        <3>4. PageFine(pages'[x]) BY <3>2, <3>3 DEF PageFine, SameBut
        <3>5. level[x] < q BY <1>3, <1>4, <3>2
        <3>. QED BY <1>10, <3>4, <3>5
    <2>2. PageFine(pages'[q])
        <3>1. /\ pages'[q].type = "internal" /\ pages'[q].link = p /\ pages'[q].slots = With(NoSlots, s, n)
            BY <1>6 DEF RootedAt
        <3>2. DOMAIN With(NoSlots, s, n) = {s} BY DEF With, NoSlots
        <3>3. Cardinality({s}) = 1 BY FS_Singleton
        <3>4. 1 <= MaxSeps BY RoomAssumption
        <3>. QED BY <1>5, <3>1, <3>2, <3>3, <3>4 DEF PageFine
    <2>3. level'[q] < q BY <1>3, <1>4, <1>9, <1>10
    <2>. QED BY <1>7, <1>9, <2>1, <2>2, <2>3 DEF Grown
<1>12. Rooting BY <1>1 DEF MapInv, Placing
<1>13. Now = Set(before, call.key, call.val) BY <1>1, Splitting
<1>14. Keeps(pages', level', root', Set(before, call.key, call.val))
    BY <1>1, <1>8, <1>12, <1>13 DEF Rooting
<1>15. /\ call.op \in {"insert", "update"} /\ pc # "idle"
       /\ call.op = "insert" => before[call.key] = Null
       /\ call.op = "update" => before[call.key] # Null
    BY <1>1, Splitting
<1>. QED BY <1>1, <1>11, <1>14, <1>15, InsertReturning

\* What the parent of a page that was split is, and where the new page is.
LEMMA AtParent ==
    ASSUME MapInv, pc = "link", NEW v, v = PagesLinked
    PROVE  \E lo, hi : /\ Kept(v, level, root, lo, hi, Now, 0) /\ at \in DOMAIN lo /\ DOMAIN lo \subseteq Id
                       /\ at \in Id /\ pages[at].type = "internal" /\ pages[at].link # 0
                       /\ pend.sep \notin DOMAIN pages[at].slots
                       /\ v[at].slots = With(pages[at].slots, pend.sep, pend.right)
                       /\ v[at].type = "internal" /\ v[at].parent = pages[at].parent
                       /\ v[at].link = pages[at].link
                       /\ \A x \in Id \ {at} : v[x] = pages[x]
                       /\ DOMAIN v = Id
                       /\ pend.right \in DOMAIN lo \ {at} /\ pages[pend.right].parent = at
<1>1. IInv /\ Grown BY DEF MapInv
<1>2. Linking BY DEF MapInv, Placing
<1>3. PICK lo, hi : /\ Kept(v, level, root, lo, hi, Now, 0)
                    /\ at \in DOMAIN lo /\ pend.sep \notin DOMAIN pages[at].slots
    BY <1>2 DEF Linking
<1>4. IsTree(v, level, root, lo, hi) BY <1>3 DEF Kept
<1>5. /\ pages[at].type = "internal" /\ at # 0 BY <1>1 DEF IInv, RightKindOfPage, ControlOK
<1>6. at \in Id BY <1>1, <1>5, Here
<1>7. PICK f : f = With(pages[at].slots, pend.sep, pend.right) OBVIOUS
<1>8. v = [pages EXCEPT ![at].slots = f] BY <1>7 DEF PagesLinked
<1>9. /\ DOMAIN v = Id /\ v[at].type = "internal" /\ v[at].parent = pages[at].parent
      /\ v[at].link = pages[at].link /\ v[at].slots = f /\ \A x \in Id \ {at} : v[x] = pages[x]
    BY <1>1, <1>5, <1>6, <1>8, SlotsPut
<1>10. DOMAIN lo \subseteq Id BY <1>4, <1>9, InTree
<1>11. pend.right \in Kids(v[at])
    <2>1. pend.sep \in DOMAIN f /\ f[pend.sep] = pend.right BY <1>7 DEF With
    <2>. QED BY <1>9, <2>1 DEF Kids
<1>12. pend.right \in DOMAIN lo /\ v[pend.right].parent = at /\ level[pend.right] + 1 = level[at]
    BY <1>3, <1>4, <1>9, <1>11, RefsIn
<1>13. pend.right # at
    <2>1. level[at] \in Nat BY <1>3, <1>4, InTree
    <2>. QED BY <1>12, <2>1
<1>14. pages[pend.right].parent = at BY <1>9, <1>10, <1>12, <1>13
<1>15. pages[at].link # 0 BY <1>1, <1>5, <1>6 DEF Grown, PageFine
<1>. QED BY <1>3, <1>5, <1>6, <1>7, <1>9, <1>10, <1>12, <1>13, <1>14, <1>15

\* InsertIntoParent ends the call with the entry in the map.
LEMMA InsertIntoParentMap == ASSUME MapInv, IInv', HStep, InsertIntoParent, Grow PROVE Done
<1>1. pc = "link" /\ ParentHasRoom /\ root' = root BY DEF InsertIntoParent
<1>2. PICK v : v = PagesLinked OBVIOUS
<1>3. PICK lo, hi : /\ Kept(v, level, root, lo, hi, Now, 0) /\ at \in DOMAIN lo /\ DOMAIN lo \subseteq Id
                    /\ at \in Id /\ pages[at].type = "internal" /\ pages[at].link # 0
                    /\ pend.sep \notin DOMAIN pages[at].slots
                    /\ v[at].slots = With(pages[at].slots, pend.sep, pend.right)
                    /\ v[at].type = "internal" /\ v[at].parent = pages[at].parent
                    /\ v[at].link = pages[at].link
                    /\ \A x \in Id \ {at} : v[x] = pages[x]
                    /\ DOMAIN v = Id
                    /\ pend.right \in DOMAIN lo \ {at} /\ pages[pend.right].parent = at
    BY <1>1, <1>2, AtParent
<1>4. IInv /\ Grown BY DEF MapInv
<1>5. PICK p, c, f : /\ p = at /\ c = pend.right
                     /\ f = With(pages[p].slots, pend.sep, pend.right) OBVIOUS
<1>6. /\ pages' = [pages EXCEPT ![p].slots = f, ![c].parent = p]
      /\ Return("ok")
    BY <1>3, <1>5 DEF InsertIntoParent
<1>7. DOMAIN pages = Id /\ Len(pages) \in Nat BY <1>4, Basics
<1>8. v = [pages EXCEPT ![p].slots = f] BY <1>2, <1>5 DEF PagesLinked
<1>9. pages' = [v EXCEPT ![c].parent = p] BY <1>6, <1>8
<1>10. v[c] \in [type : {"leaf", "internal"}, parent : {p}, link : Nat, slots : {v[c].slots}]
    <2>1. c \in Id \ {p} /\ v[c] = pages[c] /\ pages[c].parent = p BY <1>3, <1>5
    <2>2. pages[c] \in [type : {"leaf", "internal"}, parent : {0} \cup LiveAt(pages, level, level[c] + 1),
                    link : Nat, slots : {pages[c].slots}]
        BY <1>4, <2>1 DEF IInv, WellShaped, Id, FitsAt
    <2>. QED BY <2>1, <2>2
<1>11. c \in DOMAIN v BY <1>3, <1>5
<1>12. DOMAIN pages' = Id /\ \A x \in Id : pages'[x] = v[x]
    <2>1. DOMAIN pages' = Id /\ \A x \in Id \ {c} : pages'[x] = v[x] BY <1>3, <1>9
    <2>2. pages'[c] = [v[c] EXCEPT !.parent = p] BY <1>9, <1>11
    <2>3. pages'[c] = v[c] BY <1>10, <2>2
    <2>. QED BY <2>1, <2>3
<1>13. Len(pages') = Len(pages)
    <2>1. pages' = [i \in 1..Len(pages) |-> pages'[i]] BY <1>9, <1>12, <1>3 DEF Id
    <2>. QED BY <1>7, <2>1
<1>14. \A x \in Id : PageFine(pages'[x])
    <2>1. \A x \in Id \ {p} : PageFine(pages'[x]) BY <1>3, <1>4, <1>5, <1>12 DEF Grown
    <2>2. Cardinality(DOMAIN f) <= MaxSeps
        <3>1. DOMAIN pages[p].slots \subseteq Keys BY <1>3, <1>4, <1>5, Basics
        <3>2. IsFiniteSet(DOMAIN pages[p].slots) BY <3>1, KeysFinite
        <3>3. DOMAIN f = DOMAIN pages[p].slots \cup {pend.sep} BY <1>5 DEF With
        <3>4. Cardinality(DOMAIN f) = Cardinality(DOMAIN pages[p].slots) + 1
            BY <1>3, <1>5, <3>2, <3>3, FS_AddElement
        <3>5. Cardinality(DOMAIN pages[p].slots) < MaxSeps BY <1>1, <1>5 DEF ParentHasRoom,
            NumSlots
        <3>6. Cardinality(DOMAIN pages[p].slots) \in Nat BY <3>2, FS_CardinalityType
        <3>. QED BY <3>4, <3>5, <3>6, RoomAssumption
    <2>3. PageFine(pages'[p]) BY <1>3, <1>5, <1>12, <2>2 DEF PageFine
    <2>. QED BY <2>1, <2>3
<1>15. Grown' /\ level' = level BY <1>4, <1>13, <1>14, GrownInPlace
<1>16. PICK m : m = Now OBVIOUS
<1>17. /\ call.op \in {"insert", "update"} /\ pc # "idle"
       /\ call.op = "insert" => before[call.key] = Null
       /\ call.op = "update" => before[call.key] # Null
       /\ m = Set(before, call.key, call.val)
    BY <1>1, <1>16, Splitting
<1>18. Kept(pages', level, root, lo, hi, m, 0)
    <2>1. PICK w : w = pages' OBVIOUS
    <2>2. \A x \in DOMAIN lo : w[x] = v[x] /\ level[x] = level[x] BY <1>3, <1>12, <2>1
    <2>3. DOMAIN lo \subseteq DOMAIN w BY <1>3, <1>12, <2>1
    <2>4. IsTree(v, level, root, lo, hi) /\ Holds(v, lo, m) /\ Filled(v, level, root, DOMAIN lo, 0)
        BY <1>3, <1>16 DEF Kept
    <2>5. IsTree(w, level, root, lo, hi) BY <2>2, <2>3, <2>4, SameTree
    <2>6. Holds(w, lo, m) BY <2>2, <2>4 DEF Holds, Ent
    <2>7. root \in DOMAIN lo BY <2>4, InTree
    <2>8. Filled(w, level, root, DOMAIN lo, 0) BY <2>2, <2>4, <2>7 DEF Filled
    <2>. QED BY <2>1, <2>5, <2>6, <2>8 DEF Kept
<1>19. Keeps(pages', level', root', Set(before, call.key, call.val))
    BY <1>1, <1>15, <1>17, <1>18 DEF Keeps
<1>. QED BY <1>6, <1>15, <1>17, <1>19, InsertReturning
------------------------------------------------------------------------------
(***************************************************************************)
(* A leaf that became empty is repaired                                    *)
(***************************************************************************)
\* What is known when a leaf that became empty is repaired.
LEMMA FixingAt ==
    ASSUME MapInv, pc = "fixLeaf"
    PROVE  /\ call.op \in {"delete", "update"} /\ call.key \in Keys /\ before[call.key] # Null
           /\ Now = Set(before, call.key, Null) /\ level[root] = 1
           /\ \E lo, hi : /\ Kept(pages, level, root, lo, hi, Now, at) /\ DOMAIN lo \subseteq Id
                          /\ at \in DOMAIN lo \ {root} /\ DOMAIN pages[at].slots = {}
                          /\ pages[at].parent = root /\ pages[at].type = "leaf" /\ root # 0
                          /\ IsChild(at) /\ DOMAIN pages[root].slots # {}
                          /\ HasLeft(at) \/ HasRight(at)
<1>1. IInv /\ Grown BY DEF MapInv
<1>2. Fixing BY DEF MapInv, Placing
<1>3. call.op \in {"delete", "update"} BY <1>1 DEF IInv, ControlOK, OpsAt
<1>4. call.key \in Keys BY <1>1, Request
<1>5. before[call.key] # Null BY DEF MapInv, Asked
<1>6. Now = Set(before, call.key, Null) BY DEF Now
<1>7. level[root] = 1 BY <1>2 DEF Fixing
<1>8. PICK lo, hi : /\ Kept(pages, level, root, lo, hi, Now, at)
                    /\ at \in DOMAIN lo \ {root} /\ DOMAIN pages[at].slots = {}
    BY <1>2 DEF Fixing
<1>9. IsTree(pages, level, root, lo, hi) /\ Filled(pages, level, root, DOMAIN lo, at)
    BY <1>8 DEF Kept
<1>10. DOMAIN lo \subseteq Id BY <1>1, <1>9, InId
<1>11. pages[at].parent = root /\ pages[at].type = "leaf" BY <1>7, <1>8, <1>9, LevelOne
<1>12. IsChild(at) BY <1>8, <1>9, OwnSep
<1>13. DOMAIN pages[root].slots # {} BY <1>7, <1>9 DEF Filled
<1>14. HasLeft(at) \/ HasRight(at) BY <1>8, <1>9, <1>11, <1>13, OnlyChild
<1>15. root # 0 BY <1>1, Basics
<1>. QED BY <1>3, <1>4, <1>5, <1>6, <1>7, <1>8, <1>10, <1>11, <1>12, <1>13, <1>14, <1>15

\* The part of it that the borrows begin with.
LEMMA FixingPages ==
    ASSUME MapInv, pc = "fixLeaf"
    PROVE  \E lo, hi : /\ Kept(pages, level, root, lo, hi, Now, at) /\ DOMAIN lo \subseteq Id
                       /\ at \in DOMAIN lo \ {root} /\ DOMAIN pages[at].slots = {}
                       /\ pages[at].parent = root /\ pages[at].type = "leaf"
<1>1. PICK lo, hi : /\ Kept(pages, level, root, lo, hi, Now, at) /\ DOMAIN lo \subseteq Id
                    /\ at \in DOMAIN lo \ {root} /\ DOMAIN pages[at].slots = {}
                    /\ pages[at].parent = root /\ pages[at].type = "leaf" /\ root # 0
                    /\ IsChild(at) /\ DOMAIN pages[root].slots # {}
                    /\ HasLeft(at) \/ HasRight(at)
    BY FixingAt
<1>. QED BY <1>1

\* The siblings of a leaf under the root are beside it.
LEMMA RightBeside ==
    ASSUME NEW lv, NEW r, NEW lo, NEW hi, IsTree(pages, lv, r, lo, hi), NEW p \in DOMAIN lo \ {r},
           pages[p].parent = r, pages[p].type = "leaf", HasRight(p)
    PROVE  Beside(pages, lo, hi, p, RightSib(p), r, RightSep(p))
<1>1. /\ RightSep(p) \in DOMAIN pages[r].slots /\ hi[p] = RightSep(p)
      /\ RightSib(p) = pages[r].slots[RightSep(p)]
    BY RightOf
<1>2. r \in DOMAIN lo /\ pages[r].type = "internal" /\ p \in Kids(pages[r]) BY OwnSep
<1>. QED BY <1>1, <1>2 DEF Beside

\* So is the left one.
LEMMA LeftBeside ==
    ASSUME NEW lv, NEW r, NEW lo, NEW hi, IsTree(pages, lv, r, lo, hi), NEW p \in DOMAIN lo \ {r},
           pages[p].parent = r, pages[p].type = "leaf", HasLeft(p)
    PROVE  Beside(pages, lo, hi, LeftSib(p), p, r, LeftSep(p))
<1>1. /\ LeftSep(p) = lo[p] /\ lo[p] \in DOMAIN pages[r].slots /\ pages[r].slots[lo[p]] = p
      /\ LeftSib(p) \in Kids(pages[r]) /\ hi[LeftSib(p)] = lo[p]
      /\ lv[LeftSib(p)] = lv[p] /\ LeftSib(p) \in DOMAIN lo
    BY LeftOf
<1>2. r \in DOMAIN lo /\ pages[r].type = "internal" BY OwnSep
<1>3. pages[LeftSib(p)].type = "leaf" BY <1>1, LeafLevel
<1>. QED BY <1>1, <1>2, <1>3 DEF Beside

\* Page p is as it was, but for its slots.
Changed(x, p, f) ==
    /\ x[p].type = pages[p].type /\ x[p].parent = pages[p].parent
    /\ x[p].link = pages[p].link /\ x[p].slots = f

\* Three pages get other slots.
LEMMA SlotsThree ==
    ASSUME IInv, Grown, NEW a \in Id, NEW b \in Id, NEW c \in Id, a # b, a # c, b # c,
           NEW f, NEW g, NEW h,
           pages' = [pages EXCEPT ![a].slots = f, ![b].slots = g, ![c].slots = h]
    PROVE  /\ Len(pages') = Len(pages) /\ DOMAIN pages' = Id
           /\ Changed(pages', a, f) /\ Changed(pages', b, g) /\ Changed(pages', c, h)
           /\ \A x \in Id \ {a, b, c} : pages'[x] = pages[x]
<1>1. DOMAIN pages = Id /\ Len(pages) \in Nat BY Basics
<1>2. \A p \in Id : pages[p] \in [type : {"leaf", "internal"}, parent : {0} \cup LiveAt(pages, level, level[p] + 1),
                    link : Nat, slots : {pages[p].slots}]
    BY DEF IInv, WellShaped, Id, FitsAt
<1>3. /\ DOMAIN pages' = Id /\ pages'[a] = [pages[a] EXCEPT !.slots = f]
      /\ pages'[b] = [pages[b] EXCEPT !.slots = g] /\ pages'[c] = [pages[c] EXCEPT !.slots = h]
      /\ \A x \in Id \ {a, b, c} : pages'[x] = pages[x]
    BY <1>1
<1>4. Len(pages') = Len(pages)
    <2>1. pages' = [i \in 1..Len(pages) |-> pages'[i]] BY <1>1, <1>3 DEF Id
    <2>. QED BY <1>1, <2>1
<1>5. Changed(pages', a, f) BY <1>2, <1>3 DEF Changed
<1>6. Changed(pages', b, g) BY <1>2, <1>3 DEF Changed
<1>7. Changed(pages', c, h) BY <1>2, <1>3 DEF Changed
<1>. QED BY <1>3, <1>4, <1>5, <1>6, <1>7

\* A separator that is replaced by one that no other separator is.
LEMMA ReplacedIs ==
    ASSUME NEW f, NEW old \in DOMAIN f, NEW new, new \notin DOMAIN f \ {old}, NEW n, n = f[old]
    PROVE  Replaced(f, old, new) = With(Without(f, old), new, n)
BY DEF Replaced

\* The leaves l and n, one of them empty, share their entries anew.
Shares(l, n, f, g, sep, new) ==
    /\ f = Below(Join(pages[l].slots, pages[n].slots), new)
    /\ g = From(Join(pages[l].slots, pages[n].slots), new)
    /\ DOMAIN f # {} /\ DOMAIN g # {} /\ LeafRoom(f) >= 0 /\ LeafRoom(g) >= 0
    /\ Len(pages') = Len(pages) /\ DOMAIN pages' = Id
    /\ Changed(pages', l, f) /\ Changed(pages', n, g)
    /\ Changed(pages', root, Replaced(pages[root].slots, sep, new))
    /\ \A x \in Id \ {l, n, root} : pages'[x] = pages[x]

\* A borrow ends the removal with a tree in which no leaf is empty.
LEMMA BorrowGoesOn ==
    ASSUME MapInv, IInv', HStep, Grow, root' = root, pc = "fixLeaf",
           NEW lo, NEW hi, Kept(pages, level, root, lo, hi, Now, at), DOMAIN lo \subseteq Id,
           NEW l, NEW n, NEW sep, Beside(pages, lo, hi, l, n, root, sep), at \in {l, n},
           NEW new \in Keys, lo[l] < new, new < hi[n],
           NEW f, NEW g, Shares(l, n, f, g, sep, new), ReplaceSeparator(root, sep, new)
    PROVE  Done
<1>1. IInv /\ Grown BY DEF MapInv
<1>2. /\ call.op \in {"delete", "update"} /\ call.key \in Keys /\ before[call.key] # Null
      /\ Now = Set(before, call.key, Null) /\ level[root] = 1
    BY FixingAt
<1>3. PICK m : m = Now OBVIOUS
<1>4. /\ IsTree(pages, level, root, lo, hi) /\ Holds(pages, lo, m)
      /\ Filled(pages, level, root, DOMAIN lo, at)
    BY <1>3 DEF Kept
<1>5. /\ l \in DOMAIN lo /\ n \in DOMAIN lo /\ pages[n].type = "leaf" /\ lo[n] = sep
      /\ l # n /\ l # root /\ n # root
      /\ pages[l].parent = root /\ pages[n].parent = root
      /\ pages[l].link = n /\ lo[l] < sep
      /\ \A s \in DOMAIN pages[root].slots : s <= lo[l] \/ s = sep \/ hi[n] <= s
    BY <1>4, BesideFacts
<1>6. /\ root \in DOMAIN lo /\ pages[root].type = "internal" /\ sep \in DOMAIN pages[root].slots
      /\ n = pages[root].slots[sep] /\ pages[l].type = "leaf"
    BY DEF Beside
<1>7. new \notin DOMAIN pages[root].slots \ {sep}
    <2>1. lo[l] \in Nat /\ hi[n] \in Nat /\ new \in Nat BY <1>4, <1>5, Ends, KeysNat
    <2>2. DOMAIN pages[root].slots \subseteq Keys BY <1>1, <1>6, Basics
    <2>3. DOMAIN pages[root].slots \subseteq Nat BY <2>2, KeysNat
    <2>. QED BY <1>5, <2>1, <2>3
<1>8. PICK h : h = With(Without(pages[root].slots, sep), new, n) OBVIOUS
<1>9. Replaced(pages[root].slots, sep, new) = h BY <1>6, <1>7, <1>8, ReplacedIs
<1>10. DeleteReturns BY <1>7 DEF ReplaceSeparator
<1>11. PICK w : w = pages' OBVIOUS
<1>12. /\ f = Below(Join(pages[l].slots, pages[n].slots), new)
       /\ g = From(Join(pages[l].slots, pages[n].slots), new)
       /\ DOMAIN f # {} /\ DOMAIN g # {} /\ LeafRoom(f) >= 0 /\ LeafRoom(g) >= 0
       /\ Len(w) = Len(pages) /\ DOMAIN w = Id
       /\ Changed(w, l, f) /\ Changed(w, n, g) /\ Changed(w, root, h)
       /\ \A x \in Id \ {l, n, root} : w[x] = pages[x]
    BY <1>9, <1>11 DEF Shares
<1>13. /\ w[root].type = "internal" /\ w[root].link = pages[root].link
       /\ w[root].parent = pages[root].parent /\ w[root].slots = h
       /\ \A z \in {l, n} : w[z].type = "leaf" /\ w[z].parent = root
       /\ w[l].slots = f /\ w[l].link = n /\ w[n].slots = g /\ w[n].link = pages[n].link
    BY <1>5, <1>6, <1>12 DEF Changed
<1>14. ShiftOf(pages, w, lo, l, n, root, sep, new)
    <2>1. \A x \in DOMAIN lo \ {l, n, root} : w[x] = pages[x] BY <1>12
    <2>. QED BY <1>6, <1>8, <1>12, <1>13, <2>1 DEF ShiftOf
<1>15. DOMAIN lo \subseteq DOMAIN w BY <1>12
<1>16. Reshaped(pages, lo, w, level, root, DOMAIN lo) BY <1>4, <1>14, <1>15, Shift
<1>17. Filled(w, level, root, DOMAIN lo, 0)
    <2>1. DOMAIN w[l].slots # {} /\ DOMAIN w[n].slots # {} BY <1>12, <1>13
    <2>2. \A x \in DOMAIN lo \ {l, n, root} : w[x].type = "leaf" => DOMAIN w[x].slots # {}
        <3>1. 0 \notin DOMAIN lo BY <1>4, InTree
        <3>. QED BY <1>4, <1>12, <3>1 DEF Filled
    <2>3. DOMAIN w[root].slots # {} BY <1>8, <1>13 DEF With
    <2>. QED BY <2>1, <2>2, <2>3 DEF Filled
<1>18. Keeps(w, level, root, m)
    <2>1. \E lo2, hi2 : Kept(w, level, root, lo2, hi2, m, 0) /\ DOMAIN lo2 = DOMAIN lo
        BY <1>4, <1>16, <1>17, HoldsReshaped
    <2>. QED BY <2>1 DEF Keeps
<1>19. \A x \in Id : PageFine(w[x])
    <2>1. PageFine(w[l]) /\ PageFine(w[n]) BY <1>12, <1>13 DEF PageFine
    <2>2. PageFine(w[root])
        <3>1. PICK D : D = DOMAIN pages[root].slots OBVIOUS
        <3>2. D \subseteq Keys /\ PageFine(pages[root]) BY <1>1, <1>6, <3>1, Basics
        <3>3. IsFiniteSet(D) BY <3>2, KeysFinite
        <3>4. DOMAIN h = (D \ {sep}) \cup {new} BY <1>8, <3>1 DEF With, Without
        <3>5. IsFiniteSet(D \ {sep}) /\ Cardinality(D \ {sep}) = Cardinality(D) - 1
            BY <1>6, <3>1, <3>3, FS_RemoveElement
        <3>6. Cardinality(DOMAIN h) = Cardinality(D \ {sep}) + 1
            <4>1. PICK E : E = D \ {sep} OBVIOUS
            <4>2. IsFiniteSet(E) /\ new \notin E BY <1>7, <3>1, <3>5, <4>1
            <4>3. Cardinality(E \cup {new}) = Cardinality(E) + 1 BY <4>2, FS_AddElement
            <4>. QED BY <3>4, <4>1, <4>3
        <3>7. Cardinality(D) \in Nat BY <3>3, FS_CardinalityType
        <3>8. Cardinality(DOMAIN h) = Cardinality(D) BY <3>5, <3>6, <3>7
        <3>. QED BY <1>6, <1>13, <3>1, <3>2, <3>8 DEF PageFine
    <2>3. \A x \in Id \ {l, n, root} : PageFine(w[x]) BY <1>1, <1>12 DEF Grown
    <2>. QED BY <2>1, <2>2, <2>3
<1>20. Grown' /\ level' = level BY <1>1, <1>11, <1>12, <1>19, GrownInPlace
<1>21. Keeps(pages', level', root', Set(before, call.key, Null)) BY <1>2, <1>3, <1>11, <1>18,
    <1>20
<1>. QED BY <1>2, <1>10, <1>20, <1>21, DeleteReturning

\* A leaf that can lend its least entry has another one.
LEMMA Lends ==
    ASSUME NEW S \in SUBSET Keys, Cardinality(S) > MIN_SLOTS_THRESHOLD
    PROVE  /\ Min(S) \in S /\ Max(S) \in S /\ Min(S \ {Min(S)}) \in S \ {Min(S)}
           /\ Min(S \ {Min(S)}) \in Keys /\ Max(S) \in Keys
           /\ \A k \in S : /\ k <= Max(S) /\ Min(S) <= k
                           /\ k # Min(S) => Min(S \ {Min(S)}) <= k
           /\ Min(S) < Max(S) /\ Min(S) < Min(S \ {Min(S)})
<1>1. IsFiniteSet(S) /\ S \in SUBSET Nat BY KeysFinite, KeysNat
<1>2. Cardinality(S) > 1 BY DEF MIN_SLOTS_THRESHOLD
<1>3. Cardinality(S) \in Nat BY <1>1, FS_CardinalityType
<1>4. S # {} BY <1>2, FS_EmptySet
<1>5. PICK a, z : a = Min(S) /\ z = Max(S) OBVIOUS
<1>6. a \in S /\ \A k \in S : a <= k BY <1>1, <1>4, <1>5, MinIn
<1>7. z \in S /\ \A k \in S : k <= z BY <1>4, <1>5, KeysMax
<1>8. PICK R : R = S \ {a} OBVIOUS
<1>9. R # {}
    <2>1. SUFFICES ASSUME R = {} PROVE FALSE OBVIOUS
    <2>2. S = {a} BY <1>6, <1>8, <2>1
    <2>3. Cardinality({a}) = 1 BY FS_Singleton
    <2>. QED BY <1>2, <2>2, <2>3
<1>10. R \in SUBSET Nat BY <1>1, <1>8
<1>11. PICK b : b = Min(R) OBVIOUS
<1>12. b \in R /\ \A k \in R : b <= k BY <1>9, <1>10, <1>11, MinIn
<1>13. a < b /\ a < z
    <2>1. a \in Nat /\ b \in Nat /\ z \in Nat /\ a # b /\ a <= b /\ b <= z BY <1>1, <1>6, <1>7,
        <1>8, <1>12
    <2>. QED BY <2>1
<1>14. \A k \in S : k # a => b <= k BY <1>8, <1>12
<1>15. b \in S /\ b \in Keys /\ z \in Keys BY <1>7, <1>8, <1>12
<1>. QED BY <1>5, <1>6, <1>7, <1>8, <1>11, <1>12, <1>13, <1>14, <1>15

\* The entries of two leaves, of which one is empty.
LEMMA JoinEmpty ==
    ASSUME NEW f, NEW g, DOMAIN f = {}, g = [k \in DOMAIN g |-> g[k]]
    PROVE  Join(f, g) = g /\ Join(g, f) = g
<1>1. Join(f, g) = [k \in DOMAIN g |-> g[k]] BY DEF Join
<1>2. Join(g, f) = [k \in DOMAIN g |-> g[k]] BY DEF Join
<1>. QED BY <1>1, <1>2

\* The first entry of a leaf and the others.
LEMMA FirstAlone ==
    ASSUME NEW e, DOMAIN e = {}, NEW g, DOMAIN g \subseteq Nat, NEW a \in DOMAIN g,
           NEW b \in DOMAIN g, a < b,
           \A k \in DOMAIN g : k # a => b <= k
    PROVE  With(e, a, g[a]) = Below(g, b) /\ Without(g, a) = From(g, b)
<1>1. {k \in DOMAIN g : k < b} = {a} /\ {k \in DOMAIN g : b <= k} = DOMAIN g \ {a} OBVIOUS
<1>2. With(e, a, g[a]) = [k \in {a} |-> g[a]]
    <2>1. With(e, a, g[a]) = [k \in DOMAIN e \cup {a} |-> IF k = a THEN g[a] ELSE e[k]]
        BY DEF With
    <2>. QED BY <2>1
<1>3. Below(g, b) = [k \in {a} |-> g[k]] BY <1>1 DEF Below
<1>4. From(g, b) = [k \in DOMAIN g \ {a} |-> g[k]] BY <1>1 DEF From
<1>5. Without(g, a) = [k \in DOMAIN g \ {a} |-> g[k]] BY DEF Without
<1>. QED BY <1>2, <1>3, <1>4, <1>5

\* The last entry of a leaf and the others.
LEMMA LastAlone ==
    ASSUME NEW e, DOMAIN e = {}, NEW g, DOMAIN g \subseteq Nat, NEW z \in DOMAIN g,
           \A k \in DOMAIN g : k <= z
    PROVE  With(e, z, g[z]) = From(g, z) /\ Without(g, z) = Below(g, z)
<1>1. {k \in DOMAIN g : z <= k} = {z} /\ {k \in DOMAIN g : k < z} = DOMAIN g \ {z} OBVIOUS
<1>2. With(e, z, g[z]) = [k \in {z} |-> g[z]]
    <2>1. With(e, z, g[z]) = [k \in DOMAIN e \cup {z} |-> IF k = z THEN g[z] ELSE e[k]]
        BY DEF With
    <2>. QED BY <2>1
<1>3. From(g, z) = [k \in {z} |-> g[k]] BY <1>1 DEF From
<1>4. Below(g, z) = [k \in DOMAIN g \ {z} |-> g[k]] BY <1>1 DEF Below
<1>5. Without(g, z) = [k \in DOMAIN g \ {z} |-> g[k]] BY DEF Without
<1>. QED BY <1>2, <1>3, <1>4, <1>5

\* The parts of a leaf that is divided have room.
LEMMA PartsFit ==
    ASSUME NEW g, Entries(g), LeafRoom(g) >= 0, NEW s
    PROVE  LeafRoom(Below(g, s)) >= 0 /\ LeafRoom(From(g, s)) >= 0
<1>1. LeafRoom(g) \in Int BY RoomType
<1>2. PICK a, b : a = Below(g, s) /\ b = From(g, s) OBVIOUS
<1>3. /\ DOMAIN a \subseteq DOMAIN g /\ \A k \in DOMAIN a : a[k] = g[k]
      /\ DOMAIN b \subseteq DOMAIN g /\ \A k \in DOMAIN b : b[k] = g[k]
    BY <1>2 DEF Below, From
<1>4. Entries(a) /\ LeafRoom(g) <= LeafRoom(a) BY <1>3, RoomPart
<1>5. Entries(b) /\ LeafRoom(g) <= LeafRoom(b) BY <1>3, RoomPart
<1>6. LeafRoom(a) \in Int /\ LeafRoom(b) \in Int BY <1>4, <1>5, RoomType
<1>. QED BY <1>1, <1>2, <1>4, <1>5, <1>6

\* BorrowRightLeaf takes the first entry of the right sibling and makes its second one
\* the separator.
LEMMA BorrowRightLeafMap == ASSUME MapInv, IInv', HStep, BorrowRightLeaf, Grow PROVE Done
<1>1. pc = "fixLeaf" /\ HasRight(at) /\ root' = root /\ NumSlots(RightSib(at)) > MIN_SLOTS_THRESHOLD
    BY DEF BorrowRightLeaf, BorrowRight, CanBorrowRight, Underflow
<1>2. IInv /\ Grown BY DEF MapInv
<1>3. PICK lo, hi : /\ Kept(pages, level, root, lo, hi, Now, at) /\ DOMAIN lo \subseteq Id
                    /\ at \in DOMAIN lo \ {root} /\ DOMAIN pages[at].slots = {}
                    /\ pages[at].parent = root /\ pages[at].type = "leaf"
    BY <1>1, FixingPages
<1>4. PICK l, n, sep : l = at /\ n = RightSib(at) /\ sep = RightSep(at) OBVIOUS
<1>5. IsTree(pages, level, root, lo, hi) BY <1>3 DEF Kept
<1>6. Beside(pages, lo, hi, l, n, root, sep) BY <1>1, <1>3, <1>4, <1>5, RightBeside
<1>7. /\ n \in DOMAIN lo /\ l \in DOMAIN lo /\ pages[n].type = "leaf" /\ lo[n] = sep /\ lo[l] < sep
      /\ l # n /\ l # root /\ n # root
    BY <1>5, <1>6, BesideFacts
<1>8. PICK S, g : g = pages[n].slots /\ S = DOMAIN g OBVIOUS
<1>9. PICK a, b : a = Min(S) /\ b = Min(S \ {a}) OBVIOUS
<1>10. /\ Entries(g) /\ SlotMap(g, Vals) /\ LeafRoom(g) >= 0
    BY <1>2, <1>3, <1>7, <1>8, EntriesAt
<1>11. S \in SUBSET Keys /\ S \subseteq Nat BY <1>8, <1>10, KeysNat DEF SlotMap
<1>12. Cardinality(S) > MIN_SLOTS_THRESHOLD BY <1>1, <1>4, <1>8 DEF NumSlots
<1>13. /\ a \in S /\ b \in S \ {a} /\ b \in Keys /\ a < b /\ \A k \in S : k # a => b <= k
    BY <1>9, <1>11, <1>12, Lends
<1>14. lo[l] < b /\ b < hi[n]
    <2>1. Inside(lo, hi, n, b) /\ b \in Nat BY <1>5, <1>7, <1>8, <1>13, LeafHas
    <2>2. lo[l] \in Nat /\ lo[n] \in Nat BY <1>5, <1>7, Ends
    <2>. QED BY <1>7, <2>1, <2>2 DEF Inside
<1>15. PICK e : e = pages[l].slots OBVIOUS
<1>16. DOMAIN e = {} BY <1>3, <1>4, <1>15
<1>17. PICK f, h : f = With(e, a, g[a]) /\ h = Without(g, a) OBVIOUS
<1>18. f = Below(g, b) /\ h = From(g, b) BY <1>8, <1>11, <1>13, <1>16, <1>17, FirstAlone
<1>19. Join(e, g) = g
    <2>1. g = [k \in DOMAIN g |-> g[k]] BY <1>10 DEF SlotMap
    <2>. QED BY <1>16, <2>1, JoinEmpty
<1>20. LeafRoom(f) >= 0 /\ LeafRoom(h) >= 0 BY <1>10, <1>18, PartsFit
<1>21. DOMAIN f # {} /\ DOMAIN h # {}
    <2>1. a \in DOMAIN f BY <1>17 DEF With
    <2>2. b \in DOMAIN h BY <1>8, <1>13, <1>17 DEF Without
    <2>. QED BY <2>1, <2>2
<1>22. PICK c : c = Replaced(pages[root].slots, sep, b) OBVIOUS
<1>23. /\ pages' = [pages EXCEPT ![l].slots = f, ![n].slots = h, ![root].slots = c]
       /\ ReplaceSeparator(root, sep, b)
    <2>1. DOMAIN h = S \ {a} BY <1>8, <1>17 DEF Without
    <2>2. b = Min(DOMAIN h) BY <1>9, <2>1
    <2>. QED BY <1>3, <1>4, <1>8, <1>9, <1>15, <1>17, <1>22, <2>2 DEF BorrowRightLeaf
<1>24. /\ Len(pages') = Len(pages) /\ DOMAIN pages' = Id
       /\ Changed(pages', l, f) /\ Changed(pages', n, h) /\ Changed(pages', root, c)
       /\ \A x \in Id \ {l, n, root} : pages'[x] = pages[x]
    <2>1. root \in Id /\ l \in Id /\ n \in Id BY <1>2, <1>3, <1>7, Basics
    <2>. QED BY <1>2, <1>7, <1>23, <2>1, SlotsThree
<1>25. Shares(l, n, f, h, sep, b)
    BY <1>8, <1>15, <1>18, <1>19, <1>20, <1>21, <1>22, <1>24 DEF Shares
<1>. QED BY <1>1, <1>3, <1>4, <1>6, <1>13, <1>14, <1>23, <1>25, BorrowGoesOn

\* BorrowLeftLeaf takes the last entry of the left sibling and makes it the separator.
LEMMA BorrowLeftLeafMap == ASSUME MapInv, IInv', HStep, BorrowLeftLeaf, Grow PROVE Done
<1>1. pc = "fixLeaf" /\ HasLeft(at) /\ root' = root /\ NumSlots(LeftSib(at)) > MIN_SLOTS_THRESHOLD
    BY DEF BorrowLeftLeaf, BorrowLeft, CanBorrowLeft, Underflow
<1>2. IInv /\ Grown BY DEF MapInv
<1>3. PICK lo, hi : /\ Kept(pages, level, root, lo, hi, Now, at) /\ DOMAIN lo \subseteq Id
                    /\ at \in DOMAIN lo \ {root} /\ DOMAIN pages[at].slots = {}
                    /\ pages[at].parent = root /\ pages[at].type = "leaf"
    BY <1>1, FixingPages
<1>4. PICK l, n, sep : l = LeftSib(at) /\ n = at /\ sep = LeftSep(at) OBVIOUS
<1>5. IsTree(pages, level, root, lo, hi) BY <1>3 DEF Kept
<1>6. Beside(pages, lo, hi, l, n, root, sep) BY <1>1, <1>3, <1>4, <1>5, LeftBeside
<1>7. /\ n \in DOMAIN lo /\ l \in DOMAIN lo /\ lo[n] = sep /\ lo[l] < sep
      /\ l # n /\ l # root /\ n # root /\ hi[l] = sep /\ pages[l].type = "leaf"
    <2>1. hi[l] = sep /\ pages[l].type = "leaf" BY <1>6 DEF Beside
    <2>2. /\ n \in DOMAIN lo /\ l \in DOMAIN lo /\ lo[n] = sep /\ lo[l] < sep
          /\ l # n /\ l # root /\ n # root
        BY <1>5, <1>6, BesideFacts
    <2>. QED BY <2>1, <2>2
<1>8. PICK S, g : g = pages[l].slots /\ S = DOMAIN g OBVIOUS
<1>9. PICK a, z : a = Min(S) /\ z = Max(S) OBVIOUS
<1>10. /\ Entries(g) /\ SlotMap(g, Vals) /\ LeafRoom(g) >= 0
    BY <1>2, <1>3, <1>7, <1>8, EntriesAt
<1>11. S \in SUBSET Keys /\ S \subseteq Nat BY <1>8, <1>10, KeysNat DEF SlotMap
<1>12. Cardinality(S) > MIN_SLOTS_THRESHOLD BY <1>1, <1>4, <1>8 DEF NumSlots
<1>13. /\ a \in S /\ z \in S /\ z \in Keys /\ a < z /\ \A k \in S : k <= z
    BY <1>9, <1>11, <1>12, Lends
<1>14. lo[l] < z /\ z < hi[n]
    <2>1. /\ Inside(lo, hi, l, z) /\ z \in Nat /\ Inside(lo, hi, l, a) /\ a \in Nat
        BY <1>5, <1>7, <1>8, <1>13, LeafHas
    <2>2. lo[l] \in Nat /\ lo[n] \in Nat /\ hi[n] \in Nat /\ lo[n] < hi[n] BY <1>5, <1>7, Ends
    <2>. QED BY <1>7, <1>13, <2>1, <2>2 DEF Inside
<1>15. PICK e : e = pages[n].slots OBVIOUS
<1>16. DOMAIN e = {} BY <1>3, <1>4, <1>15
<1>17. PICK f, h : h = With(e, z, g[z]) /\ f = Without(g, z) OBVIOUS
<1>18. f = Below(g, z) /\ h = From(g, z) BY <1>8, <1>11, <1>13, <1>16, <1>17, LastAlone
<1>19. Join(g, e) = g
    <2>1. g = [k \in DOMAIN g |-> g[k]] BY <1>10 DEF SlotMap
    <2>. QED BY <1>16, <2>1, JoinEmpty
<1>20. LeafRoom(f) >= 0 /\ LeafRoom(h) >= 0 BY <1>10, <1>18, PartsFit
<1>21. DOMAIN f # {} /\ DOMAIN h # {}
    <2>1. z \in DOMAIN h BY <1>17 DEF With
    <2>2. a # z BY <1>11, <1>13
    <2>3. a \in DOMAIN f BY <1>8, <1>13, <1>17, <2>2 DEF Without
    <2>. QED BY <2>1, <2>3
<1>22. PICK c : c = Replaced(pages[root].slots, sep, z) OBVIOUS
<1>23. /\ pages' = [pages EXCEPT ![n].slots = h, ![l].slots = f, ![root].slots = c]
       /\ ReplaceSeparator(root, sep, z)
    BY <1>3, <1>4, <1>8, <1>9, <1>15, <1>17, <1>22 DEF BorrowLeftLeaf
<1>24. /\ Len(pages') = Len(pages) /\ DOMAIN pages' = Id
       /\ Changed(pages', n, h) /\ Changed(pages', l, f) /\ Changed(pages', root, c)
       /\ \A x \in Id \ {n, l, root} : pages'[x] = pages[x]
    <2>1. root \in Id /\ l \in Id /\ n \in Id BY <1>2, <1>3, <1>7, Basics
    <2>. QED BY <1>2, <1>7, <1>23, <2>1, SlotsThree
<1>25. Shares(l, n, f, h, sep, z)
    BY <1>8, <1>15, <1>18, <1>19, <1>20, <1>21, <1>22, <1>24 DEF Shares
<1>. QED BY <1>1, <1>3, <1>4, <1>6, <1>13, <1>14, <1>23, <1>25, BorrowGoesOn

\* Repairs that the map never comes to.
LEMMA NoInnerRepair == ASSUME MapInv PROVE pc # "fixInner"
BY DEF MapInv, Placing

\* A leaf that became empty has a sibling, and it is below the root.
LEMMA RepairedAlways ==
    ASSUME MapInv, NothingToRepair \/ SiblingNotFound \/ UnlinkUnderflows
                     \/ BorrowRightInternal \/ BorrowLeftInternal \/ MergeInternals
    PROVE  FALSE
<1>1. pc # "fixInner" BY NoInnerRepair
<1>2. CASE NothingToRepair \/ SiblingNotFound
    <2>1. pc = "fixLeaf" BY <1>1, <1>2 DEF NothingToRepair, SiblingNotFound
    <2>2. pages[at].parent # 0 /\ IsChild(at) /\ (HasLeft(at) \/ HasRight(at)) BY <2>1, FixingAt
    <2>. QED BY <1>2, <2>2 DEF NothingToRepair, SiblingNotFound
<1>3. CASE UnlinkUnderflows
    <2>1. pc = "unlink" /\ at # root BY <1>3 DEF UnlinkUnderflows
    <2>. QED BY <2>1 DEF MapInv, Placing, Unlinking
<1>4. CASE BorrowRightInternal \/ BorrowLeftInternal \/ MergeInternals
    BY <1>1, <1>4 DEF BorrowRightInternal, BorrowLeftInternal, MergeInternals, BorrowRight,
                      BorrowLeft, MergeSiblings, Underflow
<1>. QED BY <1>2, <1>3, <1>4

\* The leaves a merge joins are beside each other.
LEMMA MergedBeside ==
    ASSUME NEW lv, NEW r, NEW lo, NEW hi, IsTree(pages, lv, r, lo, hi), NEW p \in DOMAIN lo \ {r},
           pages[p].parent = r, pages[p].type = "leaf", HasLeft(p) \/ HasRight(p),
           NEW l, NEW n, NEW sep, MergePair(p) = [left |-> l, sep |-> sep, right |-> n]
    PROVE  Beside(pages, lo, hi, l, n, r, sep) /\ p \in {l, n}
<1>1. CASE HasRight(p)
    <2>1. l = p /\ n = RightSib(p) /\ sep = RightSep(p) BY <1>1 DEF MergePair
    <2>. QED BY <1>1, <2>1, RightBeside
<1>2. CASE ~HasRight(p)
    <2>1. l = LeftSib(p) /\ n = p /\ sep = LeftSep(p) BY <1>2 DEF MergePair
    <2>. QED BY <1>2, <2>1, LeftBeside
<1>. QED BY <1>1, <1>2

\* The page that two leaves become.
LEMMA JoinedIs ==
    ASSUME NEW t, NEW p, NEW k, NEW s, NEW a,
           a = [type |-> t, parent |-> p, link |-> k, slots |-> s],
           NEW b, NEW f, NEW c, f = Join(s, b.slots), c = b.link
    PROVE  LeavesJoined(a, b) = [type |-> t, parent |-> p, link |-> c, slots |-> f]
<1>1. [a EXCEPT !.slots = f] = [type |-> t, parent |-> p, link |-> k, slots |-> f] OBVIOUS
<1>2. [a EXCEPT !.slots = f, !.link = c] = [[a EXCEPT !.slots = f] EXCEPT !.link = c] OBVIOUS
<1>3. [[type |-> t, parent |-> p, link |-> k, slots |-> f] EXCEPT !.link = c]
        = [type |-> t, parent |-> p, link |-> c, slots |-> f]
    OBVIOUS
<1>4. a.slots = s OBVIOUS
<1>5. LeavesJoined(a, b) = [a EXCEPT !.slots = f, !.link = c] BY <1>4 DEF LeavesJoined
<1>. QED BY <1>1, <1>2, <1>3, <1>5

\* MergeLeaves leaves the root a separator to lose.
LEMMA MergeLeavesMap == ASSUME MapInv, IInv', HStep, MergeLeaves, Grow PROVE Done
<1>1. /\ pc = "fixLeaf" /\ root' = root /\ Goto("unlink", pages[at].parent)
      /\ pend' = MergePair(at)
    BY DEF MergeLeaves, MergeSiblings, Underflow
<1>2. IInv /\ Grown BY DEF MapInv
<1>3. PICK lo, hi : /\ Kept(pages, level, root, lo, hi, Now, at) /\ DOMAIN lo \subseteq Id
                    /\ at \in DOMAIN lo \ {root} /\ DOMAIN pages[at].slots = {}
                    /\ pages[at].parent = root /\ pages[at].type = "leaf"
                    /\ HasLeft(at) \/ HasRight(at)
    BY <1>1, FixingAt
<1>4. PICK m : m = Now OBVIOUS
<1>5. /\ IsTree(pages, level, root, lo, hi) /\ Holds(pages, lo, m)
      /\ Filled(pages, level, root, DOMAIN lo, at)
    BY <1>3, <1>4 DEF Kept
<1>6. PICK l, n, sep : MergePair(at) = [left |-> l, sep |-> sep, right |-> n] BY DEF MergePair
<1>7. Beside(pages, lo, hi, l, n, root, sep) /\ at \in {l, n} BY <1>3, <1>5, <1>6, MergedBeside
<1>8. /\ l \in DOMAIN lo /\ n \in DOMAIN lo /\ pages[l].type = "leaf" /\ pages[n].type = "leaf"
      /\ l # n /\ l # root /\ n # root /\ pages[l].parent = root /\ root \in DOMAIN lo
    BY <1>5, <1>7, BesideFacts DEF Beside
<1>9. PICK J, e : /\ J = Join(pages[l].slots, pages[n].slots)
                  /\ e = Leaf(root, pages[n].link, J) OBVIOUS
<1>10. DOMAIN pages = Id /\ Len(pages) \in Nat BY <1>2, Basics
<1>11. pages' = [pages EXCEPT ![l] = e]
    <2>1. pages' = [pages EXCEPT ![l] = LeavesJoined(pages[l], pages[n])] BY <1>6 DEF MergeLeaves
    <2>2. pages[l] \in [type : {"leaf", "internal"}, parent : {0} \cup LiveAt(pages, level, level[l] + 1),
                    link : Nat, slots : {pages[l].slots}]
        BY <1>2, <1>3, <1>8 DEF IInv, WellShaped, Id, FitsAt
    <2>3. PICK x, y, k : x = pages[l] /\ y = pages[n] /\ k = x.link OBVIOUS
    <2>4. x = [type |-> "leaf", parent |-> root, link |-> k, slots |-> x.slots] BY <1>8, <2>2,
        <2>3
    <2>5. J = Join(x.slots, y.slots) /\ e = Leaf(root, y.link, J) BY <1>9, <2>3
    <2>6. LeavesJoined(x, y) = [type |-> "leaf", parent |-> root, link |-> y.link, slots |-> J]
        BY <2>4, <2>5, JoinedIs
    <2>7. LeavesJoined(pages[l], pages[n]) = e BY <2>3, <2>5, <2>6 DEF Leaf
    <2>. QED BY <2>1, <2>7
<1>12. DOMAIN pages' = Id /\ pages'[l] = e /\ \A x \in Id \ {l} : pages'[x] = pages[x]
    BY <1>3, <1>8, <1>10, <1>11
<1>13. Len(pages') = Len(pages)
    <2>1. pages' = [i \in 1..Len(pages) |-> pages'[i]] BY <1>11, <1>12, <1>10 DEF Id
    <2>. QED BY <1>10, <2>1
<1>14. /\ e.type = "leaf" /\ e.parent = root /\ e.link = pages[n].link /\ e.slots = J
    BY <1>9 DEF Leaf
<1>15. J = pages[l].slots \/ J = pages[n].slots
    <2>1. SlotMap(pages[l].slots, Vals) /\ SlotMap(pages[n].slots, Vals) BY <1>2, <1>3, <1>8,
        EntriesAt
    <2>2. PICK f, g : f = pages[l].slots /\ g = pages[n].slots OBVIOUS
    <2>3. f = [k \in DOMAIN f |-> f[k]] /\ g = [k \in DOMAIN g |-> g[k]] BY <2>1, <2>2 DEF SlotMap
    <2>4. DOMAIN f = {} \/ DOMAIN g = {} BY <1>3, <1>7, <2>2
    <2>5. Join(f, g) = f \/ Join(f, g) = g BY <2>3, <2>4, JoinEmpty
    <2>. QED BY <1>9, <2>2, <2>5
<1>16. DOMAIN J # {}
    <2>1. \A x \in {l, n} \ {at} : DOMAIN pages[x].slots # {} BY <1>5, <1>8 DEF Filled
    <2>2. DOMAIN J = DOMAIN pages[l].slots \cup DOMAIN pages[n].slots BY <1>9 DEF Join
    <2>. QED BY <1>7, <1>8, <2>1, <2>2
<1>17. \A x \in Id : PageFine(pages'[x])
    <2>1. LeafRoom(J) >= 0 BY <1>2, <1>3, <1>8, <1>15, EntriesAt
    <2>2. PageFine(pages'[l]) BY <1>12, <1>14, <2>1 DEF PageFine
    <2>. QED BY <1>2, <1>12, <2>2 DEF Grown
<1>18. Grown' /\ level' = level BY <1>2, <1>13, <1>17, GrownInPlace
<1>19. /\ pc' = "unlink" /\ at' = root /\ call' = call /\ reply' = reply /\ before' = before
       /\ pend'.sep = sep
    BY <1>1, <1>3, <1>6 DEF Goto, HStep
<1>20. PICK w, h : w = PagesUnlinked' /\ h = Without(pages[root].slots, sep) OBVIOUS
<1>21. /\ DOMAIN w = Id /\ w[root].type = pages[root].type /\ w[root].link = pages[root].link
       /\ w[root].parent = pages[root].parent /\ w[root].slots = h
       /\ w[l] = e /\ \A x \in Id \ {l, root} : w[x] = pages[x]
    <2>1. root \in Id /\ pages'[root] = pages[root] BY <1>2, <1>3, <1>8, <1>12
    <2>2. w = [pages' EXCEPT ![root].slots = h] BY <1>19, <1>20, <2>1 DEF PagesUnlinked
    <2>3. pages[root] \in [type : {"leaf", "internal"}, parent : {0} \cup LiveAt(pages, level, level[root] + 1),
                    link : Nat, slots : {pages[root].slots}]
        BY <1>2, <2>1 DEF IInv, WellShaped, Id, FitsAt
    <2>4. DOMAIN w = Id /\ w[root] = [pages[root] EXCEPT !.slots = h] /\ \A x \in Id \ {root} :
                                                                            w[x] = pages'[x]
        BY <1>12, <2>1, <2>2
    <2>5. /\ w[root].type = pages[root].type /\ w[root].link = pages[root].link
          /\ w[root].parent = pages[root].parent /\ w[root].slots = h
        BY <2>3, <2>4
    <2>. QED BY <1>3, <1>8, <1>12, <2>4, <2>5
<1>22. MergeOf(pages, w, lo, l, n, root, sep)
    BY <1>3, <1>9, <1>14, <1>20, <1>21 DEF MergeOf
<1>23. DOMAIN lo \subseteq DOMAIN w BY <1>3, <1>21
<1>24. Reshaped(pages, lo, w, level, root, DOMAIN lo \ {n}) BY <1>5, <1>7, <1>22, <1>23, Merge
<1>25. PICK lo2, hi2 : /\ IsTree(w, level, root, lo2, hi2) /\ DOMAIN lo2 = DOMAIN lo \ {n}
                       /\ Within(pages, lo, w, lo2) /\ Within(w, lo2, pages, lo)
    BY <1>24 DEF Reshaped
<1>26. Holds(w, lo2, m) BY <1>5, <1>25, HoldsKept
<1>27. \A p \in DOMAIN lo2 : pages'[p].type = "leaf" => DOMAIN pages'[p].slots # {}
    <2>1. TAKE p \in DOMAIN lo2
    <2>2. CASE p = l BY <1>12, <1>14, <1>16, <2>2
    <2>3. CASE p # l
        <3>1. p \in DOMAIN lo /\ p # at /\ p \in Id /\ pages'[p] = pages[p]
            BY <1>3, <1>7, <1>12, <1>25, <2>3
        <3>2. pages[p].type = "leaf" => p # root
            <4>1. level[root] # 0 BY <1>1, FixingAt
            <4>. QED BY <1>5, <1>8, <4>1, LeafLevel
        <3>. QED BY <1>5, <3>1, <3>2 DEF Filled
    <2>. QED BY <2>2, <2>3
<1>28. Now' = m BY <1>1, <1>4, <1>19 DEF Now
<1>29. level[root] = 1 BY <1>1, FixingAt
<1>30. Unlinking' BY <1>1, <1>18, <1>19, <1>20, <1>25, <1>26, <1>27, <1>28, <1>29 DEF Unlinking
<1>31. Placing' BY <1>19, <1>30 DEF Placing
<1>32. Asked' BY <1>1, <1>19 DEF MapInv, Asked
<1>. QED BY <1>18, <1>19, <1>31, <1>32, Inner DEF Done, MapInv

\* What is known when the root loses the separator of a merge.
LEMMA UnlinkingAt ==
    ASSUME MapInv, pc = "unlink", NEW v, v = PagesUnlinked
    PROVE  /\ call.op \in {"delete", "update"} /\ call.key \in Keys /\ before[call.key] # Null
           /\ Now = Set(before, call.key, Null) /\ at = root /\ level[root] = 1
           /\ root \in Id /\ pages[root].type = "internal" /\ pages[root].link # 0
           /\ v = [pages EXCEPT ![root].slots = Remaining]
           /\ DOMAIN v = Id /\ Changed(v, root, Remaining) /\ \A x \in Id \ {root} : v[x] = pages[x]
           /\ Len(v) = Len(pages)
           /\ \E lo, hi : /\ IsTree(v, level, root, lo, hi) /\ Holds(v, lo, Now)
                          /\ DOMAIN lo \subseteq Id
                          /\ \A p \in DOMAIN lo :
                                pages[p].type = "leaf" => DOMAIN pages[p].slots # {}
           /\ \A x \in Id : PageFine(v[x])
<1>1. IInv /\ Grown BY DEF MapInv
<1>2. Unlinking BY DEF MapInv, Placing
<1>3. PICK lo, hi : /\ IsTree(v, level, root, lo, hi) /\ Holds(v, lo, Now)
                    /\ \A p \in DOMAIN lo : pages[p].type = "leaf" => DOMAIN pages[p].slots # {}
    BY <1>2 DEF Unlinking
<1>4. at = root /\ level[root] = 1 BY <1>2 DEF Unlinking
<1>5. call.op \in {"delete", "update"} BY <1>1 DEF IInv, ControlOK, OpsAt
<1>6. call.key \in Keys BY <1>1, Request
<1>7. before[call.key] # Null BY DEF MapInv, Asked
<1>8. Now = Set(before, call.key, Null) BY DEF Now
<1>9. /\ root \in Id /\ pages[root].type = "internal" /\ PageFine(pages[root])
      /\ DOMAIN pages[root].slots \subseteq Keys
    BY <1>1, <1>4, Basics
<1>10. PICK h : h = Remaining OBVIOUS
<1>11. v = [pages EXCEPT ![root].slots = h] BY <1>4, <1>10 DEF PagesUnlinked, Remaining
<1>12. /\ DOMAIN v = Id /\ Len(v) = Len(pages)
       /\ v[root].type = pages[root].type /\ v[root].parent = pages[root].parent
       /\ v[root].link = pages[root].link /\ v[root].slots = h /\ \A x \in Id \ {root} :
                                                                     v[x] = pages[x]
    BY <1>1, <1>9, <1>11, SlotsPut
<1>13. DOMAIN lo \subseteq Id BY <1>3, <1>12, InTree
<1>14. pages[root].link # 0 /\ Cardinality(DOMAIN pages[root].slots) <= MaxSeps
    BY <1>9 DEF PageFine
<1>15. PageFine(v[root])
    <2>1. IsFiniteSet(DOMAIN pages[root].slots) BY <1>9, KeysFinite
    <2>2. DOMAIN h \subseteq DOMAIN pages[root].slots BY <1>4, <1>10 DEF Remaining, Without
    <2>3. /\ Cardinality(DOMAIN h) <= Cardinality(DOMAIN pages[root].slots)
          /\ Cardinality(DOMAIN h) \in Nat /\ Cardinality(DOMAIN pages[root].slots) \in Nat
        BY <2>1, <2>2, FS_Subset, FS_CardinalityType
    <2>4. Cardinality(DOMAIN h) <= MaxSeps BY <1>14, <2>3, RoomAssumption
    <2>. QED BY <1>9, <1>12, <1>14, <2>4 DEF PageFine
<1>16. \A x \in Id : PageFine(v[x]) BY <1>1, <1>12, <1>15 DEF Grown
<1>. QED BY <1>3, <1>4, <1>5, <1>6, <1>7, <1>8, <1>9, <1>10, <1>11, <1>12, <1>13, <1>14,
    <1>16 DEF Changed

\* Unlink ends the removal: the root has a separator left.
LEMMA UnlinkMap == ASSUME MapInv, IInv', HStep, Unlink, Grow PROVE Done
<1>1. pc = "unlink" /\ Remaining # NoSlots /\ root' = root /\ DeleteReturns BY DEF Unlink
<1>2. PICK v : v = PagesUnlinked OBVIOUS
<1>3. /\ call.op \in {"delete", "update"} /\ before[call.key] # Null
      /\ Now = Set(before, call.key, Null) /\ at = root /\ pages[root].type = "internal"
      /\ v = [pages EXCEPT ![root].slots = Remaining]
      /\ Changed(v, root, Remaining) /\ \A x \in Id \ {root} : v[x] = pages[x]
      /\ Len(v) = Len(pages) /\ \A x \in Id : PageFine(v[x])
    BY <1>1, <1>2, UnlinkingAt
<1>4. PICK lo, hi : /\ IsTree(v, level, root, lo, hi) /\ Holds(v, lo, Now)
                    /\ DOMAIN lo \subseteq Id
                    /\ \A p \in DOMAIN lo : pages[p].type = "leaf" => DOMAIN pages[p].slots # {}
    BY <1>1, <1>2, UnlinkingAt
<1>5. pages' = v BY <1>3 DEF Unlink
<1>6. Grown' /\ level' = level BY <1>3, <1>5, GrownInPlace DEF MapInv
<1>7. DOMAIN Remaining # {}
    <2>1. Remaining = [j \in DOMAIN Remaining |-> pages[at].slots[j]] BY DEF Remaining, Without
    <2>2. DOMAIN Remaining = {} => Remaining = NoSlots BY <2>1 DEF NoSlots
    <2>. QED BY <1>1, <2>2
<1>8. Filled(v, level, root, DOMAIN lo, 0)
    <2>1. v[root].type = "internal" /\ v[root].slots = Remaining BY <1>3 DEF Changed
    <2>. QED BY <1>3, <1>4, <1>7, <2>1 DEF Filled
<1>9. Keeps(pages', level', root', Set(before, call.key, Null))
    BY <1>1, <1>3, <1>4, <1>5, <1>6, <1>8 DEF Keeps, Kept
<1>. QED BY <1>1, <1>3, <1>6, <1>9, DeleteReturning

\* ShrinkRoot ends the removal: the merged leaf is the root.
LEMMA ShrinkRootMap == ASSUME MapInv, IInv', HStep, ShrinkRoot, Grow PROVE Done
<1>1. pc = "unlink" /\ Remaining = NoSlots /\ root' = pages[at].link /\ DeleteReturns
    BY DEF ShrinkRoot
<1>2. PICK v : v = PagesUnlinked OBVIOUS
<1>3. IInv /\ Grown BY DEF MapInv
<1>4. /\ call.op \in {"delete", "update"} /\ before[call.key] # Null
      /\ Now = Set(before, call.key, Null) /\ at = root /\ level[root] = 1
      /\ pages[root].type = "internal"
      /\ v = [pages EXCEPT ![root].slots = Remaining]
      /\ DOMAIN v = Id /\ Changed(v, root, Remaining) /\ \A x \in Id \ {root} : v[x] = pages[x]
      /\ Len(v) = Len(pages) /\ \A x \in Id : PageFine(v[x])
    BY <1>1, <1>2, UnlinkingAt
<1>5. PICK lo, hi : /\ IsTree(v, level, root, lo, hi) /\ Holds(v, lo, Now) /\ DOMAIN lo \subseteq Id
    BY <1>1, <1>2, UnlinkingAt
<1>6. PICK l, m : l = pages[root].link /\ m = Now OBVIOUS
<1>7. v[root].type = "internal" /\ v[root].link = l /\ DOMAIN v[root].slots = {}
    <2>1. DOMAIN NoSlots = {} BY DEF NoSlots
    <2>. QED BY <1>1, <1>4, <1>6, <2>1 DEF Changed
<1>8. root \in DOMAIN lo BY <1>5, InTree
<1>9. l \in DOMAIN lo /\ level[l] + 1 = level[root] /\ l # root
    <2>1. l \in Kids(v[root]) BY <1>7 DEF Kids
    <2>. QED BY <1>5, <1>7, <1>8, <2>1, RefsIn
<1>10. l \in Id /\ root \in Id BY <1>5, <1>8, <1>9
<1>11. pages' = [v EXCEPT ![l].parent = 0] BY <1>4, <1>6 DEF ShrinkRoot
<1>12. v[l] \in [type : {"leaf", "internal"}, parent : {0} \cup LiveAt(pages, level, level[l] + 1),
                    link : Nat, slots : {v[l].slots}]
    <2>1. pages[l] \in [type : {"leaf", "internal"}, parent : {0} \cup LiveAt(pages, level, level[l] + 1),
                    link : Nat, slots : {pages[l].slots}]
        BY <1>3, <1>10 DEF IInv, WellShaped, Id, FitsAt
    <2>2. v[l] = pages[l] BY <1>4, <1>9, <1>10
    <2>. QED BY <2>1, <2>2
<1>13. PICK w : w = pages' OBVIOUS
<1>14. /\ DOMAIN w = Id /\ \A x \in Id \ {l} : w[x] = v[x]
       /\ SameBut(v, w, l) /\ w[l].parent = 0
    BY <1>4, <1>10, <1>11, <1>12, <1>13 DEF SameBut
<1>15. Len(pages') = Len(pages)
    <2>1. Len(pages) \in Nat BY <1>3, Basics
    <2>2. pages' = [i \in 1..Len(pages) |-> pages'[i]] BY <1>4, <1>11 DEF Id
    <2>. QED BY <2>1, <2>2
<1>16. \A x \in Id : PageFine(w[x])
    <2>1. PageFine(w[l]) BY <1>4, <1>10, <1>14 DEF PageFine, SameBut
    <2>. QED BY <1>4, <1>14, <2>1
<1>17. Grown' /\ level' = level BY <1>3, <1>13, <1>15, <1>16, GrownInPlace
<1>18. PICK lo2, hi2 : lo2 = Without(lo, root) /\ hi2 = Without(hi, root) OBVIOUS
<1>19. IsTree(w, level, l, lo2, hi2) /\ DOMAIN lo2 = {l}
    <2>1. DOMAIN lo \subseteq DOMAIN w BY <1>5, <1>14
    <2>2. l = v[root].link BY <1>7
    <2>3. level[root] = 1 /\ IsTree(v, level, root, lo, hi) /\ DOMAIN v[root].slots = {}
        BY <1>4, <1>5, <1>7
    <2>4. SameBut(v, w, l) /\ w[l].parent = 0 BY <1>14
    <2>. QED BY <1>18, <2>1, <2>2, <2>3, <2>4, DropRoot
<1>20. Holds(w, lo2, m)
    <2>1. DOMAIN lo2 = DOMAIN lo \ {root} BY <1>18 DEF Without
    <2>2. Within(v, lo, w, lo2)
        <3>1. \A x \in DOMAIN lo : v[x].type = "leaf" =>
                 x \in DOMAIN lo2 /\ w[x].type = "leaf" /\ w[x].slots = v[x].slots
            BY <1>5, <1>7, <1>14, <1>19, <2>1 DEF SameBut
        <3>. QED BY <3>1, WithinSame
    <2>3. Within(w, lo2, v, lo)
        <3>1. \A x \in DOMAIN lo2 : w[x].type = "leaf" =>
                 x \in DOMAIN lo /\ v[x].type = "leaf" /\ v[x].slots = w[x].slots
            BY <1>9, <1>14, <1>19 DEF SameBut
        <3>. QED BY <3>1, WithinSame
    <2>. QED BY <1>5, <1>6, <2>2, <2>3, HoldsKept
<1>21. Filled(w, level, l, DOMAIN lo2, 0)
    <2>1. level[l] # 1
        <3>1. level[l] \in Nat BY <1>3, <1>10, Basics
        <3>. QED BY <1>4, <1>9, <3>1
    <2>. QED BY <1>19, <2>1 DEF Filled
<1>22. Keeps(pages', level', root', Set(before, call.key, Null))
    BY <1>1, <1>4, <1>6, <1>13, <1>17, <1>19, <1>20, <1>21 DEF Keeps, Kept
<1>. QED BY <1>1, <1>4, <1>17, <1>22, DeleteReturning
------------------------------------------------------------------------------
(***************************************************************************)
(* An internal page is split                                               *)
(***************************************************************************)
\* What SplitInternal does when neither half raises.
NodeSplit(p, n, s, f, g, c, ids) ==
    /\ pages' = SetParents([Append(pages, Internal(pages[p].parent, c, g)) EXCEPT ![p].slots = f], ids, n)
    /\ LinkRight(p, s, n, pages[p].parent)

\* SplitInternal, when neither half raises.
LEMMA SplitInternalDoes ==
    ASSUME SplitInternal, NEW S, NEW U, NEW i, NEW T,
           S = Lower(pages[at].slots, pend.sep, pend.right),
           U = Upper(pages[at].slots, pend.sep, pend.right), i = First(U), T = U \ {i},
           Loaded("internal", S) = S, Loaded("internal", T) = T
    PROVE  NodeSplit(at, Len(pages) + 1, i.key, SlotsOf(S), SlotsOf(T), i.data,
                     {i.data} \cup {j.data : j \in T})
<1>1. PICK all : all = Sorted(pages[at].slots, pend.sep, pend.right) OBVIOUS
<1>2. S = {j \in all : j.pos < (NumSlots(at) + 1) \div 2} /\ U = all \ S
    BY <1>1 DEF Lower, Upper, NumSlots
<1>3. all \ (S \cup {i}) = T BY <1>2
<1>4. (IF Loaded("internal", S) = S THEN Loaded("internal", T) ELSE {}) = T OBVIOUS
<1>. QED BY <1>1, <1>2, <1>3, <1>4 DEF SplitInternal, NodeSplit

\* The pages after that.
NodesAre(p, n, f, g, c, ids) ==
    /\ Len(pages') = n /\ DOMAIN pages' = Id \cup {n} /\ n \notin Id
    /\ pages'[p].type = pages[p].type /\ pages'[p].parent = pages[p].parent
    /\ pages'[p].link = pages[p].link /\ pages'[p].slots = f
    /\ pages'[n] = Internal(pages[p].parent, c, g)
    /\ \A x \in Id \ {p} :
          SameBut(pages, pages', x) /\ pages'[x].parent = IF x \in ids THEN n ELSE pages[x].parent

\* They are the pages after NodeSplit.
LEMMA NodePages ==
    ASSUME IInv, Grown, NEW p \in Id, NEW n, n = Len(pages) + 1, NEW s, NEW f, NEW g, NEW c,
           NEW ids, p \notin ids, n \notin ids, NodeSplit(p, n, s, f, g, c, ids)
    PROVE  NodesAre(p, n, f, g, c, ids)
<1>1. pages \in Seq(Records) /\ Len(pages) \in Nat /\ DOMAIN pages = Id BY Basics DEF IInv,
    WellShaped
<1>2. PICK e, y : e = Internal(pages[p].parent, c, g) /\ y = Append(pages, e) OBVIOUS
<1>3. Len(y) = n /\ DOMAIN y = 1..n /\ y[n] = e /\ \A i \in 1..Len(pages) : y[i] = pages[i]
    BY <1>1, <1>2, AppendIs
<1>4. n \notin Id /\ 1..n = Id \cup {n} /\ n \in Nat BY <1>1 DEF Id
<1>5. \A x \in Id : pages[x] \in [type : {"leaf", "internal"}, parent : {0} \cup LiveAt(pages, level, level[x] + 1),
                    link : Nat, slots : {pages[x].slots}]
    BY DEF IInv, WellShaped, Id, FitsAt
<1>6. PICK z : z = [y EXCEPT ![p].slots = f] OBVIOUS
<1>7. /\ DOMAIN z = 1..n /\ z[n] = e /\ z[p] = [pages[p] EXCEPT !.slots = f]
      /\ \A x \in Id \ {p} : z[x] = pages[x]
    BY <1>3, <1>4, <1>6 DEF Id
<1>8. z = [i \in 1..n |-> z[i]] BY <1>3, <1>6
<1>9. Len(z) = n BY <1>4, <1>8
<1>10. pages' = SetParents(z, ids, n) BY <1>2, <1>6 DEF NodeSplit
<1>11. pages' = [i \in 1..n |-> IF i \in ids THEN [z[i] EXCEPT !.parent = n] ELSE z[i]]
    BY <1>9, <1>10 DEF SetParents
<1>12. Len(pages') = n /\ DOMAIN pages' = Id \cup {n} BY <1>4, <1>11
<1>13. pages'[n] = e /\ pages'[p] = [pages[p] EXCEPT !.slots = f] BY <1>4, <1>7, <1>11
<1>14. /\ pages'[p].type = pages[p].type /\ pages'[p].parent = pages[p].parent
       /\ pages'[p].link = pages[p].link /\ pages'[p].slots = f
    BY <1>5, <1>13
<1>15. ASSUME NEW x \in Id \ {p}
       PROVE  SameBut(pages, pages', x) /\ pages'[x].parent = IF x \in ids THEN n ELSE pages[x].parent
    <2>1. pages'[x] = IF x \in ids THEN [pages[x] EXCEPT !.parent = n] ELSE pages[x]
        BY <1>4, <1>7, <1>11
    <2>. QED BY <1>5, <2>1 DEF SameBut
<1>. QED BY <1>2, <1>4, <1>12, <1>13, <1>14, <1>15 DEF NodesAre

\* The children at a separator from s on are those that go to the new page.
Moves(g, s, ids) == \A y : y \in ids <=> \E j \in DOMAIN g : s <= j /\ y = g[j]

\* SplitInternal gives the new page the children it moves there.
LEMMA MovedChildren ==
    ASSUME NEW f, DOMAIN f \subseteq Keys, NEW k \in Keys, k \notin DOMAIN f, NEW d,
           NEW g, NEW i, SplitBy(f, k, d, g, i), NEW T, T = Upper(f, k, d) \ {i}
    PROVE  Moves(g, i.key, {i.data} \cup {j.data : j \in T})
<1>1. /\ DOMAIN g = DOMAIN f \cup {k} /\ i.key \in DOMAIN g /\ i.data = g[i.key]
      /\ \A j : j \in T <=> j \in Placed(g) /\ i.key < j.key
    <2>1. Halved(f, k, d, g, i) BY Halves
    <2>2. \A j : j \in Upper(f, k, d) \ {i} <=> j \in Placed(g) /\ i.key < j.key
        BY <2>1 DEF Halved
    <2>. QED BY <2>1, <2>2 DEF Halved
<1>2. DOMAIN g \subseteq Keys BY <1>1
<1>3. /\ \A j \in Placed(g) : j.key \in DOMAIN g /\ j.data = g[j.key]
      /\ \A j \in DOMAIN g : \E e \in Placed(g) : e.key = j
    BY <1>2, PlacedAre
<1>4. DOMAIN g \subseteq Nat BY <1>2, KeysNat
<1>5. ASSUME NEW y
      PROVE y \in {i.data} \cup {j.data : j \in T} <=> \E j \in DOMAIN g : i.key <= j /\ y = g[j]
    <2>1. ASSUME y \in {i.data} \cup {j.data : j \in T}
          PROVE  \E j \in DOMAIN g : i.key <= j /\ y = g[j]
        <3>1. CASE y = i.data
            <4>1. i.key <= i.key BY <1>1, <1>4
            <4>. QED BY <1>1, <3>1, <4>1
        <3>2. CASE \E j \in T : y = j.data
            <4>1. PICK j \in T : y = j.data BY <3>2
            <4>2. j.key \in DOMAIN g /\ y = g[j.key] /\ i.key < j.key BY <1>1, <1>3, <4>1
            <4>3. i.key <= j.key BY <1>1, <1>4, <4>2
            <4>. QED BY <4>2, <4>3
        <3>. QED BY <2>1, <3>1, <3>2
    <2>2. ASSUME NEW j \in DOMAIN g, i.key <= j, y = g[j]
          PROVE  y \in {i.data} \cup {e.data : e \in T}
        <3>1. CASE j = i.key BY <1>1, <2>2, <3>1
        <3>2. CASE j # i.key
            <4>1. i.key < j BY <1>1, <1>4, <2>2, <3>2
            <4>2. PICK e \in Placed(g) : e.key = j BY <1>3
            <4>3. e \in T /\ e.data = y BY <1>1, <1>3, <2>2, <4>1, <4>2
            <4>. QED BY <4>3
        <3>. QED BY <3>1, <3>2
    <2>. QED BY <2>1, <2>2
<1>. QED BY <1>5 DEF Moves

\* An internal page that is divided, as it would be with the new separator and as it
\* is in x.
LEMMA NodeDivided ==
    ASSUME NEW v, NEW lv, NEW r, NEW lo, NEW hi, IsTree(v, lv, r, lo, hi),
           Filled(v, lv, r, DOMAIN lo, 0),
           NEW p \in DOMAIN lo, v[p].type = "internal", NEW g, v[p].slots = g,
           NEW s \in DOMAIN g, NEW n, n \notin DOMAIN lo, n # 0, NEW x,
           DOMAIN lo \cup {n} \subseteq DOMAIN x,
           x[p].type = "internal", x[p].parent = v[p].parent, x[p].link = v[p].link,
           x[p].slots = Below(g, s),
           x[n] = Internal(v[p].parent, g[s], Above(g, s)),
           NEW ids, Moves(g, s, ids),
           \A y \in DOMAIN lo \ {p} :
              SameBut(v, x, y) /\ x[y].parent = IF y \in ids THEN n ELSE v[y].parent
    PROVE  Divided(v, lv, r, lo, hi, x, p, n, s)
<1>1. NodeOK(v, lv, lo, hi, p) /\ DOMAIN g \subseteq Keys BY InTree
<1>2. DOMAIN g \subseteq Nat BY <1>1, KeysNat
<1>3. /\ \A j \in DOMAIN g : lo[p] < j /\ j < hi[p] /\ g[j] \in DOMAIN lo /\ lo[g[j]] = j
      /\ v[p].link \in DOMAIN lo /\ lo[v[p].link] = lo[p]
    BY <1>1 DEF NodeOK
<1>4. s \in Keys /\ lo[p] < s /\ s < hi[p] BY <1>1, <1>3
<1>5. \A c \in Kids(v[p]) : v[c].parent = p BY RefsIn
<1>6. /\ x[n].type = "internal" /\ x[n].parent = v[p].parent /\ x[n].link = g[s] /\ x[n].slots = Above(g, s)
    BY DEF Internal
<1>7. DOMAIN Below(g, s) \subseteq Keys /\ DOMAIN Above(g, s) \subseteq Keys BY <1>1 DEF Below,
    Above
<1>8. HalvesOf(v, x, p, n, s) BY <1>6 DEF HalvesOf
<1>9. ASSUME NEW y \in DOMAIN lo \ {p}, v[y].parent = p
      PROVE  x[y].parent \in {p, n} /\ y \in Kids(x[x[y].parent])
    <2>1. y # r BY <1>9, InTree
    <2>2. y \in Kids(v[p]) BY <1>9, <2>1, InTree
    <2>3. CASE y = v[p].link
        <3>1. y \notin ids
            <4>1. SUFFICES ASSUME NEW j \in DOMAIN g, s <= j, y = g[j] PROVE FALSE BY DEF Moves
            <4>2. lo[y] = j /\ lo[y] = lo[p] /\ lo[p] < s BY <1>3, <1>4, <2>3, <4>1
            <4>3. lo[p] \in Nat /\ s \in Nat /\ j \in Nat BY <1>2, Ends
            <4>. QED BY <4>1, <4>2, <4>3
        <3>2. x[y].parent = p BY <1>9, <3>1
        <3>. QED BY <2>3, <3>2 DEF Kids
    <2>4. CASE \E j \in DOMAIN g : y = g[j]
        <3>1. PICK j \in DOMAIN g : y = g[j] BY <2>4
        <3>2. CASE j < s
            <4>1. y \notin ids
                <5>1. SUFFICES ASSUME NEW t \in DOMAIN g, s <= t, y = g[t] PROVE FALSE
                    BY DEF Moves
                <5>2. lo[y] = t /\ lo[y] = j BY <1>3, <3>1, <5>1
                <5>3. s \in Nat /\ j \in Nat /\ t \in Nat BY <1>2
                <5>. QED BY <3>2, <5>1, <5>2, <5>3
            <4>2. x[y].parent = p BY <1>9, <4>1
            <4>3. j \in DOMAIN Below(g, s) /\ Below(g, s)[j] = y BY <3>1, <3>2 DEF Below
            <4>. QED BY <4>2, <4>3 DEF Kids
        <3>3. CASE ~(j < s)
            <4>1. s <= j /\ (j = s \/ s < j) BY <1>2, <3>3
            <4>2. y \in ids BY <3>1, <4>1 DEF Moves
            <4>3. x[y].parent = n BY <4>2
            <4>4. CASE j = s BY <1>6, <3>1, <4>3, <4>4 DEF Kids
            <4>5. CASE s < j
                <5>1. j \in DOMAIN Above(g, s) /\ Above(g, s)[j] = y BY <3>1, <4>5 DEF Above
                <5>. QED BY <1>6, <4>3, <5>1 DEF Kids
            <4>. QED BY <4>1, <4>4, <4>5
        <3>. QED BY <3>2, <3>3
    <2>. QED BY <2>2, <2>3, <2>4 DEF Kids
<1>10. ASSUME NEW y \in DOMAIN lo \ {p}, v[y].parent # p PROVE x[y].parent = v[y].parent
    <2>1. y \notin ids
        <3>1. SUFFICES ASSUME NEW j \in DOMAIN g, y = g[j] PROVE FALSE BY DEF Moves
        <3>2. y \in Kids(v[p]) BY <3>1 DEF Kids
        <3>. QED BY <1>5, <1>10, <3>2
    <2>. QED BY <2>1
<1>11. Cut(v, x, lo, p, n, s) BY <1>6, <1>7, <1>8, <1>9, <1>10 DEF Cut
<1>. QED BY <1>4, <1>11 DEF Divided

\* The halves of a full internal page are no fuller.
LEMMA HalvesFit ==
    ASSUME NEW f, DOMAIN f \subseteq Keys, Cardinality(DOMAIN f) <= MaxSeps, NEW k,
           NEW g, DOMAIN g = DOMAIN f \cup {k}, DOMAIN g \subseteq Keys, NEW s \in DOMAIN g
    PROVE  /\ Cardinality(DOMAIN Below(g, s)) <= MaxSeps
           /\ Cardinality(DOMAIN Above(g, s)) <= MaxSeps
<1>1. IsFiniteSet(DOMAIN f) /\ IsFiniteSet(DOMAIN g) /\ DOMAIN g \subseteq Nat BY KeysFinite,
    KeysNat
<1>2. PICK F, E : F = DOMAIN f /\ E = DOMAIN g \ {s} OBVIOUS
<1>3. Cardinality(F) \in Nat /\ Cardinality(DOMAIN g) \in Nat BY <1>1, <1>2, FS_CardinalityType
<1>4. Cardinality(DOMAIN g) <= Cardinality(F) + 1
    <2>1. Cardinality(F \cup {k}) = IF k \in F THEN Cardinality(F) ELSE Cardinality(F) + 1
        BY <1>1, <1>2, FS_AddElement
    <2>. QED BY <1>2, <1>3, <2>1
<1>5. IsFiniteSet(E) /\ Cardinality(E) = Cardinality(DOMAIN g) - 1 BY <1>1, <1>2, FS_RemoveElement
<1>6. Cardinality(E) <= MaxSeps /\ Cardinality(E) \in Nat
    BY <1>2, <1>3, <1>4, <1>5, RoomAssumption, FS_CardinalityType
<1>7. PICK a, b : a = DOMAIN Below(g, s) /\ b = DOMAIN Above(g, s) OBVIOUS
<1>8. a \subseteq E /\ b \subseteq E BY <1>1, <1>2, <1>7 DEF Below, Above
<1>9. Cardinality(a) <= Cardinality(E) /\ Cardinality(a) \in Nat
    BY <1>5, <1>8, FS_Subset, FS_CardinalityType
<1>10. Cardinality(b) <= Cardinality(E) /\ Cardinality(b) \in Nat
    BY <1>5, <1>8, FS_Subset, FS_CardinalityType
<1>. QED BY <1>6, <1>7, <1>9, <1>10, RoomAssumption

\* SplitInternal goes on with an internal page that is divided.
LEMMA SplitInternalMap == ASSUME MapInv, IInv', HStep, SplitInternal, Grow PROVE Done
<1>1. pc = "link" /\ ~ParentHasRoom /\ root' = root BY DEF SplitInternal
<1>2. PICK v : v = PagesLinked OBVIOUS
<1>3. PICK lo, hi : /\ Kept(v, level, root, lo, hi, Now, 0) /\ at \in DOMAIN lo /\ DOMAIN lo \subseteq Id
                    /\ at \in Id /\ pages[at].type = "internal" /\ pages[at].link # 0
                    /\ pend.sep \notin DOMAIN pages[at].slots
                    /\ v[at].slots = With(pages[at].slots, pend.sep, pend.right)
                    /\ v[at].type = "internal" /\ v[at].parent = pages[at].parent
                    /\ v[at].link = pages[at].link
                    /\ \A x \in Id \ {at} : v[x] = pages[x]
    BY <1>1, <1>2, AtParent
<1>4. IInv /\ Grown BY DEF MapInv
<1>5. /\ call.op = "insert" => before[call.key] = Null
      /\ call.op = "update" => before[call.key] # Null
      /\ Now = Set(before, call.key, call.val) /\ pend.sep \in Keys
    BY <1>1, Splitting
<1>6. PICK m : m = Set(before, call.key, call.val) OBVIOUS
<1>7. IsTree(v, level, root, lo, hi) /\ Holds(v, lo, m) /\ Filled(v, level, root, DOMAIN lo, 0)
    BY <1>3, <1>5, <1>6 DEF Kept
<1>8. PICK p, f, k, d, g : /\ p = at /\ f = pages[p].slots /\ k = pend.sep /\ d = pend.right
                           /\ g = With(f, k, d)
    OBVIOUS
<1>9. PICK i : i = First(Upper(f, k, d)) OBVIOUS
<1>10. SplitBy(f, k, d, g, i) BY <1>8, <1>9 DEF SplitBy
<1>11. /\ DOMAIN f \subseteq Keys /\ k \in Keys /\ k \notin DOMAIN f /\ Cardinality(DOMAIN f) <= MaxSeps
    <2>1. PageFine(pages[p]) /\ DOMAIN f \subseteq Keys BY <1>3, <1>4, <1>8, Basics
    <2>. QED BY <1>3, <1>5, <1>8, <2>1 DEF PageFine
<1>12. DOMAIN f # {}
    <2>1. ~(Cardinality(DOMAIN f) < MaxSeps) BY <1>1, <1>8 DEF ParentHasRoom, NumSlots
    <2>2. Cardinality({}) = 0 BY FS_EmptySet
    <2>. QED BY <2>1, <2>2, RoomAssumption
<1>13. Halved(f, k, d, g, i) BY <1>10, <1>11, Halves
<1>14. /\ DOMAIN g = DOMAIN f \cup {k} /\ i.key \in DOMAIN g /\ i.data = g[i.key]
       /\ \E j \in DOMAIN g : j < i.key
    BY <1>12, <1>13 DEF Halved
<1>15. PICK S, T : S = Lower(f, k, d) /\ T = Upper(f, k, d) \ {i} OBVIOUS
<1>16. Loaded("internal", S) = S BY <1>10, <1>11, <1>15, HalvesLoaded
<1>17. Loaded("internal", T) = T BY <1>10, <1>11, <1>15, HalvesLoaded
<1>18. SlotsOf(S) = Below(g, i.key) /\ SlotsOf(T) = Above(g, i.key)
    <2>1. /\ SlotsOf(Lower(f, k, d)) = Below(g, i.key)
          /\ SlotsOf(Upper(f, k, d)) = From(g, i.key)
          /\ SlotsOf(Upper(f, k, d) \ {i}) = Above(g, i.key)
        BY <1>10, <1>11, HalvesSlots
    <2>. QED BY <1>15, <2>1
<1>19. PICK ids : ids = {i.data} \cup {j.data : j \in T} OBVIOUS
<1>20. Moves(g, i.key, ids)
    <2>1. Moves(g, i.key, {i.data} \cup {j.data : j \in T}) BY <1>10, <1>11, <1>15, MovedChildren
    <2>. QED BY <1>19, <2>1
<1>21. PICK s, n, b, c : /\ s = i.key /\ n = Len(pages) + 1 /\ b = Below(g, s)
                         /\ c = Above(g, s) OBVIOUS
<1>22. NodeSplit(p, n, s, b, c, i.data, ids)
    <2>1. PICK U : U = Upper(f, k, d) OBVIOUS
    <2>2. /\ S = Lower(pages[at].slots, pend.sep, pend.right)
          /\ U = Upper(pages[at].slots, pend.sep, pend.right) /\ i = First(U) /\ T = U \ {i}
        BY <1>8, <1>9, <1>15, <2>1
    <2>3. NodeSplit(at, Len(pages) + 1, i.key, SlotsOf(S), SlotsOf(T), i.data,
                    {i.data} \cup {j.data : j \in T})
        BY <1>16, <1>17, <2>2, SplitInternalDoes
    <2>. QED BY <1>8, <1>18, <1>19, <1>21, <2>3
<1>23. p \in DOMAIN lo /\ v[p].type = "internal" /\ v[p].slots = g /\ p \in Id BY <1>3, <1>8
<1>24. NodeOK(v, level, lo, hi, p) BY <1>7, <1>23, InTree
<1>25. /\ \A j \in DOMAIN g : /\ lo[p] < j /\ j < hi[p] /\ g[j] \in DOMAIN lo /\ g[j] # 0
                              /\ level[g[j]] + 1 = level[p]
    <2>1. \A j \in DOMAIN g : lo[p] < j /\ j < hi[p] /\ g[j] \in DOMAIN lo BY <1>23,
        <1>24 DEF NodeOK
    <2>2. \A j \in DOMAIN g : g[j] \in Kids(v[p]) BY <1>23 DEF Kids
    <2>3. \A j \in DOMAIN g : level[g[j]] + 1 = level[p] BY <1>24, <2>2 DEF NodeOK
    <2>4. 0 \notin DOMAIN lo BY <1>7, InTree
    <2>. QED BY <2>1, <2>3, <2>4
<1>26. p \notin ids /\ n \notin ids /\ n \notin Id /\ n # 0
    <2>1. \A y \in ids : y \in DOMAIN lo /\ level[y] + 1 = level[p] BY <1>20, <1>25 DEF Moves
    <2>2. level[p] \in Nat BY <1>4, <1>23, Basics
    <2>3. p \notin ids BY <2>1, <2>2
    <2>4. n \notin Id /\ n # 0
        <3>1. Len(pages) \in Nat BY <1>4, Basics
        <3>. QED BY <1>21, <3>1 DEF Id
    <2>. QED BY <1>3, <2>1, <2>3, <2>4
<1>27. NodesAre(p, n, b, c, i.data, ids)
    <2>1. n = Len(pages) + 1 BY <1>21
    <2>. QED BY <1>4, <1>22, <1>23, <1>26, <2>1, NodePages
<1>28. PICK x : x = pages' OBVIOUS
<1>29. /\ Len(x) = n /\ DOMAIN x = Id \cup {n}
       /\ x[p].type = pages[p].type /\ x[p].parent = pages[p].parent
       /\ x[p].link = pages[p].link /\ x[p].slots = b
       /\ x[n] = Internal(pages[p].parent, i.data, c)
       /\ \A y \in Id \ {p} :
             SameBut(pages, x, y) /\ x[y].parent = IF y \in ids THEN n ELSE pages[y].parent
    BY <1>27, <1>28 DEF NodesAre
<1>30. \A y \in DOMAIN lo \ {p} :
          SameBut(v, x, y) /\ x[y].parent = IF y \in ids THEN n ELSE v[y].parent
    <2>1. TAKE y \in DOMAIN lo \ {p}
    <2>2. v[y] = pages[y] /\ y \in Id \ {p} BY <1>3, <1>8
    <2>. QED BY <1>29, <2>2 DEF SameBut
<1>31. Divided(v, level, root, lo, hi, x, p, n, s)
    <2>1. n \notin DOMAIN lo /\ n # 0 /\ DOMAIN lo \cup {n} \subseteq DOMAIN x BY <1>3, <1>26,
        <1>29
    <2>2. /\ x[p].type = "internal" /\ x[p].parent = v[p].parent /\ x[p].link = v[p].link
          /\ x[p].slots = Below(g, s) /\ x[n] = Internal(v[p].parent, g[s], Above(g, s))
        BY <1>3, <1>8, <1>14, <1>21, <1>29
    <2>3. s \in DOMAIN g /\ Moves(g, s, ids) BY <1>14, <1>20, <1>21
    <2>. QED BY <1>7, <1>23, <1>30, <2>1, <2>2, <2>3, NodeDivided
<1>32. (\A y \in Id : PageFine(x[y])) /\ PageFine(x[n])
    <2>1. DOMAIN g \subseteq Keys BY <1>11, <1>14
    <2>2. Cardinality(DOMAIN b) <= MaxSeps /\ Cardinality(DOMAIN c) <= MaxSeps
        BY <1>11, <1>14, <1>21, <2>1, HalvesFit
    <2>3. PageFine(x[p]) BY <1>3, <1>8, <1>29, <2>2 DEF PageFine
    <2>4. i.data # 0 BY <1>14, <1>25
    <2>5. PageFine(x[n]) BY <1>29, <2>2, <2>4 DEF PageFine, Internal
    <2>6. \A y \in Id \ {p} : PageFine(x[y]) BY <1>4, <1>29 DEF Grown, PageFine, SameBut
    <2>. QED BY <2>3, <2>5, <2>6
<1>33. PICK q : q = pages[p].parent OBVIOUS
<1>34. LinkRight(p, s, n, q) /\ v[p].parent = q BY <1>3, <1>8, <1>22, <1>33 DEF NodeSplit
<1>35. Divided(v, level, root, lo, hi, pages', p, n, s) /\ Len(pages') = n BY <1>28, <1>29, <1>31
<1>36. (\A y \in Id : PageFine(pages'[y])) /\ PageFine(pages'[n]) BY <1>28, <1>32
<1>37. p = at /\ n = Len(pages) + 1 BY <1>8, <1>21
<1>. QED BY <1>1, <1>3, <1>5, <1>6, <1>7, <1>33, <1>34, <1>35, <1>36, <1>37, SplitGoesOn
------------------------------------------------------------------------------
(***************************************************************************)
(* Every step                                                              *)
(***************************************************************************)
\* The invariant of HSpec.
HInv == MapInv /\ calls \in Nat

\* The empty tree holds the empty map.
LEMMA InitMap == HInit => HInv
<1>1. SUFFICES ASSUME HInit PROVE HInv OBVIOUS
<1>2. /\ pages = <<Leaf(0, 0, NoSlots)>> /\ root = 1 /\ pc = "idle" /\ level = <<0>>
      /\ before = Contents /\ calls = 0
    BY <1>1 DEF HInit, SInit, Init
<1>3. IInv BY <1>1, InitShape DEF HInit
<1>4. /\ Len(pages) = 1 /\ Id = {1} /\ DOMAIN pages = {1} /\ pages[1] = Leaf(0, 0, NoSlots)
      /\ level[1] = 0
    BY <1>2 DEF Id
<1>5. /\ pages[1].type = "leaf" /\ pages[1].parent = 0 /\ pages[1].link = 0 /\ pages[1].slots = NoSlots
    BY <1>4 DEF Leaf
<1>6. Grown
    <2>1. LeafRoom(NoSlots) >= 0 BY RoomNone, RoomAssumption
    <2>. QED BY <1>4, <1>5, <2>1 DEF Grown, PageFine
<1>7. PICK lo, hi, m : /\ lo = [x \in {1} |-> 0] /\ hi = [x \in {1} |-> KeyEnd]
                       /\ m = [k \in Keys |-> Null]
    OBVIOUS
<1>8. DOMAIN lo = {1} /\ DOMAIN hi = {1} /\ lo[1] = 0 /\ hi[1] = KeyEnd BY <1>7
<1>9. KeyEnd \in Nat /\ KeyEnd > 0
    <2>1. Max(Keys) \in Nat BY KeysAssumption
    <2>. QED BY <2>1 DEF KeyEnd
<1>10. DOMAIN NoSlots = {} BY DEF NoSlots
<1>11. Stands(pages, level, 1, lo, hi, 1)
    <2>1. LeafOK(pages, lo, hi, 1) BY <1>5, <1>8, <1>10 DEF LeafOK
    <2>. QED BY <1>4, <1>5, <1>8, <1>9, <1>10, <2>1 DEF Stands
<1>12. IsTree(pages, level, 1, lo, hi) BY <1>4, <1>5, <1>8, <1>11 DEF IsTree
<1>13. Holds(pages, lo, m)
    <2>1. \A k, d : ~Ent(pages, lo, k, d) BY <1>5, <1>8, <1>10 DEF Ent
    <2>2. \A k \in Keys, d \in Vals : m[k] # d BY <1>7, KeysAssumption
    <2>. QED BY <1>7, <2>1, <2>2 DEF Holds
<1>14. Filled(pages, level, 1, DOMAIN lo, 0) BY <1>4, <1>8 DEF Filled
<1>15. Keeps(pages, level, root, m) BY <1>2, <1>12, <1>13, <1>14 DEF Keeps, Kept
<1>16. before = m BY <1>2, <1>3, <1>6, <1>15, ContentsKept DEF FindsContents
<1>17. Placing BY <1>2, <1>15, <1>16 DEF Placing
<1>18. Asked BY <1>2, <1>7, <1>16 DEF Asked
<1>. QED BY <1>2, <1>3, <1>6, <1>17, <1>18 DEF HInv, MapInv

\* Every step of a call.
LEMMA StepMap == ASSUME SplitsFit, MapInv, IInv', HStep PROVE Done
<1>1. Step /\ Grow BY DEF HStep, SStep
<1>2. CASE Descend BY <1>1, <1>2, DescendMap
<1>3. CASE Search BY <1>1, <1>3, SearchMap
<1>4. CASE UpdateFinds BY <1>1, <1>4, UpdateFindsMap
<1>5. CASE InsertIntoLeaf BY <1>1, <1>5, InsertIntoLeafMap
<1>6. CASE InsertDuplicate BY <1>1, <1>6, InsertDuplicateMap
<1>7. CASE SplitLeaf BY <1>1, <1>7, SplitLeafMap
<1>8. CASE CreateNewRoot BY <1>1, <1>8, CreateNewRootMap
<1>9. CASE InsertIntoParent BY <1>1, <1>9, InsertIntoParentMap
<1>10. CASE SplitInternal BY <1>1, <1>10, SplitInternalMap
<1>11. CASE DeleteFromLeaf BY <1>1, <1>11, DeleteFromLeafMap
<1>12. CASE DeleteMissing BY <1>1, <1>12, DeleteMissingMap
<1>13. CASE BorrowRightLeaf BY <1>1, <1>13, BorrowRightLeafMap
<1>14. CASE BorrowLeftLeaf BY <1>1, <1>14, BorrowLeftLeafMap
<1>15. CASE MergeLeaves BY <1>1, <1>15, MergeLeavesMap
<1>16. CASE Unlink BY <1>1, <1>16, UnlinkMap
<1>17. CASE ShrinkRoot BY <1>1, <1>17, ShrinkRootMap
<1>18. CASE NothingToRepair \/ SiblingNotFound \/ UnlinkUnderflows
              \/ BorrowRightInternal \/ BorrowLeftInternal \/ MergeInternals
    BY <1>18, RepairedAlways
<1>. QED BY <1>1, <1>2, <1>3, <1>4, <1>5, <1>6, <1>7, <1>8, <1>9, <1>10, <1>11, <1>12, <1>13,
    <1>14,
            <1>15, <1>16, <1>17, <1>18 DEF Step, Insertion, Deletion

\* A step that changes nothing.
LEMMA StutterMap == ASSUME MapInv, IInv', UNCHANGED hvars PROVE Done
<1>1. /\ pages' = pages /\ root' = root /\ pc' = pc /\ call' = call /\ at' = at
      /\ pend' = pend /\ reply' = reply /\ level' = level /\ before' = before
    BY DEF hvars
<1>2. Grown' BY <1>1 DEF MapInv, Grown, Id
<1>3. Asked' BY <1>1 DEF MapInv, Asked
<1>4. Now' = Now BY <1>1 DEF Now
<1>5. PagesLinked' = PagesLinked BY <1>1 DEF PagesLinked
<1>6. PagesUnlinked' = PagesUnlinked BY <1>1 DEF PagesUnlinked
<1>7. PagesRooted' = PagesRooted BY <1>1 DEF PagesRooted
<1>8. LevelsRooted' = LevelsRooted BY <1>1 DEF LevelsRooted
<1>9. Descending' <=> Descending BY <1>1, <1>4 DEF Descending, Careful
<1>10. Linking' <=> Linking BY <1>1, <1>4, <1>5 DEF Linking
<1>11. Rooting' <=> Rooting BY <1>1, <1>4, <1>7, <1>8 DEF Rooting
<1>12. Fixing' <=> Fixing BY <1>1, <1>4 DEF Fixing
<1>13. Unlinking' <=> Unlinking BY <1>1, <1>4, <1>6 DEF Unlinking
<1>14. Placing' BY <1>1, <1>9, <1>10, <1>11, <1>12, <1>13 DEF MapInv, Placing
<1>. QED BY <1>1, <1>2, <1>3, <1>14, Inner DEF Done, MapInv

\* Every step keeps the invariant and is one the map of KVStore allows, or none.
LEMMA NextMap ==
    ASSUME SplitsFit, Preload = <<>>, Avoid = {"duplicate", "tallUnderflow"},
           HInv, [HNext]_hvars
    PROVE  HInv' /\ StoreStep
<1>1. IInv'
    <2>1. [SNext]_svars
        <3>1. CASE HStep BY <3>1 DEF HStep, SNext
        <3>2. CASE \E req \in Expected :
                     SCall(req) /\ calls' = calls + 1 /\ UNCHANGED before
            <4>1. PICK req \in Expected : SCall(req) BY <3>2
            <4>2. req \in Requests BY DEF Expected
            <4>. QED BY <4>1, <4>2 DEF SNext
        <3>3. CASE UNCHANGED hvars BY <3>3 DEF hvars, svars
        <3>. QED BY <3>1, <3>2, <3>3 DEF HNext
    <2>. QED BY <2>1, StepShape DEF HInv, MapInv
<1>2. CASE HStep
    <2>1. Done BY <1>1, <1>2, StepMap DEF HInv
    <2>2. calls' = calls BY <1>2 DEF HStep
    <2>. QED BY <2>1, <2>2 DEF Done, HInv
<1>3. CASE \E req \in Expected : SCall(req) /\ calls' = calls + 1 /\ UNCHANGED before
    <2>1. PICK req \in Expected : SCall(req) /\ calls' = calls + 1 /\ UNCHANGED before BY <1>3
    <2>2. Done BY <1>1, <2>1, CallMap DEF HInv
    <2>. QED BY <2>1, <2>2 DEF Done, HInv
<1>4. CASE UNCHANGED hvars
    <2>1. Done BY <1>1, <1>4, StutterMap DEF HInv
    <2>2. calls' = calls BY <1>4 DEF hvars
    <2>. QED BY <2>1, <2>2 DEF Done, HInv
<1>. QED BY <1>2, <1>3, <1>4 DEF HNext

\* Whatever calls are made, but those of Avoid, the pages keep the map as MapInv says, if
\* no half of a leaf that is split is too large for its page.
THEOREM TreeMapInvariant ==
    ASSUME SplitsFit, Preload = <<>>, Avoid = {"duplicate", "tallUnderflow"}
    PROVE  HSpec => []HInv
<1>1. HInit => HInv BY InitMap
<1>2. HInv /\ [HNext]_hvars => HInv' BY NextMap
<1>. QED BY <1>1, <1>2, PTL DEF HSpec

\* Then every answer of search, insert, update and delete, and every change of what a
\* search finds, is one that KVStore allows: the splits of btree.py at any depth, and the
\* borrows and merges of leaves below the root, cannot be told from a map.
THEOREM TreeImplementsStore ==
    ASSUME SplitsFit, Preload = <<>>, Avoid = {"duplicate", "tallUnderflow"}
    PROVE  HSpec => ImplementsStore
<1>1. HInit => Store!Init
    <2>1. SUFFICES ASSUME HInit PROVE Store!Init OBVIOUS
    <2>2. /\ HInv /\ pc = "idle" /\ call = NoCall /\ reply = "none"
          /\ pages = <<Leaf(0, 0, NoSlots)>> /\ root = 1
        BY <2>1, InitMap DEF HInit, SInit, Init
    <2>3. before = [k \in Keys |-> Null]
        <3>1. PICK lo, hi, m : Kept(pages, level, root, lo, hi, m, 0) /\ m = before
            BY <2>2 DEF HInv, MapInv, Placing, Keeps
        <3>2. Holds(pages, lo, m) /\ IsTree(pages, level, root, lo, hi) BY <3>1 DEF Kept
        <3>3. DOMAIN pages = {1} /\ pages[1] = Leaf(0, 0, NoSlots) BY <2>2
        <3>4. pages[1].slots = NoSlots /\ DOMAIN lo \subseteq {1}
            BY <3>2, <3>3, InTree DEF Leaf
        <3>5. \A k, d : ~Ent(pages, lo, k, d) BY <3>4 DEF Ent, NoSlots
        <3>6. m \in [Keys -> Vals \cup {Null}] /\ \A k \in Keys, d \in Vals : m[k] # d
            BY <3>2, <3>5 DEF Holds
        <3>7. \A k \in Keys : m[k] = Null BY <3>6
        <3>. QED BY <3>1, <3>6, <3>7
    <2>. QED BY <2>2, <2>3 DEF Store!Init, Store!NoRequest, NoCall
<1>2. HInv /\ [HNext]_hvars => StoreStep BY NextMap
<1>3. StoreStep => [Store!Next]_(Store!vars) BY DEF StoreStep, Store!vars
<1>. QED BY <1>1, <1>2, <1>3, TreeMapInvariant, PTL DEF HSpec, ImplementsStore, Store!Spec
------------------------------------------------------------------------------
(***************************************************************************)
(* What follows between calls                                              *)
(***************************************************************************)
\* Between calls the pages that a search can reach are a tree.
Settled(lo, hi) ==
    /\ Sound(lo, hi) /\ IsTree(pages, level, root, lo, hi) /\ Reachable = DOMAIN lo
    /\ Filled(pages, level, root, DOMAIN lo, 0)

\* They are, when no call is in progress.
LEMMA Settles ==
    ASSUME HInv, pc = "idle"
    PROVE  \E lo, hi : Settled(lo, hi)
<1>1. IInv /\ Grown /\ Placing BY DEF HInv, MapInv
<1>2. PICK lo, hi : Kept(pages, level, root, lo, hi, before, 0) BY <1>1 DEF Placing, Keeps
<1>3. IsTree(pages, level, root, lo, hi) /\ Filled(pages, level, root, DOMAIN lo, 0)
    BY <1>2 DEF Kept
<1>4. Sound(lo, hi) BY <1>1, <1>3, Basics DEF Sound, IInv
<1>5. level[root] < Len(pages) BY <1>1, Basics
<1>6. Reachable = DOMAIN lo BY <1>4, <1>5, ReachableIs
<1>. QED BY <1>3, <1>4, <1>6 DEF Settled

\* The parent fields of a tree agree with the pages above.
LEMMA ParentsAgree == HInv => ParentFieldsAgree
<1>1. SUFFICES ASSUME HInv, pc = "idle"
               PROVE  /\ pages[root].parent = 0
                      /\ \A p \in Reachable : \A c \in Children(p) : pages[c].parent = p
    BY DEF ParentFieldsAgree
<1>2. PICK lo, hi : Settled(lo, hi) BY <1>1, Settles
<1>3. IsTree(pages, level, root, lo, hi) /\ Reachable = DOMAIN lo BY <1>2 DEF Settled
<1>4. pages[root].parent = 0 BY <1>3, InTree
<1>5. ASSUME NEW p \in DOMAIN lo, NEW c \in Children(p) PROVE pages[c].parent = p
    <2>1. pages[p].type = "internal" BY <1>3, <1>5, LeafLevel DEF Children
    <2>2. c \in Kids(pages[p]) BY <1>5, <2>1 DEF Children, Kids
    <2>. QED BY <1>3, <1>5, <2>1, <2>2, RefsIn
<1>. QED BY <1>3, <1>4, <1>5

\* A key is in the leaf that it belongs to, which is the one a search comes to.
LEMMA KeysAreFound == HInv => EveryStoredKeyIsFound
<1>1. SUFFICES ASSUME HInv, pc = "idle", NEW p \in ReachableLeaves,
                      NEW k \in DOMAIN pages[p].slots
               PROVE  LeafFor(k) = p
    BY DEF EveryStoredKeyIsFound
<1>2. PICK lo, hi : Settled(lo, hi) BY <1>1, Settles
<1>3. /\ IsTree(pages, level, root, lo, hi) /\ Sound(lo, hi)
      /\ p \in DOMAIN lo /\ pages[p].type = "leaf"
    BY <1>1, <1>2 DEF Settled, ReachableLeaves
<1>4. k \in Keys BY <1>1, <1>3, LeafHas
<1>5. k \in Nat /\ k < KeyEnd BY <1>4, KeyBelowEnd
<1>6. /\ LeafFor(k) \in DOMAIN lo /\ pages[LeafFor(k)].type = "leaf"
      /\ Inside(lo, hi, LeafFor(k), k)
    BY <1>3, <1>5, SearchEnds
<1>. QED BY <1>1, <1>3, <1>6, OneLeaf

\* Two leaves that end at one key are one leaf.
LEMMA EndsOnce ==
    ASSUME NEW v, NEW lv, NEW r, NEW lo, NEW hi, IsTree(v, lv, r, lo, hi),
           NEW p \in DOMAIN lo, NEW q \in DOMAIN lo, v[p].type = "leaf", v[q].type = "leaf",
           hi[p] = hi[q]
    PROVE  p = q
<1>1. hi[p] - 1 \in Nat /\ Inside(lo, hi, p, hi[p] - 1) BY Ends
<1>2. Inside(lo, hi, q, hi[q] - 1) BY Ends
<1>3. lv[p] = 0 /\ lv[q] = 0 BY LeafLevel
<1>. QED BY <1>1, <1>2, <1>3, Apart

\* The link of a leaf names the leaf that begins where it ends.
LEMMA LeavesAreChained == HInv => LeafChain
<1>1. SUFFICES ASSUME HInv, pc = "idle"
      PROVE /\ \A p \in ReachableLeaves : pages[p].link \in ReachableLeaves \cup {0}
            /\ \A p, q \in ReachableLeaves : pages[p].link = pages[q].link => p = q
            /\ \A p \in ReachableLeaves : pages[p].link # 0 =>
                 \A j \in DOMAIN pages[p].slots, k \in DOMAIN pages[pages[p].link].slots : j < k
    BY DEF LeafChain
<1>2. PICK lo, hi : Settled(lo, hi) BY <1>1, Settles
<1>3. IsTree(pages, level, root, lo, hi) BY <1>2 DEF Settled
<1>4. \A p : p \in ReachableLeaves <=> p \in DOMAIN lo /\ pages[p].type = "leaf"
    BY <1>2 DEF Settled, ReachableLeaves
<1>5. ASSUME NEW p \in DOMAIN lo, pages[p].type = "leaf"
      PROVE  /\ pages[p].link = 0 => hi[p] = KeyEnd
             /\ pages[p].link # 0 => /\ pages[p].link \in DOMAIN lo /\ pages[pages[p].link].type = "leaf"
                                     /\ lo[pages[p].link] = hi[p]
    <2>1. LeafOK(pages, lo, hi, p) BY <1>3, <1>5, InTree
    <2>. QED BY <2>1 DEF LeafOK
<1>6. \A p \in ReachableLeaves : pages[p].link \in ReachableLeaves \cup {0} BY <1>4, <1>5
<1>7. ASSUME NEW p \in ReachableLeaves, NEW q \in ReachableLeaves, pages[p].link = pages[q].link
      PROVE  p = q
    <2>1. hi[p] = hi[q] BY <1>4, <1>5, <1>7
    <2>. QED BY <1>3, <1>4, <1>7, <2>1, EndsOnce
<1>8. ASSUME NEW p \in ReachableLeaves, pages[p].link # 0,
             NEW j \in DOMAIN pages[p].slots, NEW k \in DOMAIN pages[pages[p].link].slots
      PROVE  j < k
    <2>1. /\ p \in DOMAIN lo /\ pages[p].link \in DOMAIN lo
          /\ pages[p].type = "leaf" /\ pages[pages[p].link].type = "leaf"
          /\ lo[pages[p].link] = hi[p]
        BY <1>4, <1>5, <1>8
    <2>2. j \in Nat /\ Inside(lo, hi, p, j) BY <1>3, <1>8, <2>1, LeafHas
    <2>3. k \in Nat /\ Inside(lo, hi, pages[p].link, k) BY <1>3, <1>8, <2>1, LeafHas
    <2>4. hi[p] \in Nat BY <1>3, <2>1, Ends
    <2>. QED BY <2>1, <2>2, <2>3, <2>4 DEF Inside
<1>. QED BY <1>6, <1>7, <1>8

\* No leaf of the tree waits for a repair.
LEMMA LeavesAreFilled == HInv => NoEmptyLeaf
<1>1. SUFFICES ASSUME HInv, pc = "idle", NEW p \in ReachableLeaves \ {root}
               PROVE  DOMAIN pages[p].slots # {}
    BY DEF NoEmptyLeaf
<1>2. PICK lo, hi : Settled(lo, hi) BY <1>1, Settles
<1>3. /\ IsTree(pages, level, root, lo, hi) /\ Filled(pages, level, root, DOMAIN lo, 0)
      /\ p \in DOMAIN lo /\ p # root /\ pages[p].type = "leaf"
    BY <1>1, <1>2 DEF Settled, ReachableLeaves
<1>4. p # 0 BY <1>3, InTree
<1>. QED BY <1>3, <1>4 DEF Filled

\* Between calls the parent field of every page of the tree names the page above it.
THEOREM StoreParentFieldsAgree ==
    ASSUME SplitsFit, Preload = <<>>, Avoid = {"duplicate", "tallUnderflow"}
    PROVE  HSpec => []ParentFieldsAgree
BY TreeMapInvariant, ParentsAgree, PTL

\* Between calls every key in a leaf is found where it is, and nowhere else.
THEOREM StoreEveryStoredKeyIsFound ==
    ASSUME SplitsFit, Preload = <<>>, Avoid = {"duplicate", "tallUnderflow"}
    PROVE  HSpec => []EveryStoredKeyIsFound
BY TreeMapInvariant, KeysAreFound, PTL

\* Between calls the next_sibling fields chain the leaves in key order.
THEOREM StoreLeafChain ==
    ASSUME SplitsFit, Preload = <<>>, Avoid = {"duplicate", "tallUnderflow"}
    PROVE  HSpec => []LeafChain
BY TreeMapInvariant, LeavesAreChained, PTL

\* Between calls no leaf but the root is empty: every underflow is repaired.  Where
\* "tallUnderflow" is avoided, these are the underflows in trees of two levels.
THEOREM StoreNoEmptyLeaf ==
    ASSUME SplitsFit, Preload = <<>>, Avoid = {"duplicate", "tallUnderflow"}
    PROVE  HSpec => []NoEmptyLeaf
BY TreeMapInvariant, LeavesAreFilled, PTL
==============================================================================
