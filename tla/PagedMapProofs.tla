---------------------------- MODULE PagedMapProofs ----------------------------
(***************************************************************************)
(* A database of pages in a small cache is the map of KVStore: every step  *)
(* of PagedStore is a step of KVStore or changes nothing that a caller     *)
(* sees.                                                                   *)
(*                                                                         *)
(* The value of a slot is read along a chain of pages, so Chains is a      *)
(* recursive function.  That the pages define it, and only one such        *)
(* function, is not shown by induction over the pages but kept as part of  *)
(* the invariant: it holds of the empty file, and stays true when a page   *)
(* is added that points to one that is there.                              *)
(***************************************************************************)
EXTENDS PagedStoreProofs

\* c gives the chunks from each page of m to the end of its chain.
Follows(c, m) ==
    c = [id \in DOMAIN m |->
           IF id = 0 THEN <<>> ELSE Joined(<<m[id].chunk>>, c[m[id].next])]

Bits == {NoChunk} \cup (Vals \X Nat)

\* The chains of the pages m end, and c has them.
Chained(c, m) ==
    /\ Follows(c, m) /\ \A d : Follows(d, m) => d = c
    /\ \A id \in DOMAIN m : m[id].chunk \in Bits /\ c[id] \in Seq(Bits)

SlotOK(c, slot) ==
    /\ slot.first \in DOMAIN c
    /\ IF slot.first = 0 THEN slot.val \in Vals
       ELSE \E v \in Vals : Chunks[v] > 0 /\ c[slot.first] = ChunksOf(v)

LeafOK(c, page) ==
    page = Leaf(page.slots) /\ \A k \in DOMAIN page.slots : SlotOK(c, page.slots[k])

ValueAt(c, slot) == IF slot.first = 0 THEN slot.val ELSE Decoded(c[slot.first])
MapOf(c, slots)  == [k \in Keys |-> IF k \in DOMAIN slots THEN ValueAt(c, slots[k]) ELSE Null]

\* The end of the chunks of v, from the one after the i-th.
ChunksFrom(v, i) == [j \in 1 .. Chunks[v] - i |-> <<v, i + j>>]

\* What the leaf holds in the middle of a call.
Now == IF call.op = "update" /\ pc \in {"insert", "write", "entry"}
       THEN [before EXCEPT ![call.key] = Null] ELSE before

StoredOK(c) ==
    LET page == Visible(pager, root)
    IN  /\ before \in [Keys -> Vals \cup {Null}]
        /\ Visible(pager, 0).root = root
        /\ IF root = 0 THEN pc = "closed" /\ before = [k \in Keys |-> Null]
           ELSE root \in DOMAIN pager.file /\ LeafOK(c, page) /\ MapOf(c, page.slots) = Now
        /\ pc \in {"insert", "write", "entry", "delete"} /\ call.op = "update" =>
             before[call.key] # Null

\* A chain half read or half written.
ChainOK(c) ==
    /\ pc \in {"closed", "idle", "search"} => bytes = <<>>
    /\ pc = "read" =>
         /\ bytes \in Seq(Bits) /\ next # 0
         /\ call.key \in DOMAIN Slots /\ Slots[call.key].first # 0
         /\ Joined(bytes, c[next]) = c[Slots[call.key].first]
    /\ pc = "write" => c[next] = ChunksFrom(call.val, left)
    /\ pc = "entry" => IF next = 0 THEN Chunks[call.val] = 0
                       ELSE Chunks[call.val] > 0 /\ c[next] = ChunksOf(call.val)

MapInv ==
    LET c == Chains(pager) IN Chained(c, Seen(pager)) /\ StoredOK(c) /\ ChainOK(c)
------------------------------------------------------------------------------
(***************************************************************************)
(* Chunks and chains.                                                      *)
(***************************************************************************)
LEMMA BitsSeq ==
    ASSUME NEW s \in Seq(Bits), NEW t \in Seq(Bits), NEW x \in Bits
    PROVE  /\ Joined(s, t) \in Seq(Bits) /\ Joined(<<x>>, t) \in Seq(Bits)
           /\ Append(s, x) \in Seq(Bits)
           /\ Joined(Append(s, x), t) = Joined(s, Joined(<<x>>, t))
           /\ Joined(s, Joined(<<x>>, <<>>)) = Append(s, x)
<1>1. <<x>> \in Seq(Bits) /\ Append(s, x) \in Seq(Bits) OBVIOUS
<1>2. Append(s, x) = s \o <<x>> BY AppendIsConcat
<1>3. (s \o <<x>>) \o t = s \o (<<x>> \o t) BY <1>1, ConcatAssociative
<1>4. <<x>> \o <<>> = <<x>> BY <1>1, ConcatEmptySeq
<1>5. s \o t \in Seq(Bits) /\ <<x>> \o t \in Seq(Bits) BY <1>1, ConcatProperties
<1>6. s \o (<<x>> \o <<>>) = Append(s, x) BY <1>2, <1>4
<1>7. Append(s, x) \o t = s \o (<<x>> \o t) BY <1>2, <1>3
<1>8. Joined(Append(s, x), t) = Joined(s, Joined(<<x>>, t)) BY <1>7, Zenon DEF Joined
<1>9. Joined(s, Joined(<<x>>, <<>>)) = Append(s, x) BY <1>6, Zenon DEF Joined
<1>10. Joined(s, t) \in Seq(Bits) /\ Joined(<<x>>, t) \in Seq(Bits)
    BY <1>5, Zenon DEF Joined
<1>. QED BY <1>1, <1>8, <1>9, <1>10, Zenon

\* A chunk in front of others.
LEMMA JoinedOne ==
    ASSUME NEW S, NEW x \in S, NEW t \in Seq(S), NEW m \in Nat, Len(t) = m
    PROVE  /\ Joined(<<x>>, t) \in Seq(S)
           /\ Len(Joined(<<x>>, t)) = 1 + m
           /\ Joined(<<x>>, t)[1] = x
           /\ \A i \in 1 .. m : Joined(<<x>>, t)[1 + i] = t[i]
<1>1. <<x>> \in Seq(S) /\ Len(<<x>>) = 1 /\ <<x>>[1] = x OBVIOUS
<1>2. PICK a \in Seq(S) : a = <<x>> BY <1>1
<1>3. Joined(a, t) = a \o t BY DEF Joined
<1>4. PICK u : u = a \o t OBVIOUS
<1>5. u \in Seq(S) /\ Len(u) = Len(a) + Len(t)
      /\ \A i \in 1 .. Len(a) + Len(t) : u[i] = IF i <= Len(a) THEN a[i] ELSE t[i - Len(a)]
   BY <1>4, ConcatProperties
<1>6. Len(a) = 1 /\ a[1] = x BY <1>1, <1>2
<1>7. u[1] = x 
    <2>1. 1 \in 1 .. Len(a) + Len(t) /\ 1 <= Len(a) BY <1>6
    <2>. QED BY <2>1, <1>5, <1>6
<1>8. ASSUME NEW i \in 1 .. m PROVE u[1 + i] = t[i] 
    <2>1. 1 + i \in 1 .. Len(a) + Len(t) /\ ~(1 + i <= Len(a)) /\ (1 + i) - Len(a) = i BY <1>6
    <2>. QED BY <2>1, <1>5
<1>9. Len(u) = 1 + m BY <1>5, <1>6
<1>10. Joined(<<x>>, t) = u BY <1>2, <1>3, <1>4
<1>. QED BY <1>5, <1>7, <1>8, <1>9, <1>10

\* One chunk more in front.
LEMMA ChunkBefore ==
    ASSUME NEW v \in Vals, NEW i \in 1 .. Chunks[v]
    PROVE  Joined(<<<<v, i>>>>, ChunksFrom(v, i)) = ChunksFrom(v, i - 1)
<1>1. PICK n \in Nat : n = Chunks[v] BY ChainAssumption
<1>2. PICK a : a = <<<<v, i>>>> OBVIOUS
<1>3. PICK b : b = ChunksFrom(v, i) OBVIOUS
<1>4. PICK m \in Nat : m = n - i BY <1>1
<1>5. b = [j \in 1 .. m |-> <<v, i + j>>] BY <1>1, <1>3, <1>4 DEF ChunksFrom
<1>7. b \in Seq(Vals \X Nat) /\ Len(b) = m
    <2>1. \A j \in 1 .. m : <<v, i + j>> \in Vals \X Nat BY <1>1
    <2>. QED BY <2>1, <1>5
<1>8. PICK s : s = Joined(a, b) OBVIOUS
<1>9. /\ s \in Seq(Vals \X Nat) /\ Len(s) = 1 + m /\ s[1] = <<v, i>>
      /\ \A j \in 1 .. m : s[1 + j] = b[j]
    <2>1. PICK x : x = <<v, i>> OBVIOUS
    <2>2. x \in Vals \X Nat BY <2>1, <1>1
    <2>3. s = Joined(<<x>>, b) BY <2>1, <1>2, <1>8
    <2>4. PICK S : S = Vals \X Nat OBVIOUS
    <2>5. x \in S /\ b \in Seq(S) /\ Len(b) = m BY <2>2, <2>4, <1>7
    <2>6. s \in Seq(S) /\ Len(s) = 1 + m /\ s[1] = x /\ \A j \in 1 .. m : s[1 + j] = b[j]
        BY <2>3, <2>5, JoinedOne
    <2>. QED BY <2>1, <2>4, <2>6
<1>10. ASSUME NEW j \in 1 .. 1 + m PROVE s[j] = <<v, i - 1 + j>>
    <2>1. CASE j = 1
        <3>1. i - 1 + j = i BY <2>1, <1>1
        <3>. QED BY <3>1, <2>1, <1>9
    <2>2. CASE j # 1
        <3>1. j - 1 \in 1 .. m /\ i + (j - 1) = i - 1 + j /\ 1 + (j - 1) = j
            BY <2>2, <1>1
        <3>2. b[j - 1] = <<v, i + (j - 1)>> BY <3>1, <1>5
        <3>3. s[1 + (j - 1)] = b[j - 1] BY <3>1, <1>9
        <3>. QED BY <3>1, <3>2, <3>3
    <2>. QED BY <2>1, <2>2
<1>11. s = [j \in 1 .. 1 + m |-> s[j]] BY <1>9
<1>12. n - (i - 1) = 1 + m BY <1>1, <1>4
<1>13. ChunksFrom(v, i - 1) = [j \in 1 .. 1 + m |-> <<v, i - 1 + j>>]
    BY <1>1, <1>12 DEF ChunksFrom
<1>. QED BY <1>2, <1>3, <1>8, <1>10, <1>11, <1>13

\* All chunks, no chunk, and the value that all chunks make.
LEMMA ChunkEnds ==
    ASSUME NEW v \in Vals
    PROVE  /\ ChunksFrom(v, 0) = ChunksOf(v) /\ ChunksFrom(v, Chunks[v]) = <<>>
           /\ Chunks[v] > 0 => Decoded(ChunksOf(v)) = v
<1>1. PICK n \in Nat : n = Chunks[v] BY ChainAssumption
<1>2. ChunksFrom(v, 0) = ChunksOf(v)
    <2>1. n - 0 = n /\ \A j \in 1 .. n : 0 + j = j BY <1>1
    <2>. QED BY <2>1, <1>1 DEF ChunksFrom, ChunksOf
<1>3. ChunksFrom(v, n) = <<>>
    <2>1. 1 .. n - n = {} BY <1>1
    <2>. QED BY <2>1, <1>1 DEF ChunksFrom
<1>4. ASSUME n > 0 PROVE Decoded(ChunksOf(v)) = v
    <2>1. ASSUME NEW w \in Vals, ChunksOf(w) = ChunksOf(v) PROVE w = v
        <3>1. DOMAIN ChunksOf(v) = 1 .. n /\ DOMAIN ChunksOf(w) = 1 .. Chunks[w]
            BY <1>1 DEF ChunksOf
        <3>2. 1 \in 1 .. n BY <1>4
        <3>3. ChunksOf(v)[1] = <<v, 1>> BY <3>2, <1>1 DEF ChunksOf
        <3>4. ChunksOf(w)[1] = <<w, 1>> BY <3>1, <3>2, <2>1 DEF ChunksOf
        <3>. QED BY <3>3, <3>4, <2>1
    <2>. QED BY <2>1 DEF Decoded
<1>. QED BY <1>1, <1>2, <1>3, <1>4
------------------------------------------------------------------------------
\* Chains is the function the pages define, when they define one.
LEMMA ChainsAre ==
    ASSUME NEW p, NEW c, Chained(c, Seen(p))
    PROVE  Chains(p) = c
<1>1. PICK m : m = Seen(p) OBVIOUS
<1>2. Follows(c, m) /\ \A d : Follows(d, m) => d = c BY <1>1 DEF Chained
<1>3. DOMAIN m = DOMAIN p.file /\ \A id \in DOMAIN p.file : m[id] = Visible(p, id)
    BY <1>1 DEF Seen
<1>. DEFINE F(f) == f = [id \in DOMAIN p.file |->
                           IF id = 0 THEN <<>>
                           ELSE <<Visible(p, id).chunk>> \o f[Visible(p, id).next]]
<1>4. ASSUME NEW f PROVE F(f) <=> Follows(f, m)
    <2>1. \A id \in DOMAIN p.file :
            (IF id = 0 THEN <<>> ELSE <<Visible(p, id).chunk>> \o f[Visible(p, id).next])
            = (IF id = 0 THEN <<>> ELSE Joined(<<m[id].chunk>>, f[m[id].next]))
        BY <1>3 DEF Joined
    <2>. QED BY <2>1, <1>3 DEF Follows
<1>5. Chains(p) = CHOOSE f : F(f) BY Zenon DEF Chains
<1>. HIDE DEF F
<1>6. F(CHOOSE f : F(f)) BY <1>2, <1>4, Zenon
<1>. QED BY <1>2, <1>4, <1>5, <1>6

\* A page is added at the head of a chain that is there.
LEMMA ChainGrown ==
    ASSUME NEW m, NEW c, Chained(c, m), \A id \in DOMAIN m : m[id].next \in DOMAIN m,
           NEW n, n \notin DOMAIN m, n # 0,
           NEW data, data.next \in DOMAIN m, data.chunk \in Bits
    PROVE  Chained(With(c, n, Joined(<<data.chunk>>, c[data.next])), With(m, n, data))
<1>1. PICK e : e = Joined(<<data.chunk>>, c[data.next]) OBVIOUS
<1>2. PICK d : d = With(c, n, e) OBVIOUS
<1>3. PICK k : k = With(m, n, data) OBVIOUS
<1>4. /\ DOMAIN k = DOMAIN m \cup {n} /\ k[n] = data
      /\ \A id \in DOMAIN m : k[id] = m[id]
    BY <1>3 DEF With
<1>5. Follows(c, m) /\ DOMAIN c = DOMAIN m BY DEF Chained, Follows
<1>6. /\ DOMAIN d = DOMAIN k /\ d[n] = e /\ d = [id \in DOMAIN k |-> d[id]]
      /\ \A id \in DOMAIN m : d[id] = c[id]
    BY <1>2, <1>4, <1>5 DEF With
<1>7. \A id \in DOMAIN m :
        c[id] = IF id = 0 THEN <<>> ELSE Joined(<<m[id].chunk>>, c[m[id].next])
    BY <1>5 DEF Follows
<1>8. ASSUME NEW id \in DOMAIN k
      PROVE  d[id] = IF id = 0 THEN <<>> ELSE Joined(<<k[id].chunk>>, d[k[id].next])
    <2>1. CASE id = n BY <2>1, <1>1, <1>4, <1>6
    <2>2. CASE id \in DOMAIN m BY <2>2, <1>4, <1>6, <1>7
    <2>. QED BY <2>1, <2>2, <1>4
<1>9. Follows(d, k) BY <1>6, <1>8 DEF Follows
<1>10. ASSUME NEW f, Follows(f, k) PROVE f = d
    <2>1. f = [id \in DOMAIN k |-> f[id]]
          /\ \A id \in DOMAIN k :
               f[id] = IF id = 0 THEN <<>> ELSE Joined(<<k[id].chunk>>, f[k[id].next])
        BY <1>10 DEF Follows
    <2>2. PICK r : r = [id \in DOMAIN m |-> f[id]] OBVIOUS
    <2>3. ASSUME NEW id \in DOMAIN m
          PROVE  r[id] = IF id = 0 THEN <<>> ELSE Joined(<<m[id].chunk>>, r[m[id].next])
        BY <2>1, <2>2, <1>4
    <2>4. Follows(r, m) BY <2>2, <2>3 DEF Follows
    <2>5. r = c BY <2>4 DEF Chained
    <2>6. \A id \in DOMAIN m : f[id] = d[id] BY <2>2, <2>5, <1>6
    <2>7. f[n] = Joined(<<data.chunk>>, f[data.next]) BY <2>1, <1>4
    <2>8. f[data.next] = c[data.next]
        <3>1. PICK x : x = data.next OBVIOUS
        <3>2. x \in DOMAIN m BY <3>1
        <3>3. f[x] = d[x] /\ d[x] = c[x] BY <3>2, <2>6, <1>6, Zenon
        <3>. QED BY <3>1, <3>3, Zenon
    <2>9. f[n] = d[n] BY <2>7, <2>8, <1>1, <1>6
    <2>10. \A id \in DOMAIN k : f[id] = d[id] BY <2>6, <2>9, <1>4
    <2>. QED BY <2>1, <2>10, <1>6
<1>11. \A id \in DOMAIN k : k[id].chunk \in Bits /\ d[id] \in Seq(Bits)
    <2>1. \A id \in DOMAIN m : m[id].chunk \in Bits /\ c[id] \in Seq(Bits) BY DEF Chained
    <2>2. e \in Seq(Bits) BY <2>1, <1>1, BitsSeq
    <2>. QED BY <2>1, <2>2, <1>4, <1>6
<1>12. Chained(d, k) BY <1>9, <1>10, <1>11 DEF Chained
<1>. QED BY <1>1, <1>2, <1>3, <1>12

\* A page is changed and its chunk and the page after it are not; no chain reads page 0.
LEMMA ChainKept ==
    ASSUME NEW m, NEW c, Chained(c, m), NEW n \in DOMAIN m,
           NEW data, data.chunk \in Bits,
           n # 0 => data.next = m[n].next /\ data.chunk = m[n].chunk
    PROVE  Chained(c, [m EXCEPT ![n] = data])
<1>1. PICK k : k = [m EXCEPT ![n] = data] OBVIOUS
<1>2. /\ DOMAIN k = DOMAIN m
      /\ \A id \in DOMAIN m \ {0} : k[id].next = m[id].next /\ k[id].chunk = m[id].chunk
    BY <1>1
<1>3. ASSUME NEW f PROVE Follows(f, k) <=> Follows(f, m)
    <2>1. \A id \in DOMAIN m :
            (IF id = 0 THEN <<>> ELSE Joined(<<k[id].chunk>>, f[k[id].next]))
            = (IF id = 0 THEN <<>> ELSE Joined(<<m[id].chunk>>, f[m[id].next]))
        BY <1>2
    <2>. QED BY <2>1, <1>2 DEF Follows
<1>4. \A id \in DOMAIN m : m[id].chunk \in Bits BY DEF Chained
<1>5. \A id \in DOMAIN k : k[id].chunk \in Bits BY <1>1, <1>2, <1>4
<1>6. Chained(c, k) BY <1>2, <1>3, <1>5 DEF Chained
<1>. QED BY <1>1, <1>6
------------------------------------------------------------------------------
(***************************************************************************)
(* The map that a leaf and the chains of its slots hold.                   *)
(***************************************************************************)
Extends(d, c) == DOMAIN c \subseteq DOMAIN d /\ \A id \in DOMAIN c : d[id] = c[id]

\* A slot holds a value.
LEMMA SlotHolds ==
    ASSUME NEW c, NEW slot, SlotOK(c, slot)
    PROVE  ValueAt(c, slot) \in Vals /\ ValueAt(c, slot) # Null
<1>1. CASE slot.first = 0
    <2>1. ValueAt(c, slot) = slot.val /\ slot.val \in Vals BY <1>1 DEF SlotOK, ValueAt
    <2>. QED BY <2>1, ChainAssumption
<1>2. CASE slot.first # 0
    <2>1. PICK v \in Vals : Chunks[v] > 0 /\ c[slot.first] = ChunksOf(v)
        BY <1>2 DEF SlotOK
    <2>2. ValueAt(c, slot) = v BY <2>1, <1>2, ChunkEnds DEF ValueAt
    <2>. QED BY <2>2, ChainAssumption
<1>. QED BY <1>1, <1>2

\* A key is in the leaf if and only if the map has it.
LEMMA KeyThere ==
    ASSUME NEW c, NEW page, LeafOK(c, page), NEW k \in Keys
    PROVE  k \in DOMAIN page.slots <=> MapOf(c, page.slots)[k] # Null
<1>1. ASSUME k \in DOMAIN page.slots PROVE ValueAt(c, page.slots[k]) # Null
    BY <1>1, SlotHolds DEF LeafOK
<1>. QED BY <1>1 DEF MapOf

\* The types that MapInv implies.
LEMMA MapType ==
    ASSUME NEW c, NEW page, LeafOK(c, page)
    PROVE  MapOf(c, page.slots) \in [Keys -> Vals \cup {Null}]
<1>1. \A k \in DOMAIN page.slots : ValueAt(c, page.slots[k]) \in Vals
    BY SlotHolds DEF LeafOK
<1>. QED BY <1>1 DEF MapOf

\* New pages take nothing from the map.
LEMMA MapKept ==
    ASSUME NEW c, NEW d, Extends(d, c), NEW page, LeafOK(c, page)
    PROVE  LeafOK(d, page) /\ MapOf(d, page.slots) = MapOf(c, page.slots)
<1>1. ASSUME NEW slot, SlotOK(c, slot)
      PROVE  SlotOK(d, slot) /\ ValueAt(d, slot) = ValueAt(c, slot)
    <2>1. slot.first \in DOMAIN c BY <1>1 DEF SlotOK
    <2>2. slot.first \in DOMAIN d /\ d[slot.first] = c[slot.first] BY <2>1 DEF Extends
    <2>. QED BY <2>2, <1>1 DEF SlotOK, ValueAt
<1>2. \A k \in DOMAIN page.slots :
        SlotOK(d, page.slots[k]) /\ ValueAt(d, page.slots[k]) = ValueAt(c, page.slots[k])
    BY <1>1 DEF LeafOK
<1>. QED BY <1>2 DEF LeafOK, MapOf

\* A leaf with one slot more.
LEMMA MapWith ==
    ASSUME NEW c, NEW page, LeafOK(c, page), NEW k \in Keys, NEW slot, SlotOK(c, slot)
    PROVE  LET slots == With(page.slots, k, slot)
           IN  /\ LeafOK(c, Leaf(slots))
               /\ MapOf(c, slots) = [MapOf(c, page.slots) EXCEPT ![k] = ValueAt(c, slot)]
<1>1. PICK slots : slots = With(page.slots, k, slot) OBVIOUS
<1>2. /\ DOMAIN slots = DOMAIN page.slots \cup {k} /\ slots[k] = slot
      /\ \A j \in DOMAIN page.slots \ {k} : slots[j] = page.slots[j]
    BY <1>1 DEF With
<1>3. Leaf(slots).slots = slots BY DEF Leaf, Zeros
<1>4. \A j \in DOMAIN slots : SlotOK(c, slots[j]) BY <1>2 DEF LeafOK
<1>5. LeafOK(c, Leaf(slots)) BY <1>3, <1>4 DEF LeafOK
<1>6. MapOf(c, slots) = [MapOf(c, page.slots) EXCEPT ![k] = ValueAt(c, slot)]
    <2>1. \A j \in Keys : MapOf(c, slots)[j] =
            IF j = k THEN ValueAt(c, slot) ELSE MapOf(c, page.slots)[j]
        BY <1>2 DEF MapOf
    <2>. QED BY <2>1 DEF MapOf
<1>. QED BY <1>1, <1>5, <1>6

\* A leaf without one of its slots.
LEMMA MapWithout ==
    ASSUME NEW c, NEW page, LeafOK(c, page), NEW k \in Keys
    PROVE  LET slots == [j \in DOMAIN page.slots \ {k} |-> page.slots[j]]
           IN  /\ LeafOK(c, Leaf(slots))
               /\ MapOf(c, slots) = [MapOf(c, page.slots) EXCEPT ![k] = Null]
<1>1. PICK slots : slots = [j \in DOMAIN page.slots \ {k} |-> page.slots[j]] OBVIOUS
<1>2. /\ DOMAIN slots = DOMAIN page.slots \ {k}
      /\ \A j \in DOMAIN slots : slots[j] = page.slots[j]
    BY <1>1
<1>3. Leaf(slots).slots = slots BY DEF Leaf, Zeros
<1>4. \A j \in DOMAIN slots : SlotOK(c, slots[j]) BY <1>2 DEF LeafOK
<1>5. LeafOK(c, Leaf(slots)) BY <1>3, <1>4 DEF LeafOK
<1>6. MapOf(c, slots) = [MapOf(c, page.slots) EXCEPT ![k] = Null]
    <2>1. \A j \in Keys : MapOf(c, slots)[j] = IF j = k THEN Null ELSE MapOf(c, page.slots)[j]
        BY <1>2 DEF MapOf
    <2>. QED BY <2>1 DEF MapOf
<1>. QED BY <1>1, <1>5, <1>6
------------------------------------------------------------------------------
(***************************************************************************)
(* The steps.                                                              *)
(***************************************************************************)
LEMMA SeenAt ==
    ASSUME NEW p, NEW id \in DOMAIN p.file
    PROVE  Seen(p)[id] = Visible(p, id)
BY DEF Seen

\* What a step finds when the database has its first leaf.
LEMMA LeafSeen ==
    ASSUME CacheInv, MapInv, root # 0, NEW c, c = Chains(pager)
    PROVE  /\ Chained(c, Seen(pager)) /\ DOMAIN c = DOMAIN pager.file
           /\ root \in DOMAIN pager.file /\ 0 \in DOMAIN pager.file
           /\ Seen(pager)[root] = Visible(pager, root) /\ Seen(pager)[0].root = root
           /\ LeafOK(c, Visible(pager, root)) /\ MapOf(c, Slots) = Now
           /\ Now \in [Keys -> Vals \cup {Null}] /\ before \in [Keys -> Vals \cup {Null}]
<1>1. Chained(c, Seen(pager)) /\ StoredOK(c) BY DEF MapInv
<1>2. 0 \in DOMAIN pager.file BY ZeroInFile
<1>3. /\ root \in DOMAIN pager.file /\ LeafOK(c, Visible(pager, root))
      /\ MapOf(c, Slots) = Now /\ Visible(pager, 0).root = root
      /\ before \in [Keys -> Vals \cup {Null}]
    BY <1>1 DEF StoredOK, Slots
<1>4. Now \in [Keys -> Vals \cup {Null}] BY <1>3, MapType DEF Slots
<1>5. DOMAIN c = DOMAIN Seen(pager) BY <1>1 DEF Chained, Follows
<1>6. DOMAIN Seen(pager) = DOMAIN pager.file BY DEF Seen
<1>7. Seen(pager)[root] = Visible(pager, root) /\ Seen(pager)[0] = Visible(pager, 0)
    BY <1>2, <1>3 DEF Seen
<1>. QED BY <1>1, <1>2, <1>3, <1>4, <1>5, <1>6, <1>7

\* A step that reads.
LEMMA Quiet ==
    ASSUME CacheInv, MapInv, root # 0, NEW c, c = Chains(pager),
           Seen(pager') = Seen(pager), DOMAIN pager'.file = DOMAIN pager.file, root' = root
    PROVE  /\ Chains(pager') = c /\ Chained(c, Seen(pager'))
           /\ Slots' = Slots /\ Contents' = Now
           /\ Visible(pager', root) = Visible(pager, root) /\ Visible(pager', 0).root = root
<1>1. /\ Chained(c, Seen(pager)) /\ root \in DOMAIN pager.file /\ 0 \in DOMAIN pager.file
      /\ Seen(pager)[root] = Visible(pager, root) /\ Seen(pager)[0].root = root
      /\ MapOf(c, Slots) = Now
    BY LeafSeen
<1>2. Chained(c, Seen(pager')) BY <1>1
<1>3. Chains(pager') = c BY <1>2, ChainsAre
<1>4. Visible(pager', root) = Seen(pager')[root] /\ Visible(pager', 0) = Seen(pager')[0]
    BY <1>1, SeenAt
<1>5. Slots' = Slots BY <1>1, <1>4 DEF Slots
<1>6. Contents' = MapOf(Chains(pager'), Slots')
    BY DEF Contents, Stored, MapOf, ValueAt
<1>. QED BY <1>1, <1>2, <1>3, <1>4, <1>5, <1>6

\* The leaf holds what it should after a step that reads.
LEMMA QuietStored ==
    ASSUME CacheInv, MapInv, root # 0, NEW c, c = Chains(pager),
           Seen(pager') = Seen(pager), DOMAIN pager'.file = DOMAIN pager.file, root' = root,
           \/ before' = before /\ Now' = Now
           \/ before' = Now /\ pc' = "idle",
           pc' \in {"insert", "write", "entry", "delete"} /\ call'.op = "update"
             => before'[call'.key] # Null
    PROVE  Chains(pager') = c /\ Chained(c, Seen(pager')) /\ StoredOK(c)'
<1>1. /\ root \in DOMAIN pager.file /\ LeafOK(c, Visible(pager, root))
      /\ MapOf(c, Slots) = Now
      /\ Now \in [Keys -> Vals \cup {Null}] /\ before \in [Keys -> Vals \cup {Null}]
    BY LeafSeen
<1>2. /\ Chains(pager') = c /\ Chained(c, Seen(pager')) /\ Slots' = Slots
      /\ Visible(pager', root) = Visible(pager, root) /\ Visible(pager', 0).root = root
    BY Quiet
<1>3. Now' = Now
    <2>1. CASE before' = Now /\ pc' = "idle" BY <2>1 DEF Now
    <2>. QED BY <2>1
<1>4. before' \in [Keys -> Vals \cup {Null}] BY <1>1
<1>5. MapOf(c, Visible(pager', root').slots) = Now' BY <1>1, <1>2, <1>3 DEF Slots
<1>6. LeafOK(c, Visible(pager', root')) /\ Visible(pager', 0).root = root' BY <1>1, <1>2
<1>. QED BY <1>1, <1>2, <1>4, <1>5, <1>6 DEF StoredOK

\* The end of a call that changed nothing.
LEMMA QuietReturn ==
    ASSUME CacheInv, MapInv, root # 0,
           Seen(pager') = Seen(pager), DOMAIN pager'.file = DOMAIN pager.file, root' = root,
           NEW r, Return(r), Remembered
    PROVE  MapInv' /\ before' = Now
<1>1. PICK c : c = Chains(pager) OBVIOUS
<1>2. pc' = "idle" /\ call' = NoRequest /\ bytes' = <<>> /\ before' = Contents'
    BY DEF Return, Remembered
<1>3. before' = Now BY <1>1, <1>2, Quiet
<1>4. Chains(pager') = c /\ Chained(c, Seen(pager')) /\ StoredOK(c)'
    BY <1>1, <1>2, <1>3, QuietStored
<1>5. ChainOK(c)' BY <1>2 DEF ChainOK
<1>. QED BY <1>3, <1>4, <1>5 DEF MapInv

Same == before' = before /\ call' = call /\ reply' = reply

\* What a search is followed by.
LEMMA FoundCases ==
    ASSUME NEW v, Found(v)
    PROVE  \/ call.op = "search" /\ Return(v)
           \/ call.op # "search" /\ v = Null /\ Return("error")
           \/ call.op # "search" /\ v # Null /\ Continue("delete")
BY DEF Found

\* A search has found what the map has, for itself or for an update.
LEMMA FoundStep ==
    ASSUME CacheInv, MapInv, pc \in {"search", "read"},
           Seen(pager') = Seen(pager), DOMAIN pager'.file = DOMAIN pager.file, root' = root,
           NEW v, v = before[call.key], Found(v), Remembered
    PROVE  MapInv' /\ (Same \/ Store!Next)
<1>1. /\ root # 0 /\ call \in Requests /\ call.op \in {"search", "update"}
      /\ call # NoRequest
    BY DEF CacheInv, ControlOK, Ops, NoRequest, Requests
<1>2. Now = before BY DEF Now
<1>3. CASE call.op = "search"
    <2>1. Return(v) BY <1>3, FoundCases
    <2>2. MapInv' /\ before' = before BY <2>1, <1>1, <1>2, QuietReturn
    <2>3. Store!Search
        BY <2>1, <2>2, <1>3 DEF Return, NoRequest, Store!Search, Store!Answer, Store!NoRequest
    <2>. QED BY <2>2, <2>3 DEF Store!Next
<1>4. CASE call.op = "update" /\ v = Null
    <2>1. Return("error") BY <1>4, FoundCases
    <2>2. MapInv' /\ before' = before BY <2>1, <1>1, <1>2, QuietReturn
    <2>3. Store!Refuse
        BY <2>1, <2>2, <1>4
        DEF Return, NoRequest, Store!Refuse, Store!Present, Store!Answer, Store!NoRequest
    <2>. QED BY <2>2, <2>3 DEF Store!Next
<1>5. CASE call.op = "update" /\ v # Null
    <2>1. Continue("delete") BY <1>5, FoundCases
    <2>2. pc' = "delete" /\ call' = call /\ reply' = reply BY <2>1 DEF Continue
    <2>3. before' = before BY <2>2, <1>1 DEF Remembered
    <2>4. Now' = Now BY <2>2, <2>3, <1>2 DEF Now
    <2>5. PICK c : c = Chains(pager) OBVIOUS
    <2>6. Chains(pager') = c /\ Chained(c, Seen(pager')) /\ StoredOK(c)'
        BY <2>2, <2>3, <2>4, <2>5, <1>1, <1>5, QuietStored
    <2>7. ChainOK(c)' BY <2>2 DEF ChainOK
    <2>. QED BY <2>2, <2>3, <2>6, <2>7 DEF MapInv, Same
<1>. QED BY <1>1, <1>3, <1>4, <1>5

\* search finds the value in the leaf, or where its chain begins.
LEMMA SearchMap ==
    ASSUME CacheInv, MapInv, Search, Remembered
    PROVE  MapInv' /\ (Same \/ Store!Next)
<1>1. PICK c : c = Chains(pager) OBVIOUS
<1>2. /\ pc = "search" /\ pager' = get_page(pager, root) /\ root' = root BY DEF Search
<1>3. ControlOK /\ root # 0 /\ root \in DOMAIN pager.file
    BY <1>2 DEF CacheInv, ControlOK
<1>4. /\ Readable(pager, root) /\ Seen(pager') = Seen(pager)
      /\ DOMAIN pager'.file = DOMAIN pager.file
    BY <1>2, <1>3, Asked
<1>5. Now = before BY <1>2 DEF Now
<1>6. LeafOK(c, Visible(pager, root)) /\ MapOf(c, Slots) = before
    BY <1>1, <1>3, <1>5, LeafSeen
<1>7. call.key \in Keys BY <1>2, <1>3 DEF ControlOK, Ops, Requests
<1>8. CASE call.key \notin DOMAIN Slots
    <2>1. Found(Null) BY <1>4, <1>8 DEF Search
    <2>2. before[call.key] = Null BY <1>6, <1>7, <1>8 DEF MapOf
    <2>. QED BY <2>1, <2>2, <1>2, <1>4, FoundStep
<1>9. CASE call.key \in DOMAIN Slots /\ Slots[call.key].first = 0
    <2>1. Found(Slots[call.key].val) BY <1>4, <1>9 DEF Search
    <2>2. before[call.key] = Slots[call.key].val BY <1>6, <1>7, <1>9 DEF MapOf, ValueAt
    <2>. QED BY <2>1, <2>2, <1>2, <1>4, FoundStep
<1>10. CASE call.key \in DOMAIN Slots /\ Slots[call.key].first # 0
    <2>1. /\ pc' = "read" /\ next' = Slots[call.key].first
          /\ call' = call /\ reply' = reply /\ left' = left /\ bytes' = bytes
        BY <1>4, <1>10 DEF Search
    <2>2. before' = before BY <2>1 DEF Remembered
    <2>3. Now' = Now BY <2>1, <2>2, <1>5 DEF Now
    <2>4. /\ Chains(pager') = c /\ Chained(c, Seen(pager')) /\ StoredOK(c)'
        BY <2>1, <2>2, <2>3, <1>1, <1>2, <1>3, <1>4, QuietStored
    <2>5. Slots' = Slots BY <1>1, <1>2, <1>3, <1>4, Quiet
    <2>6. ChainOK(c)'
        <3>1. bytes = <<>> BY <1>1, <1>2 DEF MapInv, ChainOK
        <3>2. Slots[call.key].first \in DOMAIN c BY <1>6, <1>10 DEF LeafOK, SlotOK, Slots
        <3>3. c[Slots[call.key].first] \in Seq(Bits)
            <4>1. Chained(c, Seen(pager)) /\ DOMAIN c = DOMAIN Seen(pager)
                BY <1>1 DEF MapInv, Chained, Follows
            <4>. QED BY <4>1, <3>2 DEF Chained
        <3>4. Joined(<<>>, c[Slots[call.key].first]) = c[Slots[call.key].first]
            BY <3>3, ConcatEmptySeq DEF Joined
        <3>5. <<>> \in Seq(Bits) OBVIOUS
        <3>. QED BY <3>1, <3>4, <3>5, <2>1, <2>5, <1>10 DEF ChainOK
    <2>. QED BY <2>1, <2>2, <2>4, <2>6 DEF MapInv, Same
<1>. QED BY <1>8, <1>9, <1>10

\* The chunks that _read_overflow_pages has and those it has not are the value.
LEMMA ReadChunkMap ==
    ASSUME CacheInv, MapInv, ReadChunk, Remembered
    PROVE  MapInv' /\ (Same \/ Store!Next)
<1>1. PICK c : c = Chains(pager) OBVIOUS
<1>2. PICK page : page = Visible(pager, next) OBVIOUS
<1>3. /\ pc = "read" /\ pager' = get_page(pager, next) /\ root' = root BY DEF ReadChunk
<1>4. ControlOK /\ root # 0 /\ next \in DOMAIN pager.file
    BY <1>3 DEF CacheInv, ControlOK
<1>5. /\ Readable(pager, next) /\ Seen(pager') = Seen(pager)
      /\ DOMAIN pager'.file = DOMAIN pager.file
    BY <1>3, <1>4, Asked
<1>6. Now = before BY <1>3 DEF Now
<1>7. /\ Chained(c, Seen(pager)) /\ DOMAIN c = DOMAIN pager.file
      /\ LeafOK(c, Visible(pager, root)) /\ MapOf(c, Slots) = before
    BY <1>1, <1>4, <1>6, LeafSeen
<1>8. call.key \in Keys BY <1>3, <1>4 DEF ControlOK, Ops, Requests
<1>9. /\ bytes \in Seq(Bits) /\ next # 0
      /\ call.key \in DOMAIN Slots /\ Slots[call.key].first # 0
      /\ Joined(bytes, c[next]) = c[Slots[call.key].first]
    BY <1>1, <1>3 DEF MapInv, ChainOK
<1>10. /\ page.chunk \in Bits /\ c[next] = Joined(<<page.chunk>>, c[page.next])
       /\ page.next \in DOMAIN c /\ c[page.next] \in Seq(Bits)
    <2>1. PICK m : m = Seen(pager) OBVIOUS
    <2>2. m[next] = page /\ DOMAIN m = DOMAIN pager.file
        BY <2>1, <1>2, <1>4 DEF Seen
    <2>3. Linked(m) BY <2>1 DEF CacheInv
    <2>4. page.next \in DOMAIN m BY <2>2, <2>3, <1>4 DEF Linked
    <2>5. Chained(c, m) BY <2>1, <1>7
    <2>6. m[next].chunk \in Bits /\ c[m[next].next] \in Seq(Bits)
        BY <2>2, <2>4, <2>5, <1>4 DEF Chained
    <2>7. c[next] = Joined(<<m[next].chunk>>, c[m[next].next])
        BY <2>2, <2>5, <1>4, <1>9 DEF Chained, Follows
    <2>. QED BY <2>2, <2>4, <2>6, <2>7, <1>7
<1>11. CASE page.next = 0
    <2>1. Found(Decoded(Append(bytes, page.chunk))) BY <1>2, <1>5, <1>11 DEF ReadChunk
    <2>2. c[0] = <<>>
        <3>1. 0 \in DOMAIN Seen(pager) BY ZeroInFile DEF Seen
        <3>. QED BY <3>1, <1>7 DEF Chained, Follows
    <2>3. Joined(bytes, c[next]) = Append(bytes, page.chunk)
        <3>1. c[next] = Joined(<<page.chunk>>, <<>>) BY <2>2, <1>10, <1>11
        <3>2. PICK x \in Bits : x = page.chunk BY <1>10
        <3>3. Joined(bytes, Joined(<<x>>, <<>>)) = Append(bytes, x)
            BY <1>9, <1>10, BitsSeq
        <3>. QED BY <3>1, <3>2, <3>3
    <2>4. before[call.key] = Decoded(Append(bytes, page.chunk))
        BY <2>3, <1>7, <1>8, <1>9 DEF MapOf, ValueAt
    <2>. QED BY <2>1, <2>4, <1>3, <1>5, FoundStep
<1>12. CASE page.next # 0
    <2>1. /\ pc' = "read" /\ next' = page.next /\ bytes' = Append(bytes, page.chunk)
          /\ call' = call /\ reply' = reply
        BY <1>2, <1>3, <1>5, <1>12 DEF ReadChunk
    <2>2. before' = before BY <2>1 DEF Remembered
    <2>3. Now' = Now BY <2>1, <2>2, <1>6 DEF Now
    <2>4. /\ Chains(pager') = c /\ Chained(c, Seen(pager')) /\ StoredOK(c)'
        BY <2>1, <2>2, <2>3, <1>1, <1>3, <1>4, <1>5, QuietStored
    <2>5. Slots' = Slots BY <1>1, <1>3, <1>4, <1>5, Quiet
    <2>6. /\ bytes' \in Seq(Bits)
          /\ Joined(bytes', c[next']) = c[Slots[call.key].first]
        <3>1. PICK x \in Bits : x = page.chunk BY <1>10
        <3>2. PICK t \in Seq(Bits) : t = c[page.next] BY <1>10
        <3>3. /\ Append(bytes, x) \in Seq(Bits)
              /\ Joined(Append(bytes, x), t) = Joined(bytes, Joined(<<x>>, t))
            BY <1>9, BitsSeq
        <3>. QED BY <3>1, <3>2, <3>3, <2>1, <1>9, <1>10
    <2>7. ChainOK(c)' BY <2>1, <2>5, <2>6, <1>9, <1>12 DEF ChainOK
    <2>. QED BY <2>1, <2>2, <2>4, <2>7 DEF MapInv, Same
<1>. QED BY <1>11, <1>12

\* insert reads the leaf before it writes the chain.
LEMMA InsertMap ==
    ASSUME CacheInv, MapInv, Insert, Remembered
    PROVE  MapInv' /\ Same
<1>1. PICK c : c = Chains(pager) OBVIOUS
<1>2. /\ pc = "insert" /\ pager' = get_page(pager, root) /\ root' = root BY DEF Insert
<1>3. ControlOK /\ root # 0 /\ root \in DOMAIN pager.file
    BY <1>2 DEF CacheInv, ControlOK
<1>4. /\ Readable(pager, root) /\ Seen(pager') = Seen(pager)
      /\ DOMAIN pager'.file = DOMAIN pager.file
    BY <1>2, <1>3, Asked
<1>5. /\ pc' = IF Chunks[call.val] > 0 THEN "write" ELSE "entry"
      /\ left' = Chunks[call.val] /\ next' = 0 /\ call' = call /\ reply' = reply
    BY <1>4 DEF Insert
<1>6. before' = before BY <1>5 DEF Remembered
<1>7. Now' = Now BY <1>2, <1>5, <1>6 DEF Now
<1>8. call.op = "update" => before[call.key] # Null
    BY <1>1, <1>2 DEF MapInv, StoredOK
<1>9. Chains(pager') = c /\ Chained(c, Seen(pager')) /\ StoredOK(c)'
    BY <1>1, <1>2, <1>3, <1>4, <1>5, <1>6, <1>7, <1>8, QuietStored
<1>10. call.val \in Vals /\ Chunks[call.val] \in Nat BY <1>2, <1>3, RequestVal
<1>11. c[0] = <<>>
    <2>1. Chained(c, Seen(pager)) /\ 0 \in DOMAIN Seen(pager)
        BY <1>1, ZeroInFile DEF MapInv, Seen
    <2>. QED BY <2>1 DEF Chained, Follows
<1>12. ChunksFrom(call.val, Chunks[call.val]) = <<>> BY <1>10, ChunkEnds
<1>13. ChainOK(c)' BY <1>5, <1>10, <1>11, <1>12 DEF ChainOK
<1>. QED BY <1>5, <1>6, <1>9, <1>13 DEF MapInv, Same

\* Pager.close saves what the cache has.
LEMMA CloseMap ==
    ASSUME CacheInv, MapInv, Close, before' = before
    PROVE  MapInv' /\ Same
<1>1. PICK c : c = Chains(pager) OBVIOUS
<1>2. /\ pc = "idle" /\ pager' = Opened(flush_all(pager).file) /\ pc' = "closed"
      /\ root' = root /\ call' = call /\ reply' = reply /\ bytes' = bytes
    BY DEF Close, chain
<1>3. PagerOK(pager) /\ root # 0 BY <1>2 DEF CacheInv, ControlOK
<1>4. SameContents(pager, pager') BY <1>2, <1>3, Reopened
<1>5. Seen(pager') = Seen(pager) /\ DOMAIN pager'.file = DOMAIN pager.file
    BY <1>4, SeenSame DEF SameContents
<1>6. Now' = Now BY <1>2 DEF Now
<1>7. Chains(pager') = c /\ Chained(c, Seen(pager')) /\ StoredOK(c)'
    BY <1>1, <1>2, <1>3, <1>5, <1>6, QuietStored
<1>8. bytes = <<>> BY <1>1, <1>2 DEF MapInv, ChainOK
<1>9. ChainOK(c)' BY <1>2, <1>8 DEF ChainOK
<1>. QED BY <1>2, <1>7, <1>9 DEF MapInv, Same

\* The begin of a call changes no page.
LEMMA CallMap ==
    ASSUME CacheInv, MapInv, NEW req \in Requests, Call(req), before' = before
    PROVE  MapInv' /\ Store!Next
<1>1. PICK c : c = Chains(pager) OBVIOUS
<1>2. /\ pc = "idle" /\ pager' = pager /\ root' = root /\ bytes' = bytes
      /\ call' = req /\ reply' = "none"
      /\ pc' = IF req.op = "update" THEN "search" ELSE req.op
    BY DEF Call, chain
<1>3. root # 0 /\ call = NoRequest BY <1>2 DEF CacheInv, ControlOK
<1>4. pc' \in {"search", "delete", "insert"} /\ (pc' \in {"insert", "delete"} => req.op # "update")
    BY <1>2 DEF Requests
<1>5. Now' = Now BY <1>2, <1>4 DEF Now
<1>6. Chains(pager') = c /\ Chained(c, Seen(pager')) /\ StoredOK(c)'
    BY <1>1, <1>2, <1>3, <1>4, <1>5, QuietStored
<1>7. bytes = <<>> BY <1>1, <1>2 DEF MapInv, ChainOK
<1>8. ChainOK(c)' BY <1>2, <1>4, <1>7 DEF ChainOK
<1>9. Store!Ask(req) BY <1>2, <1>3 DEF Store!Ask, Store!NoRequest, NoRequest
<1>10. req \in Store!Requests BY DEF Store!Requests, Requests
<1>. QED BY <1>6, <1>8, <1>9, <1>10 DEF MapInv, Store!Next

\* A page written at the head of a chain changes nothing that can be read.
LEMMA WriteChunkMap ==
    ASSUME CacheInv, MapInv, WriteChunk, Remembered
    PROVE  MapInv' /\ Same
<1>1. PICK c : c = Chains(pager) OBVIOUS
<1>2. PICK m : m = Seen(pager) OBVIOUS
<1>3. PICK n : n = NewId(pager) OBVIOUS
<1>4. PICK data : data = Overflow(next, <<call.val, left>>) OBVIOUS
<1>5. PICK q : q = Write(new_page(pager), n, data) OBVIOUS
<1>6. /\ pc = "write" /\ pager' = q /\ next' = n /\ left' = left - 1
      /\ pc' = IF left = 1 THEN "entry" ELSE "write"
      /\ root' = root /\ call' = call /\ reply' = reply
    BY <1>3, <1>4, <1>5 DEF WriteChunk
<1>7. PagerOK(pager) /\ Linked(m) /\ ControlOK /\ LeafHeld BY <1>2 DEF CacheInv
<1>8. /\ n \in Nat \ {0} /\ n \notin DOMAIN pager.file
      /\ DOMAIN q.file = DOMAIN pager.file \cup {n}
      /\ Seen(q) = With(m, n, data)
    BY <1>2, <1>3, <1>5, <1>7, Grown
<1>9. root # 0 BY <1>6, <1>7 DEF ControlOK
<1>10. /\ Chained(c, m) /\ DOMAIN c = DOMAIN pager.file
       /\ root \in DOMAIN pager.file /\ 0 \in DOMAIN pager.file
       /\ m[root] = Visible(pager, root) /\ m[0].root = root
       /\ LeafOK(c, Visible(pager, root)) /\ MapOf(c, Slots) = Now
       /\ before \in [Keys -> Vals \cup {Null}]
    BY <1>1, <1>2, <1>9, LeafSeen
<1>11. /\ call.val \in Vals /\ Chunks[call.val] \in Nat /\ left \in 1 .. Chunks[call.val]
    BY <1>6, <1>7, RequestVal DEF LeafHeld
<1>12. /\ data.next = next /\ data.chunk = <<call.val, left>> /\ data.chunk \in Bits
    BY <1>4, <1>11 DEF Overflow, Zeros, Bits
<1>13. DOMAIN m = DOMAIN pager.file /\ next \in DOMAIN m
    BY <1>2, <1>7 DEF Seen, ControlOK
<1>14. PICK d : d = With(c, n, Joined(<<data.chunk>>, c[data.next])) OBVIOUS
<1>15. Chained(d, Seen(q))
    <2>1. \A id \in DOMAIN m : m[id].next \in DOMAIN m BY <1>7 DEF Linked
    <2>2. n \notin DOMAIN m /\ n # 0 /\ data.next \in DOMAIN m BY <1>8, <1>12, <1>13
    <2>3. Chained(With(c, n, Joined(<<data.chunk>>, c[data.next])), With(m, n, data))
        BY <2>1, <2>2, <1>10, <1>12, ChainGrown
    <2>. QED BY <2>3, <1>8, <1>14
<1>16. Chains(q) = d BY <1>15, ChainsAre
<1>17. Extends(d, c) /\ d[n] = Joined(<<data.chunk>>, c[data.next])
    BY <1>8, <1>10, <1>14 DEF Extends, With
<1>18. Visible(q, root) = Visible(pager, root) /\ Visible(q, 0).root = root
    <2>1. Visible(q, root) = Seen(q)[root] /\ Visible(q, 0) = Seen(q)[0]
        BY <1>8, <1>10, SeenAt
    <2>2. With(m, n, data)[root] = m[root] /\ With(m, n, data)[0] = m[0]
        BY <1>8, <1>10, <1>13 DEF With
    <2>. QED BY <2>1, <2>2, <1>8, <1>10
<1>19. before' = before BY <1>6 DEF Remembered
<1>20. Now' = Now BY <1>6, <1>19 DEF Now
<1>21. LeafOK(d, Visible(q, root)) /\ MapOf(d, Visible(q, root).slots) = Now
    BY <1>10, <1>17, <1>18, MapKept DEF Slots
<1>22. call.op = "update" => before[call.key] # Null
    BY <1>1, <1>6 DEF MapInv, StoredOK
<1>23. StoredOK(d)'
    BY <1>6, <1>8, <1>9, <1>10, <1>18, <1>19, <1>20, <1>21, <1>22 DEF StoredOK
<1>24. d[n] = ChunksFrom(call.val, left - 1)
    <2>1. PICK v \in Vals : v = call.val BY <1>11
    <2>2. PICK i \in 1 .. Chunks[v] : i = left BY <2>1, <1>11
    <2>3. c[next] = ChunksFrom(v, i) BY <2>1, <2>2, <1>1, <1>6 DEF MapInv, ChainOK
    <2>4. Joined(<<<<v, i>>>>, ChunksFrom(v, i)) = ChunksFrom(v, i - 1) BY ChunkBefore
    <2>5. <<data.chunk>> = <<<<v, i>>>> BY <2>1, <2>2, <1>12
    <2>. QED BY <2>1, <2>2, <2>3, <2>4, <2>5, <1>12, <1>17
<1>25. ChainOK(d)'
    <2>1. CASE left = 1
        <3>1. ChunksFrom(call.val, 0) = ChunksOf(call.val) BY <1>11, ChunkEnds
        <3>2. left - 1 = 0 BY <2>1
        <3>3. Chunks[call.val] > 0 BY <1>11
        <3>4. d[n] = ChunksOf(call.val) BY <3>1, <3>2, <1>24
        <3>. QED BY <3>3, <3>4, <2>1, <1>6, <1>8 DEF ChainOK
    <2>2. CASE left # 1 BY <2>2, <1>6, <1>24 DEF ChainOK
    <2>. QED BY <2>1, <2>2
<1>. QED BY <1>6, <1>15, <1>16, <1>19, <1>23, <1>25 DEF MapInv, Same

\* The leaf of root is replaced by one with other slots.
LEMMA LeafReplaced ==
    ASSUME CacheInv, MapInv, root # 0, NEW c, c = Chains(pager), NEW slots,
           LeafOK(c, Leaf(slots)),
           Seen(pager') = [Seen(pager) EXCEPT ![root] = Leaf(slots)],
           DOMAIN pager'.file = DOMAIN pager.file, root' = root
    PROVE  /\ Chains(pager') = c /\ Chained(c, Seen(pager'))
           /\ Visible(pager', root) = Leaf(slots) /\ Visible(pager', 0).root = root
           /\ Contents' = MapOf(c, slots)
<1>1. PICK m : m = Seen(pager) OBVIOUS
<1>2. PICK q : q = pager' OBVIOUS
<1>3. /\ Chained(c, m) /\ DOMAIN m = DOMAIN pager.file
      /\ root \in DOMAIN m /\ 0 \in DOMAIN m
      /\ m[0].root = root /\ LeafOK(c, m[root])
    BY <1>1, LeafSeen DEF Seen
<1>4. Seen(q) = [m EXCEPT ![root] = Leaf(slots)] /\ DOMAIN q.file = DOMAIN pager.file
    BY <1>1, <1>2
<1>5. m[root].next = Leaf(slots).next /\ m[root].chunk = Leaf(slots).chunk
    <2>1. m[root] = Leaf(m[root].slots) BY <1>3 DEF LeafOK
    <2>2. \A s : Leaf(s).next = 0 /\ Leaf(s).chunk = NoChunk BY DEF Leaf, Zeros
    <2>. QED BY <2>1, <2>2
<1>6. Chained(c, Seen(q))
    <2>1. PICK data : data = Leaf(slots) OBVIOUS
    <2>2. data.next = m[root].next /\ data.chunk = m[root].chunk BY <2>1, <1>5
    <2>4. data.chunk \in Bits BY <2>1 DEF Leaf, Zeros, Bits
    <2>3. Chained(c, [m EXCEPT ![root] = data]) BY <2>2, <2>4, <1>3, ChainKept
    <2>. QED BY <2>1, <2>3, <1>4
<1>7. Chains(q) = c BY <1>6, ChainsAre
<1>8. Visible(q, root) = Leaf(slots) /\ Visible(q, 0) = m[0]
    <2>1. Visible(q, root) = Seen(q)[root] /\ Visible(q, 0) = Seen(q)[0]
        BY <1>3, <1>4, SeenAt
    <2>. QED BY <2>1, <1>3, <1>4
<1>9. Leaf(slots).slots = slots BY DEF Leaf, Zeros
<1>10. Slots' = slots BY <1>2, <1>8, <1>9 DEF Slots
<1>11. Contents' = MapOf(Chains(pager'), Slots')
    BY DEF Contents, Stored, MapOf, ValueAt
<1>. QED BY <1>2, <1>3, <1>6, <1>7, <1>8, <1>10, <1>11

\* _insert_data_into_page adds the key with its value, or refuses a duplicate.
LEMMA InsertEntryMap ==
    ASSUME CacheInv, MapInv, InsertEntry, Remembered
    PROVE  MapInv' /\ Store!Next
<1>1. PICK c : c = Chains(pager) OBVIOUS
<1>2. pc = "entry" /\ root' = root /\ ControlOK /\ PagerOK(pager) /\ root \in Cached(pager)
    BY DEF InsertEntry, CacheInv, LeafHeld
<1>3. /\ root # 0 /\ call \in Requests /\ call.op \in {"insert", "update"}
      /\ call.key \in Keys /\ call.val \in Vals
    BY <1>2, RequestVal DEF ControlOK, Ops
<1>4. /\ LeafOK(c, Visible(pager, root)) /\ MapOf(c, Slots) = Now
      /\ before \in [Keys -> Vals \cup {Null}]
    BY <1>1, <1>3, LeafSeen
<1>5. call.op = "insert" => Now = before BY DEF Now
<1>6. call.op = "update" =>
        Now = [before EXCEPT ![call.key] = Null] /\ before[call.key] # Null
    BY <1>1, <1>2 DEF Now, MapInv, StoredOK
<1>7. call.key \in DOMAIN Slots <=> Now[call.key] # Null
    BY <1>3, <1>4, KeyThere DEF Slots
<1>8. CASE call.key \in DOMAIN Slots
    <2>1. call.op = "insert" BY <1>3, <1>4, <1>6, <1>7, <1>8
    <2>2. Return("error") /\ pager' = pager BY <1>8 DEF InsertEntry
    <2>3. MapInv' /\ before' = before BY <2>1, <2>2, <1>2, <1>3, <1>5, QuietReturn
    <2>4. Store!Refuse
        BY <2>1, <2>2, <2>3, <1>5, <1>7, <1>8
        DEF Return, NoRequest, Store!Refuse, Store!Present, Store!Answer, Store!NoRequest
    <2>. QED BY <2>3, <2>4 DEF Store!Next
<1>9. CASE call.key \notin DOMAIN Slots
    <2>1. PICK slot : slot = [val |-> IF next = 0 THEN call.val ELSE Null, first |-> next]
        OBVIOUS
    <2>2. PICK slots : slots = With(Slots, call.key, slot) OBVIOUS
    <2>3. pager' = Write(pager, root, Leaf(slots)) /\ Return("ok")
        BY <2>1, <2>2, <1>9 DEF InsertEntry
    <2>4. /\ Seen(pager') = [Seen(pager) EXCEPT ![root] = Leaf(slots)]
          /\ DOMAIN pager'.file = DOMAIN pager.file
        BY <2>3, <1>2, Filled
    <2>5. IF next = 0 THEN Chunks[call.val] = 0
          ELSE Chunks[call.val] > 0 /\ c[next] = ChunksOf(call.val)
        BY <1>1, <1>2 DEF MapInv, ChainOK
    <2>6. next \in DOMAIN c BY <1>1, <1>2, <1>3, LeafSeen DEF ControlOK
    <2>7. SlotOK(c, slot) /\ ValueAt(c, slot) = call.val
        <3>1. CASE next = 0 BY <3>1, <2>1, <2>6, <1>3 DEF SlotOK, ValueAt
        <3>2. CASE next # 0
            <4>1. slot.first = next BY <2>1
            <4>2. Decoded(c[next]) = call.val BY <3>2, <2>5, <1>3, ChunkEnds
            <4>. QED BY <4>1, <4>2, <3>2, <2>5, <2>6, <1>3 DEF SlotOK, ValueAt
        <3>. QED BY <3>1, <3>2
    <2>8. /\ LeafOK(c, Leaf(slots))
          /\ MapOf(c, slots) = [Now EXCEPT ![call.key] = call.val]
        BY <2>2, <2>7, <1>3, <1>4, MapWith DEF Slots
    <2>9. /\ Chains(pager') = c /\ Chained(c, Seen(pager'))
          /\ Visible(pager', root) = Leaf(slots) /\ Visible(pager', 0).root = root
          /\ Contents' = MapOf(c, slots)
        BY <2>4, <2>8, <1>1, <1>2, <1>3, LeafReplaced
    <2>10. /\ pc' = "idle" /\ call' = NoRequest /\ reply' = "ok" /\ bytes' = <<>>
           /\ before' = Contents'
        BY <2>3 DEF Return, Remembered
    <2>11. before' = [before EXCEPT ![call.key] = call.val]
        BY <2>8, <2>9, <2>10, <1>3, <1>4, <1>5, <1>6
    <2>12. MapInv'
        <3>1. before' \in [Keys -> Vals \cup {Null}] BY <2>11, <1>3, <1>4
        <3>2. Leaf(slots).slots = slots BY DEF Leaf, Zeros
        <3>3. MapOf(c, Visible(pager', root').slots) = Now'
            BY <3>2, <2>9, <2>10, <1>2 DEF Now
        <3>4. root' \in DOMAIN pager'.file BY <2>4, <1>2 DEF ControlOK
        <3>5. StoredOK(c)' BY <3>1, <3>3, <3>4, <2>8, <2>9, <2>10, <1>2, <1>3 DEF StoredOK
        <3>6. ChainOK(c)' BY <2>10 DEF ChainOK
        <3>. QED BY <3>5, <3>6, <2>9 DEF MapInv
    <2>13. CASE call.op = "insert"
        <3>1. before[call.key] = Null BY <2>13, <1>5, <1>7, <1>9
        <3>2. Store!Insert
            BY <3>1, <2>10, <2>11, <2>13
            DEF NoRequest, Store!Insert, Store!Present, Store!Answer, Store!NoRequest
        <3>. QED BY <3>2, <2>12 DEF Store!Next
    <2>14. CASE call.op = "update"
        <3>1. Store!Update
            BY <1>6, <2>10, <2>11, <2>14
            DEF NoRequest, Store!Update, Store!Present, Store!Answer, Store!NoRequest
        <3>. QED BY <3>1, <2>12 DEF Store!Next
    <2>. QED BY <2>13, <2>14, <1>3
<1>. QED BY <1>8, <1>9

\* _delete_from_leaf removes the key, for delete and in the middle of update.
LEMMA DeleteMap ==
    ASSUME CacheInv, MapInv, Delete, Remembered
    PROVE  MapInv' /\ (Same \/ Store!Next)
<1>1. PICK c : c = Chains(pager) OBVIOUS
<1>2. PICK g : g = get_page(pager, root) OBVIOUS
<1>3. pc = "delete" /\ root' = root /\ ControlOK /\ PagerOK(pager)
    BY DEF Delete, CacheInv
<1>4. /\ root # 0 /\ root \in DOMAIN pager.file /\ call.op \in {"delete", "update"}
      /\ call.key \in Keys
    BY <1>3 DEF ControlOK, Ops, Requests
<1>5. /\ Readable(pager, root) /\ PagerOK(g) /\ Seen(g) = Seen(pager)
      /\ DOMAIN g.file = DOMAIN pager.file /\ root \in Cached(g)
    BY <1>2, <1>3, <1>4, Got
<1>6. Now = before BY <1>3 DEF Now
<1>7. /\ LeafOK(c, Visible(pager, root)) /\ MapOf(c, Slots) = before
      /\ before \in [Keys -> Vals \cup {Null}]
    BY <1>1, <1>4, <1>6, LeafSeen
<1>8. call.key \in DOMAIN Slots <=> before[call.key] # Null
    BY <1>4, <1>7, KeyThere DEF Slots
<1>9. call.op = "update" => before[call.key] # Null
    BY <1>1, <1>3 DEF MapInv, StoredOK
<1>10. CASE call.key \notin DOMAIN Slots
    <2>1. Return("error") /\ pager' = g BY <1>2, <1>10 DEF Delete
    <2>2. MapInv' /\ before' = before BY <2>1, <1>3, <1>4, <1>5, <1>6, QuietReturn
    <2>3. Store!Refuse
        BY <2>1, <2>2, <1>4, <1>8, <1>9, <1>10
        DEF Return, NoRequest, Store!Refuse, Store!Present, Store!Answer, Store!NoRequest
    <2>. QED BY <2>2, <2>3 DEF Store!Next
<1>11. CASE call.key \in DOMAIN Slots
    <2>1. PICK rest : rest = [k \in DOMAIN Slots \ {call.key} |-> Slots[k]] OBVIOUS
    <2>2. /\ pager' = Write(g, root, Leaf(rest))
          /\ IF call.op = "update" THEN Continue("insert") ELSE Return("ok")
        BY <2>1, <1>2, <1>5, <1>11 DEF Delete
    <2>3. /\ Seen(pager') = [Seen(pager) EXCEPT ![root] = Leaf(rest)]
          /\ DOMAIN pager'.file = DOMAIN pager.file
        BY <2>2, <1>5, Filled
    <2>4. /\ LeafOK(c, Leaf(rest)) /\ MapOf(c, rest) = [before EXCEPT ![call.key] = Null]
        BY <2>1, <1>4, <1>7, MapWithout DEF Slots
    <2>5. /\ Chains(pager') = c /\ Chained(c, Seen(pager'))
          /\ Visible(pager', root) = Leaf(rest) /\ Visible(pager', 0).root = root
          /\ Contents' = MapOf(c, rest)
        BY <2>3, <2>4, <1>1, <1>3, <1>4, LeafReplaced
    <2>6. Leaf(rest).slots = rest BY DEF Leaf, Zeros
    <2>7. CASE call.op = "update"
        <3>1. /\ pc' = "insert" /\ call' = call /\ reply' = reply
              /\ before' = before
            BY <2>2, <2>7 DEF Continue, Remembered
        <3>2. Now' = [before EXCEPT ![call.key] = Null] BY <3>1, <2>7 DEF Now
        <3>3. MapOf(c, Visible(pager', root').slots) = Now' BY <3>2, <2>4, <2>5, <2>6, <1>3
        <3>4. StoredOK(c)'
            BY <3>1, <3>3, <2>3, <2>4, <2>5, <1>3, <1>4, <1>7, <1>8, <1>11 DEF StoredOK
        <3>5. ChainOK(c)' BY <3>1 DEF ChainOK
        <3>. QED BY <3>1, <3>4, <3>5, <2>5 DEF MapInv, Same
    <2>8. CASE call.op = "delete"
        <3>1. /\ pc' = "idle" /\ call' = NoRequest /\ reply' = "ok" /\ bytes' = <<>>
              /\ before' = Contents'
            BY <2>2, <2>8 DEF Return, Remembered
        <3>2. before' = [before EXCEPT ![call.key] = Null] BY <3>1, <2>4, <2>5
        <3>3. before' \in [Keys -> Vals \cup {Null}] BY <3>2, <1>7
        <3>4. MapOf(c, Visible(pager', root').slots) = Now'
            BY <3>1, <3>2, <2>4, <2>5, <2>6, <1>3 DEF Now
        <3>5. StoredOK(c)' BY <3>1, <3>3, <3>4, <2>3, <2>4, <2>5, <1>3, <1>4 DEF StoredOK
        <3>6. ChainOK(c)' BY <3>1 DEF ChainOK
        <3>7. Store!Delete
            BY <3>1, <3>2, <2>8, <1>8, <1>11
            DEF NoRequest, Store!Delete, Store!Present, Store!Answer, Store!NoRequest
        <3>. QED BY <3>5, <3>6, <3>7, <2>5 DEF MapInv, Store!Next
    <2>. QED BY <2>7, <2>8, <1>4
<1>. QED BY <1>10, <1>11

\* The file gets its first leaf, which holds nothing.
LEMMA OpenMap ==
    ASSUME CacheInv, MapInv, Open, Remembered
    PROVE  MapInv' /\ Same
<1>1. PICK c : c = Chains(pager) OBVIOUS
<1>2. PICK meta : meta = get_page(pager, 0) OBVIOUS
<1>3. PagerOK(pager) /\ Linked(Seen(pager)) /\ ControlOK /\ 0 \in DOMAIN pager.file
    BY ZeroInFile DEF CacheInv
<1>4. /\ PagerOK(meta) /\ Seen(meta) = Seen(pager) /\ DOMAIN meta.file = DOMAIN pager.file
      /\ UsedBefore(meta, 0, 0)
    BY <1>2, <1>3, Got
<1>5. /\ pc = "closed" /\ pc' = "idle" /\ call = NoRequest /\ call' = call /\ reply' = reply
      /\ bytes' = bytes /\ before' = Contents'
    BY <1>3 DEF Open, ControlOK, chain, Remembered
<1>6. Chained(c, Seen(pager)) /\ StoredOK(c) /\ bytes = <<>>
    BY <1>1, <1>5 DEF MapInv, ChainOK
<1>7. Visible(meta, 0).root = root
    <2>1. Visible(meta, 0) = Visible(pager, 0) BY <1>3, <1>4, SeenAt
    <2>. QED BY <2>1, <1>6 DEF StoredOK
<1>8. CASE root # 0
    <2>1. pager' = meta /\ root' = root BY <1>2, <1>7, <1>8 DEF Open
    <2>2. Now = before BY <1>5 DEF Now
    <2>3. before' = before BY <2>1, <2>2, <1>1, <1>4, <1>5, <1>8, Quiet
    <2>4. Chains(pager') = c /\ Chained(c, Seen(pager')) /\ StoredOK(c)'
        BY <2>1, <2>2, <2>3, <1>1, <1>4, <1>5, <1>8, QuietStored
    <2>5. ChainOK(c)' BY <1>5, <1>6 DEF ChainOK
    <2>. QED BY <2>3, <2>4, <2>5, <1>5 DEF MapInv, Same
<1>9. CASE root = 0
    <2>1. PICK id : id = NewId(meta) OBVIOUS
    <2>2. PICK d0 : d0 = [Zeros EXCEPT !.root = id] OBVIOUS
    <2>3. PICK d1 : d1 = Leaf(<<>>) OBVIOUS
    <2>4. PICK q : q = Write(Write(new_page(meta), 0, d0), id, d1) OBVIOUS
    <2>5. pager' = q /\ root' = id
        BY <2>1, <2>2, <2>3, <2>4, <1>2, <1>7, <1>9 DEF Open
    <2>6. PICK m : m = Seen(pager) OBVIOUS
    <2>7. PICK z : z = Zeros OBVIOUS
    <2>8. PICK k : k = [m EXCEPT ![0] = d0] OBVIOUS
    <2>9. PICK l : l = With(k, id, z) OBVIOUS
    <2>10. /\ PagerOK(q) /\ id \in Nat \ {0} /\ id \notin DOMAIN pager.file
           /\ DOMAIN q.file = DOMAIN pager.file \cup {id}
           /\ Seen(q) = [l EXCEPT ![id] = d1]
        BY <2>1, <2>2, <2>3, <2>4, <2>6, <2>7, <2>8, <2>9, <1>3, <1>4, FirstLeaf
    <2>11. /\ d0.next = 0 /\ d0.root = id /\ d0.chunk \in Bits
        BY <2>2 DEF Zeros, Bits
    <2>12. z.next = 0 /\ z.chunk \in Bits BY <2>7 DEF Zeros, Bits
    <2>13. d1.next = z.next /\ d1.chunk = z.chunk /\ d1.slots = <<>>
        BY <2>3, <2>7 DEF Leaf, Zeros
    <2>14. DOMAIN m = DOMAIN pager.file /\ Linked(m) /\ Chained(c, m) /\ 0 \in DOMAIN m
        BY <2>6, <1>3, <1>6 DEF Seen
    <2>15. Chained(c, k) /\ DOMAIN k = DOMAIN m
        BY <2>8, <2>11, <2>14, ChainKept
    <2>16. \A i \in DOMAIN k : k[i].next \in DOMAIN k
        BY <2>8, <2>11, <2>14 DEF Linked
    <2>17. PICK d : d = With(c, id, Joined(<<z.chunk>>, c[z.next])) OBVIOUS
    <2>18. Chained(d, l)
        <3>1. id \notin DOMAIN k /\ id # 0 /\ z.next \in DOMAIN k
            BY <2>10, <2>12, <2>14, <2>15
        <3>. QED BY <3>1, <2>9, <2>12, <2>15, <2>16, <2>17, ChainGrown
    <2>19. DOMAIN l = DOMAIN m \cup {id} /\ l[id] = z /\ l[0] = d0
        BY <2>8, <2>9, <2>10, <2>14, <2>15 DEF With
    <2>20. Chained(d, Seen(q))
        <3>1. d1.chunk \in Bits /\ id \in DOMAIN l BY <2>12, <2>13, <2>19
        <3>2. d1.next = l[id].next /\ d1.chunk = l[id].chunk BY <2>13, <2>19
        <3>3. Chained(d, [l EXCEPT ![id] = d1]) BY <3>1, <3>2, <2>18, ChainKept
        <3>. QED BY <3>3, <2>10
    <2>21. Chains(q) = d BY <2>20, ChainsAre
    <2>22. Visible(q, id) = d1 /\ Visible(q, 0) = d0
        <3>1. Visible(q, id) = Seen(q)[id] /\ Visible(q, 0) = Seen(q)[0]
            BY <2>10, <1>3, SeenAt
        <3>. QED BY <3>1, <2>10, <2>14, <2>19
    <2>23. Slots' = <<>> BY <2>5, <2>13, <2>22 DEF Slots
    <2>24. Contents' = [x \in Keys |-> Null]
        <3>1. DOMAIN <<>> = {} OBVIOUS
        <3>. QED BY <3>1, <2>23 DEF Contents
    <2>25. before = [x \in Keys |-> Null] BY <1>6, <1>9 DEF StoredOK
    <2>26. LeafOK(d, d1) /\ MapOf(d, d1.slots) = [x \in Keys |-> Null]
        <3>1. DOMAIN <<>> = {} OBVIOUS
        <3>. QED BY <3>1, <2>3, <2>13 DEF LeafOK, MapOf
    <2>27. StoredOK(d)'
        <3>1. Visible(pager', 0).root = root' BY <2>5, <2>11, <2>22
        <3>2. root' # 0 /\ root' \in DOMAIN pager'.file BY <2>5, <2>10
        <3>3. LeafOK(d, Visible(pager', root')) BY <2>5, <2>22, <2>26
        <3>4. Now' = before' BY <1>5 DEF Now
        <3>5. before' = [x \in Keys |-> Null] BY <2>24, <1>5
        <3>6. MapOf(d, Visible(pager', root').slots) = Now'
            BY <3>4, <3>5, <2>5, <2>22, <2>26
        <3>7. before' \in [Keys -> Vals \cup {Null}] BY <3>5
        <3>8. pc' \notin {"insert", "write", "entry", "delete"} BY <1>5
        <3>. QED BY <3>1, <3>2, <3>3, <3>6, <3>7, <3>8 DEF StoredOK
    <2>28. ChainOK(d)' BY <1>5, <1>6 DEF ChainOK
    <2>29. before' = before BY <2>24, <2>25, <1>5
    <2>. QED BY <2>5, <2>20, <2>21, <2>27, <2>28, <2>29, <1>5 DEF MapInv, Same
<1>. QED BY <1>8, <1>9

\* An empty file holds an empty map.
LEMMA InitMap == Init => MapInv /\ Store!Init
<1>1. SUFFICES ASSUME Init PROVE MapInv /\ Store!Init OBVIOUS
<1>2. /\ pager = Opened(NewFile) /\ root = 0 /\ pc = "closed" /\ call = NoRequest
      /\ reply = "none" /\ bytes = <<>> /\ before = [k \in Keys |-> Null]
    BY <1>1 DEF Init
<1>3. pager.file = NewFile /\ Cached(pager) = {}
    BY <1>2 DEF Opened, Cached, Range
<1>4. DOMAIN NewFile = {0} /\ NewFile[0].data = Zeros BY DEF NewFile, ZeroPage
<1>5. Visible(pager, 0) = Zeros BY <1>3, <1>4 DEF Visible
<1>6. PICK m : m = Seen(pager) OBVIOUS
<1>7. DOMAIN m = {0} /\ m[0] = Zeros BY <1>3, <1>4, <1>5, <1>6 DEF Seen
<1>8. PICK c : c = [id \in {0} |-> <<>>] OBVIOUS
<1>9. Chained(c, m)
    <2>1. c = [id \in DOMAIN m |-> IF id = 0 THEN <<>> ELSE Joined(<<m[id].chunk>>, c[m[id].next])]
        BY <1>7, <1>8
    <2>2. Follows(c, m) BY <2>1, Zenon DEF Follows
    <2>3. ASSUME NEW f, Follows(f, m) PROVE f = c
        <3>1. f = [id \in DOMAIN m |->
                    IF id = 0 THEN <<>> ELSE Joined(<<m[id].chunk>>, f[m[id].next])]
            BY <2>3, Zenon DEF Follows
        <3>2. DOMAIN f = {0} /\ f[0] = <<>> BY <3>1, <1>7
        <3>3. f = [id \in {0} |-> f[id]] BY <3>1, <1>7
        <3>. QED BY <3>2, <3>3, <1>8
    <2>4. m[0].chunk \in Bits /\ c[0] \in Seq(Bits) BY <1>7, <1>8 DEF Zeros, Bits
    <2>. QED BY <2>2, <2>3, <2>4, <1>7 DEF Chained
<1>10. Chains(pager) = c BY <1>6, <1>9, ChainsAre
<1>11. StoredOK(c) BY <1>2, <1>5 DEF StoredOK, Zeros
<1>12. ChainOK(c) BY <1>2 DEF ChainOK
<1>13. Store!Init BY <1>2 DEF Store!Init, Store!NoRequest, NoRequest
<1>. QED BY <1>6, <1>9, <1>10, <1>11, <1>12, <1>13 DEF MapInv

\* Every step is a step of KVStore or changes nothing that a caller sees.
LEMMA StepMap ==
    CacheInv /\ MapInv /\ [Next]_vars => MapInv' /\ [Store!Next]_Store!vars
<1>1. SUFFICES ASSUME CacheInv, MapInv, [Next]_vars
               PROVE  MapInv' /\ [Store!Next]_Store!vars
    OBVIOUS
<1>2. Same => UNCHANGED Store!vars BY DEF Same, Store!vars
<1>3. CASE Step /\ Remembered
    BY <1>1, <1>2, <1>3, OpenMap, SearchMap, ReadChunkMap, InsertMap, WriteChunkMap,
       InsertEntryMap, DeleteMap DEF Step
<1>4. CASE Close /\ UNCHANGED before BY <1>1, <1>2, <1>4, CloseMap
<1>5. CASE UNCHANGED before /\ \E req \in Requests : Call(req) BY <1>1, <1>5, CallMap
<1>6. CASE UNCHANGED vars
    <2>1. /\ pager' = pager /\ root' = root /\ pc' = pc /\ call' = call /\ next' = next
          /\ left' = left /\ bytes' = bytes /\ reply' = reply /\ before' = before
        BY <1>6 DEF vars, chain
    <2>2. MapInv' BY <2>1, <1>1 DEF MapInv, StoredOK, ChainOK, Now, Slots
    <2>. QED BY <2>1, <2>2, <1>2 DEF Same
<1>. QED BY <1>1, <1>3, <1>4, <1>5, <1>6 DEF Next
------------------------------------------------------------------------------
\* What every caller gets from the pages is what KVStore answers: search returns what was
\* stored last, insert and update and delete are refused exactly when they should be,
\* although the cache evicts pages in the middle of calls, long values go to chains of
\* pages that nothing frees, and the file is closed and opened in between.
THEOREM PagedImplementsStore == Spec => ImplementsStore
<1>1. Init => CacheInv /\ MapInv /\ Store!Init BY InitCache, InitMap
<1>2. CacheInv /\ MapInv /\ [Next]_vars
        => CacheInv' /\ MapInv' /\ [Store!Next]_Store!vars
    BY StepCache, StepMap
<1>. QED BY <1>1, <1>2, PTL DEF Spec, ImplementsStore, Store!Spec
==============================================================================
