--------------------------- MODULE PagedStoreProofs ---------------------------
(***************************************************************************)
(* The cache never comes between a call and its pages: proofs for          *)
(* PagedStore, for any keys, values, lengths of values and cache size, and *)
(* any number of calls.                                                    *)
(***************************************************************************)
EXTENDS PagedStore, PagerProofs

\* The contents of the pages as a caller sees them, in the cache or in the file.
Seen(p) == [id \in DOMAIN p.file |-> Visible(p, id)]

\* No page id dangles.
Linked(m) ==
    \A id \in DOMAIN m :
        /\ m[id].root \in DOMAIN m /\ m[id].next \in DOMAIN m
        /\ \A k \in DOMAIN m[id].slots : m[id].slots[k].first \in DOMAIN m

Ops(at) ==
    CASE at \in {"search", "read"}            -> {"search", "update"}
      [] at \in {"insert", "write", "entry"}  -> {"insert", "update"}
      [] at = "delete"                        -> {"delete", "update"}
      [] OTHER                                -> {}

ControlOK ==
    /\ pc \in {"closed", "idle", "search", "read", "insert", "write", "entry", "delete"}
    /\ IF pc \in {"closed", "idle"} THEN call = NoRequest
                                    ELSE call \in Requests /\ call.op \in Ops(pc)
    /\ pc # "closed" => root \in DOMAIN pager.file \ {0}
    /\ next \in DOMAIN pager.file

\* The leaf a call writes to at its end is still in the cache: it was used before the
\* pages of the chain written so far, and the chain is shorter than the cache.
LeafHeld ==
    /\ pc = "write" => /\ left \in 1 .. Chunks[call.val]
                       /\ UsedBefore(pager, root, Chunks[call.val] - left)
    /\ pc = "entry" => root \in Cached(pager)

CacheInv == PagerOK(pager) /\ Linked(Seen(pager)) /\ ControlOK /\ LeafHeld
------------------------------------------------------------------------------
\* Whoever sees the same pages sees the same ids.
LEMMA SeenSame ==
    ASSUME NEW p, NEW q, SameContents(p, q)
    PROVE  Seen(q) = Seen(p)
BY DEF SameContents, Seen

\* What a step gets from get_page.
LEMMA Got ==
    ASSUME NEW p, PagerOK(p), NEW id \in DOMAIN p.file
    PROVE  LET q == get_page(p, id)
           IN  /\ Readable(p, id) /\ PagerOK(q) /\ DOMAIN q.file = DOMAIN p.file
               /\ Seen(q) = Seen(p)
               /\ id \in Cached(q) /\ UsedBefore(q, id, 0)
BY PageGot, SeenSame DEF SameContents

\* What a step gets when it fills a page it has.
LEMMA Filled ==
    ASSUME NEW p, PagerOK(p), NEW id \in Cached(p), NEW data
    PROVE  LET q == Write(p, id, data)
           IN  /\ PagerOK(q) /\ DOMAIN q.file = DOMAIN p.file
               /\ Seen(q) = [Seen(p) EXCEPT ![id] = data]
               /\ q.cache = p.cache
<1>1. PICK q : q = Write(p, id, data) OBVIOUS
<1>2. /\ PagerOK(q) /\ DOMAIN q.file = DOMAIN p.file /\ q.cache = p.cache
      /\ Visible(q, id) = data
      /\ \A i \in DOMAIN p.file \ {id} : Visible(q, i) = Visible(p, i)
    BY <1>1, PageWritten
<1>3. id \in DOMAIN p.file BY DEF PagerOK, CacheOK, Cached, Range
<1>4. Seen(q) = [Seen(p) EXCEPT ![id] = data] BY <1>2, <1>3 DEF Seen
<1>. QED BY <1>1, <1>2, <1>4

\* What a step gets when it allocates a page and fills it.
LEMMA Grown ==
    ASSUME NEW p, PagerOK(p), NEW data
    PROVE  LET n == NewId(p)
               q == Write(new_page(p), n, data)
           IN  /\ PagerOK(q) /\ n \in Nat \ {0} /\ n \notin DOMAIN p.file
               /\ DOMAIN q.file = DOMAIN p.file \cup {n}
               /\ Seen(q) = With(Seen(p), n, data)
               /\ \A r, d : d \in Nat /\ d + 1 < MAX_CACHE_PAGES /\ UsedBefore(p, r, d)
                            => UsedBefore(q, r, d + 1)
<1>1. PICK n : n = NewId(p) OBVIOUS
<1>2. PICK r : r = new_page(p) OBVIOUS
<1>3. PICK q : q = Write(r, n, data) OBVIOUS
<1>4. n \in Nat \ {0} /\ n \notin DOMAIN p.file BY <1>1, CountedFile
<1>5. /\ PagerOK(r) /\ DOMAIN r.file = DOMAIN p.file \cup {n}
      /\ \A id \in DOMAIN p.file : Visible(r, id) = Visible(p, id)
      /\ n \in Cached(r)
    BY <1>1, <1>2, PageAdded
<1>6. /\ PagerOK(q) /\ DOMAIN q.file = DOMAIN r.file
      /\ Seen(q) = [Seen(r) EXCEPT ![n] = data] /\ q.cache = r.cache
    BY <1>3, <1>5, Filled
<1>7. Seen(q) = With(Seen(p), n, data) BY <1>4, <1>5, <1>6 DEF Seen, With
<1>8. ASSUME NEW s, NEW d \in Nat, d + 1 < MAX_CACHE_PAGES, UsedBefore(p, s, d)
      PROVE  UsedBefore(q, s, d + 1)
    <2>1. UsedBefore(r, s, d + 1) BY <1>2, <1>8, PageAdded
    <2>. QED BY <2>1, <1>6 DEF UsedBefore
<1>. QED BY <1>1, <1>2, <1>3, <1>4, <1>5, <1>6, <1>7, <1>8

\* No id dangles when a page is added or written whose ids are there.
LEMMA LinkedAfter ==
    ASSUME NEW m, Linked(m), NEW n, NEW data,
           data.root \in DOMAIN m \cup {n}, data.next \in DOMAIN m \cup {n},
           \A k \in DOMAIN data.slots : data.slots[k].first \in DOMAIN m
    PROVE  Linked(With(m, n, data)) /\ (n \in DOMAIN m => Linked([m EXCEPT ![n] = data]))
BY DEF Linked, With
------------------------------------------------------------------------------
\* A page is asked for, and nothing is written.
LEMMA Asked ==
    ASSUME CacheInv, NEW id \in DOMAIN pager.file, pager' = get_page(pager, id)
    PROVE  /\ Readable(pager, id)
           /\ PagerOK(pager') /\ Linked(Seen(pager')) /\ Seen(pager') = Seen(pager)
           /\ DOMAIN pager'.file = DOMAIN pager.file
           /\ id \in Cached(pager') /\ UsedBefore(pager', id, 0)
<1>1. PagerOK(pager) /\ Linked(Seen(pager)) BY DEF CacheInv
<1>. QED BY <1>1, Got

\* Page 0 is in the file.
LEMMA ZeroInFile == ASSUME CacheInv PROVE 0 \in DOMAIN pager.file
BY CountedFile DEF CacheInv

\* The invariant holds of an empty file,
LEMMA InitCache == Init => CacheInv
<1>1. SUFFICES ASSUME Init PROVE CacheInv OBVIOUS
<1>2. pager = Opened(NewFile) BY <1>1 DEF Init
<1>3. /\ IsPager(pager) /\ pager.file = NewFile /\ pager.cache = <<>> /\ pager.mem = <<>>
      /\ pager.dirty = {} /\ Cached(pager) = {}
    BY <1>2 DEF Opened, IsPager, Cached, Range
<1>4. DOMAIN NewFile = {0} /\ NewFile[0] = ZeroPage BY DEF NewFile
<1>5. IsPage(ZeroPage) /\ verify_page_integrity(ZeroPage)
    BY DEF IsPage, verify_page_integrity, ZeroPage, Zeros
<1>6. PagesOK(pager) BY <1>3, <1>4, <1>5 DEF PagesOK
<1>7. CacheOK(<<>>, {0}) BY CacheAssumption DEF CacheOK, IsInjective
<1>8. Numbered(pager.file) BY <1>3, <1>4 DEF Numbered
<1>9. PagerOK(pager) BY <1>3, <1>4, <1>6, <1>7, <1>8 DEF PagerOK
<1>10. Linked(Seen(pager))
    <2>1. Seen(pager) = [id \in {0} |-> Zeros] BY <1>3, <1>4 DEF Seen, Visible, ZeroPage
    <2>. QED BY <2>1 DEF Linked, Zeros
<1>11. ControlOK /\ LeafHeld BY <1>1, <1>3, <1>4 DEF Init, ControlOK, LeafHeld
<1>. QED BY <1>9, <1>10, <1>11 DEF CacheInv

\* What Open gets when it gives the file its first leaf.
LEMMA FirstLeaf ==
    ASSUME NEW p, PagerOK(p), 0 \in DOMAIN p.file, UsedBefore(p, 0, 0)
    PROVE  LET id == NewId(p)
               d0 == [Zeros EXCEPT !.root = id]
               q  == Write(Write(new_page(p), 0, d0), id, Leaf(<<>>))
           IN  /\ PagerOK(q) /\ id \in Nat \ {0} /\ id \notin DOMAIN p.file
               /\ DOMAIN q.file = DOMAIN p.file \cup {id}
               /\ Seen(q) = [With([Seen(p) EXCEPT ![0] = d0], id, Zeros)
                              EXCEPT ![id] = Leaf(<<>>)]
<1>1. PICK id : id = NewId(p) OBVIOUS
<1>2. PICK fresh : fresh = new_page(p) OBVIOUS
<1>3. PICK d0 : d0 = [Zeros EXCEPT !.root = id] OBVIOUS
<1>4. PICK w : w = Write(fresh, 0, d0) OBVIOUS
<1>5. PICK d1 : d1 = Leaf(<<>>) OBVIOUS
<1>6. PICK q : q = Write(w, id, d1) OBVIOUS
<1>7. id \in Nat \ {0} /\ id \notin DOMAIN p.file BY <1>1, CountedFile
<1>8. /\ PagerOK(fresh) /\ DOMAIN fresh.file = DOMAIN p.file \cup {id}
      /\ id \in Cached(fresh)
      /\ \A i \in DOMAIN p.file : Visible(fresh, i) = Visible(p, i)
      /\ Visible(fresh, id) = Zeros
      /\ UsedBefore(fresh, 0, 1)
    <2>1. 0 \in Nat /\ 0 + 1 = 1 /\ 1 < MAX_CACHE_PAGES
        BY ChainAssumption, CacheAssumption
    <2>. QED BY <2>1, <1>1, <1>2, PageAdded
<1>9. 0 \in Cached(fresh)
    <2>1. CacheOK(fresh.cache, DOMAIN fresh.file) BY <1>8 DEF PagerOK
    <2>2. Len(fresh.cache) \in Nat /\ DOMAIN fresh.cache = 1 .. Len(fresh.cache)
        BY <2>1 DEF CacheOK
    <2>3. Len(fresh.cache) - 1 \in 1 .. Len(fresh.cache) /\ fresh.cache[Len(fresh.cache) - 1] = 0
        BY <2>2, <1>8 DEF UsedBefore
    <2>. QED BY <2>2, <2>3 DEF Cached, Range
<1>10. /\ PagerOK(w) /\ DOMAIN w.file = DOMAIN fresh.file
       /\ Seen(w) = [Seen(fresh) EXCEPT ![0] = d0] /\ id \in Cached(w)
    BY <1>4, <1>8, <1>9, Filled DEF Cached
<1>11. /\ PagerOK(q) /\ DOMAIN q.file = DOMAIN w.file
       /\ Seen(q) = [Seen(w) EXCEPT ![id] = d1]
    <2>1. PagerOK(w) /\ id \in Cached(w) BY <1>10
    <2>. QED BY <2>1, <1>6, Filled
<1>12. Seen(fresh) = With(Seen(p), id, Zeros) BY <1>7, <1>8 DEF Seen, With
<1>13. PICK m : m = Seen(p) OBVIOUS
<1>14. DOMAIN m = DOMAIN p.file BY <1>13 DEF Seen
<1>15. [With(m, id, Zeros) EXCEPT ![0] = d0] = With([m EXCEPT ![0] = d0], id, Zeros)
    BY <1>7, <1>14 DEF With
<1>16. Seen(q) = [With([m EXCEPT ![0] = d0], id, Zeros) EXCEPT ![id] = d1]
    BY <1>10, <1>11, <1>12, <1>13, <1>15
<1>. QED BY <1>1, <1>2, <1>3, <1>4, <1>5, <1>6, <1>7, <1>8, <1>10, <1>11, <1>13, <1>16

\* and every step keeps it: Pager.__init__ and BPlusTree.__init__,
LEMMA OpenCache == ASSUME CacheInv, Open PROVE CacheInv'
<1>0. PICK meta : meta = get_page(pager, 0) OBVIOUS
<1>1. PagerOK(pager) /\ Linked(Seen(pager)) /\ ControlOK BY DEF CacheInv
<1>2. 0 \in DOMAIN pager.file BY ZeroInFile
<1>3. /\ PagerOK(meta) /\ Seen(meta) = Seen(pager) /\ DOMAIN meta.file = DOMAIN pager.file
      /\ 0 \in Cached(meta) /\ UsedBefore(meta, 0, 0)
    BY <1>0, <1>1, <1>2, Got
<1>4. /\ pc' = "idle" /\ call' = NoRequest /\ next' = next /\ pc = "closed"
    BY <1>1 DEF Open, ControlOK, chain
<1>5. CASE Visible(meta, 0).root # 0
    <2>1. pager' = meta /\ root' = Visible(meta, 0).root BY <1>0, <1>5 DEF Open
    <2>2. root' \in DOMAIN pager.file \ {0}
        <3>1. Visible(meta, 0) = Seen(pager)[0] BY <1>2, <1>3 DEF Seen
        <3>. QED BY <3>1, <2>1, <1>1, <1>2, <1>5 DEF Linked, Seen
    <2>3. ControlOK' BY <2>1, <2>2, <1>1, <1>3, <1>4 DEF ControlOK
    <2>4. LeafHeld' BY <1>4 DEF LeafHeld
    <2>. QED BY <2>1, <2>3, <2>4, <1>1, <1>3 DEF CacheInv
<1>6. CASE Visible(meta, 0).root = 0
    <2>1. PICK id : id = NewId(meta) OBVIOUS
    <2>2. PICK d0 : d0 = [Zeros EXCEPT !.root = id] OBVIOUS
    <2>3. PICK d1 : d1 = Leaf(<<>>) OBVIOUS
    <2>4. PICK q : q = Write(Write(new_page(meta), 0, d0), id, d1) OBVIOUS
    <2>5. pager' = q /\ root' = id
        BY <2>1, <2>2, <2>3, <2>4, <1>0, <1>6 DEF Open
    <2>6. PICK m : m = Seen(pager) OBVIOUS
    <2>7. /\ PagerOK(q) /\ id \in Nat \ {0}
          /\ DOMAIN q.file = DOMAIN pager.file \cup {id}
          /\ Seen(q) = [With([m EXCEPT ![0] = d0], id, Zeros) EXCEPT ![id] = d1]
        BY <2>1, <2>2, <2>3, <2>4, <2>6, <1>2, <1>3, FirstLeaf
    <2>8. Linked(Seen(q))
        <3>1. /\ DOMAIN m = DOMAIN pager.file /\ 0 \in DOMAIN m /\ Linked(m)
            BY <2>6, <1>1, <1>2 DEF Seen
        <3>2. d0.root = id /\ d0.next = 0 /\ DOMAIN d0.slots = {} BY <2>2 DEF Zeros
        <3>3. PICK z : z = Zeros OBVIOUS
        <3>4. z.root = 0 /\ z.next = 0 /\ DOMAIN z.slots = {} BY <3>3 DEF Zeros
        <3>5. d1.root = 0 /\ d1.next = 0 /\ DOMAIN d1.slots = {} BY <2>3 DEF Leaf, Zeros
        <3>6. PICK k : k = With(m, id, z) OBVIOUS
        <3>7. Linked(k) /\ 0 \in DOMAIN k /\ id \in DOMAIN k
            <4>1. Linked(k) BY <3>1, <3>4, <3>6, LinkedAfter
            <4>. QED BY <4>1, <3>1, <3>6 DEF With
        <3>8. PICK l : l = [k EXCEPT ![0] = d0] OBVIOUS
        <3>9. Linked(l) /\ DOMAIN l = DOMAIN k
            BY <3>2, <3>7, <3>8, LinkedAfter
        <3>10. Linked([l EXCEPT ![id] = d1]) BY <3>5, <3>7, <3>9, LinkedAfter
        <3>11. l = With([m EXCEPT ![0] = d0], id, z)
            BY <3>1, <3>6, <3>8, <2>7 DEF With
        <3>. QED BY <3>3, <3>10, <3>11, <2>7
    <2>9. ControlOK' BY <2>5, <2>7, <1>1, <1>4 DEF ControlOK
    <2>10. LeafHeld' BY <1>4 DEF LeafHeld
    <2>. QED BY <2>5, <2>7, <2>8, <2>9, <2>10 DEF CacheInv
<1>. QED BY <1>5, <1>6

\* Pager.close,
LEMMA CloseCache == ASSUME CacheInv, Close PROVE CacheInv'
<1>1. /\ PagerOK(pager) /\ Linked(Seen(pager)) /\ ControlOK
      /\ pager' = Opened(flush_all(pager).file) /\ pc' = "closed"
      /\ call' = NoRequest /\ next' = next
    BY DEF CacheInv, Close, chain
<1>2. PagerOK(pager') /\ SameContents(pager, pager') BY <1>1, Reopened
<1>3. Seen(pager') = Seen(pager) /\ DOMAIN pager'.file = DOMAIN pager.file
    BY <1>2, SeenSame DEF SameContents
<1>4. ControlOK' /\ LeafHeld' BY <1>1, <1>3 DEF ControlOK, LeafHeld
<1>. QED BY <1>1, <1>2, <1>3, <1>4 DEF CacheInv

\* the begin of a call,
LEMMA CallCache == ASSUME CacheInv, NEW req \in Requests, Call(req) PROVE CacheInv'
<1>1. /\ UNCHANGED <<pager, root, next>> /\ pc = "idle" /\ call' = req
      /\ pc' = IF req.op = "update" THEN "search" ELSE req.op
    BY DEF Call, chain
<1>2. req.op \in {"search", "delete", "insert", "update"} BY DEF Requests
<1>3. ControlOK' BY <1>1, <1>2 DEF CacheInv, ControlOK, Ops
<1>4. LeafHeld' BY <1>1, <1>2 DEF LeafHeld
<1>. QED BY <1>1, <1>3, <1>4 DEF CacheInv

\* the end of a call,
LEMMA ReturnControl ==
    ASSUME CacheInv, NEW r, Return(r), UNCHANGED root, pc # "closed",
           DOMAIN pager'.file = DOMAIN pager.file
    PROVE  ControlOK' /\ LeafHeld'
<1>1. 0 \in DOMAIN pager.file /\ ControlOK BY ZeroInFile DEF CacheInv
<1>. QED BY <1>1 DEF Return, ControlOK, LeafHeld

\* the end of a search, of which update goes on,
LEMMA FoundControl ==
    ASSUME CacheInv, NEW v, Found(v), UNCHANGED root, pc \in {"search", "read"},
           DOMAIN pager'.file = DOMAIN pager.file
    PROVE  ControlOK' /\ LeafHeld'
<1>1. 0 \in DOMAIN pager.file /\ ControlOK BY ZeroInFile DEF CacheInv
<1>2. CASE \E r : Return(r) BY <1>2, ReturnControl
<1>3. CASE Continue("delete") /\ call.op # "search"
    <2>1. pc' = "delete" /\ next' = 0 /\ call' = call BY <1>3 DEF Continue
    <2>2. call \in Requests /\ call.op = "update" BY <1>1, <1>3 DEF ControlOK, Ops
    <2>. QED BY <2>1, <2>2, <1>1 DEF ControlOK, LeafHeld, Ops
<1>. QED BY <1>2, <1>3 DEF Found

\* search,
LEMMA SearchCache == ASSUME CacheInv, Search PROVE CacheInv'
<1>1. /\ pc = "search" /\ pager' = get_page(pager, root) /\ root' = root BY DEF Search
<1>2. ControlOK /\ Linked(Seen(pager)) /\ root \in DOMAIN pager.file
    BY <1>1 DEF CacheInv, ControlOK
<1>3. /\ Readable(pager, root) /\ PagerOK(pager') /\ Linked(Seen(pager'))
      /\ DOMAIN pager'.file = DOMAIN pager.file
    BY <1>1, <1>2, Asked
<1>4. ControlOK' /\ LeafHeld'
    <2>1. CASE \E v : Found(v) BY <2>1, <1>1, <1>3, FoundControl
    <2>2. CASE /\ call.key \in DOMAIN Slots
               /\ pc' = "read" /\ next' = Slots[call.key].first /\ call' = call
        <3>1. Slots = Seen(pager)[root].slots BY <1>2 DEF Slots, Seen
        <3>2. next' \in DOMAIN pager.file BY <3>1, <2>2, <1>2 DEF Linked, Seen
        <3>. QED BY <3>2, <2>2, <1>1, <1>2, <1>3 DEF ControlOK, LeafHeld, Ops
    <2>. QED BY <2>1, <2>2, <1>3 DEF Search
<1>. QED BY <1>3, <1>4 DEF CacheInv

\* a turn of _read_overflow_pages,
LEMMA ReadChunkCache == ASSUME CacheInv, ReadChunk PROVE CacheInv'
<1>1. /\ pc = "read" /\ pager' = get_page(pager, next) /\ root' = root BY DEF ReadChunk
<1>2. ControlOK /\ Linked(Seen(pager)) /\ next \in DOMAIN pager.file
    BY <1>1 DEF CacheInv, ControlOK
<1>3. /\ Readable(pager, next) /\ PagerOK(pager') /\ Linked(Seen(pager'))
      /\ DOMAIN pager'.file = DOMAIN pager.file
    BY <1>1, <1>2, Asked
<1>4. ControlOK' /\ LeafHeld'
    <2>1. CASE \E v : Found(v) BY <2>1, <1>1, <1>3, FoundControl
    <2>2. CASE pc' = pc /\ next' = Visible(pager, next).next /\ call' = call
        <3>1. Visible(pager, next) = Seen(pager)[next] BY <1>2 DEF Seen
        <3>2. next' \in DOMAIN pager.file BY <3>1, <2>2, <1>2 DEF Linked, Seen
        <3>. QED BY <3>2, <2>2, <1>1, <1>2, <1>3 DEF ControlOK, LeafHeld
    <2>. QED BY <2>1, <2>2, <1>3 DEF ReadChunk
<1>. QED BY <1>3, <1>4 DEF CacheInv

\* (what insert and update are called with)
LEMMA RequestVal ==
    ASSUME ControlOK, pc \in {"insert", "write", "entry"}
    PROVE  /\ call.val \in Vals /\ call.key \in Keys
           /\ Chunks[call.val] \in Nat /\ Chunks[call.val] < MAX_CACHE_PAGES
<1>1. call \in Requests /\ call.op \in {"insert", "update"} BY DEF ControlOK, Ops
<1>2. call.val \in Vals /\ call.key \in Keys BY <1>1 DEF Requests
<1>. QED BY <1>2, ChainAssumption

\* the begin of insert,
LEMMA InsertCache == ASSUME CacheInv, Insert PROVE CacheInv'
<1>1. /\ pc = "insert" /\ pager' = get_page(pager, root) /\ root' = root BY DEF Insert
<1>2. ControlOK /\ root \in DOMAIN pager.file BY <1>1 DEF CacheInv, ControlOK
<1>3. /\ Readable(pager, root) /\ PagerOK(pager') /\ Linked(Seen(pager'))
      /\ DOMAIN pager'.file = DOMAIN pager.file
      /\ root \in Cached(pager') /\ UsedBefore(pager', root, 0)
    BY <1>1, <1>2, Asked
<1>4. /\ pc' = IF Chunks[call.val] > 0 THEN "write" ELSE "entry"
      /\ left' = Chunks[call.val] /\ next' = 0 /\ call' = call
    BY <1>3 DEF Insert
<1>5. Chunks[call.val] \in Nat BY <1>1, <1>2, RequestVal
<1>6. ControlOK'
    BY <1>1, <1>2, <1>3, <1>4, ZeroInFile DEF ControlOK, Ops
<1>7. LeafHeld'
    <2>1. Chunks[call.val] > 0 => Chunks[call.val] \in 1 .. Chunks[call.val] BY <1>5
    <2>2. Chunks[call.val] - Chunks[call.val] = 0 BY <1>5
    <2>. QED BY <2>1, <2>2, <1>1, <1>3, <1>4 DEF LeafHeld
<1>. QED BY <1>3, <1>6, <1>7 DEF CacheInv

\* a turn of _write_overflow_pages, where the leaf gets one page older in the cache,
LEMMA WriteChunkCache == ASSUME CacheInv, WriteChunk PROVE CacheInv'
<1>1. PICK n : n = NewId(pager) OBVIOUS
<1>2. PICK data : data = Overflow(next, <<call.val, left>>) OBVIOUS
<1>3. PICK q : q = Write(new_page(pager), n, data) OBVIOUS
<1>4. /\ pc = "write" /\ pager' = q /\ next' = n /\ left' = left - 1
      /\ pc' = IF left = 1 THEN "entry" ELSE "write"
      /\ root' = root /\ call' = call
    BY <1>1, <1>2, <1>3 DEF WriteChunk
<1>5. PagerOK(pager) /\ Linked(Seen(pager)) /\ ControlOK BY DEF CacheInv
<1>6. /\ PagerOK(q) /\ n \notin DOMAIN pager.file
      /\ DOMAIN q.file = DOMAIN pager.file \cup {n}
      /\ Seen(q) = With(Seen(pager), n, data)
      /\ \A r, d : d \in Nat /\ d + 1 < MAX_CACHE_PAGES /\ UsedBefore(pager, r, d)
                   => UsedBefore(q, r, d + 1)
    BY <1>1, <1>3, <1>5, Grown
<1>7. Linked(Seen(q))
    <2>1. PICK m : m = Seen(pager) OBVIOUS
    <2>2. data.next = next /\ data.root = 0 /\ DOMAIN data.slots = {}
        BY <1>2 DEF Overflow, Zeros
    <2>3. DOMAIN m = DOMAIN pager.file BY <2>1 DEF Seen
    <2>4. data.next \in DOMAIN m /\ data.root \in DOMAIN m
        BY <2>2, <2>3, <1>5, ZeroInFile DEF ControlOK
    <2>5. Linked(With(m, n, data)) BY <2>1, <2>2, <2>4, <1>5, LinkedAfter
    <2>. QED BY <2>1, <2>5, <1>6
<1>8. ControlOK' BY <1>4, <1>5, <1>6 DEF ControlOK, Ops
<1>9. LeafHeld'
    <2>1. PICK c \in Nat : c = Chunks[call.val] /\ c < MAX_CACHE_PAGES
        BY <1>4, <1>5, RequestVal
    <2>2. left \in 1 .. c /\ UsedBefore(pager, root, c - left)
        BY <2>1, <1>4 DEF CacheInv, LeafHeld
    <2>3. /\ c - left \in Nat /\ (c - left) + 1 < MAX_CACHE_PAGES
          /\ (c - left) + 1 = c - (left - 1)
        BY <2>1, <2>2, CacheAssumption
    <2>4. UsedBefore(q, root, c - (left - 1)) BY <2>2, <2>3, <1>6
    <2>5. root \in Cached(q)
        <3>1. PICK d \in Nat : d = c - (left - 1) BY <2>3
        <3>2. PICK s : s = q.cache OBVIOUS
        <3>3. Len(s) \in Nat /\ DOMAIN s = 1 .. Len(s)
            BY <3>2, <1>6 DEF PagerOK, CacheOK
        <3>4. d < Len(s) /\ s[Len(s) - d] = root BY <3>1, <3>2, <2>4 DEF UsedBefore
        <3>5. Len(s) - d \in 1 .. Len(s) BY <3>3, <3>4
        <3>. QED BY <3>2, <3>3, <3>4, <3>5 DEF Cached, Range
    <2>6. left # 1 => left - 1 \in 1 .. c BY <2>2
    <2>. QED BY <2>1, <2>4, <2>5, <2>6, <1>4 DEF LeafHeld
<1>. QED BY <1>4, <1>6, <1>7, <1>8, <1>9 DEF CacheInv

\* A leaf with other slots, whose chains exist.
LEMMA LeafWritten ==
    ASSUME NEW p, PagerOK(p), Linked(Seen(p)), NEW id \in Cached(p), NEW slots,
           0 \in DOMAIN p.file,
           \A k \in DOMAIN slots : slots[k].first \in DOMAIN p.file
    PROVE  LET q == Write(p, id, Leaf(slots))
           IN  /\ PagerOK(q) /\ Linked(Seen(q)) /\ DOMAIN q.file = DOMAIN p.file
               /\ Seen(q) = [Seen(p) EXCEPT ![id] = Leaf(slots)]
<1>1. PICK data : data = Leaf(slots) OBVIOUS
<1>2. PICK q : q = Write(p, id, data) OBVIOUS
<1>3. /\ PagerOK(q) /\ DOMAIN q.file = DOMAIN p.file
      /\ Seen(q) = [Seen(p) EXCEPT ![id] = data]
    BY <1>2, Filled
<1>4. PICK m : m = Seen(p) OBVIOUS
<1>5. DOMAIN m = DOMAIN p.file /\ id \in DOMAIN p.file
    BY <1>4 DEF Seen, PagerOK, CacheOK, Cached, Range
<1>6. data.root = 0 /\ data.next = 0 /\ data.slots = slots BY <1>1 DEF Leaf, Zeros
<1>7. Linked([m EXCEPT ![id] = data]) BY <1>4, <1>5, <1>6, LinkedAfter
<1>. QED BY <1>1, <1>2, <1>3, <1>4, <1>7

\* _insert_data_into_page, which writes to the leaf it got before the chain,
LEMMA InsertEntryCache == ASSUME CacheInv, InsertEntry PROVE CacheInv'
<1>1. PagerOK(pager) /\ Linked(Seen(pager)) /\ ControlOK /\ pc = "entry" /\ root' = root
    BY DEF CacheInv, InsertEntry
<1>2. CASE Return("error") /\ UNCHANGED pager
    BY <1>1, <1>2, ReturnControl DEF CacheInv
<1>3. CASE ~(Return("error") /\ UNCHANGED pager)
    <2>1. PICK slot : slot = [val |-> IF next = 0 THEN call.val ELSE Null, first |-> next]
        OBVIOUS
    <2>2. PICK slots : slots = With(Slots, call.key, slot) OBVIOUS
    <2>3. pager' = Write(pager, root, Leaf(slots)) /\ Return("ok")
        BY <2>1, <2>2, <1>3 DEF InsertEntry
    <2>4. root \in Cached(pager) /\ root \in DOMAIN pager.file /\ 0 \in DOMAIN pager.file
        BY <1>1, ZeroInFile DEF CacheInv, LeafHeld, ControlOK
    <2>5. \A k \in DOMAIN slots : slots[k].first \in DOMAIN pager.file
        <3>1. Slots = Seen(pager)[root].slots BY <2>4 DEF Slots, Seen
        <3>2. \A k \in DOMAIN Slots : Slots[k].first \in DOMAIN pager.file
            BY <3>1, <2>4, <1>1 DEF Linked, Seen
        <3>3. slot.first \in DOMAIN pager.file BY <2>1, <1>1 DEF ControlOK
        <3>. QED BY <3>2, <3>3, <2>2 DEF With
    <2>6. PagerOK(pager') /\ Linked(Seen(pager')) /\ DOMAIN pager'.file = DOMAIN pager.file
        BY <2>3, <2>4, <2>5, <1>1, LeafWritten
    <2>. QED BY <2>3, <2>6, <1>1, ReturnControl DEF CacheInv
<1>. QED BY <1>2, <1>3

\* and _delete_from_leaf.
LEMMA DeleteCache == ASSUME CacheInv, Delete PROVE CacheInv'
<1>1. ControlOK /\ pc = "delete" /\ root' = root BY DEF CacheInv, Delete
<1>2. root \in DOMAIN pager.file /\ 0 \in DOMAIN pager.file
    BY <1>1, ZeroInFile DEF ControlOK
<1>3. PICK g : g = get_page(pager, root) OBVIOUS
<1>4. /\ Readable(pager, root) /\ PagerOK(g) /\ Linked(Seen(g))
      /\ Seen(g) = Seen(pager) /\ DOMAIN g.file = DOMAIN pager.file /\ root \in Cached(g)
    BY <1>2, <1>3, Got DEF CacheInv
<1>5. CASE call.key \notin DOMAIN Slots
    <2>1. Return("error") /\ pager' = g BY <1>3, <1>5 DEF Delete
    <2>. QED BY <2>1, <1>1, <1>4, ReturnControl DEF CacheInv
<1>6. CASE call.key \in DOMAIN Slots
    <2>1. PICK rest : rest = [k \in DOMAIN Slots \ {call.key} |-> Slots[k]] OBVIOUS
    <2>2. /\ pager' = Write(g, root, Leaf(rest))
          /\ IF call.op = "update" THEN Continue("insert") ELSE Return("ok")
        BY <2>1, <1>3, <1>4, <1>6 DEF Delete
    <2>3. \A k \in DOMAIN rest : rest[k].first \in DOMAIN g.file
        <3>1. Slots = Seen(pager)[root].slots BY <1>2 DEF Slots, Seen
        <3>. QED BY <3>1, <2>1, <1>2, <1>4 DEF Linked, Seen
    <2>4. PagerOK(pager') /\ Linked(Seen(pager')) /\ DOMAIN pager'.file = DOMAIN pager.file
        BY <2>2, <2>3, <1>2, <1>4, LeafWritten
    <2>5. CASE call.op = "update"
        <3>1. pc' = "insert" /\ next' = 0 /\ call' = call BY <2>2, <2>5 DEF Continue
        <3>2. ControlOK' /\ LeafHeld' BY <3>1, <2>4, <2>5, <1>1, <1>2 DEF ControlOK, LeafHeld, Ops
        <3>. QED BY <3>2, <2>4 DEF CacheInv
    <2>6. CASE call.op # "update"
        BY <2>2, <2>4, <2>6, <1>1, ReturnControl DEF CacheInv
    <2>. QED BY <2>5, <2>6
<1>. QED BY <1>5, <1>6

\* CacheInv is inductive.
LEMMA StepCache == CacheInv /\ [Next]_vars => CacheInv'
<1>1. SUFFICES ASSUME CacheInv, [Next]_vars PROVE CacheInv' OBVIOUS
<1>2. CASE Step
    BY <1>1, <1>2, OpenCache, SearchCache, ReadChunkCache, InsertCache, WriteChunkCache,
       InsertEntryCache, DeleteCache DEF Step
<1>3. CASE Close BY <1>1, <1>3, CloseCache
<1>4. CASE \E req \in Requests : Call(req) BY <1>1, <1>4, CallCache
<1>5. CASE UNCHANGED vars
    BY <1>1, <1>5 DEF vars, chain, CacheInv, ControlOK, LeafHeld
<1>. QED BY <1>1, <1>2, <1>3, <1>4, <1>5 DEF Next
------------------------------------------------------------------------------
\* So it holds in every state.
LEMMA CacheInvariant == Spec => []CacheInv
<1>1. Init => CacheInv BY InitCache
<1>2. CacheInv /\ [Next]_vars => CacheInv' BY StepCache
<1>. QED BY <1>1, <1>2, PTL DEF Spec

\* A cache that holds no page twice is as long as it has pages.
LEMMA CacheLength ==
    ASSUME NEW ids, NEW c, CacheOK(c, ids)
    PROVE  Len(c) = Cardinality(Range(c))
<1>1. c \in Seq(ids) /\ IsInjective(c) BY DEF CacheOK
<1>2. PICK n \in Nat : n = Len(c) /\ DOMAIN c = 1 .. n BY <1>1
<1>3. c \in [1 .. n -> Range(c)]
    <2>1. c = [i \in 1 .. n |-> c[i]] BY <1>1, <1>2
    <2>2. \A i \in 1 .. n : c[i] \in Range(c) BY <1>2 DEF Range
    <2>. QED BY <2>1, <2>2
<1>4. \A r \in Range(c) : \E i \in 1 .. n : c[i] = r BY <1>2 DEF Range
<1>5. c \in Bijection(1 .. n, Range(c))
    BY <1>1, <1>3, <1>4 DEF Bijection, Injection, Surjection
<1>6. ExistsBijection(1 .. n, Range(c)) BY <1>5 DEF ExistsBijection
<1>. QED BY <1>2, <1>6, FS_CountingElements

\* The cache never holds more than MAX_CACHE_PAGES pages nor a page twice, its keys and
\* the pages in memory are the same, and a call in progress is one of the requests,
\* through get_page, new_page, mark_dirty, flush_all and every step between them.
THEOREM PagedTypeCorrect == Spec => []TypeOK
<1>1. CacheInv => TypeOK
    <2>1. SUFFICES ASSUME CacheInv PROVE TypeOK OBVIOUS
    <2>2. PagesOK(pager) /\ CacheOK(pager.cache, DOMAIN pager.file) /\ ControlOK
        BY <2>1 DEF CacheInv, PagerOK
    <2>3. Cached(pager) \subseteq DOMAIN pager.file BY <2>2 DEF CacheOK, Cached, Range
    <2>4. Len(pager.cache) = Cardinality(Cached(pager)) BY <2>2, CacheLength DEF Cached
    <2>5. call \in Requests \cup {NoRequest} BY <2>2 DEF ControlOK
    <2>. QED BY <2>2, <2>3, <2>4, <2>5 DEF TypeOK, PagesOK, CacheOK, ControlOK
<1>. QED BY <1>1, CacheInvariant, PTL

\* get_page never raises its alarm for what MarcoDB wrote itself: _evict_page and
\* flush_all sign every page they write, and new_page writes a page of zeros.
THEOREM NoAlarm == Spec => []NoFalseAlarm
<1>1. CacheInv => NoFalseAlarm BY DEF CacheInv, PagerOK, PagesOK, NoFalseAlarm
<1>. QED BY <1>1, CacheInvariant, PTL

\* No page that btree.py marks dirty has been evicted since it got it, so flush_all
\* passes over none: the leaf an insert holds while it writes the chain of a long value
\* stays in the cache, because the chain is shorter than the cache.
THEOREM DirtyStaysCached == Spec => []DirtyIsCached
<1>1. CacheInv => DirtyIsCached BY DEF CacheInv, PagerOK, PagesOK, DirtyIsCached
<1>. QED BY <1>1, CacheInvariant, PTL

\* A page that is not dirty can be dropped: the file has its content.
THEOREM CleanIsSaved == Spec => []CleanMatchesFile
<1>1. CacheInv => CleanMatchesFile BY DEF CacheInv, PagerOK, PagesOK, CleanMatchesFile
<1>. QED BY <1>1, CacheInvariant, PTL
==============================================================================
