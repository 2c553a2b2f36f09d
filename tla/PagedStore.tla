------------------------------ MODULE PagedStore ------------------------------
(***************************************************************************)
(* A database of one leaf and its overflow pages, in a file behind a cache *)
(* smaller than the file.  A step is one call of the pager with what       *)
(* btree.py does before the next, so the cache may evict any page in the   *)
(* middle of a call, also the leaf the call holds.  The entries fit the    *)
(* leaf: BPlusTree has the splits and merges, with all pages in memory.    *)
(***************************************************************************)
EXTENDS Pager

CONSTANTS
    Keys, Vals, Null,
    Chunks,       \* Chunks[v]: the overflow pages a value needs, 0 if it fits the leaf
    MaxCalls,     \* bound: how many requests the callers make
    MaxCloses     \* bound: how often the file is closed

\* A call that writes a chain still has the leaf in the cache when it returns to it.
\* (In the code: 50000 pages, and 17 for the longest value a log record can hold.)
ASSUME ChainAssumption ==
    /\ Chunks \in [Vals -> Nat]
    /\ MAX_CACHE_PAGES >= 2 /\ \A v \in Vals : Chunks[v] < MAX_CACHE_PAGES
    /\ Null \notin Keys \cup Vals

VARIABLES
    pager,
    root,      \* root_page_id
    pc,        \* what runs next; "idle" between calls, "closed" without a pager
    call,      \* the request in progress
    next,      \* next_page_id or current_page_id on the chain
    left,      \* the chunks of the value that are still to write
    bytes,     \* the chunks read so far
    reply,
    before,    \* history: the value of each key when the last call was finished
    calls, closes

chain  == <<next, left, bytes>>
bounds == <<calls, closes>>
vars   == <<pager, root, pc, call, chain, reply, before, bounds>>

NoRequest == [op |-> "none", key |-> Null, val |-> Null]
Requests  == [op : {"search", "delete"}, key : Keys, val : {Null}]
               \cup [op : {"insert", "update"}, key : Keys, val : Vals]

ChunksOf(v) == [i \in 1..Chunks[v] |-> <<v, i>>]
Decoded(bs) == IF \E v \in Vals : ChunksOf(v) = bs
               THEN CHOOSE v \in Vals : ChunksOf(v) = bs ELSE "garbled"

Leaf(slots)           == [Zeros EXCEPT !.type = "leaf", !.slots = slots]
Overflow(id, chunk)   == [Zeros EXCEPT !.type = "overflow", !.next = id, !.chunk = chunk]
Slots                 == Visible(pager, root).slots

\* The chunks from each page to the end of its chain.
Chains(p) ==
    LET chunks[id \in DOMAIN p.file] ==
          IF id = 0 THEN <<>> ELSE <<Visible(p, id).chunk>> \o chunks[Visible(p, id).next]
    IN  chunks

\* What a search would find.
Stored(slot) == IF slot.first = 0 THEN slot.val ELSE Decoded(Chains(pager)[slot.first])
Contents     == [k \in Keys |-> IF k \in DOMAIN Slots THEN Stored(Slots[k]) ELSE Null]

Init ==
    /\ pager = Opened(NewFile) /\ root = 0 /\ pc = "closed"
    /\ call = NoRequest /\ reply = "none"
    /\ next = 0 /\ left = 0 /\ bytes = <<>>
    /\ before = [k \in Keys |-> Null]
    /\ calls = 0 /\ closes = 0
------------------------------------------------------------------------------
\* Pager.__init__ and BPlusTree.__init__; an exception ends the program.
Open ==
    LET meta  == get_page(pager, 0)
        fresh == new_page(meta)
        id    == NewId(meta)
    IN  /\ pc = "closed" /\ Readable(pager, 0)
        /\ IF Visible(meta, 0).root # 0
             THEN pager' = meta /\ root' = Visible(meta, 0).root
             ELSE /\ pager' = Write(Write(fresh, 0, [Zeros EXCEPT !.root = id]), id, Leaf(<<>>))
                  /\ root' = id
        /\ pc' = "idle"
        /\ UNCHANGED <<call, chain, reply>>

\* Pager.close, at the end of the server and of the shell.
Close ==
    /\ pc = "idle" /\ call = NoRequest
    /\ pager' = Opened(flush_all(pager).file)
    /\ pc' = "closed"
    /\ UNCHANGED <<root, call, chain, reply>>

Call(req) ==
    /\ pc = "idle"
    /\ call' = req /\ reply' = "none"
    /\ pc' = IF req.op = "update" THEN "search" ELSE req.op
    /\ UNCHANGED <<pager, root, chain>>

Return(r) ==
    /\ pc' = "idle" /\ call' = NoRequest /\ reply' = r
    /\ next' = 0 /\ left' = 0 /\ bytes' = <<>>

Continue(at) == pc' = at /\ next' = 0 /\ bytes' = <<>> /\ UNCHANGED <<call, reply, left>>

\* The end of a search, which update makes first.
Found(v) ==
    IF call.op = "search" THEN Return(v)
    ELSE IF v = Null THEN Return("error")
    ELSE Continue("delete")

Search ==
    /\ pc = "search"
    /\ pager' = get_page(pager, root)
    /\ IF ~Readable(pager, root) THEN Return("error")
       ELSE IF call.key \notin DOMAIN Slots THEN Found(Null)
       ELSE IF Slots[call.key].first = 0 THEN Found(Slots[call.key].val)
       ELSE /\ pc' = "read" /\ next' = Slots[call.key].first
            /\ UNCHANGED <<call, reply, left, bytes>>
    /\ UNCHANGED root

\* A turn of the loop of _read_overflow_pages.
ReadChunk ==
    LET page == Visible(pager, next)
    IN  /\ pc = "read"
        /\ pager' = get_page(pager, next)
        /\ IF ~Readable(pager, next) THEN Return("error")
           ELSE IF page.next = 0 THEN Found(Decoded(Append(bytes, page.chunk)))
           ELSE /\ next' = page.next /\ bytes' = Append(bytes, page.chunk)
                /\ UNCHANGED <<pc, call, reply, left>>
        /\ UNCHANGED root

Insert ==
    /\ pc = "insert"
    /\ pager' = get_page(pager, root)
    /\ IF ~Readable(pager, root) THEN Return("error")
       ELSE /\ pc' = IF Chunks[call.val] > 0 THEN "write" ELSE "entry"
            /\ left' = Chunks[call.val] /\ next' = 0
            /\ UNCHANGED <<call, reply, bytes>>
    /\ UNCHANGED root

\* A turn of the loop of _write_overflow_pages, which goes from the last chunk to the
\* first; the id in `next' is the head of the chain in the end.
WriteChunk ==
    /\ pc = "write"
    /\ pager' = Write(new_page(pager), NewId(pager), Overflow(next, <<call.val, left>>))
    /\ next' = NewId(pager) /\ left' = left - 1
    /\ pc' = IF left = 1 THEN "entry" ELSE "write"
    /\ UNCHANGED <<root, call, bytes, reply>>

\* _insert_data_into_page: a duplicate is refused only now, and its chain stays in the
\* file for good.
InsertEntry ==
    LET slot == [val |-> IF next = 0 THEN call.val ELSE Null, first |-> next]
    IN  /\ pc = "entry"
        /\ IF call.key \in DOMAIN Slots THEN Return("error") /\ UNCHANGED pager
           ELSE /\ pager' = Write(pager, root, Leaf(With(Slots, call.key, slot)))
                /\ Return("ok")
        /\ UNCHANGED root

\* _delete_from_leaf; the chain of a long value stays in the file as well.
Delete ==
    LET rest == [k \in DOMAIN Slots \ {call.key} |-> Slots[k]]
    IN  /\ pc = "delete"
        /\ IF ~Readable(pager, root) \/ call.key \notin DOMAIN Slots
             THEN Return("error") /\ pager' = get_page(pager, root)
             ELSE /\ pager' = Write(get_page(pager, root), root, Leaf(rest))
                  /\ IF call.op = "update" THEN Continue("insert") ELSE Return("ok")
        /\ UNCHANGED root
------------------------------------------------------------------------------
Step == Open \/ Search \/ ReadChunk \/ Insert \/ WriteChunk \/ InsertEntry \/ Delete

Remembered == before' = IF pc' = "idle" /\ call' = NoRequest THEN Contents' ELSE before

Next ==
    \/ Step /\ Remembered /\ UNCHANGED bounds
    \/ Close /\ closes < MaxCloses /\ closes' = closes + 1 /\ UNCHANGED <<before, calls>>
    \/ /\ calls < MaxCalls /\ calls' = calls + 1
       /\ \E req \in Requests : Call(req)
       /\ UNCHANGED <<before, closes>>

Spec == Init /\ [][Next]_vars

Store == INSTANCE KVStore WITH store <- before, request <- call
------------------------------------------------------------------------------
TypeOK ==
    /\ pager.dirty \subseteq DOMAIN pager.file
    /\ Cached(pager) \subseteq DOMAIN pager.file
    /\ DOMAIN pager.mem = Cached(pager)
    /\ Len(pager.cache) = Cardinality(Cached(pager))
    /\ Len(pager.cache) <= MAX_CACHE_PAGES
    /\ pc \in {"closed", "idle", "search", "read", "insert", "write", "entry", "delete"}
    /\ call \in Requests \cup {NoRequest}

\* The callers see a map although pages come and go in the cache in the middle of
\* their calls, and what they stored is there when the file is closed and opened.
ImplementsStore == Store!Spec

\* Every page on disk passes verify_page_integrity: get_page never raises its alarm for
\* what MarcoDB itself did, whatever pages were written early by an eviction.
NoFalseAlarm == \A id \in DOMAIN pager.file : verify_page_integrity(pager.file[id])

\* A page marked dirty is in the cache: flush_all passes over the others, whose changes
\* would be lost, the changes of a caller to a page that was evicted under it.
DirtyIsCached == pager.dirty \subseteq Cached(pager)

\* A page not marked dirty can be dropped from the cache: the file has its content.
CleanMatchesFile ==
    \A id \in Cached(pager) \ pager.dirty : pager.mem[id].data = pager.file[id].data
==============================================================================
