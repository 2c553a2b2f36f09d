--------------------------------- MODULE Pager ---------------------------------
(***************************************************************************)
(* The pager of pager.py and the checksums of serialization.py: operations *)
(* on a record with the fields                                             *)
(*                                                                         *)
(*   file    the pages on disk, numbered from 0                            *)
(*   cache   the ids of the pages in memory, the one to evict next first   *)
(*   mem     these pages                                                   *)
(*   dirty   dirty_pages                                                   *)
(*                                                                         *)
(* A page is its content and the checksum stored with it.  The lock of the *)
(* pager makes each operation atomic.                                      *)
(***************************************************************************)
EXTENDS Integers, Sequences, FiniteSets, SequencesExt, Functions

CONSTANT MAX_CACHE_PAGES

ASSUME CacheAssumption == MAX_CACHE_PAGES \in Nat \ {0}

With(f, i, x) == [j \in DOMAIN f \cup {i} |-> IF j = i THEN x ELSE f[j]]

\* The content of a page: page 0 has only a root, a leaf only slots, an overflow page
\* a chunk of a value and the id of the next.
NoChunk == <<>>
Zeros   == [type |-> "zero", root |-> 0, slots |-> <<>>, next |-> 0, chunk |-> NoChunk]

\* CRC32 is taken to tell any two contents apart; no content has the checksum 0.
Zero == <<>>
calculate_checksum(data) == <<data>>

ZeroPage == [sum |-> Zero, data |-> Zeros]

verify_page_integrity(page) ==
    \/ page.sum = Zero /\ page.data.type = "zero"
    \/ page.sum = calculate_checksum(page.data)

update_page_checksum(page) == [page EXCEPT !.sum = calculate_checksum(page.data)]
------------------------------------------------------------------------------
Cached(p)  == Range(p.cache)
Opened(f)  == [file |-> f, cache |-> <<>>, mem |-> <<>>, dirty |-> {}]
NewFile    == [i \in {0} |-> ZeroPage]
Visible(p, id) == IF id \in Cached(p) THEN p.mem[id].data ELSE p.file[id].data

EvictUnsaved(p) ==  \* mutant: the evicted page is not written
    [p EXCEPT !.cache = Tail(@), !.mem = Restrict(@, Cached(p) \ {Head(p.cache)}),
              !.dirty = @ \ {Head(p.cache)}]
EvictUnsigned(p) ==  \* mutant: the evicted page is written with its old checksum
    LET oldest == Head(p.cache)
    IN  [cache |-> Tail(p.cache),
         mem   |-> Restrict(p.mem, Cached(p) \ {oldest}),
         file  |-> IF oldest \in p.dirty THEN [p.file EXCEPT ![oldest] = p.mem[oldest]]
                   ELSE p.file,
         dirty |-> p.dirty \ {oldest}]
EvictStillDirty(p) ==  \* mutant: the evicted page stays in dirty_pages
    LET oldest == Head(p.cache)
    IN  [p EXCEPT !.cache = Tail(@), !.mem = Restrict(@, Cached(p) \ {oldest}),
                  !.file = IF oldest \in p.dirty
                           THEN [@ EXCEPT ![oldest] = update_page_checksum(p.mem[oldest])]
                           ELSE @]

Evict(p) ==
    LET oldest == Head(p.cache)
    IN  [cache |-> Tail(p.cache),
         mem   |-> Restrict(p.mem, Cached(p) \ {oldest}),
         file  |-> IF oldest \in p.dirty
                   THEN [p.file EXCEPT ![oldest] = update_page_checksum(p.mem[oldest])]
                   ELSE p.file,
         dirty |-> p.dirty \ {oldest}]

\* get_page raises on a page that fails its checksum, after the eviction.
Readable(p, id) == id \in Cached(p) \/ verify_page_integrity(p.file[id])

get_one_more(p, id) ==  \* mutant: > for >=
    LET room == IF Len(p.cache) > MAX_CACHE_PAGES THEN Evict(p) ELSE p
    IN  IF id \in Cached(p)
          THEN [p EXCEPT !.cache = Append(RemoveFirst(@, id), id)]
        ELSE [room EXCEPT !.cache = Append(@, id), !.mem = With(@, id, p.file[id])]

get_page(p, id) ==
    LET room == IF Len(p.cache) >= MAX_CACHE_PAGES THEN Evict(p) ELSE p
    IN  IF id \in Cached(p)
          THEN [p EXCEPT !.cache = Append(RemoveFirst(@, id), id)]
        ELSE IF Readable(p, id)
          THEN [room EXCEPT !.cache = Append(@, id), !.mem = With(@, id, p.file[id])]
        ELSE room

\* The page is at the end of the file.
NewId(p)    == Cardinality(DOMAIN p.file)
new_page(p) == get_page([p EXCEPT !.file = With(@, NewId(p), ZeroPage)], NewId(p))

WriteUnmarked(p, id, data) ==  \* mutant: without mark_dirty
    [p EXCEPT !.mem = IF id \in Cached(p) THEN [@ EXCEPT ![id].data = data] ELSE @]

\* The caller fills the bytearray it got and marks the page: the bytes of a page that
\* has been evicted meanwhile are the caller's alone.
Write(p, id, data) ==
    [p EXCEPT !.mem = IF id \in Cached(p) THEN [@ EXCEPT ![id].data = data] ELSE @,
              !.dirty = @ \cup {id}]

flush_all(p) ==
    LET saved == p.dirty \cap Cached(p)
    IN  [p EXCEPT
           !.file = [id \in DOMAIN @ |-> IF id \in saved THEN update_page_checksum(p.mem[id])
                                         ELSE @[id]],
           !.mem  = [id \in DOMAIN @ |-> IF id \in saved THEN update_page_checksum(@[id])
                                         ELSE @[id]],
           !.dirty = {}]
==============================================================================
