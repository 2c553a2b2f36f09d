------------------------------ MODULE PagerProofs ------------------------------
(***************************************************************************)
(* What each operation of the pager keeps and gives, whatever the cache    *)
(* holds when it is called.                                                *)
(***************************************************************************)
EXTENDS Pager, SequenceTheorems, FiniteSetTheorems, TLAPS

IsPage(page) == page = [sum |-> page.sum, data |-> page.data]

Numbered(file) == \E n \in DOMAIN file : n \in Nat /\ DOMAIN file = 0 .. n

\* The cache holds a page once.
CacheOK(cache, ids) ==
    cache \in Seq(ids) /\ IsInjective(cache) /\ Len(cache) <= MAX_CACHE_PAGES

\* The pages of the file pass their checksums, every dirty page is in the cache, and a
\* clean one is as the file has it.
PagesOK(p) ==
    /\ \A id \in DOMAIN p.file : IsPage(p.file[id]) /\ verify_page_integrity(p.file[id])
    /\ DOMAIN p.mem = Cached(p)
    /\ \A id \in Cached(p) : IsPage(p.mem[id])
    /\ p.dirty \subseteq Cached(p)
    /\ \A id \in Cached(p) \ p.dirty : p.mem[id].data = p.file[id].data

IsPager(p) == p = [file |-> p.file, cache |-> p.cache, mem |-> p.mem, dirty |-> p.dirty]

PagerOK(p) ==
    IsPager(p) /\ Numbered(p.file) /\ CacheOK(p.cache, DOMAIN p.file) /\ PagesOK(p)

\* Nobody sees a difference between two states of the pager.
SameContents(p, q) ==
    /\ DOMAIN q.file = DOMAIN p.file
    /\ \A id \in DOMAIN p.file : Visible(q, id) = Visible(p, id)

\* r was used before d other pages that are still in the cache.
UsedBefore(p, r, d) == d < Len(p.cache) /\ p.cache[Len(p.cache) - d] = r
------------------------------------------------------------------------------

\* Operators whose uses the provers recognise in the lemmas about them.
Longer(s, e) == Append(s, e)
Joined(s, t) == s \o t

\* A sequence after another.
LEMMA JoinedSeq ==
    ASSUME NEW S, NEW s \in Seq(S), NEW t \in Seq(S), NEW n \in Nat, NEW m \in Nat,
           Len(s) = n, Len(t) = m
    PROVE  /\ Joined(s, t) \in Seq(S)
           /\ Len(Joined(s, t)) = n + m
           /\ \A i \in 1 .. n + m : Joined(s, t)[i] = IF i <= n THEN s[i] ELSE t[i - n]
BY ConcatProperties, Zenon DEF Joined

\* A sequence without its i-th element.
LEMMA Removed ==
    ASSUME NEW S, NEW s \in Seq(S), NEW i \in 1 .. Len(s)
    PROVE  /\ RemoveAt(s, i) \in Seq(S)
           /\ Len(RemoveAt(s, i)) = Len(s) - 1
           /\ \A j \in 1 .. Len(s) - 1 : RemoveAt(s, i)[j] = IF j < i THEN s[j] ELSE s[j + 1]
<1>0. Len(s) \in Nat /\ i \in Nat BY LenProperties
<1>1. PICK a : a = SubSeq(s, 1, i - 1) OBVIOUS
<1>2. PICK b : b = SubSeq(s, i + 1, Len(s)) OBVIOUS
<1>3. a \in Seq(S) /\ Len(a) = i - 1 /\ \A j \in 1 .. i - 1 : a[j] = s[j]
    BY <1>0, <1>1, ElementOfSeq, SubSeqProperties
<1>4. b \in Seq(S) /\ Len(b) = Len(s) - i /\ \A j \in 1 .. Len(s) - i : b[j] = s[i + j]
    <2>1. \A j \in i + 1 .. Len(s) : s[j] \in S BY <1>0, ElementOfSeq
    <2>2. i + 1 \in Int /\ Len(s) \in Int BY <1>0
    <2>3. /\ b \in Seq(S)
          /\ Len(b) = IF i + 1 <= Len(s) THEN Len(s) - (i + 1) + 1 ELSE 0
          /\ \A j \in 1 .. Len(s) - (i + 1) + 1 : b[j] = s[(i + 1) + j - 1]
        BY <1>2, <2>1, <2>2, SubSeqProperties
    <2>4. Len(b) = Len(s) - i BY <1>0, <2>3
    <2>5. ASSUME NEW j \in 1 .. Len(s) - i PROVE b[j] = s[i + j]
        <3>1. b[j] = s[(i + 1) + j - 1] BY <1>0, <2>3
        <3>2. (i + 1) + j - 1 = i + j BY <1>0
        <3>. QED BY <3>1, <3>2
    <2>. QED BY <2>3, <2>4, <2>5
<1>5. RemoveAt(s, i) = Joined(a, b) BY <1>1, <1>2 DEF RemoveAt, Joined
<1>6. PICK n \in Nat, m \in Nat : n = i - 1 /\ m = Len(s) - i BY <1>0
<1>7. /\ Joined(a, b) \in Seq(S)
      /\ Len(Joined(a, b)) = n + m
      /\ \A j \in 1 .. n + m : Joined(a, b)[j] = IF j <= n THEN a[j] ELSE b[j - n]
    <2>1. Len(a) = n /\ Len(b) = m BY <1>3, <1>4, <1>6
    <2>2. a \in Seq(S) /\ b \in Seq(S) BY <1>3, <1>4
    <2>. QED BY <2>1, <2>2, JoinedSeq
<1>8. ASSUME NEW j \in 1 .. Len(s) - 1
      PROVE  Joined(a, b)[j] = IF j < i THEN s[j] ELSE s[j + 1]
    <2>1. j \in 1 .. n + m /\ (j <= n <=> j < i) BY <1>0, <1>6
    <2>2. CASE j < i BY <2>1, <2>2, <1>0, <1>3, <1>7
    <2>3. CASE ~(j < i)
        <3>1. j - n \in 1 .. Len(s) - i /\ i + (j - n) = j + 1 BY <2>3, <1>0, <1>6
        <3>2. b[j - n] = s[j + 1] BY <3>1, <1>4
        <3>3. Joined(a, b)[j] = b[j - n] BY <2>1, <2>3, <1>7
        <3>. QED BY <3>2, <3>3, <2>3
    <2>. QED BY <2>2, <2>3
<1>9. n + m = Len(s) - 1 BY <1>0, <1>6
<1>. QED BY <1>5, <1>7, <1>8, <1>9

\* The same elements in another order.
LEMMA MovedElement ==
    ASSUME NEW n \in Nat, NEW i \in 1 .. n, NEW s, NEW t,
           DOMAIN s = 1 .. n, DOMAIN t = 1 .. n, t[n] = s[i],
           \A j \in 1 .. n - 1 : t[j] = IF j < i THEN s[j] ELSE s[j + 1]
    PROVE  Range(t) = Range(s) /\ (IsInjective(s) => IsInjective(t))
<1>1. ASSUME NEW j \in 1 .. n PROVE t[j] \in Range(s)
    <2>1. CASE j = n BY <2>1 DEF Range
    <2>2. CASE j # n
        <3>1. j \in 1 .. n - 1 /\ j + 1 \in 1 .. n BY <2>2
        <3>. QED BY <3>1 DEF Range
    <2>. QED BY <2>1, <2>2
<1>2. ASSUME NEW k \in 1 .. n PROVE s[k] \in Range(t)
    <2>1. CASE k < i
        <3>1. k \in 1 .. n - 1 BY <2>1
        <3>. QED BY <3>1, <2>1 DEF Range
    <2>2. CASE k = i BY <2>2 DEF Range
    <2>3. CASE k > i
        <3>1. k - 1 \in 1 .. n - 1 /\ k - 1 \in 1 .. n /\ ~(k - 1 < i) /\ (k - 1) + 1 = k
            BY <2>3
        <3>2. t[k - 1] = s[k] BY <3>1
        <3>. QED BY <3>1, <3>2 DEF Range
    <2>. QED BY <2>1, <2>2, <2>3
<1>3. ASSUME IsInjective(s), NEW j \in 1 .. n, NEW k \in 1 .. n, t[j] = t[k] PROVE j = k
    <2>. DEFINE old(x) == IF x = n THEN i ELSE IF x < i THEN x ELSE x + 1
    <2>1. old(j) \in 1 .. n /\ old(k) \in 1 .. n /\ (old(j) = old(k) => j = k) OBVIOUS
    <2>2. t[j] = s[old(j)] /\ t[k] = s[old(k)] OBVIOUS
    <2>. HIDE DEF old
    <2>. QED BY <1>3, <2>1, <2>2 DEF IsInjective
<1>4. Range(t) \subseteq Range(s) BY <1>1 DEF Range
<1>5. Range(s) \subseteq Range(t) BY <1>2 DEF Range
<1>6. IsInjective(s) => IsInjective(t)
    <2>1. HAVE IsInjective(s)
    <2>. QED BY <1>3, <2>1 DEF IsInjective
<1>. QED BY <1>4, <1>5, <1>6

Refreshed(s, e) == Append(RemoveFirst(s, e), e)

\* Moving a page to the end of the cache keeps the rest of it.
LEMMA MovedToTheEnd ==
    ASSUME NEW S, NEW s \in Seq(S), IsInjective(s), NEW e \in Range(s)
    PROVE  /\ Refreshed(s, e) \in Seq(S) /\ Len(Refreshed(s, e)) = Len(s)
           /\ IsInjective(Refreshed(s, e))
           /\ Range(Refreshed(s, e)) = Range(s)
           /\ Refreshed(s, e)[Len(s)] = e
<1>0. DOMAIN s = 1..Len(s) /\ Len(s) \in Nat /\ e \in S BY LenProperties, ElementOfSeq DEF Range
<1>1. PICK i \in 1..Len(s) : s[i] = e BY <1>0 DEF Range
<1>2. {j \in 1..Len(s) : s[j] = e} = {i} BY <1>0, <1>1 DEF IsInjective
<1>3. SelectInSeq(s, LAMBDA v : v = e) = i
    BY <1>2 DEF SelectInSeq, Min
<1>4. PICK r : r = RemoveAt(s, i) OBVIOUS
<1>5. RemoveFirst(s, e) = r
    BY <1>1, <1>3, <1>4 DEF RemoveFirst
<1>6. /\ r \in Seq(S) /\ Len(r) = Len(s) - 1
      /\ \A j \in 1 .. Len(s) - 1 : r[j] = IF j < i THEN s[j] ELSE s[j + 1]
    BY <1>4, Removed
<1>7. PICK t : t = Longer(r, e) OBVIOUS
<1>8. PICK n \in Nat : n = Len(s) - 1
    <2>1. Len(s) \in Nat /\ i <= Len(s) /\ 1 <= i BY <1>0
    <2>2. Len(s) - 1 \in Nat BY <2>1
    <2>. QED BY <2>2
<1>9. /\ t \in Seq(S) /\ Len(t) = n + 1
      /\ t[n + 1] = e
      /\ \A j \in 1 .. n : t[j] = r[j]
    <2>1. Len(r) = n BY <1>6, <1>8
    <2>2. r \in Seq(S) /\ e \in S BY <1>0, <1>6
    <2>3. /\ Longer(r, e) \in Seq(S)
          /\ Len(Longer(r, e)) = n + 1
          /\ \A j \in 1 .. n : Longer(r, e)[j] = r[j]
          /\ Longer(r, e)[n + 1] = e
        BY <2>1, <2>2 DEF Longer
    <2>. QED BY <2>3, <1>7
<1>10. n + 1 = Len(s) BY <1>0, <1>8
<1>11. DOMAIN t = 1..Len(s) BY <1>9, <1>10, LenProperties
<1>12. /\ t[Len(s)] = s[i]
       /\ \A j \in 1 .. Len(s) - 1 : t[j] = IF j < i THEN s[j] ELSE s[j + 1]
    BY <1>1, <1>6, <1>8, <1>9, <1>10
<1>13. Range(t) = Range(s) /\ IsInjective(t) BY <1>0, <1>11, <1>12, MovedElement
<1>14. Refreshed(s, e) = t BY <1>5, <1>7 DEF Refreshed, Longer
<1>. QED BY <1>9, <1>10, <1>13, <1>14
------------------------------------------------------------------------------

\* All elements but the first.
LEMMA WithoutFirst ==
    ASSUME NEW n \in Nat \ {0}, NEW s, NEW t, DOMAIN s = 1 .. n, DOMAIN t = 1 .. n - 1,
           \A i \in 1 .. n - 1 : t[i] = s[i + 1], IsInjective(s)
    PROVE  Range(t) = Range(s) \ {s[1]} /\ IsInjective(t)
<1>1. ASSUME NEW i \in 1 .. n - 1 PROVE t[i] \in Range(s) /\ t[i] # s[1]
    <2>1. i + 1 \in 1 .. n /\ 1 \in 1 .. n /\ i + 1 # 1 OBVIOUS
    <2>2. t[i] = s[i + 1] OBVIOUS
    <2>3. s[i + 1] # s[1] BY <2>1 DEF IsInjective
    <2>4. s[i + 1] \in Range(s) BY <2>1 DEF Range
    <2>. QED BY <2>2, <2>3, <2>4
<1>2. ASSUME NEW i \in 1 .. n, s[i] # s[1] PROVE s[i] \in Range(t)
    <2>1. i - 1 \in 1 .. n - 1 /\ (i - 1) + 1 = i BY <1>2
    <2>2. t[i - 1] = s[i] BY <2>1
    <2>. QED BY <2>1, <2>2 DEF Range
<1>3. ASSUME NEW i \in 1 .. n - 1, NEW j \in 1 .. n - 1, t[i] = t[j] PROVE i = j
    <2>1. i + 1 \in 1 .. n /\ j + 1 \in 1 .. n OBVIOUS
    <2>2. s[i + 1] = s[j + 1] BY <1>3
    <2>3. i + 1 = j + 1 BY <2>1, <2>2 DEF IsInjective
    <2>. QED BY <2>3
<1>4. Range(t) \subseteq Range(s) \ {s[1]} BY <1>1 DEF Range
<1>5. Range(s) \ {s[1]} \subseteq Range(t) BY <1>2 DEF Range
<1>6. IsInjective(t) BY <1>3 DEF IsInjective
<1>. QED BY <1>4, <1>5, <1>6

\* One element more, at the end.
LEMMA WithOneMore ==
    ASSUME NEW n \in Nat, NEW s, NEW t, NEW e, DOMAIN s = 1 .. n, DOMAIN t = 1 .. n + 1,
           \A i \in 1 .. n : t[i] = s[i], t[n + 1] = e, IsInjective(s), e \notin Range(s)
    PROVE  Range(t) = Range(s) \cup {e} /\ IsInjective(t)
<1>1. ASSUME NEW i \in 1 .. n + 1 PROVE t[i] \in Range(s) \cup {e}
    <2>1. CASE i = n + 1 BY <2>1
    <2>2. CASE i \in 1 .. n BY <2>2 DEF Range
    <2>. QED BY <2>1, <2>2
<1>2. Range(s) \subseteq Range(t)
    <2>1. \A i \in 1 .. n : i \in 1 .. n + 1 OBVIOUS
    <2>. QED BY <2>1 DEF Range
<1>3. e \in Range(t)
    <2>1. n + 1 \in 1 .. n + 1 OBVIOUS
    <2>. QED BY <2>1 DEF Range
<1>4. ASSUME NEW i \in 1 .. n + 1, NEW j \in 1 .. n + 1, t[i] = t[j] PROVE i = j
    <2>1. CASE i = n + 1 /\ j # n + 1
        <3>1. j \in 1 .. n BY <2>1
        <3>. QED BY <3>1, <2>1, <1>4 DEF Range
    <2>2. CASE j = n + 1 /\ i # n + 1
        <3>1. i \in 1 .. n BY <2>2
        <3>. QED BY <3>1, <2>2, <1>4 DEF Range
    <2>3. CASE i # n + 1 /\ j # n + 1
        <3>1. i \in 1 .. n /\ j \in 1 .. n BY <2>3
        <3>. QED BY <3>1, <1>4 DEF IsInjective
    <2>. QED BY <2>1, <2>2, <2>3
<1>5. Range(t) \subseteq Range(s) \cup {e} BY <1>1 DEF Range
<1>6. IsInjective(t) BY <1>4 DEF IsInjective
<1>. QED BY <1>2, <1>3, <1>5, <1>6
------------------------------------------------------------------------------
\* _evict_page: the oldest page leaves the cache, and the others keep their order.
LEMMA CacheTail ==
    ASSUME NEW ids, NEW c, CacheOK(c, ids), c # <<>>
    PROVE  /\ CacheOK(Tail(c), ids) /\ Len(Tail(c)) = Len(c) - 1
           /\ Range(Tail(c)) = Range(c) \ {Head(c)} /\ Head(c) \in Range(c)
           /\ \A i \in 1 .. Len(c) - 1 : Tail(c)[i] = c[i + 1]
           /\ Len(c) \in Nat \ {0}
<1>1. c \in Seq(ids) /\ IsInjective(c) /\ Len(c) <= MAX_CACHE_PAGES BY DEF CacheOK
<1>2. Len(c) \in Nat \ {0} /\ DOMAIN c = 1 .. Len(c) /\ Head(c) = c[1] BY <1>1
<1>3. /\ Tail(c) \in Seq(ids) /\ Len(Tail(c)) = Len(c) - 1
      /\ DOMAIN Tail(c) = 1 .. Len(c) - 1
      /\ \A i \in 1 .. Len(c) - 1 : Tail(c)[i] = c[i + 1]
    BY <1>1, <1>2
<1>4. PICK t : t = Tail(c) OBVIOUS
<1>5. PICK n \in Nat \ {0} : n = Len(c) BY <1>2
<1>6. Range(t) = Range(c) \ {c[1]} /\ IsInjective(t)
    <2>1. DOMAIN t = 1 .. n - 1 /\ DOMAIN c = 1 .. n BY <1>2, <1>3, <1>4, <1>5
    <2>2. \A i \in 1 .. n - 1 : t[i] = c[i + 1] BY <1>3, <1>4, <1>5
    <2>. QED BY <2>1, <2>2, <1>1, WithoutFirst
<1>7. Head(c) \in Range(c) BY <1>2 DEF Range
<1>8. Len(Tail(c)) <= MAX_CACHE_PAGES
    <2>1. Len(c) - 1 <= MAX_CACHE_PAGES BY <1>1, <1>2, CacheAssumption
    <2>. QED BY <2>1, <1>3
<1>. QED BY <1>1, <1>2, <1>3, <1>4, <1>6, <1>7, <1>8 DEF CacheOK
\* A page that is not in the cache becomes the last one.
LEMMA CacheAppend ==
    ASSUME NEW ids, NEW c, CacheOK(c, ids), Len(c) < MAX_CACHE_PAGES, NEW e \in ids,
           e \notin Range(c)
    PROVE  /\ CacheOK(Append(c, e), ids) /\ Len(Append(c, e)) = Len(c) + 1
           /\ Range(Append(c, e)) = Range(c) \cup {e} /\ Len(c) \in Nat
           /\ \A i \in 1 .. Len(c) : Append(c, e)[i] = c[i]
           /\ Append(c, e)[Len(c) + 1] = e
<1>1. c \in Seq(ids) /\ IsInjective(c) BY DEF CacheOK
<1>2. Len(c) \in Nat /\ DOMAIN c = 1 .. Len(c) BY <1>1
<1>3. /\ Append(c, e) \in Seq(ids) /\ Len(Append(c, e)) = Len(c) + 1
      /\ DOMAIN Append(c, e) = 1 .. Len(c) + 1
      /\ \A i \in 1 .. Len(c) : Append(c, e)[i] = c[i]
      /\ Append(c, e)[Len(c) + 1] = e
    BY <1>1, <1>2
<1>4. PICK t : t = Append(c, e) OBVIOUS
<1>5. PICK n \in Nat : n = Len(c) BY <1>2
<1>6. Range(t) = Range(c) \cup {e} /\ IsInjective(t)
    <2>1. DOMAIN t = 1 .. n + 1 /\ DOMAIN c = 1 .. n BY <1>2, <1>3, <1>4, <1>5
    <2>2. t[n + 1] = e /\ \A i \in 1 .. n : t[i] = c[i] BY <1>3, <1>4, <1>5
    <2>. QED BY <2>1, <2>2, <1>1, WithOneMore
<1>7. Len(Append(c, e)) <= MAX_CACHE_PAGES BY <1>2, <1>3, CacheAssumption
<1>. QED BY <1>1, <1>2, <1>3, <1>4, <1>6, <1>7 DEF CacheOK

\* OrderedDict.move_to_end: a page of the cache becomes the last one.
LEMMA CacheMoved ==
    ASSUME NEW ids, NEW c, CacheOK(c, ids), NEW e \in Range(c)
    PROVE  LET t == Append(RemoveFirst(c, e), e)
           IN  CacheOK(t, ids) /\ Len(t) = Len(c) /\ Range(t) = Range(c) /\ t[Len(t)] = e
<1>1. c \in Seq(ids) /\ IsInjective(c) /\ Len(c) <= MAX_CACHE_PAGES BY DEF CacheOK
<1>2. PICK t : t = Refreshed(c, e) OBVIOUS
<1>3. /\ t \in Seq(ids) /\ Len(t) = Len(c) /\ IsInjective(t) /\ Range(t) = Range(c)
      /\ t[Len(c)] = e
    BY <1>1, <1>2, MovedToTheEnd
<1>4. t[Len(t)] = e BY <1>3
<1>5. CacheOK(t, ids) BY <1>1, <1>3 DEF CacheOK
<1>. QED BY <1>2, <1>3, <1>4, <1>5 DEF Refreshed
------------------------------------------------------------------------------
\* A page that is written with its checksum passes it.
LEMMA SignedPage ==
    ASSUME NEW page, IsPage(page)
    PROVE  LET signed == update_page_checksum(page)
           IN  IsPage(signed) /\ verify_page_integrity(signed) /\ signed.data = page.data
BY DEF IsPage, verify_page_integrity, update_page_checksum

\* Dropping the oldest page loses nothing: it is written if it was changed.
LEMMA Evicted ==
    ASSUME NEW p, PagerOK(p), p.cache # <<>>
    PROVE  LET q == Evict(p)
           IN  /\ PagerOK(q) /\ SameContents(p, q)
               /\ q.cache = Tail(p.cache) /\ Cached(q) = Cached(p) \ {Head(p.cache)}
               /\ \A id \in DOMAIN p.file \ Cached(p) : q.file[id] = p.file[id]
<1>1. PICK q : q = Evict(p) OBVIOUS
<1>2. PICK oldest : oldest = Head(p.cache) OBVIOUS
<1>3. /\ IsPager(q)
      /\ q.cache = Tail(p.cache)
      /\ q.mem = Restrict(p.mem, Cached(p) \ {oldest})
      /\ q.file = IF oldest \in p.dirty
                  THEN [p.file EXCEPT ![oldest] = update_page_checksum(p.mem[oldest])]
                  ELSE p.file
      /\ q.dirty = p.dirty \ {oldest}
    BY <1>1, <1>2 DEF Evict, IsPager
<1>4. /\ CacheOK(q.cache, DOMAIN p.file) /\ Cached(q) = Cached(p) \ {oldest}
      /\ oldest \in Cached(p)
    BY <1>2, <1>3, CacheTail DEF PagerOK, Cached
<1>5. oldest \in DOMAIN p.file /\ Cached(q) \subseteq DOMAIN p.file
    BY <1>4 DEF PagerOK, CacheOK, Cached, Range
<1>6. DOMAIN q.file = DOMAIN p.file BY <1>3
<1>7. DOMAIN q.mem = Cached(q) /\ \A id \in Cached(q) : q.mem[id] = p.mem[id]
    BY <1>3, <1>4 DEF Restrict
<1>8. PICK new : new = update_page_checksum(p.mem[oldest]) OBVIOUS
<1>9. IsPage(new) /\ verify_page_integrity(new) /\ new.data = p.mem[oldest].data
    BY <1>4, <1>8, SignedPage DEF PagerOK, PagesOK
<1>10. \A id \in DOMAIN p.file :
         /\ id # oldest \/ oldest \notin p.dirty => q.file[id] = p.file[id]
         /\ id = oldest /\ oldest \in p.dirty => q.file[id] = new
    BY <1>3, <1>5, <1>8
<1>11. PagesOK(p) BY DEF PagerOK
<1>12. \A id \in DOMAIN q.file : IsPage(q.file[id]) /\ verify_page_integrity(q.file[id])
    BY <1>6, <1>9, <1>10, <1>11 DEF PagesOK
<1>13. \A id \in DOMAIN p.file \ Cached(p) : q.file[id] = p.file[id]
    BY <1>4, <1>10
<1>14. PagesOK(q)
    <2>1. \A id \in Cached(q) : IsPage(q.mem[id]) BY <1>4, <1>7, <1>11 DEF PagesOK
    <2>2. q.dirty \subseteq Cached(q) BY <1>3, <1>4, <1>11 DEF PagesOK
    <2>3. ASSUME NEW id \in Cached(q) \ q.dirty PROVE q.mem[id].data = q.file[id].data
        <3>1. id \in Cached(p) \ p.dirty /\ id # oldest BY <1>3, <1>4
        <3>2. q.file[id] = p.file[id] BY <3>1, <1>5, <1>10
        <3>. QED BY <3>1, <3>2, <1>7, <1>11 DEF PagesOK
    <2>. QED BY <2>1, <2>2, <2>3, <1>7, <1>12 DEF PagesOK
<1>15. ASSUME NEW id \in DOMAIN p.file PROVE Visible(q, id) = Visible(p, id)
    <2>1. CASE id \in Cached(q) BY <2>1, <1>4, <1>7 DEF Visible
    <2>2. CASE id \notin Cached(p) BY <2>2, <1>4, <1>13 DEF Visible
    <2>3. CASE id = oldest
        <3>1. Visible(q, id) = q.file[oldest].data /\ Visible(p, id) = p.mem[oldest].data
            BY <2>3, <1>4 DEF Visible
        <3>2. CASE oldest \in p.dirty BY <3>1, <3>2, <1>5, <1>9, <1>10
        <3>3. CASE oldest \notin p.dirty
            <4>1. q.file[oldest] = p.file[oldest] BY <3>3, <1>5, <1>10
            <4>. QED BY <3>1, <3>3, <4>1, <1>4, <1>11 DEF PagesOK
        <3>. QED BY <3>2, <3>3
    <2>. QED BY <2>1, <2>2, <2>3, <1>4
<1>16. PagerOK(q) BY <1>3, <1>4, <1>6, <1>14 DEF PagerOK, Numbered
<1>. QED BY <1>1, <1>2, <1>3, <1>4, <1>6, <1>13, <1>15, <1>16 DEF SameContents

\* Reading a page into free room in the cache.
LEMMA Fetched ==
    ASSUME NEW p, PagerOK(p), Len(p.cache) < MAX_CACHE_PAGES,
           NEW id \in DOMAIN p.file, id \notin Cached(p),
           NEW q, q = [p EXCEPT !.cache = Append(@, id), !.mem = With(@, id, p.file[id])]
    PROVE  PagerOK(q) /\ SameContents(p, q) /\ Cached(q) = Cached(p) \cup {id}
<1>1. /\ IsPager(q) /\ q.cache = Append(p.cache, id) /\ q.mem = With(p.mem, id, p.file[id])
      /\ q.file = p.file /\ q.dirty = p.dirty
    BY DEF PagerOK, IsPager
<1>2. CacheOK(q.cache, DOMAIN p.file) /\ Cached(q) = Cached(p) \cup {id}
    BY <1>1, CacheAppend DEF PagerOK, Cached
<1>3. PagesOK(p) BY DEF PagerOK
<1>4. /\ DOMAIN q.mem = Cached(q) /\ q.mem[id] = p.file[id]
      /\ \A i \in Cached(p) : q.mem[i] = p.mem[i]
    BY <1>1, <1>2, <1>3 DEF With, PagesOK
<1>5. PagesOK(q)
    <2>1. \A i \in Cached(q) : IsPage(q.mem[i]) BY <1>2, <1>3, <1>4 DEF PagesOK
    <2>2. \A i \in Cached(q) \ q.dirty : q.mem[i].data = q.file[i].data
        BY <1>1, <1>2, <1>3, <1>4 DEF PagesOK
    <2>. QED BY <2>1, <2>2, <1>1, <1>2, <1>3, <1>4 DEF PagesOK
<1>6. SameContents(p, q)
    <2>1. ASSUME NEW i \in DOMAIN p.file PROVE Visible(q, i) = Visible(p, i)
        BY <1>1, <1>2, <1>4 DEF Visible
    <2>. QED BY <2>1, <1>1 DEF SameContents
<1>. QED BY <1>1, <1>2, <1>5, <1>6 DEF PagerOK

\* Two steps of the pager that change nothing anyone sees are one.
LEMMA Transitive ==
    ASSUME NEW p, NEW q, NEW r, SameContents(p, q), SameContents(q, r)
    PROVE  SameContents(p, r)
BY DEF SameContents

\* The state of the pager in which get_page adds a page to the cache.
Room(p) == IF Len(p.cache) >= MAX_CACHE_PAGES THEN Evict(p) ELSE p

\* After the eviction the cache has room for a page, and nobody sees a difference.
LEMMA RoomMade ==
    ASSUME NEW p, PagerOK(p)
    PROVE  /\ PagerOK(Room(p)) /\ SameContents(p, Room(p))
           /\ Len(Room(p).cache) < MAX_CACHE_PAGES
           /\ Cached(Room(p)) \subseteq Cached(p)
           /\ \A id \in DOMAIN p.file \ Cached(p) : Room(p).file[id] = p.file[id]
<1>1. CacheOK(p.cache, DOMAIN p.file) BY DEF PagerOK
<1>2. Len(p.cache) \in Nat BY <1>1 DEF CacheOK
<1>3. CASE Len(p.cache) >= MAX_CACHE_PAGES
    <2>1. p.cache # <<>> BY <1>2, <1>3, CacheAssumption
    <2>2. Room(p) = Evict(p) BY <1>3 DEF Room
    <2>3. Len(Tail(p.cache)) = Len(p.cache) - 1 BY <2>1, <1>1, CacheTail
    <2>4. Len(Tail(p.cache)) < MAX_CACHE_PAGES BY <2>3, <1>1, <1>2, CacheAssumption DEF CacheOK
    <2>. QED BY <2>1, <2>2, <2>4, Evicted
<1>4. CASE ~(Len(p.cache) >= MAX_CACHE_PAGES)
    <2>1. Room(p) = p BY <1>4 DEF Room
    <2>2. Len(p.cache) < MAX_CACHE_PAGES BY <1>2, <1>4, CacheAssumption
    <2>. QED BY <2>1, <2>2 DEF SameContents
<1>. QED BY <1>3, <1>4

\* get_page never raises, gives the page, and changes what nobody sees.
LEMMA PageGot ==
    ASSUME NEW p, PagerOK(p), NEW id \in DOMAIN p.file
    PROVE  LET q == get_page(p, id)
           IN  /\ Readable(p, id)
               /\ PagerOK(q) /\ SameContents(p, q)
               /\ id \in Cached(q) /\ UsedBefore(q, id, 0)
<1>1. Readable(p, id) BY DEF Readable, PagerOK, PagesOK
<1>2. PICK q : q = get_page(p, id) OBVIOUS
<1>3. CacheOK(p.cache, DOMAIN p.file) /\ IsPager(p) /\ PagesOK(p) BY DEF PagerOK
<1>4. CASE id \in Cached(p)
    <2>1. PICK c : c = Append(RemoveFirst(p.cache, id), id) OBVIOUS
    <2>2. q = [p EXCEPT !.cache = c] BY <2>1, <1>2, <1>4 DEF get_page
    <2>3. q.cache = c /\ q.file = p.file /\ q.mem = p.mem /\ q.dirty = p.dirty /\ IsPager(q)
        BY <2>2, <1>3 DEF IsPager
    <2>4. CacheOK(c, DOMAIN p.file) /\ Range(c) = Range(p.cache) /\ c[Len(c)] = id
        BY <2>1, <1>3, <1>4, CacheMoved DEF Cached
    <2>5. Cached(q) = Cached(p) BY <2>3, <2>4 DEF Cached
    <2>6. PagerOK(q) BY <2>3, <2>4, <2>5 DEF PagerOK, PagesOK
    <2>7. SameContents(p, q) BY <2>3, <2>5 DEF SameContents, Visible
    <2>8. UsedBefore(q, id, 0)
        <3>1. Len(c) \in Nat /\ c # <<>>
            BY <2>4, <1>4 DEF CacheOK, Cached, Range
        <3>2. Len(c) \in Nat \ {0} BY <3>1, <2>4 DEF CacheOK
        <3>3. 0 < Len(c) /\ Len(c) - 0 = Len(c) BY <3>2
        <3>. QED BY <3>3, <2>3, <2>4 DEF UsedBefore
    <2>. QED BY <1>1, <1>2, <1>4, <2>5, <2>6, <2>7, <2>8
<1>5. CASE id \notin Cached(p)
    <2>1. PICK r : r = Room(p) OBVIOUS
    <2>2. /\ PagerOK(r) /\ SameContents(p, r) /\ Len(r.cache) < MAX_CACHE_PAGES
          /\ id \notin Cached(r) /\ r.file[id] = p.file[id] /\ id \in DOMAIN r.file
        BY <2>1, <1>5, RoomMade DEF SameContents
    <2>3. q = [r EXCEPT !.cache = Append(@, id), !.mem = With(@, id, r.file[id])]
        BY <2>1, <2>2, <1>1, <1>2, <1>5 DEF get_page, Room
    <2>4. PagerOK(q) /\ SameContents(r, q) /\ Cached(q) = Cached(r) \cup {id}
        BY <2>2, <2>3, Fetched
    <2>5. SameContents(p, q) BY <2>2, <2>4, Transitive
    <2>6. UsedBefore(q, id, 0)
        <3>1. q.cache = Append(r.cache, id) BY <2>2, <2>3 DEF PagerOK, IsPager
        <3>2. /\ Len(r.cache) \in Nat /\ Len(q.cache) = Len(r.cache) + 1
              /\ q.cache[Len(r.cache) + 1] = id
            BY <3>1, <2>2, CacheAppend DEF PagerOK, Cached
        <3>3. 0 < Len(q.cache) /\ Len(q.cache) - 0 = Len(r.cache) + 1 BY <3>2
        <3>. QED BY <3>2, <3>3 DEF UsedBefore
    <2>. QED BY <1>1, <1>2, <2>4, <2>5, <2>6
<1>. QED BY <1>4, <1>5

\* The file has the pages from 0 to its length, so new_page gives an id no page has.
LEMMA CountedFile ==
    ASSUME NEW p, PagerOK(p)
    PROVE  /\ NewId(p) \in Nat \ {0} /\ DOMAIN p.file = 0 .. NewId(p) - 1
           /\ NewId(p) \notin DOMAIN p.file /\ 0 \in DOMAIN p.file
<1>1. PICK n \in Nat \ {0} : DOMAIN p.file = 0 .. n - 1
    <2>1. PICK i \in Nat : DOMAIN p.file = 0 .. i BY DEF PagerOK, Numbered
    <2>2. i + 1 \in Nat \ {0} /\ (i + 1) - 1 = i OBVIOUS
    <2>. QED BY <2>1, <2>2
<1>2. Cardinality(0 .. n - 1) = n BY FS_Interval
<1>. QED BY <1>1, <1>2 DEF NewId

\* new_page adds one page, at the end of the file, and gives it; the page used before it
\* stays in the cache if the cache has room for two, and so on.
LEMMA PageAdded ==
    ASSUME NEW p, PagerOK(p)
    PROVE  LET q == new_page(p)
               n == NewId(p)
           IN  /\ PagerOK(q) /\ DOMAIN q.file = DOMAIN p.file \cup {n}
               /\ \A id \in DOMAIN p.file : Visible(q, id) = Visible(p, id)
               /\ Visible(q, n) = Zeros
               /\ n \in Cached(q) /\ UsedBefore(q, n, 0)
               /\ \A r, d : d \in Nat /\ d + 1 < MAX_CACHE_PAGES /\ UsedBefore(p, r, d)
                            => UsedBefore(q, r, d + 1)
<1>1. PICK n : n = NewId(p) OBVIOUS
<1>2. n \in Nat \ {0} /\ DOMAIN p.file = 0 .. n - 1 /\ n \notin DOMAIN p.file
    BY <1>1, CountedFile
<1>3. PICK e : e = [p EXCEPT !.file = With(@, n, ZeroPage)] OBVIOUS
<1>4. IsPager(p) /\ CacheOK(p.cache, DOMAIN p.file) /\ PagesOK(p) BY DEF PagerOK
<1>5. /\ IsPager(e) /\ e.file = With(p.file, n, ZeroPage)
      /\ e.cache = p.cache /\ e.mem = p.mem /\ e.dirty = p.dirty
    BY <1>3, <1>4 DEF IsPager
<1>6. /\ DOMAIN e.file = DOMAIN p.file \cup {n} /\ e.file[n] = ZeroPage
      /\ \A id \in DOMAIN p.file : e.file[id] = p.file[id]
    BY <1>2, <1>5 DEF With
<1>7. Cached(e) = Cached(p) /\ Cached(p) \subseteq DOMAIN p.file
    BY <1>4, <1>5 DEF Cached, CacheOK, Range
<1>8. PagerOK(e)
    <2>1. IsPage(ZeroPage) /\ verify_page_integrity(ZeroPage)
        BY DEF IsPage, verify_page_integrity, ZeroPage, Zeros
    <2>2. \A id \in DOMAIN e.file : IsPage(e.file[id]) /\ verify_page_integrity(e.file[id])
        BY <2>1, <1>4, <1>6 DEF PagesOK
    <2>3. \A id \in Cached(e) \ e.dirty : e.mem[id].data = e.file[id].data
        BY <1>4, <1>5, <1>6, <1>7 DEF PagesOK
    <2>4. PagesOK(e) BY <2>2, <2>3, <1>4, <1>5, <1>7 DEF PagesOK
    <2>5. DOMAIN e.file = 0 .. n /\ n \in DOMAIN e.file BY <1>2, <1>6
    <2>6. Numbered(e.file) BY <2>5, <1>2 DEF Numbered
    <2>7. e.cache \in Seq(DOMAIN e.file)
        BY <1>4, <1>5, <1>6, SeqMonotonic DEF CacheOK
    <2>8. CacheOK(e.cache, DOMAIN e.file) BY <2>7, <1>4, <1>5 DEF CacheOK
    <2>. QED BY <2>4, <2>6, <2>8, <1>5 DEF PagerOK
<1>9. /\ \A id \in DOMAIN p.file : Visible(e, id) = Visible(p, id)
      /\ Visible(e, n) = Zeros
    BY <1>2, <1>5, <1>6, <1>7 DEF Visible, ZeroPage
<1>10. PICK q : q = get_page(e, n) OBVIOUS
<1>11. q = new_page(p) BY <1>1, <1>3, <1>10 DEF new_page
<1>12. PagerOK(q) /\ SameContents(e, q) /\ n \in Cached(q) /\ UsedBefore(q, n, 0)
    BY <1>6, <1>8, <1>10, PageGot
<1>13. /\ DOMAIN q.file = DOMAIN p.file \cup {n}
       /\ \A id \in DOMAIN p.file : Visible(q, id) = Visible(p, id)
       /\ Visible(q, n) = Zeros
    BY <1>6, <1>9, <1>12 DEF SameContents
<1>14. ASSUME NEW r, NEW d \in Nat, d + 1 < MAX_CACHE_PAGES, UsedBefore(p, r, d)
       PROVE  UsedBefore(q, r, d + 1)
    <2>1. PICK c : c = Room(e).cache OBVIOUS
    <2>2. n \notin Cached(e) BY <1>2, <1>7
    <2>3. PagerOK(Room(e)) /\ Len(c) < MAX_CACHE_PAGES /\ n \notin Range(c)
        BY <2>1, <2>2, <1>8, RoomMade DEF Cached
    <2>4. n \in DOMAIN Room(e).file /\ IsPager(Room(e)) /\ CacheOK(c, DOMAIN Room(e).file)
        BY <2>1, <2>3, <1>6, <1>8, RoomMade DEF SameContents, PagerOK
    <2>5. q.cache = Append(c, n)
        BY <2>1, <2>2, <2>4, <1>8, <1>6, <1>10, PageGot DEF get_page, Room, IsPager
    <2>6. /\ Len(q.cache) = Len(c) + 1 /\ Len(c) \in Nat
          /\ \A i \in 1 .. Len(c) : q.cache[i] = c[i]
        BY <2>3, <2>4, <2>5, CacheAppend
    <2>7. PICK m \in Nat : m = Len(p.cache) /\ m <= MAX_CACHE_PAGES BY <1>4 DEF CacheOK
    <2>8. d < m /\ p.cache[m - d] = r BY <2>7, <1>14 DEF UsedBefore
    <2>9. CASE m >= MAX_CACHE_PAGES
        <3>1. m = MAX_CACHE_PAGES /\ p.cache # <<>> BY <2>7, <2>9, CacheAssumption
        <3>2. c = Tail(p.cache) BY <2>1, <2>7, <2>9, <1>5 DEF Room, Evict
        <3>3. Len(c) = m - 1 /\ \A i \in 1 .. m - 1 : c[i] = p.cache[i + 1]
            BY <3>1, <3>2, <2>7, <1>4, CacheTail
        <3>4. m - d - 1 \in 1 .. m - 1 /\ (m - d - 1) + 1 = m - d
            BY <3>1, <2>7, <2>8, <1>14, CacheAssumption
        <3>5. c[m - d - 1] = r BY <3>3, <3>4, <2>8
        <3>6. Len(q.cache) = m /\ m - (d + 1) = m - d - 1 /\ d + 1 < m
            BY <3>1, <3>3, <2>6, <2>7, <1>14
        <3>7. q.cache[m - d - 1] = r BY <3>3, <3>4, <3>5, <2>6
        <3>. QED BY <3>6, <3>7 DEF UsedBefore
    <2>10. CASE ~(m >= MAX_CACHE_PAGES)
        <3>1. c = p.cache BY <2>1, <2>7, <2>10, <1>5 DEF Room
        <3>2. Len(q.cache) = m + 1 /\ (m + 1) - (d + 1) = m - d /\ d + 1 < m + 1
            BY <3>1, <2>6, <2>7, <2>8
        <3>3. m - d \in 1 .. m BY <2>7, <2>8
        <3>4. q.cache[m - d] = r BY <3>1, <3>3, <2>6, <2>7, <2>8
        <3>. QED BY <3>2, <3>4 DEF UsedBefore
    <2>. QED BY <2>9, <2>10
<1>. QED BY <1>1, <1>11, <1>12, <1>13, <1>14

\* What a caller writes to a page in the cache is what all see from then on.
LEMMA PageWritten ==
    ASSUME NEW p, PagerOK(p), NEW id \in Cached(p), NEW data
    PROVE  LET q == Write(p, id, data)
           IN  /\ PagerOK(q) /\ DOMAIN q.file = DOMAIN p.file /\ q.cache = p.cache
               /\ Visible(q, id) = data
               /\ \A i \in DOMAIN p.file \ {id} : Visible(q, i) = Visible(p, i)
<1>1. PICK q : q = Write(p, id, data) OBVIOUS
<1>2. IsPager(p) /\ CacheOK(p.cache, DOMAIN p.file) /\ PagesOK(p) BY DEF PagerOK
<1>3. /\ IsPager(q) /\ q.cache = p.cache /\ q.file = p.file
      /\ q.mem = [p.mem EXCEPT ![id].data = data] /\ q.dirty = p.dirty \cup {id}
    BY <1>1, <1>2 DEF Write, IsPager
<1>4. Cached(q) = Cached(p) BY <1>3 DEF Cached
<1>5. /\ DOMAIN q.mem = DOMAIN p.mem
      /\ \A i \in Cached(p) \ {id} : q.mem[i] = p.mem[i]
      /\ q.mem[id] = [p.mem[id] EXCEPT !.data = data]
    BY <1>2, <1>3 DEF PagesOK
<1>6. IsPage(q.mem[id]) /\ q.mem[id].data = data
    <2>1. IsPage(p.mem[id]) BY <1>2 DEF PagesOK
    <2>. QED BY <2>1, <1>5 DEF IsPage
<1>7. PagesOK(q)
    <2>1. \A i \in Cached(q) : IsPage(q.mem[i]) BY <1>2, <1>4, <1>5, <1>6 DEF PagesOK
    <2>2. \A i \in Cached(q) \ q.dirty : q.mem[i].data = q.file[i].data
        BY <1>2, <1>3, <1>4, <1>5 DEF PagesOK
    <2>. QED BY <2>1, <2>2, <1>2, <1>3, <1>4, <1>5 DEF PagesOK
<1>8. PagerOK(q) BY <1>2, <1>3, <1>7 DEF PagerOK
<1>9. /\ Visible(q, id) = data
      /\ \A i \in DOMAIN p.file \ {id} : Visible(q, i) = Visible(p, i)
    BY <1>3, <1>4, <1>5, <1>6 DEF Visible
<1>. QED BY <1>1, <1>3, <1>8, <1>9

\* After flush_all the file has all that was seen, and nothing of it is lost with the
\* cache when the pager is closed.
LEMMA Reopened ==
    ASSUME NEW p, PagerOK(p)
    PROVE  LET q == Opened(flush_all(p).file)
           IN  PagerOK(q) /\ SameContents(p, q)
<1>1. PICK f : f = flush_all(p).file OBVIOUS
<1>2. IsPager(p) /\ CacheOK(p.cache, DOMAIN p.file) /\ PagesOK(p) /\ Numbered(p.file)
    BY DEF PagerOK
<1>3. f = [id \in DOMAIN p.file |-> IF id \in p.dirty \cap Cached(p)
                                    THEN update_page_checksum(p.mem[id]) ELSE p.file[id]]
    BY <1>1, <1>2 DEF flush_all, IsPager
<1>4. DOMAIN f = DOMAIN p.file BY <1>3
<1>5. ASSUME NEW id \in DOMAIN p.file
      PROVE  IsPage(f[id]) /\ verify_page_integrity(f[id]) /\ f[id].data = Visible(p, id)
    <2>1. CASE id \in p.dirty
        <3>1. id \in Cached(p) /\ IsPage(p.mem[id]) BY <2>1, <1>2 DEF PagesOK
        <3>2. f[id] = update_page_checksum(p.mem[id]) BY <3>1, <2>1, <1>3
        <3>. QED BY <3>1, <3>2, SignedPage DEF Visible
    <2>2. CASE id \notin p.dirty
        <3>1. f[id] = p.file[id] BY <2>2, <1>3
        <3>. QED BY <3>1, <2>2, <1>2 DEF PagesOK, Visible
    <2>. QED BY <2>1, <2>2
<1>6. PICK q : q = Opened(f) OBVIOUS
<1>7. /\ IsPager(q) /\ q.file = f /\ q.cache = <<>> /\ q.mem = <<>> /\ q.dirty = {}
    BY <1>6 DEF Opened, IsPager
<1>8. Cached(q) = {} BY <1>7 DEF Cached, Range
<1>9. CacheOK(<<>>, DOMAIN f)
    BY CacheAssumption DEF CacheOK, IsInjective
<1>10. PagesOK(q) BY <1>4, <1>5, <1>7, <1>8 DEF PagesOK
<1>11. PagerOK(q) BY <1>2, <1>4, <1>7, <1>9, <1>10 DEF PagerOK, Numbered
<1>12. SameContents(p, q) BY <1>4, <1>5, <1>7, <1>8 DEF SameContents, Visible
<1>. QED BY <1>1, <1>6, <1>11, <1>12
==============================================================================
