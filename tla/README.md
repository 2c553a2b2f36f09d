# MarcoDB: specifications, model checking and proofs

TLA+ models of MarcoDB's storage engine (`btree.py`, `wal.py`, `pager.py`), of the
two programs that drive it (`server.py`, `shell_interativo.py`) and of the sessions
between the server and its drivers, TLC configurations that check them on small
instances, and TLAPS proofs, for every instance, of the tree's shape and of the map it
implements, of the cache and the map behind it, of the recovery and of the sessions. Line
numbers refer to the files of the repository.

## 1. The system

### Components

| Component | State it keeps | Operations that change it |
| --- | --- | --- |
| B+ tree, `btree.py` | the pages; `root_page_id` and its copy in page 0 | `insert`, `update`, `delete`; `search` reads |
| Slotted pages, `serialization.py` | one page: type, slot count, free pointer, parent, next sibling / leftmost child, slots and heap | header setters, `set_slot`, `write_data_to_heap`, overflow pages, CRC32 |
| Pager, `pager.py` | database file, LRU cache, set of dirty ids | `get_page` (may evict and write), `new_page`, `mark_dirty`, `flush_all`, `close` |
| Write-ahead log, `wal.py` | log file, its Python buffer, `unflushed_ops` | `log_set`, `log_del`, `log_update`, `recover`, `clear` |
| Server, `server.py` | one thread per connection (receive buffer, `is_authenticated`), `db_lock` | `auth`, `set`, `get`, `update`, `del`, `exit`, `crash`; startup; shutdown |
| Shell, `shell_interativo.py` | none of its own | `set`, `get`, `update`, `del`, `clear`, `exit`; startup; shutdown |
| Clients (Python, JavaScript, PHP, Go, C#) | a connection, a receive buffer, a lock or a queue of callbacks | `connect`, `execute`, `close` |

### How they interact

* A server thread parses a command, takes `db_lock`, **first** appends a record to
  the log (`server.py:92, 105, 137`), **then** calls the tree, and sends the reply
  before it releases the lock. So one command is in progress at a time, whatever
  the number of connections. `del` looks the key up before it logs; `set` and
  `update` do not. The shell does the same with one thread, looks the key up before
  `update` as well (`shell_interativo.py:66`) and forces every record to disk.
* The tree changes `bytearray`s that the pager hands out, in place, and marks their
  ids dirty. Nothing reaches the database file until the cache is full (eviction)
  or the pager is closed.
* A driver opens a connection, waits for the welcome, sends `auth` and then one command
  after the other. Neither commands nor replies carry numbers: the Python driver holds
  a lock from the command to its reply, the JavaScript driver keeps the promises of the
  commands it has sent in a queue and gives each reply to the first.
* Startup opens the tree and replays the log over it (`wal.recover`), without
  clearing the log. Shutdown flushes all dirty pages, then truncates the log.

### What is hard

* **Structure.** Splits, borrows and merges touch up to four pages and keep copies of
  the structure in three places (separators, parent fields, sibling links). They
  propagate to the root, and an exception half way leaves the pages as they are:
  `insert` can raise after it has emptied a page.
* **Order.** The tree and the log are changed one after the other, pages are written
  one by one, and the log is synchronised every 100 operations.
* **Crashes and restarts.** At any point, also in the shutdown, with a torn record at
  the end of the log, and during the recovery itself.
* **Cache.** A page handed out is not pinned. Any `get_page` may evict it and write it
  early; a page that is changed and never marked is never written.
* **Concurrency.** `db_lock` serialises the commands; what is left is the end of the
  server process, where the lock is released before the daemon threads are gone, and
  replies that are sent with the lock held to clients that may not read.
* **Timeouts.** The server gives up an idle connection, and a send, after 300 s; the
  Python driver gives up a login after 5 s and keeps the connection.

### What makes each part correct

* Tree: what its callers see is a map; every stored key is found by a search; all
  leaves are at one depth; no page id dangles; parent fields and sibling links agree
  with the structure; every call ends.
* Log and recovery: a restart gives a state the callers saw, as recent as the
  documentation says; a process that is started serves.
* Pager: a page read is the page last written; what is evicted or flushed is what
  the tree holds.
* Sessions: one reply for one command, in order; nothing before login.

## 2. The modules

| Module | Models |
| --- | --- |
| `KVStore` | the abstract store: a map, a request, a reply |
| `BPlusTree` | `btree.py` over an array of pages, one action per function that changes pages |
| `TreeShape` | `BPlusTree` with the history variable `level`; `Balanced`, `RightKindOfPage` |
| `TreeStore` | `TreeShape` with callers and the history variable `before`; the refinement of `KVStore` and the invariants of the structure |
| `MCTree` | values of the constants of `TreeStore` |
| `TreeShapeProofs` | theorems: types, depth, kinds of pages, for all calls |
| `TreeRangeProofs` | lemmas: pages as a tree of key ranges, the room in a page, the halves of a split |
| `TreeStoreProofs` | theorems: the tree implements `KVStore`; the invariants of its structure |
| `DurableStore` | log, recovery, flush, shutdown and crash of the server and of the shell, over the map |
| `DurableStoreProofs` | theorems: its types; what a recovery ends with |
| `DurableTree`, `MCDurableTree` | `BPlusTree` with the log, the dirty set and the database file: replay, flush and crash over the real tree |
| `Pager` | `pager.py` and the checksums: operations on a record |
| `PagedStore`, `MCPagedStore` | a database of one leaf and its overflow pages behind a small cache; refines `KVStore` |
| `PagerProofs` | lemmas: what each operation of the pager keeps of the file, the cache and its order |
| `PagedStoreProofs`, `PagedMapProofs` | theorems: the cache; the refinement of `KVStore` |
| `Session`, `MCSession` | the threads of the server with Python and JavaScript drivers |
| `SessionProofs` | theorems |

### BPlusTree

`pages[n]` is page `n`: a record with its `type`, its `parent` field, its `link`
(bytes 13..16, next sibling of a leaf and leftmost child of an internal page) and
`slots`, a function from keys to values or to page ids. `root` is `root_page_id`.
`pc` is the function that runs next and `at` the page it runs on; `pend` holds the
arguments a split or a merge passes to its parent. A call of `btree.py` is a chain of
steps:

    insert   add ... add, then InsertIntoLeaf | InsertDuplicate | SplitLeaf
             SplitLeaf -> link or newRoot; SplitInternal -> link or newRoot
    delete   remove ... remove, then DeleteFromLeaf | DeleteMissing
             DeleteFromLeaf -> fixLeaf -> Borrow*Leaf | MergeLeaves -> unlink
             unlink -> Unlink | UnlinkUnderflows -> fixInner -> ... | ShrinkRoot
    update   find, then a delete, then an insert

Every step changes all the pages its function changes, and keeps its order where an
exception can cut it short: a split writes the left half, then the right one, and
raises at the first entry that is there already or does not fit (`Loaded`); a merge
of internal pages sets the parent field of each child it has inserted. What the code
does against its own intention is modelled as it is: `InsertDuplicate` and
`SplitLeaf` come after the test for room, `BorrowLeftInternal` drops the borrowed
child, `BorrowRightInternal` leaves its parent field.

Abstractions: keys are naturals in the order of the byte strings; the room in a leaf
is `LeafCap` and an entry takes `Weight[value]`, so keys have one length; an internal
page takes `MaxSeps` separators, so replacing one never fails for lack of room; a
value in overflow pages is an entry that takes 4 bytes. The binary searches are
modelled by what they find in sorted slots. Pages are always in memory. Values are
not empty: neither front end can pass an empty one, which `search` would take for
absent (`btree.py:65`). Pages are never reused, as in the code.

### TreeStore and KVStore

`TreeStore` adds `before`, what a search of every key would find when the last call
was finished, and the callers: they make the requests of `Preload` and then any
others, at most `MaxCalls` in all, except the calls `Avoid` excludes: `"duplicate"` is
an `insert` of a key that its leaf holds already when the leaf has no room for it,
`"tallUnderflow"` the removal of the last key of a leaf in a tree of three levels or
more. `Store == INSTANCE KVStore WITH store <- before,
request <- call` is the refinement mapping; `KVStore` says that `insert` adds an
absent key and is refused otherwise, `update` replaces and `delete` removes a present
one, and a refused request changes nothing.

### DurableStore

`mem` is the tree in memory and `disk` the tree in the database file, both as maps. The
file changes only as a whole, at the end of `flush_all`: pages written one by one, by a
shutdown that dies or by evictions, leave a file that is no map, and such steps are not in
this module. `DurableTree` has the shutdown that dies; evictions before the shutdown take a
database of more than 50000 pages and are in neither. The log is three parts: the first `synced` records of `logFile` are on the disk,
the rest of `logFile` is in the operating system's cache, `logBuffer` in the Python
file object. `phase` is the life of the process (`off`, `recovering`, `serving`,
`closing`, `flushed`, `cleared`) and `pc` the step of the command in progress.
`recent` and `doubtful` are history: the contents when the log was last on the disk as a
whole and those after each request answered or recovered since; and what an interrupted
command would have left.

* `LogRequest`, `SyncLog`, `ApplyRequest` are a command; `Logged` says which commands
  reach the log, `MustSync` is `force_sync` or the threshold, `WriteBuffer` is the
  buffer of the file object writing itself out at any time.
* `Start`, `Replay`, `Misread`, `RecoveryRaises`, `EndRecovery` are `main` and
  `recover`. A torn record with more bytes behind it is misread: records are
  swallowed, or a key gets bytes of the next record as value (`"garbage"`), or the
  bytes are not UTF-8 and the startup fails. The continuation is taken to be at a
  record boundary.
* `Shutdown`, `FlushAll`, `ClearLog`, `Exit` are the shutdown. The interrupt takes the shell out of the command it is in; the server waits for
  `db_lock`, and after `ClearLog` its threads go on until the process ends. That a
  command may then fail because the database file is closed is not modelled.
* `Crash` is a power failure, which keeps any part of the log from `synced` on, with the
  next record torn or not, or a kill, after which the file is as it was and no more of it
  on the disk. `recover` never synchronises the log and `unflushed_ops` starts at 0, so
  what a kill left may be lost in a later power failure, with up to
  `flush_threshold - 1` later answers.

`program` says, from beginning to end, whether the server or the shell has the files, and
`faults` what can go wrong: one of `ServerFaults` or `ShellFaults`. A fault set may have
`"kill"`, `"torn"` and `"flushed"`, a crash between the flush of the pages and the clear of
the log.

### DurableTree

`DurableStore` sees the tree as a map; `DurableTree` puts `BPlusTree` behind the log.
`pages` is the memory and `disk` the file, `dirty` is `dirty_pages`, and `owed` holds
the pages that the running functions mark when the functions they have called return
(`btree.py:288`): an exception skips those. `Mark(now, late)` gives for each action
of `BPlusTree` the calls of `mark_dirty` it makes at once and later. Pages that were
allocated and never written are pages of zeros. `after` is history: what a search of
every key found before the first record of the log and after each. `Open`, `Replay`,
`EndReplay`, `Command`, `FlushAll`, `ClearLog` are the life of the process, `Crash`
leaves a prefix of the log and, with the fault `"closing"`, any part of the dirty
pages written. The cache takes all pages, so nothing is written before `flush_all`.
`Scripts` are commands that come first and build the trees worth crashing.

### Pager and PagedStore

`Pager` has the functions of `pager.py` under their names, as operators from one
record (`file`, `cache`, `mem`, `dirty`) to the next: `get_page` moves a page to the
end of the LRU order or evicts the oldest, writing it if it is dirty, and verifies what
it reads; `Write` is what every caller does, change the `bytearray` and mark the page,
where the bytes of a page that was evicted meanwhile are the caller's alone.

In `PagedStore` a step is one call of the pager with what `btree.py` does before the
next one, so evictions fall into the middle of calls: `Insert` gets the leaf,
`WriteChunk` is a turn of `_write_overflow_pages`, `InsertEntry` comes back to the
leaf; `Search` and `ReadChunk` read; `update` is a search, a delete and an insert.
The database is one leaf with its chains, closed and opened at will. `Contents`, what
a search would find through cache and file, is compared with the map of `KVStore`.

### Session

A connection is two queues, `inbox` and `outbox`, and the set of ends that have closed
it. `Receive`, `RunLocked`, `Send`, `SendFails` and `IdleTimeout` are `handle_client`;
a command is answered under `db_lock` or, if it is malformed, without it. A client that
does not read holds up to `SendBuffer` replies, then `sendall` waits and raises in the
end. `Leave` is an `exit`: the thread returns without `conn.close()` (`server.py:54`), so
the socket is closed when the last reference to it goes, and the one that was accepted
last is still `conn` of `main()`. It stays open, with nobody at its end, until the next
client is accepted (`Left` in `Connect`).

`Connect`, `Execute` and `Close` are the calls of the drivers; `PythonRead`,
`PythonSeeEnd` and `Raise` are how a call of the Python driver goes on, `JSRead` and
`JSSeeEnd` what the event loop does for the JavaScript driver. `buffer` is the `_buffer` of
a Python client, which keeps the replies one `recv()` brought too many, also across a
`connect()` that failed. `Execute` tests nothing but that the client has a connection, as
the drivers do: `connect()` may have timed out, and the command may be `exit` or empty.

`num` numbers the commands of a client for the properties; the program does not see it.
`misled` remembers the clients one of whose calls got the reply to another. `spoiled`
remembers those that were used although `connect()` had not succeeded, and the JavaScript
clients with a promise that no reply belongs to: after an empty command, or when a
connection ended before all replies came. The Go, C# and PHP drivers wait for each reply as
the Python driver does.

Abstractions: messages arrive whole and are not lost while the connection stands; the
login succeeds; a JavaScript caller connects only when the `close` event of the last
connection has come. **One thread uses a client object.** `execute()` and `close()` of the
Python driver take its lock, so several threads may call these; `connect()` takes none
(`marcodb_client.py:16-38`), and during an `execute()` of another thread it would replace
`conn` under it and share `_buffer` with it. The model says nothing of such callers, whom
`README.md:43` of the repository seems to allow.

## 3. What is checked

The runs of `DurableStore` check for deadlock. The others have `CHECK_DEADLOCK FALSE`,
because their callers stop at a bound: `MaxCalls` requests, `MaxStops` shutdowns,
`MaxCommands` commands.

| Run | Instance | Result |
| --- | --- | --- |
| `tree_as_map` | 7 keys, 2 entries per leaf, 2 separators per page, 8 calls of any kind, trees of three levels, the calls of `Avoid` left out | 569,965 states; `ImplementsStore`, `ParentFieldsAgree`, `EveryStoredKeyIsFound`, `LeafChain`, `NoEmptyLeaf` hold |
| `failed_calls_keep_shape` | 7 keys, one entry per leaf, 2 separators, 5 preloaded, 3 more calls, nothing avoided | 12,193 states; `TypeOK`, `Balanced`, `RightKindOfPage`, `EveryCallReturns` hold |
| `deleted_key_returns` | two values, full leaves get duplicates | `DeletedKeyStaysDeleted` violated |
| `stored_key_lost` | 8 keys, 7 preloaded in three levels | `StoredKeyStaysStored` violated |
| `update_loses_key` | entries of two sizes | `UpdateKeepsKey` violated |
| `crashes_recovered` | 2 keys, 2 values, threshold 2, 2 crashes, 3 records; kills and torn records in both programs, in the shell also crashes between the flush and the clear, with torn records | 1,066,301 states; `TypeOK`, `RecoversRecent`, `StartsServing` hold |
| `answers_lost` | server, threshold 3, 1 crash | `RecoversLast` violated |
| `torn_record` | shell, torn records | `RecoversLast` violated |
| `replay_repeats` | two scripts that build trees of three levels, then 2 more inserts or deletes on 7 keys, 1 crash at any step, 1 shutdown | 1,632,910 states; `ReplayRepeats`, `DirtyPagesKnown` hold |
| `shutdown_cut_short` | 3 commands, a crash in the shutdown | `RecoversState` violated |
| `cache_is_invisible` | cache of 3 pages, 2 keys, values of 0, 1 and 2 overflow pages, 5 calls of any kind, closed twice | 1,062,303 states; `TypeOK`, `NoFalseAlarm`, `DirtyIsCached`, `CleanMatchesFile`, `ImplementsStore` hold |
| `drivers_and_server` | one Python and one JavaScript client, 2 connections, 2 commands; a connection holds two replies for the one and one for the other | 253,301 states; `AnswersMatch`, `LostIsNotExecuted`, `CallsReturn`, `LockIsReleased` hold |

### What the passing runs show, and where they stop

`tree_as_map` leaves out the two kinds of call in `Avoid` and has entries of one size.
Within that the tree is a map, in two levels and in three. Outside it is not: the three
violated properties of the tree are the three ways out. The proofs say the same of every
instance and every depth. `failed_calls_keep_shape` takes no care at all: it checks what
survives even then, and the proofs extend it to every instance too.

`crashes_recovered` says that a restart ends with whole contents that are recent: those of
the last fsync of the log or those after one of the requests since. For the server these
are at most `flush_threshold - 1` answers old, or more after a kill, because `recover()`
does not synchronise what it finds (`wal.py:58`). For the shell it is the last answered
command, and that also when the shell dies between the flush of the pages and the clear of
the log, so that the log is replayed over pages that have its effects: every record in it
is an `insert`, or an `update` or `delete` of a key that was there. The mutant of `Logged`,
in which `update` is logged unchecked as the server does, breaks it.

This is where the claim ends, and the constants of the run say so:

* A crash at that point of the **server** (`{"flushed"}` in `ServerFaults`) violates
  `RecoversRecent`: its log of failed updates is replayed over a state in which they succeed.
* So does one of a **shell** that was killed before (`{"kill", "flushed"}`): it recovered a
  record that was on no disk, its effect is in the flushed pages and the power failure takes
  the record.
* Records written behind a torn one are excluded by `WroteAfterTorn`; `torn_record` shows
  what they do.
* A crash **between two page writes** of the shutdown is not in this model at all: a map has
  no pages. `shutdown_cut_short` shows on real pages that nothing may be recovered then.
* The tree has to do what the map does, in the replay too. `replay_repeats` shows this, on
  real pages, for a replay over the file of the last shutdown, calls that fail or lose keys
  included. For a replay over pages that have its effects it supposes that no replayed `set`
  finds its leaf full: that one splits the leaf although the key is there (first finding),
  and keys of earlier sessions may be lost, in the shell too.

`cache_is_invisible` is about a cache at its limit, which in the code takes a database
of 200 MB. The leaf that an `insert` holds while it writes a chain stays in the cache
because the cache is larger than a chain (`ChainAssumption`); `DirtyIsCached` would be
the first to break.

`drivers_and_server`: `AnswersMatch` covers the commands that get no reply, the login
that timed out and whose replies still arrive, what stays in the `_buffer`, exits, and
connections given up by the server. It excepts `spoiled` clients, for which it is false: a
Python client that goes on after a `connect()` that timed out takes the replies to the
login for its own (`marcodb_client.py:44` tests `self.conn` only). `LostIsNotExecuted` says
more than the code's authors promise, and has no exception: as long as the network and the
server stay up, a command reported as lost can be sent again. `CallsReturn` excepts a call
on a connection that was left by an `exit` (`Deserted`): `execute("exit")` and then another
`execute()` wait until some other client connects; without the exception TLC finds the
property violated.

### Bounds

* 7 keys at 2 entries per leaf and 2 separators per page reach every action of an
  insertion in trees of three levels. The repairs of leaves happen in trees of two levels
  only, because `Avoid` leaves out the removals that would need one in three; those, and
  the repairs of internal pages, are left to `failed_calls_keep_shape` and
  `replay_repeats`. Between them the runs fire every action of `BPlusTree`.
* `MaxCalls` bounds the length of a history, not the depth of a call: a call's own
  steps are never cut.
* Threshold 2 has both a synchronised and an unsynchronised answer; 2 crashes allow a
  crash of a recovery or after one; 3 records allow an insert, an update or delete of
  it, and one after a restart.
* `replay_repeats` needs trees in which internal pages split, merge and borrow from
  either side; the two scripts build them, and two more commands and a crash at any
  step reach those actions.
* A cache of 3 pages is the smallest that `ChainAssumption` allows with chains of 2. Five
  calls fill a file of up to 12 pages.
* Two connections let either client connect again or both be connected; the clients meet
  at `db_lock` only. Two commands are enough for a JavaScript client that does not read to
  hold the lock while the Python client waits: the reply to its login fills its connection.

### Fairness

* `FairSpec` and `FairHSpec` assume `WF_vars(Step)`: a call in progress takes its next
  step. `btree.py` waits for nothing: it runs under `db_lock`, which its thread holds,
  and takes only the pager's re-entrant lock, used by that thread alone. Callers have
  no fairness.
* `DurableStore`'s `FairSpec` assumes `WF_vars(Recovery)`: the process is restarted
  after it ended, and `main` waits for nothing until it serves. Crashes are bounded,
  so a recovery is not interrupted for ever.
* `Session`'s `Fairness` assumes `WF_vars(Thread(n))` for every thread, its timeouts
  included (`settimeout(300.0)`, `server.py:20`), and `WF_vars(Driver(c))` for the Python
  clients: a caller in `execute` reads. A JavaScript client may never read. A
  `threading.Lock` is not fair, but with finitely many commands the lock is free for
  good in the end, and weak fairness of the thread that waits is enough.

## 4. What is proved

The theorems hold for every value of the constants within the named assumptions of the
modules. The bounds of the runs (`MaxCalls`, `MaxCrashes`, `MaxRecords`, `MaxCommands`)
are constants of which the proofs use nothing but that they are numbers, so they are
about histories of any length.

| Module | Theorem | Says |
| --- | --- | --- |
| `TreeShapeProofs` | `TypeCorrect` | `SSpec => []TypeOK`: every page id names an allocated page, no search reaches page 0 as a child, leaves hold values and internal pages ids |
| | `TreeStaysBalanced` | `SSpec => []Balanced`: all leaves at one depth |
| | `FunctionsGetTheirKindOfPage` | `SSpec => []RightKindOfPage`: repairs and splits run on pages of the kind they take for granted |
| | `ShapeInvariant` | `SSpec => []IInv`: the inductive invariant they follow from |
| `TreeStoreProofs` | `StoreTypeCorrect`, `StoreBalanced` | the same of `HSpec`, the specification the runs use |
| | `TreeImplementsStore` | `HSpec => ImplementsStore`: the B+ tree implements `KVStore` |
| | `StoreEveryStoredKeyIsFound`, `StoreParentFieldsAgree`, `StoreLeafChain`, `StoreNoEmptyLeaf` | `EveryStoredKeyIsFound`, `ParentFieldsAgree`, `LeafChain` and `NoEmptyLeaf` are invariants |
| | `TreeMapInvariant` | `HSpec => []HInv`: the inductive invariant these follow from |
| `TreeRangeProofs` | `EntriesAlikeFit` | `SplitsFit`, which these six suppose, holds if the entries are alike in size |
| `PagedStoreProofs` | `PagedTypeCorrect`, `NoAlarm`, `DirtyStaysCached`, `CleanIsSaved` | `TypeOK`, `NoFalseAlarm`, `DirtyIsCached` and `CleanMatchesFile` are invariants |
| `PagedMapProofs` | `PagedImplementsStore` | `Spec => ImplementsStore`: the leaf and its chains behind the cache implement `KVStore` |
| `DurableStoreProofs` | `DurableTypeCorrect` | `Spec => []TypeOK`, under every fault |
| | `RecentIsRecovered` | `Spec => RecoversRecent`, if `NoLateCrash`: no fault set of the server has `"flushed"`, none of the shell both `"kill"` and `"flushed"` |
| `SessionProofs` | `RepliesMatch` | `Spec => []AnswersMatch` |
| | `LostCanBeSentAgain` | `Spec => []LostIsNotExecuted` |
| | `LockIsHeldToReply` | a thread has `db_lock` only while it has a reply to send |

### The shape of the tree

For every set of keys and values, every `Weight`, `LeafCap` and `MaxSeps` within
`KeysAssumption` and `RoomAssumption` (keys are finitely many because their length has
16 bits; a leaf may be too small for an entry), and for every sequence of calls,
including those that raise half way.

None of the three properties is inductive. That a merge puts values into a leaf and
not page ids needs the siblings to be at one level; that they are needs every id in a
page to name a page of the level below; and that a borrow or a root change never
leads to child 0 needs those pages to have their leftmost child, which a page made by
a split that raised does not have. `IInv == WellShaped(pages, level) /\ ControlOK /\
RightKindOfPage` says this of **all** pages, the unreachable ones included, so the
lemmas never speak of reachability. Two lemmas carry the steps: `Rewrite` (pages
changed in place, each fitting its level, keep `WellShaped`) and `Extend` (a page
appended). Each action then has a lemma of its own, `SplitLeafShape` and so on, and
`StepShape` puts them together. `StoreIsTree` shows that `HSpec` implies `SSpec`,
which carries the results over.

As a consequence the branches "Corrupção" of `btree.py` (85, 162, 411) and the tests
for child 0 (81, 408) are dead code as long as pages are read back as written.

### The tree as a map

`TreeImplementsStore` is the whole refinement, for any history: splits at any depth, borrows
and merges of the leaves of a tree of two levels, and changes of the root. Every step of `btree.py` is a step of `KVStore` on `before`, or a stutter. It and the
four invariants have three hypotheses.

* `Avoid = {"duplicate", "tallUnderflow"}`, as in the run `tree_as_map`. Findings 1 and 2
  are what these calls do: with either of them the theorem is false.
* `SplitsFit`: if an entry has no room in a leaf, each half of the leaf with that entry
  fits a page. Finding 3 is what happens otherwise. `EntriesAlikeFit` says when it holds:
  `Alike(a, b, c)`, all entries take from `a` to `b` bytes, `b <= c * a`, and a page has
  room for `2c - 1` of the largest. With `a = b` and `c = 1`: entries of one size that
  fit an empty page, as in the run.
* `Preload = <<>>`: preloaded calls are made even if `Avoid` names them.

The property is far from inductive, because a call leaves a tree only when it has
returned. `IsTree(v, lv, r, lo, hi)` says that the pages `DOMAIN lo` of `v` are a tree
in which page `p` has the keys from `lo[p]` to `hi[p] - 1`; what every page keeps is
local (`Stands`): the ranges of its children meet at its separators, its link leads to the
leaf where its own range ends, its parent field names the page it hangs on. `MapInv` says
where each step of a call is, and of which pages the reachable ones are a tree that holds
the map `Now`:

| `pc` | what is a tree | besides |
| --- | --- | --- |
| `idle`, on the way down | `pages` | the key of the call is in the range of `at` (`Descending`); what it has found out about the key (`Asked`) |
| `link` | `PagesLinked`: with the separator of the split in its parent | the entry is in the map already |
| `newRoot` | `PagesRooted`: with the new root above the two halves | |
| `fixLeaf` | `pages`, in which the leaf `at`, below the root, is empty | the entry is gone from the map |
| `unlink` | `PagesUnlinked`: without the separator of the merge | the root may have no separator left |

So a split, borrow or merge is shown to keep a tree a tree with the same entries
(`SplitPage`, `CutRoot`, `Shift`, `MergePages`), and only the step that puts an entry
into a leaf, or takes it from there, changes the map. The other parts of the invariant are
needed at one place each: `Careful`, that the call is none of `Avoid` with the leaf it
comes to; `Filled`, that only the leaf in repair is empty, without which a borrow finds
nothing to take; `Grown`, that every page is within its capacity and has no higher level
than there are pages, which makes `SplitsFit` and the way down apply; and `IInv` of
the shape, for the pages that are not reachable.

`LeafFor` and `Reachable` follow the pages down, `LeafRoom` and `Fits` add up the weights
of a set: recursive functions, which the provers know nothing of but their definition.
That they are defined, and that a function that satisfies the equation is the one meant, is
shown for the sums from a set without a sum that has the fewest elements
(`SumsDefined`), and for the iterations from the least number of steps (`IterationDefined`).
`ContentsAre` is the result: in a tree of key ranges a search of every key finds what its
leaves hold.

### The cache

For every cache size, number of chunks and set of keys and values within
`ChainAssumption`: a cache of at least two pages, larger than the chain of any value.
`PagerProofs` has a lemma for each operation of the pager on any well-formed record
(`PagerOK`): `get_page` shows every page as before and brings the page it returns to the
young end of the LRU order; `new_page` adds a page of zeros; `Write` changes what is seen
of one page; `flush_all` changes nothing that is seen. `UsedBefore(p, id, d)` says that
`id` is in the cache and `d` pages of it were used after it; each `new_page` adds one to `d`.

`CacheInv` is `PagerOK`, every page id in a page being one of the file, the control state
and `LeafHeld`. Without the last it is not inductive: `insert` gets the leaf, writes a
chain page by page, each of which may evict the oldest page, and then changes the leaf it
still has in its hands. If the leaf were evicted, the entry would go into a `bytearray`
that nobody writes, and its id would be dirty without being cached. `LeafHeld` counts: with
`i` chunks written `i` pages are younger than the leaf, which by `ChainAssumption`
is less than the cache holds.

### The map behind the cache

`PagedImplementsStore` is the whole refinement: the initial states map to initial states,
and every step of `PagedStore` is a step of `KVStore` under the mapping of the runs or a
stutter. `MapInv` says what is in the leaf and in the pages at each point of a call
(`Now`, `SlotOK`), and how far a chain is read or written: what is read, followed by the
chain of the next page, is the chain of the slot; what is written is the end of the
value's chunks.

The chain of a page is a recursive function over the pages, and the provers have no
induction to say that it is defined. `Chained(c, m)` therefore keeps in the invariant that
the pages `m` have one such function and that it is `c`: this holds of the empty file, and
each page that is added points to one that is there (the chains are written back to front,
`btree.py:40`).

### Types of the durable store

`DurableTypeCorrect` needs `InProgress`: a command is in progress only while the program
serves, the counter `unflushed_ops` is below the threshold between commands and 0 in a
recovery. It holds under every fault of either program.

### Recovery

`RecoversRecent` is about the step that ends a recovery, and relates it to answers that
were given any number of crashes ago. `Log` is the log with what is in the buffer.
`RecoveryInv` has two parts, because recovery is right for two reasons.

* **A trace** (`TraceOK`), for either program, as long as it does not die between the flush
  and the clear. The file has not changed since the log was cleared, so what the first `p`
  records make of `disk` is the same whenever the log is replayed. There is a trace `t` of
  these contents, memory is where the trace is, and each place of the trace where a power
  failure may cut the log is `Known`: its contents are in `recent` or in `doubtful`. A kill
  cuts it where the file ends and leaves `synced` behind; `recent` then keeps what it had.
* **Every record in its place** (`ShellOK`), for a shell that is not killed. Each command is
  on the disk before it changes the tree (`SyncedAtOnce`), but the replay may start from
  pages that have the effects of the log, and passes through contents that never were. The
  proof looks at one key at a time: `G[p][x]` is what the records after the `p`-th make of
  the value `x` of the key `k`. `Ends` says that the log makes the last answered value of
  what is on the disk, and `Kind` why it does the same if the replay began with that value:
  either the log makes that value of everything; or it does so of every value but none, and
  `k` is not deleted; or its records of `k` are inserts only. This is where the proof needs
  that the shell logs no `update` of an absent key: such a record is none of the three kinds.
* `Broken` is the state in which records were synchronised behind a torn one; nothing is
  claimed until the log is cleared, as `WroteAfterTorn` says in the property.

`NoLateCrash` is the boundary of the claim and not of the proof: outside it TLC finds
`RecoversRecent` violated (see "What the passing runs show"). The other assumptions are in
the model and not in the theorem: the tree does what a map does, in every replay; no page
is evicted before the shutdown, which is so for a database of at most 50000 pages; and no
crash comes between two page writes of `flush_all`, where the code may recover nothing
(`shutdown_cut_short`).

### Sessions

For any number of Python and JavaScript clients, each used by one thread, any number of
connections and commands and any `SendBuffer`. `Inv` follows each message along its
connection, from the inbox to the thread to the outbox.

* A **Python** client that was never used without a `connect()` that succeeded has at most
  one message on the way (`At`), the one it waits for, or what a login that timed out has
  left behind; the next `connect()` uses another connection. So no `recv()` brings more
  than the reply that is awaited, and `_buffer` is empty between calls (`PythonOK`).
* Nothing is claimed of the replies to the other Python clients, but `LostOK` holds of
  **every** one. No command that was reported as lost is in an inbox or with a thread
  (`Pending`), on the connection in use or on an older one: a connection whose server end is
  closed holds none, because the thread gives it up with nothing in its hands, and an older
  one holds earlier commands. And a command that was executed is not reported as lost:
  while it is awaited, it or another reply is on its way (`Replied`).
* A **JavaScript** client may have many. Its promises are the outbox followed by a rest
  (`Queued`), and the rest is what the thread and the inbox hold until the server closes
  the connection. An empty command breaks this, and so does a connection that ends with
  promises left, or a query before the login is done: `spoiled`, and exempt in the property.
* `LinkOK` and `LockOK` tie the ends together: the server has closed its end only when the
  thread is gone, and unless that was an `exit` on the connection accepted last, the thread
  leaves nothing open and nothing unread; the lock is held to send the reply to a command.

### Only model-checked

`DurableTree`: `ReplayRepeats`, which compares whole calls of two histories, and
`DirtyPagesKnown`, which is true only of entries that fit a page (hazard at
`btree.py:267`). A merge of two empty leaves marks its page only when the calls above it
have returned; that no sequence of failed calls leads to one and to an exception above it
is what is missing for a proof. What the tree does outside `Avoid` and `SplitsFit` beyond its shape. Out of the
prover's reach: the liveness properties (`EveryCallReturns`, `StartsServing`,
`CallsReturn`, `LockIsReleased`), and induction over data as a rule. Where a theorem needs
what a recursive function computes, it is shown from a least counterexample (the tree) or
kept in the invariant (the chains).

## 5. Findings

1. `btree.py:181`: a `set` of an existing key into a full leaf splits it before the
   duplicate is noticed. The key ends up in two leaves (`deleted_key_returns`) or the
   entries behind it are lost.
2. `btree.py:656`: borrowing from the left internal sibling drops the borrowed child
   and all its keys (`stored_key_lost`).
3. `btree.py:270`: leaves are split by the number of entries; with entries of
   different sizes a half may not fit, and the exception loses the rest. In `update`
   the old value is gone as well (`update_loses_key`).
4. `wal.py:21`: answers are given before their records are on disk, against
   `README.md:19` of the repository (`answers_lost`).
5. `wal.py:75`: a torn record stays in the log and spoils what is appended behind it
   (`torn_record`).

6. `pager.py:90`: a crash in the middle of `flush_all` can leave page 0 naming a root
   that is a page of zeros; no start repairs it and the replay fails without a word
   (`shutdown_cut_short`).

Seen while modelling, without a run: `del` frees no page (`README.md:36` says it does),
nor does a refused `set` of a long value; a `set` whose key is too long for a page can empty
a leaf without marking it dirty, so that its keys are gone until the next start
(`btree.py:267`); `_borrow_from_right_internal` leaves the
borrowed child's parent field stale (`btree.py:630`); a `set` that was executed is
answered as an error if its reply could not be sent in time (`server.py:96`); the
promises of a JavaScript client whose connection ends are never settled and take the
replies of the next connection (`MarcoDBClient.js:45`); the thread that answers an `exit`
does not close the connection, and the next `execute()` of that client waits
(`server.py:54`); a Python client that is used after a `connect()` that timed out gets the
replies to the login (`marcodb_client.py:44`), and its `connect()` takes no lock
(`marcodb_client.py:16`); a server that dies between `pager.close()` and `wal.clear()`
replays updates that had failed (`server.py:105`).

## 6. Not modelled, and the plan

Next:

1. Proofs for `DurableTree`: `DirtyPagesKnown`, for entries that fit a page (with others
   TLC finds it violated, `btree.py:267`) and the calls of `Avoid` left out.
2. An interrupt of the shell in the middle of a call (`shell_interativo.py:109`) in
   `DurableTree`.
3. `SlottedPage`: offsets, heap and slot directory, binary search, against the function
   from keys to data that `BPlusTree` uses.

Not modelled: splits and merges behind a cache that evicts the pages they hold
(`PagedStore` has one leaf, `BPlusTree` all pages in memory), and a crash after such an
eviction; a client object that several threads use, one of them for `connect()`; messages cut by the byte
stream, connections that break in the middle, wrong credentials; the event loop of the
JavaScript driver; the Go, C# and PHP drivers, which follow the protocol of the Python
driver; corruption of the disk by others; printing, and the interactive terminals of
the clients.
