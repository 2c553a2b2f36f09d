------------------------------ MODULE DurableTree ------------------------------
(***************************************************************************)
(* The B+ tree, the pages of the database file and the write-ahead log     *)
(* together: what the replay makes of the log when it runs the real tree   *)
(* and not a map, and what a stop leaves in the file.                      *)
(*                                                                         *)
(* pages and root are the pages in memory; the cache takes them all, so    *)
(* the file changes in flush_all only.  A page of zeros, allocated and     *)
(* never written, has type "zero".  How much of the log a power failure    *)
(* takes and which replies it makes void is in DurableStore: here any      *)
(* prefix of the log may be left.                                          *)
(***************************************************************************)
EXTENDS BPlusTree, SequencesExt

CONSTANTS
    Ops,         \* the operations that are logged
    Faults,      \* "closing": a crash hits the shutdown
    Scripts,     \* the commands that come first, in one of these orders
    MaxRecords,  \* bound: how many more are logged
    MaxCrashes,  \* bound: how many times the process dies
    MaxStops     \* bound: how many times it is shut down

ASSUME DurableAssumption ==
    /\ Ops \subseteq {"insert", "update", "delete"}
    /\ Faults \subseteq {"closing"}
    /\ \A s \in Scripts : s \in Seq(Requests)
    /\ MaxRecords \in Nat /\ MaxCrashes \in Nat /\ MaxStops \in Nat

VARIABLES
    phase,        \* what the process does
    dirty,        \* dirty_pages
    owed,         \* the pages the running functions mark when they return
    disk,         \* disk[n]: page n of the file
    diskRoot,     \* the root id in page 0 of the file, 0 in a new one
    log, pos,     \* the log, and how many records of it the tree has seen
    after,        \* history: what a search found before each record and after the last
    script,       \* the commands that still come first
    records, crashes, stops  \* counters for the bounds

tree  == vars
file  == <<disk, diskRoot>>
count == <<script, records, crashes, stops>>
dvars == <<tree, phase, dirty, owed, file, log, pos, after, count>>

ZeroPage == [type |-> "zero", parent |-> 0, link |-> 0, slots |-> NoSlots]
Extended(d, n) == d \o [i \in 1 .. n - Len(d) |-> ZeroPage]

NoTree ==
    /\ pages' = <<>> /\ root' = 0 /\ dirty' = {} /\ owed' = {}
    /\ pc' = "idle" /\ call' = NoCall /\ at' = 0 /\ pend' = NoPend /\ reply' = "none"

DInit ==
    /\ pages = <<>> /\ root = 0 /\ dirty = {} /\ owed = {}
    /\ pc = "idle" /\ call = NoCall /\ at = 0 /\ pend = NoPend /\ reply = "none"
    /\ phase = "off"
    /\ disk = <<>> /\ diskRoot = 0
    /\ log = <<>> /\ pos = 0
    /\ after = << [k \in Keys |-> Null] >>
    /\ script \in Scripts
    /\ records = 0 /\ crashes = 0 /\ stops = 0

\* BPlusTree.__init__: a file without a root gets an empty leaf.
Open ==
    /\ phase = "off" /\ stops <= MaxStops
    /\ IF diskRoot = 0
         THEN /\ pages' = Append(disk, Leaf(0, 0, NoSlots))
              /\ root' = Len(disk) + 1
              /\ dirty' = {0, root'}
         ELSE pages' = disk /\ root' = diskRoot /\ dirty' = {}
    /\ phase' = "replay" /\ pos' = 0
    /\ UNCHANGED <<pc, call, at, pend, reply, owed, file, log, after, count>>
------------------------------------------------------------------------------
(***************************************************************************)
(* The steps of a call, each with its calls of mark_dirty: those made at   *)
(* once, and those the function makes when the functions it calls have     *)
(* returned, which an exception skips.                                     *)
(***************************************************************************)
Mark(now, late) ==
    LET returns == pc' \in {"idle", "add"} /\ reply' # "error"
    IN  /\ dirty' = dirty \cup now \cup (IF returns THEN owed \cup late ELSE {})
        /\ owed' = IF pc' = "idle" \/ returns THEN {} ELSE owed \cup late

New == Len(pages) + 1

\* The halves of a split page are marked with the first entry they take.
Filled == {p \in {at, New} : pages'[p].slots # NoSlots}

NoneGivenAway == {}  \* mutant: their new parent is not saved
\* The children a split internal page gives to the new one.
GivenAway ==
    IF reply' = "error" THEN {}
    ELSE {pages'[New].link} \cup {pages'[New].slots[s] : s \in DOMAIN pages'[New].slots}

Merged == MergePair(at).left

MarkedInsertion ==
    \/ InsertIntoLeaf   /\ Mark({at}, {})
    \/ InsertDuplicate  /\ Mark({}, {})
    \/ SplitLeaf        /\ Mark(Filled, {at, New})
    \/ CreateNewRoot    /\ Mark({0, New, pend.left, pend.right}, {})
    \/ InsertIntoParent /\ Mark(IF reply' = "error" THEN {} ELSE {at, pend.right}, {})
    \/ SplitInternal    /\ Mark(Filled \cup GivenAway, {at, New})

MarkedDeletion ==
    \/ DeleteFromLeaf       /\ Mark({at}, {})
    \/ DeleteMissing        /\ Mark({}, {})
    \/ NothingToRepair      /\ Mark({}, {})
    \/ SiblingNotFound      /\ Mark({}, {})
    \/ BorrowRightLeaf      /\ Mark({at, RightSib(at), pages[at].parent}, {})
    \/ BorrowLeftLeaf       /\ Mark({at, LeftSib(at), pages[at].parent}, {})
    \/ MergeLeaves          /\ Mark({Merged} \cap {p \in Id : pages'[p].slots # NoSlots},
                                    {Merged})
    \/ BorrowRightInternal  /\ Mark({at, RightSib(at), pages[at].parent}, {})
    \/ BorrowLeftInternal   /\ Mark({LeftSib(at), pages[at].parent}, {at})
    \/ MergeInternals       /\ Mark({Merged} \cup {pages'[Merged].slots[s] :
                                        s \in DOMAIN pages'[Merged].slots}, {})
    \/ Unlink               /\ Mark({at}, {})
    \/ UnlinkUnderflows     /\ Mark({at}, {})
    \/ ShrinkRoot           /\ Mark({0, at, pages[at].link}, {})

\* "Corrupcao": the recursion reaches a page of zeros.
ReadsZeroPage ==
    /\ pc \in {"find", "add", "remove"} /\ pages[at].type = "zero"
    /\ Raise /\ Mark({}, {})
    /\ UNCHANGED <<pages, root>>

\* What the code goes on to do with a page of zeros as a parent is left out: such
\* a call does not end here.
OnPage == at # 0 => pages[at].type # "zero"

\* When a call ends its effect is compared with, or added to, the history.
Recorded ==
    after' = IF pc # "idle" /\ pc' = "idle" /\ Len(after) <= pos
               THEN Append(after, Contents') ELSE after

TreeStep ==
    /\ \/ OnPage /\ (Descend \/ Search \/ UpdateFinds) /\ Mark({}, {})
       \/ OnPage /\ (MarkedInsertion \/ MarkedDeletion)
       \/ ReadsZeroPage
    /\ Recorded
    /\ UNCHANGED <<phase, file, log, pos, count>>
------------------------------------------------------------------------------
\* recover() hands the records to the tree in order and swallows its exceptions.
Replay ==
    /\ phase = "replay" /\ pos < Len(log)
    /\ Call(log[pos + 1])
    /\ pos' = pos + 1
    /\ UNCHANGED <<phase, dirty, owed, file, log, after, count>>

EndReplay ==
    /\ phase = "replay" /\ pc = "idle" /\ pos = Len(log)
    /\ phase' = "serve"
    /\ UNCHANGED <<tree, dirty, owed, file, log, pos, after, count>>

\* The record is written before the tree is changed; del looks the key up first.
Command(req) ==
    /\ phase = "serve"
    /\ \/ /\ script # <<>> /\ req = Head(script)
          /\ script' = Tail(script) /\ UNCHANGED records
       \/ /\ script = <<>> /\ req.op \in Ops /\ records < MaxRecords
          /\ records' = records + 1 /\ UNCHANGED script
    /\ (req.op = "delete" => Contents[req.key] # Null)
    /\ Call(req)
    /\ log' = Append(log, req) /\ pos' = pos + 1
    /\ UNCHANGED <<phase, dirty, owed, file, after, crashes, stops>>
------------------------------------------------------------------------------
(***************************************************************************)
(* Shutdown between two commands, and crashes.                             *)
(***************************************************************************)
WrittenWithoutRoot(ids) ==  \* mutant: page 0 is forgotten
    /\ disk' = [p \in DOMAIN pages |->
                  IF p \in ids THEN pages[p] ELSE Extended(disk, Len(pages))[p]]
    /\ UNCHANGED diskRoot
\* Pages are written at their place; the pages of zeros are there since new_page.
Written(ids) ==
    /\ disk' = [p \in DOMAIN pages |->
                  IF p \in ids THEN pages[p] ELSE Extended(disk, Len(pages))[p]]
    /\ diskRoot' = IF 0 \in ids THEN root ELSE diskRoot

FlushAll ==
    /\ phase = "serve" /\ pc = "idle"
    /\ phase' = "flushed"
    /\ Written(dirty) /\ dirty' = {}
    /\ UNCHANGED <<tree, owed, log, pos, after, count>>

ClearLog ==
    /\ phase = "flushed"
    /\ NoTree
    /\ phase' = "off" /\ stops' = stops + 1
    /\ log' = <<>> /\ pos' = 0
    /\ after' = <<Last(after)>>
    /\ UNCHANGED <<file, script, records, crashes>>

\* A page that was allocated may be in the file or not; in the middle of flush_all
\* some of the dirty pages are written.
CrashedFile ==
    \/ disk' \in {disk, Extended(disk, Len(pages))} /\ UNCHANGED diskRoot
    \/ /\ "closing" \in Faults /\ phase = "serve" /\ pc = "idle"
       /\ \E ids \in SUBSET dirty : Written(ids)

\* What is left of the log is a prefix: all of it, if it was synchronised at every
\* record as the shell does, which is the case taken for a crash in the shutdown.
Crash ==
    /\ phase # "off" /\ crashes < MaxCrashes
    /\ phase = "flushed" => "closing" \in Faults
    /\ CrashedFile
    /\ NoTree
    /\ phase' = "off" /\ crashes' = crashes + 1
    /\ \E n \in 0 .. Len(log) :
         /\ "closing" \in Faults => n = Len(log)
         /\ log' = SubSeq(log, 1, n)
         /\ after' = SubSeq(after, 1, IF n < Len(after) THEN n + 1 ELSE Len(after))
    /\ pos' = 0
    /\ UNCHANGED <<script, records, stops>>

DStep == Open \/ TreeStep \/ Replay \/ EndReplay \/ FlushAll \/ ClearLog

DNext == DStep \/ Crash \/ \E req \in Requests : Command(req)

DSpec == DInit /\ [][DNext]_dvars
------------------------------------------------------------------------------
Quiet == phase \in {"replay", "serve"} /\ pc = "idle"

\* After a restart the file holds what a search found when the log was last cleared, if
\* every entry fits a page (see DirtyPagesKnown), and every record replayed leaves what
\* it left the first time: the calls that split, merged, lost keys or raised half way do
\* so again, over pages with other ids, whatever the crash interrupted and however often
\* the replay is restarted.
ReplayRepeats == Quiet /\ pos < Len(after) => Contents = after[pos + 1]

\* Between calls every page a search can reach that differs from its copy in the file
\* is in dirty_pages, or flush_all would leave it behind; likewise the root id.  This is for
\* entries that fit a page: a set of one that does not empties its leaf and marks nothing
\* (btree.py:267).
DirtyPagesKnown ==
    Quiet =>
      /\ root = diskRoot \/ 0 \in dirty
      /\ \A p \in Reachable \ dirty : p \in DOMAIN disk /\ pages[p] = disk[p]
------------------------------------------------------------------------------
(***************************************************************************)
(* What README.md says, and a crash in the shutdown breaks.                *)
(***************************************************************************)
\* "In the event of a power outage, the server perfectly recovers its state upon
\* restarting": the replay ends with what the last logged command left.
RecoversState ==
    [][phase = "replay" /\ phase' = "serve" /\ Len(log) < Len(after) =>
         Contents = after[Len(log) + 1]]_dvars
==============================================================================
