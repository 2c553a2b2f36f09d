----------------------------- MODULE DurableStore -----------------------------
(***************************************************************************)
(* What survives a crash: the write-ahead log of wal.py, the order in      *)
(* which server.py and shell_interativo.py write the log and change the    *)
(* tree, the recovery at startup and the flush and clear at shutdown.      *)
(*                                                                         *)
(* The tree is the map of KVStore, in memory and in the database file: the *)
(* file changes only as a whole, when the shutdown has written every dirty *)
(* page.  Two things write a part of the pages, and what they leave is no  *)
(* map: a shutdown that dies between two pages (DurableTree shows what it  *)
(* costs) and the evictions of a cache of 50000 pages, so the database is  *)
(* smaller than that.  DurableTree has the replay over real pages too.     *)
(*                                                                         *)
(* A record of the log is a request.  The file, as the operating system    *)
(* has it, is logFile; the first `synced' records of it are on the disk,   *)
(* and logBuffer is in the buffer of the Python file object.               *)
(*                                                                         *)
(* The server runs every command under db_lock, so one is in progress at a *)
(* time, whatever the number of client threads.                            *)
(***************************************************************************)
EXTENDS Integers, Sequences, SequencesExt

\* As in BPlusTree, definitions marked "mutant" are used by no definition here.
CONSTANTS
    Keys, Vals, Null,
    flush_threshold, \* 100 in wal.py
    ServerFaults,    \* the sets of faults the server may have, and those the shell may
    ShellFaults,     \* have, of: "kill": a crash is a kill and the system stays up;
                     \* "torn": a power failure tears a record; "flushed": a crash hits
                     \* the shutdown between the flush of the pages and the clear
    MaxCrashes,      \* bound: how many times the process dies
    MaxRecords       \* bound: how many requests are logged

ASSUME DurabilityAssumption ==
    /\ flush_threshold \in Nat \ {0}
    /\ ServerFaults \cup ShellFaults \subseteq SUBSET {"kill", "torn", "flushed"}
    /\ MaxCrashes \in Nat /\ MaxRecords \in Nat
    /\ Null \notin Vals /\ "garbage" \notin Vals

VARIABLES
    program,       \* the one that has the files, "server" or "shell"
    faults,        \* what may go wrong; neither changes
    phase,         \* what the process does
    pc,            \* the step the command in progress takes next
    request,       \* the command in progress
    mem,           \* the tree in memory: the value of each key
    disk,          \* the tree in the database file
    logFile, synced, logBuffer,
    unflushed_ops,
    pos,           \* the record the recovery reads next
    recent,        \* history: the contents when the log was last on the disk, and those
                   \* after each request answered or recovered since
    doubtful,      \* history: what an interrupted command would have left
    crashes, records  \* counters for the bounds

log   == <<logFile, synced, logBuffer, unflushed_ops>>
history == <<recent, doubtful>>
count == <<crashes, records>>
setup == <<program, faults>>
vars  == <<setup, phase, pc, request, mem, disk, log, pos, history, count>>

Requests == [op : {"insert", "update"}, key : Keys, val : Vals]
              \cup [op : {"delete"}, key : Keys, val : {Null}]
NoRequest == [op |-> "none", key |-> Null, val |-> Null]

\* The part of a record a power failure left at the end of the file.
Torn(r) == [op |-> "torn", key |-> r.key, val |-> Null]
------------------------------------------------------------------------------
\* What a request makes of the contents; one that raises leaves them.
After(m, r) ==
    CASE r.op = "insert" /\ m[r.key] = Null -> [m EXCEPT ![r.key] = r.val]
      [] r.op = "update" /\ m[r.key] # Null -> [m EXCEPT ![r.key] = r.val]
      [] r.op = "delete"                    -> [m EXCEPT ![r.key] = Null]
      [] OTHER                              -> m

LoggedUnchecked(r) == mem[r.key] # Null \/ r.op # "delete"  \* mutant: update not checked
\* Commands that look the key up first and log nothing if it is not there: del,
\* and in the shell update.
Logged(r) ==
    mem[r.key] # Null \/ r.op = "insert" \/ (r.op = "update" /\ program = "server")

MustSyncLate(n) == program = "shell" \/ n > flush_threshold  \* mutant: > for >=
\* force_sync, or the threshold is reached.
MustSync(n) == program = "shell" \/ n >= flush_threshold

\* The command in progress, if there is one, is not answered any more.
Interrupted ==
    /\ doubtful' = IF pc = "idle" THEN doubtful ELSE doubtful \cup {After(mem, request)}
    /\ pc' = "idle" /\ request' = NoRequest
    /\ UNCHANGED recent

Init ==
    /\ program \in {"server", "shell"}
    /\ faults \in IF program = "server" THEN ServerFaults ELSE ShellFaults
    /\ phase = "off" /\ pc = "idle" /\ request = NoRequest
    /\ mem = [k \in Keys |-> Null] /\ disk = mem
    /\ logFile = <<>> /\ synced = 0 /\ logBuffer = <<>> /\ unflushed_ops = 0
    /\ pos = 1
    /\ recent = <<mem>> /\ doubtful = {}
    /\ crashes = 0 /\ records = 0

(***************************************************************************)
(* Startup: the tree is opened and the log is replayed over it.  The log   *)
(* is not cleared and the pages are not flushed afterwards.                *)
(***************************************************************************)
Start ==
    /\ phase = "off"
    /\ phase' = "recovering"
    /\ mem' = disk
    /\ pos' = 1 /\ unflushed_ops' = 0
    /\ UNCHANGED <<pc, request, disk, logFile, synced, logBuffer, history, count>>

ReplayStuck ==  \* mutant: the next record is not read
    /\ phase = "recovering" /\ pos <= Len(logFile) /\ logFile[pos].op # "torn"
    /\ mem' = After(mem, logFile[pos])
    /\ UNCHANGED <<phase, pc, request, disk, log, pos, history, count>>

\* recover() swallows the exceptions of the tree.
Replay ==
    /\ phase = "recovering" /\ pos <= Len(logFile) /\ logFile[pos].op # "torn"
    /\ mem' = After(mem, logFile[pos])
    /\ pos' = pos + 1
    /\ UNCHANGED <<phase, pc, request, disk, log, history, count>>

\* The lengths in a torn record reach into the records after it, whose bytes are
\* taken for the rest of its key or of its value.
Misread ==
    /\ phase = "recovering" /\ pos < Len(logFile) /\ logFile[pos].op = "torn"
    /\ pos' \in pos + 2 .. Len(logFile) + 1
    /\ mem' \in {mem, [mem EXCEPT ![logFile[pos].key] = "garbage"]}
    /\ UNCHANGED <<phase, pc, request, disk, log, history, count>>

\* What is not UTF-8 raises outside the try, and main() ends.
RecoveryRaises ==
    /\ phase = "recovering" /\ pos < Len(logFile) /\ logFile[pos].op = "torn"
    /\ phase' = "off"
    /\ UNCHANGED <<pc, request, mem, disk, log, pos, history, count>>

\* At the end of the file, or at a record the file ends in.  What was replayed is not
\* synchronised: after a kill some of it may be on no disk.
EndRecovery ==
    /\ phase = "recovering"
    /\ pos <= Len(logFile) => logFile[pos].op = "torn"
    /\ phase' = "serving"
    /\ recent' = IF synced = Len(logFile) THEN <<mem>> ELSE Append(recent, mem)
    /\ doubtful' = {}
    /\ UNCHANGED <<pc, request, mem, disk, log, pos, count>>
------------------------------------------------------------------------------
(***************************************************************************)
(* Commands.  Once the lock is free again after the shutdown, a thread of  *)
(* the server goes on until the process ends: only the pager is closed.    *)
(***************************************************************************)
Serving == phase = "serving" \/ (phase = "cleared" /\ program = "server")

LogRequest(r) ==
    /\ Serving /\ pc = "idle" /\ records < MaxRecords /\ Logged(r)
    /\ request' = r
    /\ logBuffer' = Append(logBuffer, r)
    /\ unflushed_ops' = unflushed_ops + 1
    /\ pc' = IF MustSync(unflushed_ops + 1) THEN "sync" ELSE "apply"
    /\ records' = records + 1
    /\ UNCHANGED <<phase, mem, disk, logFile, synced, pos, history, crashes>>

\* The Python buffer is written out when it is full, and by flush().
WriteBuffer ==
    /\ logBuffer # <<>> /\ phase # "off"
    /\ logFile' = logFile \o logBuffer /\ logBuffer' = <<>>
    /\ UNCHANGED <<phase, pc, request, mem, disk, synced, unflushed_ops, pos, history, count>>

SyncLog ==
    /\ pc = "sync"
    /\ logFile' = logFile \o logBuffer /\ logBuffer' = <<>>
    /\ synced' = Len(logFile')
    /\ unflushed_ops' = 0
    /\ pc' = "apply"
    /\ recent' = <<mem>>
    /\ UNCHANGED <<phase, request, mem, disk, pos, doubtful, count>>

\* The tree is changed and the client is answered, under the same lock.
ApplyRequest ==
    /\ Serving /\ pc = "apply"
    /\ mem' = After(mem, request)
    /\ recent' = IF unflushed_ops = 0 THEN <<mem'>> ELSE Append(recent, mem')
    /\ pc' = "idle" /\ request' = NoRequest
    /\ UNCHANGED <<phase, disk, log, pos, doubtful, count>>
------------------------------------------------------------------------------
(***************************************************************************)
(* Shutdown.  The server waits for db_lock; an interrupt takes the shell   *)
(* out of the command it is in.                                            *)
(***************************************************************************)
Shutdown ==
    /\ phase = "serving"
    /\ program = "server" => pc = "idle"
    /\ phase' = "closing"
    /\ Interrupted
    /\ UNCHANGED <<mem, disk, log, pos, count>>

\* pager.close(): flush_all writes the dirty pages and synchronises the file.
FlushAll ==
    /\ phase = "closing"
    /\ phase' = "flushed"
    /\ disk' = mem
    /\ UNCHANGED <<pc, request, mem, log, pos, history, count>>

ClearLog ==
    /\ phase = "flushed"
    /\ phase' = "cleared"
    /\ logFile' = <<>> /\ synced' = 0 /\ logBuffer' = <<>> /\ unflushed_ops' = 0
    /\ recent' = <<mem>> /\ doubtful' = {}
    /\ UNCHANGED <<pc, request, mem, disk, pos, count>>

\* What a thread had still put into the buffer may be written out or not, and is not
\* synchronised.
Exit ==
    /\ phase = "cleared"
    /\ phase' = "off"
    /\ logFile' \in {logFile, logFile \o logBuffer} /\ logBuffer' = <<>>
    /\ Interrupted
    /\ UNCHANGED <<mem, disk, synced, unflushed_ops, pos, count>>
------------------------------------------------------------------------------
(***************************************************************************)
(* A crash: the power fails, or the process is killed (the server kills    *)
(* itself at the command `crash').                                         *)
(***************************************************************************)
\* What a power failure leaves of the log: at least what was synchronised, and the
\* record after it in part.
Leftovers ==
    LET cut == {SubSeq(logFile, 1, n) : n \in synced .. Len(logFile)}
    IN  cut \cup {Append(c, Torn(logFile[Len(c) + 1])) :
                    c \in {c \in cut : "torn" \in faults /\ Len(c) < Len(logFile)}}

\* After a kill the file is what it was, for the next process, and no more of it is on
\* the disk.  A crash in "closing" comes before the first page is written.
Crash ==
    /\ phase # "off" /\ crashes < MaxCrashes
    /\ phase = "flushed" => "flushed" \in faults
    /\ crashes' = crashes + 1
    /\ phase' = "off"
    /\ \/ logFile' \in Leftovers /\ synced' = Len(logFile')
       \/ "kill" \in faults /\ UNCHANGED <<logFile, synced>>
    /\ logBuffer' = <<>>
    /\ Interrupted
    /\ UNCHANGED <<mem, disk, unflushed_ops, pos, records>>

Recovery == Start \/ Replay \/ Misread \/ RecoveryRaises \/ EndRecovery
Command  == WriteBuffer \/ SyncLog \/ ApplyRequest
Closing  == FlushAll \/ ClearLog \/ Exit

Step ==
    \/ Recovery \/ Command \/ Shutdown \/ Closing \/ Crash
    \/ \E r \in Requests : LogRequest(r)

Next == Step /\ UNCHANGED setup

Spec == Init /\ [][Next]_vars

\* The process is restarted and nothing in startup waits for anything.
FairSpec == Spec /\ WF_vars(Recovery /\ UNCHANGED setup)
------------------------------------------------------------------------------
TypeOK ==
    LET Contents == [Keys -> Vals \cup {Null, "garbage"}]
        Records  == Requests \cup [op : {"torn"}, key : Keys, val : {Null}]
    IN  /\ program \in {"server", "shell"}
        /\ faults \in IF program = "server" THEN ServerFaults ELSE ShellFaults
        /\ phase \in {"off", "recovering", "serving", "closing", "flushed", "cleared"}
        /\ pc \in {"idle", "sync", "apply"} /\ request \in Requests \cup {NoRequest}
        /\ mem \in Contents /\ disk \in Contents
        /\ logFile \in Seq(Records) /\ logBuffer \in Seq(Requests)
        /\ synced \in 0..Len(logFile)
        /\ unflushed_ops \in 0..flush_threshold
        /\ recent \in Seq(Contents) /\ recent # <<>> /\ doubtful \subseteq Contents

Recovered == phase = "recovering" /\ phase' = "serving"

\* Records appended after a torn one: recover() does not cut the log where it stops.
WroteAfterTorn == \E i \in 1 .. Len(logFile) - 1 : logFile[i].op = "torn"

\* A restart ends with the contents of the last fsync of the log or with those after one
\* of the requests since, whole: the command a crash interrupted is done or not done, and
\* nothing older comes back and no mixture.  For the shell that is the last answered
\* request, also when the log is replayed over pages that have its effects already; the
\* server answers up to flush_threshold - 1 requests before each fsync, and more if it is
\* killed in between, since what recover() finds is not synchronised.  Not so for a crash
\* that hits the server, or a shell that was killed before, between the flush and the
\* clear.  The tree has to do what the map does, in the replay too: in the shell, a crash
\* between the flush and the clear makes the replay insert keys that are there, and a leaf
\* that is full then splits (btree.py:181) and may lose entries.
RecoversRecent ==
    [][Recovered /\ ~WroteAfterTorn => mem \in Range(recent) \cup doubtful]_vars

\* A process that is started serves: no state of the files keeps recover() from
\* its end, unless something was logged behind a torn record.
StartsServing == (phase = "off" /\ ~WroteAfterTorn) ~> (phase = "serving")
------------------------------------------------------------------------------
(***************************************************************************)
(* What README.md says, and some crashes break.                            *)
(***************************************************************************)
\* "In the event of a power outage, the server perfectly recovers its state".
RecoversLast ==
    [][Recovered => mem \in {Last(recent)} \cup doubtful]_vars
==============================================================================
