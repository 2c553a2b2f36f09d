-------------------------- MODULE DurableStoreProofs --------------------------
(***************************************************************************)
(* Proofs for DurableStore, for any keys, values, threshold and number of  *)
(* crashes: its types, under every fault; and what a recovery ends with.   *)
(***************************************************************************)
EXTENDS DurableStore, SequenceTheorems, TLAPS

Contents == [Keys -> Vals \cup {Null, "garbage"}]
Records  == Requests \cup [op : {"torn"}, key : Keys, val : {Null}]

\* A request is in progress only while the program serves, and then the threshold of
\* unflushed_ops is not passed over.
InProgress ==
    /\ pc # "idle" => Serving /\ request \in Requests
    /\ phase = "recovering" => unflushed_ops = 0
    /\ Serving /\ pc # "sync" => unflushed_ops < flush_threshold
    /\ pos \in Nat \ {0}

TypeInv == TypeOK /\ InProgress
------------------------------------------------------------------------------
\* What the records of the log make of the contents are contents.
LEMMA AfterType ==
    ASSUME NEW m \in Contents, NEW r \in Records
    PROVE  After(m, r) \in Contents
<1>1. r \in Requests => r.key \in Keys /\ r.val \in Vals \cup {Null} BY DEF Requests
<1>2. r \notin Requests => r.op = "torn" BY DEF Records
<1>3. CASE r \in Requests BY <1>1, <1>3 DEF After, Contents
<1>4. CASE r \notin Requests BY <1>2, <1>4 DEF After
<1>. QED BY <1>3, <1>4

\* What a crash leaves of the log is records of the log.
LEMMA LeftType ==
    ASSUME TypeOK, NEW left \in Leftovers
    PROVE  left \in Seq(Records) /\ Len(left) \in 0 .. Len(left)
<1>1. logFile \in Seq(Records) /\ synced \in 0 .. Len(logFile)
    BY DEF TypeOK, Records
<1>2. ASSUME NEW n \in synced .. Len(logFile)
      PROVE  SubSeq(logFile, 1, n) \in Seq(Records) /\ Len(SubSeq(logFile, 1, n)) = n
    <2>1. n \in Nat /\ \A i \in 1 .. n : logFile[i] \in Records BY <1>1, ElementOfSeq
    <2>2. 1 \in Int /\ n \in Int BY <2>1
    <2>3. PICK t : t = SubSeq(logFile, 1, n) OBVIOUS
    <2>4. t \in Seq(Records) /\ Len(t) = IF 1 <= n THEN n - 1 + 1 ELSE 0
        BY <2>1, <2>2, <2>3, SubSeqProperties
    <2>. QED BY <2>1, <2>3, <2>4
<1>3. CASE \E n \in synced .. Len(logFile) : left = SubSeq(logFile, 1, n) BY <1>2, <1>3
<1>4. CASE \E n \in synced .. Len(logFile) :
             LET c == SubSeq(logFile, 1, n)
             IN  Len(c) < Len(logFile) /\ left = Append(c, Torn(logFile[Len(c) + 1]))
    <2>1. PICK n \in synced .. Len(logFile) :
             LET c == SubSeq(logFile, 1, n)
             IN  Len(c) < Len(logFile) /\ left = Append(c, Torn(logFile[Len(c) + 1]))
        BY <1>4
    <2>2. PICK c : c = SubSeq(logFile, 1, n) OBVIOUS
    <2>3. c \in Seq(Records) /\ Len(c) = n BY <2>2, <1>2
    <2>4. n + 1 \in 1 .. Len(logFile) BY <2>1, <2>2, <2>3, <1>1
    <2>5. PICK r \in Records : r = logFile[n + 1] BY <2>4, <1>1, ElementOfSeq
    <2>6. r.key \in Keys BY <2>5 DEF Records, Requests
    <2>7. Torn(r) \in Records BY <2>6 DEF Torn, Records
    <2>8. left = Append(c, Torn(r)) BY <2>1, <2>2, <2>3, <2>5
    <2>9. PICK x \in Records : x = Torn(r) BY <2>7
    <2>. QED BY <2>3, <2>8, <2>9
<1>. QED BY <1>3, <1>4 DEF Leftovers
------------------------------------------------------------------------------
\* A database that was never used.
LEMMA InitType == Init => TypeInv
<1>1. SUFFICES ASSUME Init PROVE TypeInv OBVIOUS
<1>2. mem \in Contents /\ disk \in Contents BY <1>1 DEF Init, Contents
<1>3. recent = <<mem>> BY <1>1 DEF Init
<1>4. recent \in Seq(Contents) /\ recent # <<>> BY <1>2, <1>3
<1>5. logFile = <<>> /\ logBuffer = <<>> BY <1>1 DEF Init
<1>6. logFile \in Seq(Records) /\ Len(logFile) = 0 /\ logBuffer \in Seq(Requests) BY <1>5
<1>7. TypeOK
    BY <1>1, <1>2, <1>4, <1>6, DurabilityAssumption DEF Init, TypeOK, Contents, Records
<1>8. InProgress BY <1>1 DEF Init, InProgress, Serving
<1>. QED BY <1>7, <1>8 DEF TypeInv

\* The types, one by one.
LEMMA Types ==
    ASSUME TypeInv
    PROVE  /\ program \in {"server", "shell"}
           /\ faults \in IF program = "server" THEN ServerFaults ELSE ShellFaults
           /\ phase \in {"off", "recovering", "serving", "closing", "flushed", "cleared"}
           /\ pc \in {"idle", "sync", "apply"} /\ request \in Requests \cup {NoRequest}
           /\ mem \in Contents /\ disk \in Contents
           /\ logFile \in Seq(Records) /\ logBuffer \in Seq(Requests)
           /\ synced \in 0 .. Len(logFile)
           /\ unflushed_ops \in 0 .. flush_threshold
           /\ recent \in Seq(Contents) /\ recent # <<>> /\ doubtful \subseteq Contents
BY DEF TypeInv, TypeOK, Contents, Records

\* A step that keeps most of the state.
LEMMA TypeStep ==
    ASSUME TypeInv, UNCHANGED setup,
           phase' \in {"off", "recovering", "serving", "closing", "flushed", "cleared"},
           pc' \in {"idle", "sync", "apply"}, request' \in Requests \cup {NoRequest},
           mem' \in Contents, disk' \in Contents,
           logFile' \in Seq(Records), logBuffer' \in Seq(Requests),
           synced' \in 0 .. Len(logFile'),
           unflushed_ops' \in 0 .. flush_threshold,
           recent' \in Seq(Contents), recent' # <<>>, doubtful' \subseteq Contents
    PROVE  TypeOK'
BY Types DEF TypeOK, Contents, Records, setup

\* The requests are records of the log.
LEMMA JoinedLog ==
    ASSUME NEW s \in Seq(Records), NEW t \in Seq(Requests)
    PROVE  s \o t \in Seq(Records) /\ Len(s \o t) = Len(s) + Len(t)
<1>1. t \in Seq(Records)
    <2>1. \A i \in 1 .. Len(t) : t[i] \in Records BY ElementOfSeq DEF Records
    <2>2. t = [i \in 1 .. Len(t) |-> t[i]] /\ Len(t) \in Nat OBVIOUS
    <2>. QED BY <2>1, <2>2, IsASeq
<1>. QED BY <1>1, ConcatProperties

\* A command that was interrupted is none, and what it would have left is contents.
LEMMA InterruptedType ==
    ASSUME TypeInv, Interrupted
    PROVE  /\ pc' = "idle" /\ request' = NoRequest
           /\ recent' = recent /\ doubtful' \subseteq Contents
<1>1. pc # "idle" => request \in Records BY DEF TypeInv, InProgress, Records
<1>2. mem \in Contents /\ doubtful \subseteq Contents BY Types
<1>3. pc # "idle" => After(mem, request) \in Contents BY <1>1, <1>2, AfterType
<1>. QED BY <1>2, <1>3 DEF Interrupted

\* The history of the contents.
LEMMA ReachedType ==
    ASSUME TypeInv, NEW m \in Contents, recent' \in {<<m>>, Append(recent, m)}
    PROVE  recent' \in Seq(Contents) /\ recent' # <<>>
<1>1. <<m>> \in Seq(Contents) /\ <<m>> # <<>> OBVIOUS
<1>2. PICK s \in Seq(Contents) : s = recent BY Types
<1>3. Append(s, m) \in Seq(Contents) /\ Len(Append(s, m)) = Len(s) + 1 OBVIOUS
<1>4. \A a \in Seq(Contents) : Len(a) # 0 => a # <<>> OBVIOUS
<1>5. Append(s, m) # <<>>
    <2>1. PICK a \in Seq(Contents) : a = Append(s, m) BY <1>3
    <2>2. Len(a) # 0 BY <1>3, <2>1
    <2>. QED BY <1>4, <2>1, <2>2
<1>. QED BY <1>1, <1>2, <1>3, <1>5

\* Every step keeps the types: those of a start and of recover(),
LEMMA RecoveryType == ASSUME TypeInv, Recovery, UNCHANGED setup PROVE TypeInv'
<1>1. ASSUME NEW i \in 1 .. Len(logFile) PROVE logFile[i] \in Records
    BY <1>1, Types, ElementOfSeq
<1>2. pos \in Nat \ {0} BY DEF TypeInv, InProgress
<1>3. CASE Start
    <2>1. TypeOK' BY <1>3, Types, TypeStep, DurabilityAssumption DEF Start, log, history, count
    <2>2. InProgress' BY <1>3, Types DEF Start, InProgress, Serving, TypeInv
    <2>. QED BY <2>1, <2>2 DEF TypeInv
<1>4. CASE Replay
    <2>1. pos \in 1 .. Len(logFile) BY <1>2, <1>4 DEF Replay
    <2>2. mem' \in Contents BY <2>1, <1>1, <1>4, Types, AfterType DEF Replay
    <2>3. TypeOK' BY <2>2, <1>4, Types, TypeStep DEF Replay, log, history
    <2>4. InProgress' BY <1>2, <1>4 DEF Replay, log, InProgress, Serving, TypeInv
    <2>. QED BY <2>3, <2>4 DEF TypeInv
<1>5. CASE Misread
    <2>1. pos \in 1 .. Len(logFile) BY <1>2, <1>5 DEF Misread
    <2>2. mem' \in Contents
        <3>1. mem \in Contents BY Types
        <3>2. CASE mem' = mem BY <3>1, <3>2
        <3>3. CASE mem' = [mem EXCEPT ![logFile[pos].key] = "garbage"]
            BY <3>1, <3>3 DEF Contents
        <3>. QED BY <3>2, <3>3, <1>5 DEF Misread
    <2>3. TypeOK' BY <2>2, <1>5, Types, TypeStep DEF Misread, log, history
    <2>4. pos' \in Nat \ {0} BY <1>2, <1>5 DEF Misread
    <2>5. InProgress' BY <2>4, <1>5 DEF Misread, log, InProgress, Serving, TypeInv
    <2>. QED BY <2>3, <2>5 DEF TypeInv
<1>6. CASE RecoveryRaises
    <2>1. TypeOK' BY <1>6, Types, TypeStep DEF RecoveryRaises, log, history
    <2>2. InProgress' BY <1>6 DEF RecoveryRaises, log, InProgress, Serving, TypeInv
    <2>. QED BY <2>1, <2>2 DEF TypeInv
<1>7. CASE EndRecovery
    <2>1. recent' \in Seq(Contents) /\ recent' # <<>>
        BY <1>7, Types, ReachedType DEF EndRecovery
    <2>2. TypeOK' BY <2>1, <1>7, Types, TypeStep DEF EndRecovery, log
    <2>3. InProgress'
        BY <1>7, DurabilityAssumption DEF EndRecovery, log, InProgress, Serving, TypeInv
    <2>. QED BY <2>2, <2>3 DEF TypeInv
<1>. QED BY <1>3, <1>4, <1>5, <1>6, <1>7 DEF Recovery

\* _append_to_wal, which does not pass over the threshold,
LEMMA LogRequestType ==
    ASSUME TypeInv, NEW r \in Requests, LogRequest(r), UNCHANGED setup PROVE TypeInv'
<1>1. logBuffer' \in Seq(Requests) BY Types DEF LogRequest
<1>2. unflushed_ops' \in 0 .. flush_threshold
    BY Types, DurabilityAssumption DEF LogRequest, TypeInv, InProgress
<1>3. pc' \in {"sync", "apply"} BY DEF LogRequest
<1>4. TypeOK' BY <1>1, <1>2, <1>3, Types, TypeStep DEF LogRequest, history
<1>5. pc' # "sync" => unflushed_ops' < flush_threshold
    BY Types, DurabilityAssumption DEF LogRequest, MustSync
<1>6. InProgress' BY <1>3, <1>5 DEF LogRequest, InProgress, Serving, setup, TypeInv
<1>. QED BY <1>4, <1>6 DEF TypeInv

\* the rest of a command,
LEMMA CommandType == ASSUME TypeInv, Command, UNCHANGED setup PROVE TypeInv'
<1>1. /\ logFile \o logBuffer \in Seq(Records)
      /\ Len(logFile \o logBuffer) = Len(logFile) + Len(logBuffer)
    BY Types, JoinedLog
<1>2. <<>> \in Seq(Requests) OBVIOUS
<1>3. Len(logFile) \in Nat /\ Len(logBuffer) \in Nat BY Types
<1>4. CASE WriteBuffer
    <2>1. synced \in 0 .. Len(logFile') BY <1>1, <1>3, <1>4, Types DEF WriteBuffer
    <2>2. TypeOK' BY <2>1, <1>1, <1>2, <1>4, Types, TypeStep DEF WriteBuffer, history
    <2>3. InProgress' BY <1>4 DEF WriteBuffer, InProgress, Serving, setup, TypeInv
    <2>. QED BY <2>2, <2>3 DEF TypeInv
<1>5. CASE SyncLog
    <2>1. synced' \in 0 .. Len(logFile') BY <1>1, <1>3, <1>5 DEF SyncLog
    <2>2. TypeOK'
        <3>1. recent' \in Seq(Contents) /\ recent' # <<>>
            BY <1>5, Types, ReachedType DEF SyncLog
        <3>. QED BY <2>1, <3>1, <1>1, <1>2, <1>5, Types, TypeStep, DurabilityAssumption DEF SyncLog
    <2>3. InProgress'
        BY <1>5, DurabilityAssumption DEF SyncLog, InProgress, Serving, setup, TypeInv
    <2>. QED BY <2>2, <2>3 DEF TypeInv
<1>6. CASE ApplyRequest
    <2>1. request \in Records BY <1>6 DEF ApplyRequest, TypeInv, InProgress, Records
    <2>2. mem' \in Contents BY <2>1, <1>6, Types, AfterType DEF ApplyRequest
    <2>3. recent' \in Seq(Contents) /\ recent' # <<>>
        BY <2>2, <1>6, Types, ReachedType DEF ApplyRequest
    <2>4. TypeOK' BY <2>2, <2>3, <1>6, Types, TypeStep DEF ApplyRequest, log
    <2>5. InProgress' BY <1>6 DEF ApplyRequest, log, InProgress, Serving, TypeInv
    <2>. QED BY <2>4, <2>5 DEF TypeInv
<1>. QED BY <1>4, <1>5, <1>6 DEF Command

\* the shutdown,
LEMMA ClosingType == ASSUME TypeInv, Closing, UNCHANGED setup PROVE TypeInv'
<1>1. CASE FlushAll
    <2>1. TypeOK' BY <1>1, Types, TypeStep DEF FlushAll, log, history
    <2>2. InProgress' BY <1>1 DEF FlushAll, log, InProgress, Serving, TypeInv
    <2>. QED BY <2>1, <2>2 DEF TypeInv
<1>3. CASE ClearLog
    <2>1. recent' \in Seq(Contents) /\ recent' # <<>> BY <1>3, Types DEF ClearLog
    <2>2. <<>> \in Seq(Records) /\ <<>> \in Seq(Requests) /\ Len(<<>>) = 0 OBVIOUS
    <2>3. TypeOK' BY <2>1, <2>2, <1>3, Types, TypeStep, DurabilityAssumption DEF ClearLog
    <2>4. InProgress'
        BY <1>3, DurabilityAssumption DEF ClearLog, InProgress, Serving, TypeInv
    <2>. QED BY <2>3, <2>4 DEF TypeInv
<1>4. CASE Exit
    <2>1. Interrupted BY <1>4 DEF Exit
    <2>2. logFile' \in Seq(Records) BY <1>4, Types, JoinedLog DEF Exit
    <2>3. synced' \in 0 .. Len(logFile')
        <3>1. /\ synced \in Nat /\ Len(logFile) \in Nat /\ Len(logBuffer) \in Nat
              /\ synced <= Len(logFile)
            BY Types
        <3>2. Len(logFile \o logBuffer) = Len(logFile) + Len(logBuffer) BY Types, JoinedLog
        <3>3. Len(logFile') \in {Len(logFile), Len(logFile) + Len(logBuffer)}
            BY <3>2, <1>4 DEF Exit
        <3>. QED BY <3>1, <3>3, <1>4 DEF Exit
    <2>4. <<>> \in Seq(Requests) OBVIOUS
    <2>5. TypeOK'
        BY <2>1, <2>2, <2>3, <2>4, <1>4, Types, InterruptedType, TypeStep DEF Exit
    <2>6. InProgress'
        BY <2>1, <1>4, InterruptedType DEF Exit, InProgress, Serving, TypeInv
    <2>. QED BY <2>5, <2>6 DEF TypeInv
<1>. QED BY <1>1, <1>3, <1>4 DEF Closing

\* a crash,
LEMMA CrashType == ASSUME TypeInv, Crash, UNCHANGED setup PROVE TypeInv'
<1>1. Interrupted BY DEF Crash
<1>2. logFile' \in Seq(Records) /\ synced' \in 0 .. Len(logFile')
    <2>1. CASE logFile' \in Leftovers /\ synced' = Len(logFile')
        BY <2>1, LeftType DEF TypeInv
    <2>2. CASE UNCHANGED <<logFile, synced>> BY <2>2, Types
    <2>. QED BY <2>1, <2>2 DEF Crash
<1>3. logFile' \in Seq(Records) /\ synced' \in 0 .. Len(logFile') BY <1>2
<1>4. <<>> \in Seq(Requests) OBVIOUS
<1>5. TypeOK' BY <1>1, <1>2, <1>3, <1>4, Types, InterruptedType, TypeStep DEF Crash
<1>6. InProgress' BY <1>1, InterruptedType DEF Crash, InProgress, Serving, TypeInv
<1>. QED BY <1>5, <1>6 DEF TypeInv

\* and the begin of the shutdown.
LEMMA ShutdownType == ASSUME TypeInv, Shutdown, UNCHANGED setup PROVE TypeInv'
<1>1. Interrupted BY DEF Shutdown
<1>2. TypeOK' BY <1>1, Types, InterruptedType, TypeStep DEF Shutdown, log
<1>3. InProgress' BY <1>1, InterruptedType DEF Shutdown, log, InProgress, Serving, TypeInv
<1>. QED BY <1>2, <1>3 DEF TypeInv

\* TypeInv is inductive.
LEMMA StepType == TypeInv /\ [Next]_vars => TypeInv'
<1>1. SUFFICES ASSUME TypeInv, [Next]_vars PROVE TypeInv' OBVIOUS
<1>2. CASE Next
    BY <1>1, <1>2, RecoveryType, LogRequestType, CommandType, ClosingType, CrashType,
       ShutdownType DEF Next, Step
<1>3. CASE UNCHANGED vars
    BY <1>1, <1>3
    DEF vars, setup, log, history, TypeInv, TypeOK, InProgress, Serving
<1>. QED BY <1>1, <1>2, <1>3

\* So it holds in every state.
LEMMA TypeInvariant == Spec => []TypeInv
<1>. QED BY InitType, StepType, PTL DEF Spec

\* TypeOK: the log holds requests and parts of requests, no more of it is on the disk than
\* there is, and the counter of wal.py does not pass the threshold, whatever fails.
THEOREM DurableTypeCorrect == Spec => []TypeOK
<1>1. TypeInv => TypeOK BY DEF TypeInv
<1>. QED BY <1>1, TypeInvariant, PTL
------------------------------------------------------------------------------
(***************************************************************************)
(* A restart recovers a recent state: RecoversRecent, for any keys,        *)
(* values and threshold and any number of crashes.                         *)
(*                                                                         *)
(* If no crash hits the shutdown between the flush and the clear, the      *)
(* pages under the log are the same whenever it is replayed, and so are    *)
(* the contents after each of its records: they are the trace t of         *)
(* TraceOK.  The first `synced' records are there after any crash, and     *)
(* recent has the contents after each of the others, as far as no torn     *)
(* record is before them.                                                  *)
(*                                                                         *)
(* If such a crash may hit the shell, a replay can begin with what an      *)
(* earlier one ended with.  There the proof looks at each key alone:       *)
(* G[p][x] is what the log makes of the value x from its record p + 1 to   *)
(* the end, and it must not matter if the replay starts from the old value *)
(* of the key or from the new one.  It does not because the shell logs no  *)
(* update that fails (Kind).                                               *)
(***************************************************************************)

Log    == logFile \o logBuffer
Total  == Len(Log)
Values == Vals \cup {Null, "garbage"}

\* No record before the last of the first p is torn.
Intact(p) == \A i \in 1 .. p - 1 : Log[i].op # "torn"

\* A torn record was synchronised with records behind it: nothing is promised until the
\* log is cleared.
Broken == \E i \in 1 .. synced - 1 : Log[i].op = "torn"

\* In the shell everything is synchronised at once.
SyncedAtOnce == program = "shell" /\ "kill" \notin faults

Plain ==
    /\ phase \in {"off", "recovering"} => logBuffer = <<>>
    /\ phase \in {"off", "recovering"} /\ SyncedAtOnce => synced = Len(logFile)
    /\ phase = "flushed" => disk = mem
    /\ phase = "cleared" /\ program = "shell" => logFile = <<>> /\ logBuffer = <<>>
    /\ phase \in {"serving", "cleared"} => doubtful = {}
    /\ Serving /\ pc = "apply" /\ unflushed_ops = 0 => synced = Total
    /\ Serving /\ program = "shell" /\ pc # "sync" => unflushed_ops = 0

\* t[p] is what the first p of the n records of s make of d.
Traces(t, s, n, d) ==
    /\ t \in [0 .. n -> Contents] /\ t[0] = d
    /\ \A p \in 1 .. n : t[p] = After(t[p - 1], s[p])

\* The records that are applied.
Done == IF pc = "idle" THEN Total ELSE Total - 1

\* What the trace has after record p is recent, or what an interrupted command left or one
\* in progress may leave.
Known(t, p) ==
    \/ t[p] \in Range(recent)
    \/ p = Total /\ (pc # "idle" \/ t[p] \in doubtful)

TraceOK(t) ==
    /\ Traces(t, Log, Total, disk)
    /\ \A p \in synced .. Total : Intact(p) => Known(t, p)
    /\ phase = "recovering" /\ Intact(Total) => pos <= Total + 1 /\ mem = t[pos - 1]
    /\ phase \in {"serving", "cleared"} =>
         /\ Intact(Done) => mem = t[Done]
         /\ pc # "idle" => Total > 0 /\ Log[Total] = request

\* What a record makes of the value x of the key k.
Op(x, r, k) ==
    IF r.key # k THEN x
    ELSE IF r.op = "insert" THEN IF x = Null THEN r.val ELSE x
    ELSE IF r.op = "update" THEN IF x # Null THEN r.val ELSE x
    ELSE IF r.op = "delete" THEN Null ELSE x

Replays(G, s, n, k) ==
    /\ G \in [0 .. n -> [Values -> Values]]
    /\ \A x \in Values : G[n][x] = x
    /\ \A p \in 1 .. n, x \in Values : G[p - 1][x] = G[p][Op(x, s[p], k)]

NoDelete(s, n, k) == \A p \in 1 .. n : ~(s[p].key = k /\ s[p].op = "delete")

\* The n records of s make c of every value of k, or of every value but that of an
\* absent key, or are inserts of k only.
Kind(G, s, n, k, c) ==
    \/ \A x \in Values : G[0][x] = c
    \/ /\ NoDelete(s, n, k) /\ c # Null
       /\ \A x \in Values \ {Null} : G[0][x] = c
    \/ /\ NoDelete(s, n, k)
       /\ \A p \in 0 .. n, x \in Values \ {Null} : G[p][x] = x

\* A replay of the n records over the page d ends with c.
Ends(G, s, n, k, d, c) == Replays(G, s, n, k) /\ Kind(G, s, n, k, c) /\ G[0][d] = c

\* Wherever a replay of n records is, it ends with c, and so does one that begins anew.
KeyOK(G, n, k, c) ==
    /\ Ends(G, Log, n, k, disk[k], c)
    /\ phase = "recovering" => pos <= n + 1 /\ G[pos - 1][mem[k]] = c

Settled(n, m) == \A k \in Keys : \E G : KeyOK(G, n, k, m[k])

\* The record after the first n of the log is that of the command in progress or of an
\* interrupted one, if there is one.
Pending(n) ==
    /\ n \in 0 .. synced
    /\ \/ n = Total /\ pc = "idle"
       \/ /\ n = Total - 1 /\ Log[Total] \in Requests /\ Logged(Log[Total])
          /\ IF pc = "idle" THEN phase # "serving" /\ After(mem, Log[Total]) \in doubtful
             ELSE Log[Total] = request

ShellOK ==
    IF phase \in {"off", "recovering"}
    THEN \E m \in Range(recent) \cup doubtful : Settled(Total, m)
    ELSE recent = <<mem>> /\ \E n \in Int : Pending(n) /\ Settled(n, mem)

RecoveryInv ==
    /\ TypeInv /\ Plain
    /\ "flushed" \notin faults => phase = "flushed" \/ \E t : TraceOK(t)
    /\ SyncedAtOnce => Broken \/ ShellOK
------------------------------------------------------------------------------
(***************************************************************************)
(* The log.                                                                *)
(***************************************************************************)
LEMMA LogFacts ==
    ASSUME TypeInv
    PROVE  /\ Log \in Seq(Records) /\ Total \in Nat
           /\ \A i \in 1 .. Total : Log[i] \in Records
           /\ Len(logFile) \in Nat /\ Len(logBuffer) \in Nat
           /\ Total = Len(logFile) + Len(logBuffer)
           /\ synced \in 0 .. Len(logFile)
           /\ \A i \in 1 .. Len(logFile) : Log[i] = logFile[i]
<1>1. /\ logFile \in Seq(Records) /\ logBuffer \in Seq(Requests)
      /\ synced \in 0 .. Len(logFile)
    BY Types
<1>2. Log \in Seq(Records) /\ Total = Len(logFile) + Len(logBuffer)
    BY <1>1, JoinedLog DEF Log, Total
<1>3. \A i \in 1 .. Total : Log[i] \in Records BY <1>2, ElementOfSeq DEF Total
<1>4. \A i \in 1 .. Len(logFile) : Log[i] = logFile[i]
    BY <1>1, ConcatProperties DEF Log
<1>. QED BY <1>1, <1>2, <1>3, <1>4 DEF Total

\* A record added to the buffer is the last of the log.
LEMMA LogLonger ==
    ASSUME TypeInv, NEW r \in Requests, logBuffer' = Append(logBuffer, r),
           logFile' = logFile
    PROVE  /\ Total' = Total + 1 /\ Log'[Total + 1] = r
           /\ \A i \in 1 .. Total : Log'[i] = Log[i]
<1>1. logFile \in Seq(Records) /\ logBuffer \in Seq(Records)
    <2>1. \A i \in 1 .. Len(logBuffer) : logBuffer[i] \in Records
        BY Types, ElementOfSeq DEF Records
    <2>2. logBuffer = [i \in 1 .. Len(logBuffer) |-> logBuffer[i]] /\ Len(logBuffer) \in Nat
        BY Types
    <2>3. logBuffer \in Seq(Records) BY <2>1, <2>2, IsASeq
    <2>. QED BY <2>3, Types
<1>2. r \in Records BY DEF Records
<1>3. <<r>> \in Seq(Records) BY <1>2
<1>4. Append(logBuffer, r) = logBuffer \o <<r>> BY <1>1, <1>2, AppendIsConcat
<1>5. Log' = (logFile \o logBuffer) \o <<r>>
    <2>1. logFile \o (logBuffer \o <<r>>) = (logFile \o logBuffer) \o <<r>>
        BY <1>1, <1>3, ConcatAssociative
    <2>. QED BY <2>1, <1>4 DEF Log
<1>6. Log \in Seq(Records) BY LogFacts
<1>7. Log' = Append(Log, r) BY <1>2, <1>5, <1>6, AppendIsConcat DEF Log
<1>8. PICK s \in Seq(Records) : s = Log BY <1>6
<1>9. Len(Append(s, r)) = Len(s) + 1 /\ Append(s, r)[Len(s) + 1] = r
      /\ \A i \in 1 .. Len(s) : Append(s, r)[i] = s[i]
    BY <1>2
<1>. QED BY <1>7, <1>8, <1>9 DEF Total

\* The buffer written out makes no difference.
LEMMA LogWritten ==
    ASSUME TypeInv, logFile' = logFile \o logBuffer, logBuffer' = <<>>
    PROVE  Log' = Log /\ Total' = Total /\ Len(logFile') = Total
<1>1. logFile \o logBuffer \in Seq(Records) BY LogFacts DEF Log
<1>2. (logFile \o logBuffer) \o <<>> = logFile \o logBuffer BY <1>1, ConcatEmptySeq
<1>. QED BY <1>2 DEF Log, Total

\* The log is the same if its two parts are.
LEMMA LogSame ==
    ASSUME logFile' = logFile, logBuffer' = logBuffer
    PROVE  Log' = Log /\ Total' = Total
BY DEF Log, Total

\* The log ends somewhere behind what is synchronised, perhaps with a part of a record.
CutTo(n) ==
    /\ n \in synced .. Total
    /\ \A i \in 1 .. n : Log'[i] = Log[i]
    /\ \/ Total' = n
       \/ Total' = n + 1 /\ Log'[n + 1] \in Records /\ Log'[n + 1].op = "torn"
    /\ logBuffer' = <<>> /\ Len(logFile') = Total'
    /\ synced' = Total' \/ (synced' = synced /\ Total' = n)

\* What a power failure leaves.
LEMMA CutByPower ==
    ASSUME TypeInv, logFile' \in Leftovers, synced' = Len(logFile'), logBuffer' = <<>>
    PROVE  \E n \in Nat : CutTo(n)
<1>1. /\ logFile \in Seq(Records) /\ synced \in 0 .. Len(logFile) /\ Len(logFile) \in Nat
      /\ Len(logFile) <= Total /\ Total \in Nat
      /\ \A i \in 1 .. Len(logFile) : Log[i] = logFile[i]
    <2>1. logFile \in Seq(Records) BY Types
    <2>2. /\ Len(logFile) \in Nat /\ Len(logBuffer) \in Nat /\ Log \in Seq(Records)
          /\ Total \in Nat /\ Total = Len(logFile) + Len(logBuffer)
          /\ synced \in 0 .. Len(logFile)
          /\ \A i \in 1 .. Len(logFile) : Log[i] = logFile[i]
        BY LogFacts
    <2>3. Len(logFile) <= Total BY <2>2
    <2>. QED BY <2>1, <2>2, <2>3
<1>2. logFile' \in Seq(Records) BY LeftType DEF TypeInv
<1>3. Log' = logFile' /\ Total' = Len(logFile')
    BY <1>2, ConcatEmptySeq DEF Log, Total
<1>4. ASSUME NEW n \in synced .. Len(logFile)
      PROVE  /\ n \in Nat /\ SubSeq(logFile, 1, n) \in Seq(Records)
             /\ Len(SubSeq(logFile, 1, n)) = n
             /\ \A i \in 1 .. n : SubSeq(logFile, 1, n)[i] = logFile[i]
    <2>1. n \in Nat /\ n <= Len(logFile) BY <1>1
    <2>2. PICK t : t = SubSeq(logFile, 1, n) OBVIOUS
    <2>3. \A i \in 1 .. n : logFile[i] \in Records BY <2>1, <1>1, ElementOfSeq
    <2>4. /\ t \in Seq(Records) /\ Len(t) = IF 1 <= n THEN n - 1 + 1 ELSE 0
          /\ \A i \in 1 .. n - 1 + 1 : t[i] = logFile[1 + i - 1]
        BY <2>1, <2>2, <2>3, SubSeqProperties
    <2>5. Len(t) = n BY <2>1, <2>4
    <2>6. ASSUME NEW i \in 1 .. n PROVE t[i] = logFile[i]
        <3>1. i \in 1 .. n - 1 + 1 /\ 1 + i - 1 = i BY <2>1
        <3>. QED BY <3>1, <2>4
    <2>. QED BY <2>1, <2>2, <2>4, <2>5, <2>6
<1>5. CASE \E n \in synced .. Len(logFile) : logFile' = SubSeq(logFile, 1, n)
    <2>1. PICK n \in synced .. Len(logFile) : logFile' = SubSeq(logFile, 1, n) BY <1>5
    <2>2. n \in Nat /\ n \in synced .. Total BY <1>1
    <2>3. Total' = n /\ \A i \in 1 .. n : Log'[i] = Log[i]
        BY <2>1, <1>1, <1>3, <1>4
    <2>. QED BY <2>2, <2>3, <1>3 DEF CutTo
<1>6. CASE \E n \in synced .. Len(logFile) :
             LET c == SubSeq(logFile, 1, n)
             IN  Len(c) < Len(logFile) /\ logFile' = Append(c, Torn(logFile[Len(c) + 1]))
    <2>1. PICK n \in synced .. Len(logFile) :
             LET c == SubSeq(logFile, 1, n)
             IN  Len(c) < Len(logFile) /\ logFile' = Append(c, Torn(logFile[Len(c) + 1]))
        BY <1>6
    <2>2. PICK c : c = SubSeq(logFile, 1, n) OBVIOUS
    <2>3. c \in Seq(Records) /\ Len(c) = n /\ n \in Nat /\ \A i \in 1 .. n : c[i] = logFile[i]
        BY <2>2, <1>4
    <2>4. n + 1 \in 1 .. Len(logFile) BY <2>1, <2>2, <2>3, <1>1
    <2>5. PICK r \in Records : r = logFile[n + 1] BY <2>4, <1>1, ElementOfSeq
    <2>6. r.key \in Keys BY <2>5 DEF Records, Requests
    <2>7. Torn(r) \in Records /\ Torn(r).op = "torn" BY <2>6 DEF Torn, Records
    <2>8. PICK x \in Records : x = Torn(r) BY <2>7
    <2>9. logFile' = Append(c, x) BY <2>1, <2>2, <2>3, <2>5, <2>8
    <2>10. Len(Append(c, x)) = n + 1 /\ Append(c, x)[n + 1] = x
           /\ \A i \in 1 .. n : Append(c, x)[i] = c[i]
        BY <2>3
    <2>11. Total' = n + 1 /\ Log'[n + 1] = x /\ \A i \in 1 .. n : Log'[i] = Log[i]
        <3>1. n <= Len(logFile) BY <2>4, <1>1
        <3>. QED BY <3>1, <2>3, <2>9, <2>10, <1>1, <1>3
    <2>12. n \in synced .. Total BY <1>1, <2>3
    <2>. QED BY <2>3, <2>7, <2>8, <2>11, <2>12, <1>3 DEF CutTo
<1>. QED BY <1>5, <1>6 DEF Leftovers

\* What is in the file is kept, or the buffer is written to it.
LEMMA CutNot ==
    ASSUME TypeInv, logFile' \in {logFile, Log}, logBuffer' = <<>>, synced' = synced
    PROVE  \E n \in Nat : CutTo(n)
<1>1. /\ logFile \in Seq(Records) /\ Len(logFile) \in Nat /\ synced \in 0 .. Len(logFile)
      /\ Len(logFile) <= Total /\ Total \in Nat /\ Log \in Seq(Records)
      /\ \A i \in 1 .. Len(logFile) : Log[i] = logFile[i]
    <2>1. logFile \in Seq(Records) BY Types
    <2>2. /\ Len(logFile) \in Nat /\ Len(logBuffer) \in Nat /\ Log \in Seq(Records)
          /\ Total \in Nat /\ Total = Len(logFile) + Len(logBuffer)
          /\ synced \in 0 .. Len(logFile)
          /\ \A i \in 1 .. Len(logFile) : Log[i] = logFile[i]
        BY LogFacts
    <2>3. Len(logFile) <= Total BY <2>2
    <2>. QED BY <2>1, <2>2, <2>3
<1>2. logFile' \in {logFile, Log} /\ logBuffer' = <<>> /\ synced' = synced OBVIOUS
<1>3. Log' = logFile' /\ Total' = Len(logFile')
    BY <1>1, <1>2, ConcatEmptySeq DEF Log, Total
<1>4. CASE logFile' = logFile
    <2>1. Len(logFile) \in synced .. Total BY <1>1
    <2>2. CutTo(Len(logFile)) BY <2>1, <1>1, <1>2, <1>3, <1>4 DEF CutTo
    <2>. QED BY <2>2, <1>1
<1>5. CASE logFile' = Log
    <2>1. Total \in synced .. Total BY <1>1
    <2>2. CutTo(Total) BY <2>1, <1>2, <1>3, <1>5 DEF CutTo, Total
    <2>. QED BY <2>2, <1>1
<1>. QED BY <1>2, <1>4, <1>5

\* The process ends.
LEMMA CutByEnd == ASSUME TypeInv, Exit \/ Crash PROVE \E n \in Nat : CutTo(n)
<1>1. CASE Exit BY <1>1, CutNot DEF Exit, Log
<1>2. CASE Crash
    <2>1. logBuffer' = <<>> BY <1>2 DEF Crash
    <2>2. CASE logFile' \in Leftovers /\ synced' = Len(logFile')
        BY <2>1, <2>2, CutByPower
    <2>3. CASE UNCHANGED <<logFile, synced>> BY <2>1, <2>3, CutNot
    <2>. QED BY <1>2, <2>2, <2>3 DEF Crash
<1>. QED BY <1>1, <1>2

------------------------------------------------------------------------------
(***************************************************************************)
(* What the records of a log make of contents, and of the value of a key.  *)
(***************************************************************************)
LEMMA RecordTypes ==
    ASSUME NEW r \in Records
    PROVE  /\ r.key \in Keys /\ r.op \in {"insert", "update", "delete", "torn"}
           /\ r.op \in {"insert", "update"} => r.val \in Vals
BY DEF Records, Requests

\* A torn record changes nothing, and only a delete makes a value absent.
LEMMA OpType ==
    ASSUME NEW r \in Records, NEW k \in Keys, NEW x \in Values
    PROVE  /\ Op(x, r, k) \in Values
           /\ r.op = "torn" => Op(x, r, k) = x
           /\ x # Null /\ ~(r.key = k /\ r.op = "delete") => Op(x, r, k) # Null
           /\ r.key = k /\ r.op = "delete" => Op(x, r, k) = Null
BY RecordTypes, DurabilityAssumption DEF Op, Values

\* Op is After, seen from one key.
LEMMA AfterAt ==
    ASSUME NEW m \in Contents, NEW r \in Records, NEW k \in Keys
    PROVE  After(m, r)[k] = Op(m[k], r, k) /\ m[k] \in Values
<1>1. /\ r.key \in Keys /\ r.op \in {"insert", "update", "delete", "torn"}
      /\ r.op \in {"insert", "update"} => r.val \in Vals
    BY RecordTypes
<1>2. DOMAIN m = Keys /\ m[k] \in Values BY DEF Contents, Values
<1>3. CASE r.op = "insert" BY <1>1, <1>2, <1>3 DEF After, Op
<1>4. CASE r.op = "update" BY <1>1, <1>2, <1>4 DEF After, Op
<1>5. CASE r.op = "delete" BY <1>1, <1>2, <1>5 DEF After, Op
<1>6. CASE r.op = "torn" BY <1>1, <1>2, <1>6 DEF After, Op
<1>. QED BY <1>1, <1>2, <1>3, <1>4, <1>5, <1>6

\* A torn record changes nothing.
LEMMA AfterTorn ==
    ASSUME NEW m, NEW r, r.op = "torn"
    PROVE  After(m, r) = m
BY DEF After

\* A shorter log has a shorter trace,
LEMMA TraceCut ==
    ASSUME NEW n \in Nat, NEW t, NEW s, NEW d, Traces(t, s, n, d),
           NEW m \in 0 .. n, NEW u, \A i \in 1 .. m : u[i] = s[i]
    PROVE  Traces([p \in 0 .. m |-> t[p]], u, m, d)
<1>1. PICK v : v = [p \in 0 .. m |-> t[p]] OBVIOUS
<1>2. m \in Nat /\ m <= n OBVIOUS
<1>3. t \in [0 .. n -> Contents] /\ t[0] = d
      /\ \A p \in 1 .. n : t[p] = After(t[p - 1], s[p])
    BY DEF Traces
<1>4. v \in [0 .. m -> Contents] /\ v[0] = d BY <1>1, <1>2, <1>3
<1>5. ASSUME NEW p \in 1 .. m PROVE v[p] = After(v[p - 1], u[p])
    <2>1. p \in 1 .. n /\ p \in 0 .. m /\ p - 1 \in 0 .. m BY <1>2
    <2>. QED BY <2>1, <1>1, <1>3
<1>. QED BY <1>1, <1>4, <1>5 DEF Traces

\* and a longer log a longer one.
LEMMA TraceMore ==
    ASSUME NEW n \in Nat, NEW t, NEW s, NEW d, Traces(t, s, n, d),
           NEW r \in Records, NEW u, \A i \in 1 .. n : u[i] = s[i], u[n + 1] = r
    PROVE  Traces([p \in 0 .. n + 1 |-> IF p = n + 1 THEN After(t[n], r) ELSE t[p]], u, n + 1, d)
<1>1. PICK v : v = [p \in 0 .. n + 1 |-> IF p = n + 1 THEN After(t[n], r) ELSE t[p]] OBVIOUS
<1>2. t \in [0 .. n -> Contents] /\ t[0] = d
      /\ \A p \in 1 .. n : t[p] = After(t[p - 1], s[p])
    BY DEF Traces
<1>3. After(t[n], r) \in Contents BY <1>2, AfterType
<1>4. v \in [0 .. n + 1 -> Contents] /\ v[0] = d BY <1>1, <1>2, <1>3
<1>5. ASSUME NEW p \in 1 .. n + 1 PROVE v[p] = After(v[p - 1], u[p])
    <2>1. p - 1 \in 0 .. n /\ v[p - 1] = t[p - 1] BY <1>1
    <2>2. CASE p = n + 1
        <3>1. p - 1 = n /\ u[p] = r /\ v[p] = After(t[n], r) BY <2>2, <1>1
        <3>. QED BY <3>1, <2>1
    <2>3. CASE p # n + 1
        <3>1. p \in 1 .. n /\ v[p] = t[p] /\ u[p] = s[p] BY <2>3, <1>1
        <3>. QED BY <3>1, <2>1, <1>2
    <2>. QED BY <2>2, <2>3
<1>. QED BY <1>1, <1>4, <1>5 DEF Traces

\* Only the n records count.
LEMMA ReplaysSame ==
    ASSUME NEW n \in Nat, NEW s, NEW u, \A i \in 1 .. n : u[i] = s[i], NEW G, NEW k, NEW c
    PROVE  /\ Replays(G, s, n, k) => Replays(G, u, n, k)
           /\ Kind(G, s, n, k, c) => Kind(G, u, n, k, c)
<1>1. ASSUME Replays(G, s, n, k) PROVE Replays(G, u, n, k) BY <1>1 DEF Replays
<1>2. NoDelete(s, n, k) => NoDelete(u, n, k) BY DEF NoDelete
<1>3. ASSUME Kind(G, s, n, k, c) PROVE Kind(G, u, n, k, c) BY <1>2, <1>3 DEF Kind
<1>. QED BY <1>1, <1>3

LongerReplay(G, n, k, r) ==
    [p \in 0 .. n + 1 |-> [x \in Values |-> IF p = n + 1 THEN x ELSE Op(G[p][x], r, k)]]

\* A record is added, and it is no update that fails.
LEMMA ReplaysMore ==
    ASSUME NEW n \in Nat, NEW s, NEW k \in Keys, NEW c \in Values, NEW G,
           Replays(G, s, n, k), Kind(G, s, n, k, c),
           NEW r \in Records, NEW u, \A i \in 1 .. n : u[i] = s[i], u[n + 1] = r,
           r.key = k /\ r.op = "update" => c # Null,
           \A i \in 1 .. n : s[i] \in Records,
           NEW H, H = LongerReplay(G, n, k, r)
    PROVE  /\ Replays(H, u, n + 1, k) /\ Kind(H, u, n + 1, k, Op(c, r, k))
           /\ \A x \in Values : G[0][x] = c => H[0][x] = Op(c, r, k)
<1>1. /\ G \in [0 .. n -> [Values -> Values]] /\ \A x \in Values : G[n][x] = x
      /\ \A p \in 1 .. n, x \in Values : G[p - 1][x] = G[p][Op(x, s[p], k)]
    BY DEF Replays
<1>2. \A x \in Values : Op(x, r, k) \in Values BY OpType
<1>3. /\ \A p \in 0 .. n, x \in Values : H[p][x] = Op(G[p][x], r, k)
      /\ \A x \in Values : H[n + 1][x] = x
    BY DEF LongerReplay
<1>4. H \in [0 .. n + 1 -> [Values -> Values]]
    <2>1. \A p \in 0 .. n, x \in Values : G[p][x] \in Values BY <1>1
    <2>2. \A p \in 0 .. n + 1, x \in Values :
            (IF p = n + 1 THEN x ELSE Op(G[p][x], r, k)) \in Values
        <3>1. \A p \in 0 .. n + 1 : p = n + 1 \/ p \in 0 .. n OBVIOUS
        <3>. QED BY <3>1, <2>1, <1>2
    <2>. QED BY <2>2 DEF LongerReplay
<1>5. ASSUME NEW p \in 1 .. n + 1, NEW x \in Values
      PROVE  H[p - 1][x] = H[p][Op(x, u[p], k)]
    <2>1. CASE p = n + 1
        <3>1. p - 1 = n /\ n \in 0 .. n BY <2>1
        <3>2. H[n][x] = Op(x, r, k) BY <3>1, <1>1, <1>3
        <3>3. H[n + 1][Op(x, r, k)] = Op(x, r, k) BY <1>2, <1>3
        <3>. QED BY <3>1, <3>2, <3>3, <2>1
    <2>2. CASE p # n + 1
        <3>1. p \in 1 .. n /\ p \in 0 .. n /\ p - 1 \in 0 .. n /\ u[p] = s[p] BY <2>2
        <3>2. Op(x, s[p], k) \in Values BY <3>1, OpType
        <3>3. H[p - 1][x] = Op(G[p - 1][x], r, k) BY <3>1, <1>3
        <3>4. H[p][Op(x, s[p], k)] = Op(G[p][Op(x, s[p], k)], r, k) BY <3>1, <3>2, <1>3
        <3>. QED BY <3>1, <3>3, <3>4, <1>1
    <2>. QED BY <2>1, <2>2
<1>6. Replays(H, u, n + 1, k) BY <1>3, <1>4, <1>5 DEF Replays
<1>7. ASSUME NEW x \in Values, G[0][x] = c PROVE H[0][x] = Op(c, r, k)
    BY <1>3, <1>7
<1>8. ASSUME ~(r.key = k /\ r.op = "delete"), NoDelete(s, n, k) PROVE NoDelete(u, n + 1, k)
    <2>1. ASSUME NEW p \in 1 .. n + 1 PROVE ~(u[p].key = k /\ u[p].op = "delete")
        <3>1. p = n + 1 \/ p \in 1 .. n OBVIOUS
        <3>. QED BY <3>1, <1>8 DEF NoDelete
    <2>. QED BY <2>1 DEF NoDelete
<1>9. CASE \A x \in Values : G[0][x] = c
    <2>1. \A x \in Values : H[0][x] = Op(c, r, k) BY <1>7, <1>9
    <2>. QED BY <2>1, <1>6, <1>7 DEF Kind
<1>10. CASE r.key = k /\ r.op = "delete"
    <2>1. \A x \in Values : Op(x, r, k) = Null BY <1>10, OpType
    <2>2. \A x \in Values : G[0][x] \in Values BY <1>1
    <2>3. \A x \in Values : H[0][x] = Op(c, r, k)
        <3>1. 0 \in 0 .. n OBVIOUS
        <3>2. Op(c, r, k) = Null BY <2>1
        <3>. QED BY <3>1, <3>2, <2>1, <2>2, <1>3
    <2>. QED BY <2>3, <1>6, <1>7 DEF Kind
<1>11. CASE /\ ~(r.key = k /\ r.op = "delete") /\ NoDelete(s, n, k) /\ c # Null
            /\ \A x \in Values \ {Null} : G[0][x] = c
    <2>1. Op(c, r, k) # Null BY <1>11, OpType
    <2>2. \A x \in Values \ {Null} : H[0][x] = Op(c, r, k) BY <1>7, <1>11
    <2>. QED BY <2>1, <2>2, <1>6, <1>7, <1>8, <1>11 DEF Kind
<1>12. CASE /\ ~(r.key = k /\ r.op = "delete") /\ NoDelete(s, n, k)
            /\ \A p \in 0 .. n, x \in Values \ {Null} : G[p][x] = x
    <2>1. CASE r.key = k /\ r.op = "update"
        <3>1. c # Null /\ \A x \in Values \ {Null} : Op(x, r, k) = r.val BY <2>1 DEF Op
        <3>2. Op(c, r, k) = r.val /\ Op(c, r, k) # Null BY <3>1, <1>12, OpType
        <3>3. \A x \in Values \ {Null} : H[0][x] = Op(c, r, k)
            <4>1. 0 \in 0 .. n OBVIOUS
            <4>. QED BY <4>1, <3>1, <3>2, <1>3, <1>12
        <3>. QED BY <3>2, <3>3, <1>6, <1>7, <1>8, <1>12 DEF Kind
    <2>2. CASE ~(r.key = k /\ r.op = "update")
        <3>1. \A x \in Values \ {Null} : Op(x, r, k) = x
            BY <2>2, <1>12, RecordTypes DEF Op
        <3>2. ASSUME NEW p \in 0 .. n + 1, NEW x \in Values \ {Null} PROVE H[p][x] = x
            <4>1. p = n + 1 \/ p \in 0 .. n OBVIOUS
            <4>. QED BY <4>1, <3>1, <1>3, <1>12
        <3>. QED BY <3>2, <1>6, <1>7, <1>8, <1>12 DEF Kind
    <2>. QED BY <2>1, <2>2
<1>. QED BY <1>6, <1>7, <1>9, <1>10, <1>11, <1>12 DEF Kind

\* A replay can begin with the value that the others end with.
LEMMA ReplayAgain ==
    ASSUME NEW n \in Nat, NEW s, NEW k \in Keys, NEW c \in Values, NEW G,
           Kind(G, s, n, k, c), NEW x \in Values, G[0][x] = c
    PROVE  G[0][c] = c
<1>1. 0 \in 0 .. n OBVIOUS
<1>2. CASE \A z \in Values : G[0][z] = c BY <1>2
<1>3. CASE c # Null /\ \A z \in Values \ {Null} : G[0][z] = c BY <1>3
<1>4. CASE \A q \in 0 .. n, z \in Values \ {Null} : G[q][z] = z BY <1>1, <1>4
<1>. QED BY <1>2, <1>3, <1>4 DEF Kind
------------------------------------------------------------------------------
(***************************************************************************)
(* The log in a step.                                                      *)
(***************************************************************************)
\* Before the program serves, what there is of the log is in the file.
LEMMA Resting ==
    ASSUME TypeInv, Plain, phase \in {"off", "recovering"}
    PROVE  /\ Log = logFile /\ Total = Len(logFile) /\ pc = "idle"
           /\ SyncedAtOnce => Total = synced
<1>1. logBuffer = <<>> BY DEF Plain
<1>2. Log = logFile BY <1>1, Types, ConcatEmptySeq DEF Log
<1>3. pc = "idle" BY DEF TypeInv, InProgress, Serving
<1>. QED BY <1>2, <1>3 DEF Total, Plain

LEMMA StillWithin ==
    ASSUME NEW s \in Int, NEW t \in Int, t >= s, NEW i \in 1 .. s - 1
    PROVE  i \in 1 .. s /\ i \in 1 .. t - 1
OBVIOUS

\* The synchronised part of the log stays.
LEMMA BrokenStays ==
    ASSUME TypeInv, Broken, synced' \in Int, synced' >= synced,
           \A i \in 1 .. synced : Log'[i] = Log[i]
    PROVE  Broken'
<1>1. synced \in Int BY Types
<1>2. PICK i \in 1 .. synced - 1 : Log[i].op = "torn" BY DEF Broken
<1>3. i \in 1 .. synced /\ i \in 1 .. synced' - 1 BY <1>1, <1>2, StillWithin
<1>4. Log'[i].op = "torn" BY <1>2, <1>3
<1>. QED BY <1>3, <1>4 DEF Broken

\* Steps that write nothing to the log.
Quiet == Recovery \/ ApplyRequest \/ Shutdown \/ FlushAll

\* Recovery, the change of the tree, the page writes and the begin of the shutdown.
LEMMA QuietLog ==
    ASSUME TypeInv, Quiet
    PROVE  Log' = Log /\ Total' = Total /\ synced' = synced
<1>1. logFile' = logFile /\ logBuffer' = logBuffer /\ synced' = synced
    BY DEF Quiet, Recovery, Start, Replay, Misread, RecoveryRaises, EndRecovery, ApplyRequest,
           Shutdown, FlushAll, log
<1>. QED BY <1>1, LogSame

\* fsync.
LEMMA SyncedLog ==
    ASSUME TypeInv, SyncLog
    PROVE  Log' = Log /\ Total' = Total /\ synced' = Total
BY LogWritten DEF SyncLog

\* The buffer of the Python file object is written out.
LEMMA WrittenLog ==
    ASSUME TypeInv, WriteBuffer
    PROVE  Log' = Log /\ Total' = Total /\ synced' = synced
BY LogWritten DEF WriteBuffer

\* The record of a request is appended.
LEMMA RequestedLog ==
    ASSUME TypeInv, NEW r \in Requests, LogRequest(r)
    PROVE  /\ Total' = Total + 1 /\ Log'[Total + 1] = r /\ synced' = synced
           /\ \A i \in 1 .. Total : Log'[i] = Log[i]
BY LogLonger DEF LogRequest

\* WAL.clear.
LEMMA ClearedLog ==
    ASSUME ClearLog
    PROVE  Log' = <<>> /\ Total' = 0 /\ synced' = 0
<1>1. logFile' = <<>> /\ logBuffer' = <<>> /\ synced' = 0 BY DEF ClearLog
<1>2. <<>> \o <<>> = <<>> /\ Len(<<>>) = 0 OBVIOUS
<1>. QED BY <1>1, <1>2 DEF Log, Total

\* A torn record with others behind it stays where it is until the log is cleared.
LEMMA BrokenStep == ASSUME TypeInv, Step, ~ClearLog, Broken PROVE Broken'
<1>1. /\ Total \in Nat /\ synced \in Nat /\ synced <= Total
    BY LogFacts
<1>2. CASE Quiet BY <1>1, <1>2, QuietLog, BrokenStays
<1>3. CASE WriteBuffer BY <1>1, <1>3, WrittenLog, BrokenStays
<1>4. CASE SyncLog BY <1>1, <1>4, SyncedLog, BrokenStays
<1>5. ASSUME NEW r \in Requests, LogRequest(r) PROVE Broken'
    <2>1. synced' = synced /\ \A i \in 1 .. synced : Log'[i] = Log[i]
        BY <1>1, <1>5, RequestedLog
    <2>. QED BY <2>1, <1>1, BrokenStays
<1>6. ASSUME NEW n \in Nat, CutTo(n) PROVE Broken'
    <2>1. synced' \in Int /\ synced' >= synced /\ \A i \in 1 .. synced : Log'[i] = Log[i]
        BY <1>1, <1>6 DEF CutTo
    <2>. QED BY <2>1, BrokenStays
<1>7. CASE Exit \/ Crash BY <1>6, <1>7, CutByEnd
<1>. QED BY <1>2, <1>3, <1>4, <1>5, <1>7 DEF Step, Command, Closing, Quiet

\* Plain is kept by every step.
LEMMA PlainStep ==
    ASSUME TypeInv, Plain, Step, UNCHANGED setup
    PROVE  Plain'
<1>1. /\ Total \in Nat /\ synced \in Nat /\ synced <= Total /\ unflushed_ops \in Nat
    BY LogFacts, Types
<1>2. pc # "idle" => Serving BY DEF TypeInv, InProgress
<1>3. program' = program /\ faults' = faults /\ (SyncedAtOnce' <=> SyncedAtOnce)
    BY DEF setup, SyncedAtOnce
<1>4. CASE Recovery
    <2>1. Total' = Total BY <1>4, QuietLog DEF Quiet
    <2>2. phase \in {"off", "recovering"} /\ pc' = pc
        BY <1>4 DEF Recovery, Start, Replay, Misread, RecoveryRaises, EndRecovery
    <2>3. pc = "idle" BY <2>2, Resting
    <2>4. UNCHANGED <<logFile, logBuffer, synced>>
        BY <1>4 DEF Recovery, Start, Replay, Misread, RecoveryRaises, EndRecovery, log
    <2>5. phase' \in {"off", "recovering"}
          \/ (phase' = "serving" /\ doubtful' = {} /\ unflushed_ops' = unflushed_ops
              /\ phase = "recovering")
        BY <1>4 DEF Recovery, Start, Replay, Misread, RecoveryRaises, EndRecovery, log
    <2>6. phase = "recovering" => unflushed_ops = 0 BY DEF TypeInv, InProgress
    <2>. QED BY <2>2, <2>3, <2>4, <2>5, <2>6, <1>3 DEF Plain, Serving
<1>5. ASSUME NEW r \in Requests, LogRequest(r) PROVE Plain'
    <2>1. Total' = Total + 1 /\ synced' = synced BY <1>5, RequestedLog
    <2>2. /\ phase' = phase /\ unflushed_ops' = unflushed_ops + 1 /\ Serving
          /\ doubtful' = doubtful
        BY <1>5 DEF LogRequest, history
    <2>3. program = "shell" => pc' = "sync" BY <1>5 DEF LogRequest, MustSync
    <2>4. unflushed_ops' # 0 BY <2>2, <1>1
    <2>. QED BY <2>1, <2>2, <2>3, <2>4, <1>3 DEF Plain, Serving
<1>6. CASE WriteBuffer
    <2>1. Total' = Total /\ synced' = synced BY <1>6, WrittenLog
    <2>2. phase \notin {"off", "recovering"} /\ ~(phase = "cleared" /\ program = "shell")
        BY <1>6 DEF WriteBuffer, Plain
    <2>. QED BY <2>1, <2>2, <1>3, <1>6 DEF Plain, WriteBuffer, Serving, history
<1>7. CASE SyncLog
    <2>1. Total' = Total /\ synced' = Total BY <1>7, SyncedLog
    <2>2. Serving BY <1>2, <1>7 DEF SyncLog
    <2>. QED BY <2>1, <2>2, <1>3, <1>7 DEF Plain, SyncLog, Serving
<1>8. CASE ApplyRequest
    <2>1. Total' = Total BY <1>8, QuietLog DEF Quiet
    <2>. QED BY <2>1, <1>3, <1>8 DEF Plain, ApplyRequest, Serving, log
<1>9. CASE FlushAll BY <1>3, <1>9 DEF Plain, FlushAll, Serving
<1>10. CASE Shutdown BY <1>3, <1>10 DEF Plain, Shutdown, Serving
<1>11. CASE ClearLog
    <2>1. Total' = 0 /\ synced' = 0 BY <1>11, ClearedLog
    <2>. QED BY <2>1, <1>2, <1>3, <1>11 DEF Plain, ClearLog, Serving
<1>12. CASE Exit
    <2>1. phase' = "off" /\ logBuffer' = <<>> BY <1>12 DEF Exit
    <2>2. ASSUME SyncedAtOnce PROVE synced' = Len(logFile')
        <3>1. logFile = <<>> /\ logBuffer = <<>> BY <2>2, <1>12 DEF Plain, Exit, SyncedAtOnce
        <3>2. <<>> \o <<>> = <<>> /\ Len(<<>>) = 0 OBVIOUS
        <3>3. logFile' = <<>> /\ synced' = synced BY <3>1, <3>2, <1>12 DEF Exit
        <3>4. synced \in 0 .. Len(logFile) BY Types
        <3>. QED BY <3>1, <3>2, <3>3, <3>4
    <2>. QED BY <2>1, <2>2, <1>3 DEF Plain, Serving
<1>13. CASE Crash
    <2>1. phase' = "off" /\ logBuffer' = <<>> BY <1>13 DEF Crash
    <2>2. SyncedAtOnce => synced' = Len(logFile') BY <1>13 DEF Crash, SyncedAtOnce
    <2>. QED BY <2>1, <2>2, <1>3 DEF Plain, Serving
<1>. QED BY <1>4, <1>5, <1>6, <1>7, <1>8, <1>9, <1>10, <1>11, <1>12, <1>13
     DEF Step, Command, Closing
------------------------------------------------------------------------------
(***************************************************************************)
(* No crash between the flush and the clear.                               *)
(***************************************************************************)
\* The only element of a sequence.
LEMMA OneInRange == ASSUME NEW m PROVE m \in Range(<<m>>)
<1>1. 1 \in DOMAIN <<m>> /\ <<m>>[1] = m OBVIOUS
<1>. QED BY <1>1 DEF Range

\* The last element and those before it, when one is appended.
LEMMA AppendRange ==
    ASSUME NEW S, NEW s \in Seq(S), NEW x \in S
    PROVE  Range(s) \subseteq Range(Append(s, x)) /\ x \in Range(Append(s, x))
<1>1. PICK a : a = Append(s, x) OBVIOUS
<1>2. PICK l \in Nat : l = Len(s) OBVIOUS
<1>3. /\ a \in Seq(S) /\ Len(a) = l + 1 /\ a[l + 1] = x
      /\ \A i \in 1 .. l : a[i] = s[i]
    BY <1>1, <1>2
<1>4. DOMAIN a = 1 .. l + 1 /\ DOMAIN s = 1 .. l BY <1>2, <1>3
<1>5. x \in Range(a) BY <1>3, <1>4 DEF Range
<1>6. ASSUME NEW y \in Range(s) PROVE y \in Range(a)
    <2>1. PICK i \in 1 .. l : y = s[i] BY <1>4 DEF Range
    <2>2. i \in 1 .. l + 1 /\ a[i] = y BY <2>1, <1>3
    <2>. QED BY <2>2, <1>4 DEF Range
<1>. QED BY <1>1, <1>5, <1>6

\* What the cut leaves of a log makes of the pages what it made of them there.
LEMMA CutTrace ==
    ASSUME TypeInv, NEW n \in Nat, CutTo(n), disk' = disk,
           NEW t, Traces(t, Log, Total, disk)
    PROVE  \E u : /\ Traces(u, Log', Total', disk') /\ u[Total'] = t[n]
                  /\ \A p \in 0 .. n : u[p] = t[p]
<1>1. /\ Total \in Nat /\ n \in 0 .. Total
      /\ \A i \in 1 .. n : Log'[i] = Log[i]
    BY LogFacts DEF CutTo
<1>2. PICK u : u = [p \in 0 .. n |-> t[p]] OBVIOUS
<1>3. PICK l : l = Log' OBVIOUS
<1>4. \A i \in 1 .. n : l[i] = Log[i] BY <1>1, <1>3
<1>5. Traces(u, l, n, disk) BY <1>1, <1>2, <1>4, TraceCut
<1>6. u[n] = t[n] /\ \A p \in 0 .. n : u[p] = t[p] BY <1>2
<1>7. CASE Total' = n BY <1>3, <1>5, <1>6, <1>7
<1>8. CASE Total' = n + 1 /\ Log'[n + 1] \in Records /\ Log'[n + 1].op = "torn"
    <2>1. PICK r \in Records : r = Log'[n + 1] BY <1>8
    <2>2. PICK v : v = [p \in 0 .. n + 1 |-> IF p = n + 1 THEN After(u[n], r) ELSE u[p]] OBVIOUS
    <2>3. \A i \in 1 .. n : l[i] = l[i] OBVIOUS
    <2>4. l[n + 1] = r BY <1>3, <2>1
    <2>5. Traces(v, l, n + 1, disk) BY <1>5, <2>2, <2>3, <2>4, TraceMore
    <2>6. v[n + 1] = After(u[n], r) BY <2>2
    <2>7. v[n + 1] = t[n] BY <2>1, <2>6, <1>6, <1>8, AfterTorn
    <2>8. \A p \in 0 .. n : v[p] = u[p] BY <2>2
    <2>9. \A p \in 0 .. n : v[p] = t[p] BY <2>8, <1>6
    <2>. QED BY <2>5, <2>7, <2>9, <1>3, <1>8
<1>. QED BY <1>7, <1>8 DEF CutTo

\* The contents of no records.
LEMMA NoTrace ==
    ASSUME NEW d \in Contents, NEW s
    PROVE  Traces([p \in 0 .. 0 |-> d], s, 0, d)
<1>1. PICK t : t = [p \in 0 .. 0 |-> d] OBVIOUS
<1>2. t \in [0 .. 0 -> Contents] /\ t[0] = d BY <1>1
<1>3. \A p \in 1 .. 0 : t[p] = After(t[p - 1], s[p]) OBVIOUS
<1>. QED BY <1>1, <1>2, <1>3 DEF Traces

\* What is known of the trace is known of it after a step that adds no record.
LEMMA KnownStays ==
    ASSUME TypeInv, NEW t, TraceOK(t), Log' = Log, Total' = Total,
           synced' \in Int, synced' >= synced,
           \A p \in synced' .. Total : Intact(p) /\ Known(t, p) => Known(t, p)'
    PROVE  \A p \in synced' .. Total' : Intact(p)' => Known(t, p)'
<1>1. synced \in Nat /\ Total \in Nat BY LogFacts
<1>2. ASSUME NEW p \in synced' .. Total', Intact(p)' PROVE Known(t, p)'
    <2>1. p \in synced .. Total /\ p \in synced' .. Total BY <1>1
    <2>2. Intact(p) BY <1>2 DEF Intact
    <2>3. Known(t, p) BY <2>1, <2>2 DEF TraceOK
    <2>. QED BY <2>1, <2>2, <2>3
<1>. QED BY <1>2

\* The steps of a program that no crash hits between the flush and the clear.
Traced(t) ==
    /\ TypeInv /\ Plain /\ "flushed" \notin faults /\ phase # "flushed"
    /\ TraceOK(t) /\ UNCHANGED setup

\* A replay begins with the pages,
LEMMA TracedStart == ASSUME NEW t, Traced(t), Start PROVE \E u : TraceOK(u)'
<1>1. TypeInv /\ TraceOK(t) BY DEF Traced
<1>2. Log' = Log /\ Total' = Total /\ synced' = synced
    BY <1>1, QuietLog DEF Quiet, Recovery
<1>3. Total \in Nat /\ synced \in Nat BY <1>1, LogFacts
<1>4. Traces(t, Log, Total, disk) BY <1>1 DEF TraceOK
<1>5. t[0] = disk BY <1>4 DEF Traces
<1>6. /\ phase' = "recovering" /\ pos' = 1 /\ mem' = disk /\ disk' = disk /\ pc' = pc
      /\ recent' = recent /\ doubtful' = doubtful
    BY DEF Start, history
<1>7. pos' <= Total' + 1 /\ mem' = t[pos' - 1] BY <1>2, <1>3, <1>5, <1>6
<1>8. \A p \in synced' .. Total' : Intact(p)' => Known(t, p)'
    <2>1. \A p : Known(t, p) => Known(t, p)' BY <1>2, <1>6 DEF Known
    <2>. QED BY <2>1, <1>1, <1>2, <1>3, KnownStays
<1>9. TraceOK(t)' BY <1>2, <1>4, <1>6, <1>7, <1>8 DEF TraceOK
<1>. QED BY <1>9

\* goes on with the next record,
LEMMA TracedReplay == ASSUME NEW t, Traced(t), Replay PROVE \E u : TraceOK(u)'
<1>1. TypeInv /\ Plain /\ TraceOK(t) /\ phase = "recovering" BY DEF Traced, Replay
<1>2. Log' = Log /\ Total' = Total /\ synced' = synced
    BY <1>1, QuietLog DEF Quiet, Recovery
<1>3. /\ Total \in Nat /\ Log = logFile /\ Total = Len(logFile) /\ synced \in Nat
    BY <1>1, LogFacts, Resting
<1>4. Traces(t, Log, Total, disk) /\ (Intact(Total) => mem = t[pos - 1])
    BY <1>1 DEF TraceOK
<1>5. pos \in 1 .. Total BY <1>1, <1>3 DEF Replay, TypeInv, InProgress
<1>6. /\ phase' = phase /\ pos' = pos + 1 /\ mem' = After(mem, Log[pos]) /\ disk' = disk
      /\ pc' = pc /\ recent' = recent /\ doubtful' = doubtful
    BY <1>3 DEF Replay, history
<1>7. t[pos] = After(t[pos - 1], Log[pos]) BY <1>4, <1>5 DEF Traces
<1>8. pos' <= Total' + 1 /\ pos' - 1 = pos BY <1>2, <1>3, <1>5, <1>6
<1>9. Intact(Total)' => mem' = t[pos' - 1]
    <2>1. Intact(Total)' => Intact(Total) BY <1>2 DEF Intact
    <2>. QED BY <2>1, <1>4, <1>6, <1>7, <1>8
<1>10. \A p \in synced' .. Total' : Intact(p)' => Known(t, p)'
    <2>1. \A p : Known(t, p) => Known(t, p)' BY <1>2, <1>6 DEF Known
    <2>. QED BY <2>1, <1>1, <1>2, <1>3, KnownStays
<1>11. TraceOK(t)' BY <1>1, <1>2, <1>4, <1>6, <1>8, <1>9, <1>10 DEF TraceOK
<1>. QED BY <1>11

\* and can go astray only behind a torn record.
LEMMA TracedMisread ==
    ASSUME NEW t, Traced(t), Misread \/ RecoveryRaises PROVE \E u : TraceOK(u)'
<1>1. TypeInv /\ Plain /\ TraceOK(t) /\ phase = "recovering"
      /\ pos < Len(logFile) /\ logFile[pos].op = "torn"
    BY DEF Traced, Misread, RecoveryRaises
<1>2. Log' = Log /\ Total' = Total /\ synced' = synced
    BY <1>1, QuietLog DEF Quiet, Recovery
<1>3. /\ Total \in Nat /\ Log = logFile /\ Total = Len(logFile) /\ synced \in Nat
    BY <1>1, LogFacts, Resting
<1>4. ~Intact(Total)'
    <2>1. pos \in 1 .. Total - 1 BY <1>1, <1>3 DEF TypeInv, InProgress
    <2>2. Log'[pos].op = "torn" BY <1>1, <1>2, <1>3
    <2>3. pos \in 1 .. Total' - 1 BY <2>1, <1>2
    <2>. QED BY <2>2, <2>3 DEF Intact
<1>5. /\ phase' \in {"recovering", "off"} /\ disk' = disk /\ pc' = pc
      /\ recent' = recent /\ doubtful' = doubtful
    BY <1>1 DEF Misread, RecoveryRaises, history
<1>6. Traces(t, Log, Total, disk) BY <1>1 DEF TraceOK
<1>7. \A p \in synced' .. Total' : Intact(p)' => Known(t, p)'
    <2>1. \A p : Known(t, p) => Known(t, p)' BY <1>2, <1>5 DEF Known
    <2>. QED BY <2>1, <1>1, <1>2, <1>3, KnownStays
<1>8. TraceOK(t)' BY <1>2, <1>4, <1>5, <1>6, <1>7 DEF TraceOK
<1>. QED BY <1>8

\* At its end a replay has made what the whole log makes, and that was known.
LEMMA TracedRecovered ==
    ASSUME NEW t, Traced(t), EndRecovery, Intact(Total)
    PROVE  mem = t[Total] /\ mem \in Range(recent) \cup doubtful
<1>1. TypeInv /\ Plain /\ TraceOK(t) /\ phase = "recovering"
    BY DEF Traced, EndRecovery
<1>2. /\ Total \in Nat /\ Log = logFile /\ Total = Len(logFile) /\ pc = "idle"
      /\ synced \in 0 .. Total
    BY <1>1, LogFacts, Resting
<1>3. /\ Traces(t, Log, Total, disk) /\ Known(t, Total)
      /\ mem = t[pos - 1] /\ pos <= Total + 1
    BY <1>1, <1>2 DEF TraceOK
<1>4. t[Total] \in Range(recent) \cup doubtful BY <1>2, <1>3 DEF Known
<1>5. pos \in Nat \ {0} BY <1>1 DEF TypeInv, InProgress
<1>6. CASE pos = Total + 1
    <2>1. pos - 1 = Total BY <1>2, <1>6
    <2>. QED BY <2>1, <1>3, <1>4
<1>7. CASE pos <= Total
    <2>1. Log[pos].op = "torn" BY <1>2, <1>7 DEF EndRecovery
    <2>2. ~(pos \in 1 .. Total - 1) BY <2>1 DEF Intact
    <2>3. pos = Total BY <2>2, <1>2, <1>5, <1>7
    <2>4. pos \in 1 .. Total BY <2>3, <1>2, <1>5
    <2>5. t[pos] = After(t[pos - 1], Log[pos]) BY <2>4, <1>3 DEF Traces
    <2>6. t[pos] = t[pos - 1] BY <2>1, <2>5, AfterTorn
    <2>. QED BY <2>3, <2>6, <1>3, <1>4
<1>. QED BY <1>2, <1>3, <1>5, <1>6, <1>7

\* The program has what a replay would make of the pages again, and may lose of it what
\* was not synchronised.
LEMMA TracedEnd == ASSUME NEW t, Traced(t), EndRecovery PROVE \E u : TraceOK(u)'
<1>1. TypeInv /\ Plain /\ TraceOK(t) /\ phase = "recovering" BY DEF Traced, EndRecovery
<1>2. Log' = Log /\ Total' = Total /\ synced' = synced
    BY <1>1, QuietLog DEF Quiet, Recovery
<1>3. Total \in Nat /\ Total = Len(logFile) /\ pc = "idle" /\ synced \in Nat
    BY <1>1, LogFacts, Resting
<1>4. Traces(t, Log, Total, disk) BY <1>1 DEF TraceOK
<1>5. /\ phase' = "serving" /\ pc' = pc /\ mem' = mem /\ disk' = disk
      /\ recent' = IF synced = Len(logFile) THEN <<mem>> ELSE Append(recent, mem)
    BY DEF EndRecovery
<1>6. Intact(Total) => mem = t[Total] BY TracedRecovered
<1>7. mem \in Contents /\ recent \in Seq(Contents) BY <1>1, Types
<1>8. mem \in Range(recent') /\ (synced # Total => Range(recent) \subseteq Range(recent'))
    <2>1. CASE synced = Total
        <3>1. recent' = <<mem>> BY <2>1, <1>3, <1>5
        <3>. QED BY <3>1, <2>1, OneInRange
    <2>2. CASE synced # Total
        <3>1. recent' = Append(recent, mem) BY <2>2, <1>3, <1>5
        <3>2. /\ Range(recent) \subseteq Range(Append(recent, mem))
              /\ mem \in Range(Append(recent, mem))
            BY <1>7, AppendRange
        <3>. QED BY <3>1, <3>2
    <2>. QED BY <2>1, <2>2
<1>9. ASSUME NEW p \in synced' .. Total, Intact(p), Known(t, p) PROVE Known(t, p)'
    <2>1. CASE p = Total
        <3>1. mem = t[p] BY <2>1, <1>6, <1>9
        <3>. QED BY <3>1, <1>8 DEF Known
    <2>2. CASE p # Total
        <3>1. t[p] \in Range(recent) BY <2>2, <1>9 DEF Known
        <3>2. synced # Total BY <2>2, <1>2, <1>3
        <3>. QED BY <3>1, <3>2, <1>8 DEF Known
    <2>. QED BY <2>1, <2>2
<1>10. \A p \in synced' .. Total' : Intact(p)' => Known(t, p)'
    BY <1>1, <1>2, <1>3, <1>9, KnownStays
<1>11. Done' = Total BY <1>2, <1>3, <1>5 DEF Done
<1>12. Intact(Done)' => mem' = t[Done']
    <2>1. Intact(Done)' => Intact(Total) BY <1>2, <1>11 DEF Intact
    <2>. QED BY <2>1, <1>5, <1>6, <1>11
<1>13. TraceOK(t)' BY <1>2, <1>3, <1>4, <1>5, <1>10, <1>12 DEF TraceOK
<1>. QED BY <1>13

\* A record is logged, and the trace has one more element.
LEMMA TracedLogs ==
    ASSUME NEW t, Traced(t), NEW r \in Requests, LogRequest(r) PROVE \E u : TraceOK(u)'
<1>1. TypeInv /\ Plain /\ TraceOK(t) /\ Serving /\ pc = "idle" BY DEF Traced, LogRequest
<1>2. /\ Total' = Total + 1 /\ Log'[Total + 1] = r /\ synced' = synced
      /\ \A i \in 1 .. Total : Log'[i] = Log[i]
    BY <1>1, RequestedLog
<1>3. Total \in Nat /\ synced \in Nat /\ synced <= Total BY <1>1, LogFacts
<1>4. phase \in {"serving", "cleared"} /\ doubtful = {} BY <1>1 DEF Serving, Plain
<1>5. /\ phase' = phase /\ pc' # "idle" /\ request' = r /\ mem' = mem /\ disk' = disk
      /\ recent' = recent
    BY DEF LogRequest, history
<1>6. Done = Total /\ Done' = Total BY <1>1, <1>2, <1>3, <1>5 DEF Done
<1>7. Traces(t, Log, Total, disk) /\ (Intact(Total) => mem = t[Total])
    BY <1>1, <1>4, <1>6 DEF TraceOK
<1>8. PICK u : u = [p \in 0 .. Total + 1 |-> IF p = Total + 1 THEN After(t[Total], r) ELSE t[p]]
    OBVIOUS
<1>9. PICK l : l = Log' OBVIOUS
<1>10. r \in Records BY DEF Records
<1>11. l[Total + 1] = r /\ \A i \in 1 .. Total : l[i] = Log[i] BY <1>2, <1>9
<1>12. Traces(u, l, Total + 1, disk) BY <1>3, <1>7, <1>8, <1>10, <1>11, TraceMore
<1>13. Traces(u, Log', Total', disk') BY <1>2, <1>5, <1>9, <1>12
<1>14. \A p \in 0 .. Total : u[p] = t[p] BY <1>3, <1>8
<1>15. ASSUME NEW p \in 0 .. Total, Intact(p)' PROVE Intact(p)
    <2>1. ASSUME NEW i \in 1 .. p - 1 PROVE Log[i].op # "torn"
        <3>1. i \in 1 .. Total BY <1>3
        <3>2. Log'[i].op # "torn" BY <1>15 DEF Intact
        <3>. QED BY <3>1, <3>2, <1>2
    <2>. QED BY <2>1 DEF Intact
<1>16. ASSUME NEW p \in synced' .. Total', Intact(p)' PROVE Known(u, p)'
    <2>1. CASE p = Total' BY <2>1, <1>5 DEF Known
    <2>2. CASE p # Total'
        <3>1. p \in 0 .. Total /\ p \in synced .. Total BY <2>2, <1>2, <1>3
        <3>2. Intact(p) BY <3>1, <1>15, <1>16
        <3>3. Known(t, p) BY <3>1, <3>2, <1>1 DEF TraceOK
        <3>4. t[p] \in Range(recent) BY <3>3, <1>1, <1>4 DEF Known
        <3>5. u[p] \in Range(recent') BY <3>1, <3>4, <1>5, <1>14
        <3>. QED BY <3>5 DEF Known
    <2>. QED BY <2>1, <2>2
<1>17. Intact(Done)' => mem' = u[Done']
    <2>1. Total \in 0 .. Total BY <1>3
    <2>2. Intact(Done)' => Intact(Total)
        <3>1. SUFFICES ASSUME Intact(Done)' PROVE Intact(Total) OBVIOUS
        <3>2. ASSUME NEW i \in 1 .. Total - 1 PROVE Log[i].op # "torn"
            <4>1. i \in 1 .. Total /\ i \in 1 .. Done' - 1 BY <1>3, <1>6
            <4>. QED BY <4>1, <3>1, <1>2 DEF Intact
        <3>. QED BY <3>2 DEF Intact
    <2>. QED BY <2>1, <2>2, <1>5, <1>6, <1>7, <1>14
<1>18. Total' > 0 /\ Log'[Total'] = request' BY <1>2, <1>3, <1>5
<1>19. TraceOK(u)' BY <1>4, <1>5, <1>13, <1>16, <1>17, <1>18 DEF TraceOK
<1>. QED BY <1>19

\* The buffer is written out
LEMMA TracedWrites == ASSUME NEW t, Traced(t), WriteBuffer PROVE \E u : TraceOK(u)'
<1>1. TypeInv /\ Plain /\ TraceOK(t) BY DEF Traced
<1>2. Log' = Log /\ Total' = Total /\ synced' = synced BY <1>1, WrittenLog
<1>3. phase \notin {"off", "recovering"} /\ synced \in Nat
    BY <1>1, LogFacts DEF WriteBuffer, Plain
<1>4. /\ phase' = phase /\ pc' = pc /\ request' = request /\ mem' = mem /\ disk' = disk
      /\ recent' = recent /\ doubtful' = doubtful
    BY DEF WriteBuffer, history
<1>5. Done' = Done BY <1>2, <1>4 DEF Done
<1>6. \A p \in synced' .. Total' : Intact(p)' => Known(t, p)'
    <2>1. \A p : Known(t, p) => Known(t, p)' BY <1>2, <1>4 DEF Known
    <2>. QED BY <2>1, <1>1, <1>2, <1>3, KnownStays
<1>7. Intact(Done)' => Intact(Done) BY <1>2, <1>5 DEF Intact
<1>8. TraceOK(t)' BY <1>1, <1>2, <1>3, <1>4, <1>5, <1>6, <1>7 DEF TraceOK
<1>. QED BY <1>8

\* or synchronised.
LEMMA TracedSyncs == ASSUME NEW t, Traced(t), SyncLog PROVE \E u : TraceOK(u)'
<1>1. TypeInv /\ Plain /\ TraceOK(t) /\ pc = "sync" /\ pc' = "apply" BY DEF Traced, SyncLog
<1>2. Log' = Log /\ Total' = Total /\ synced' = Total BY <1>1, SyncedLog
<1>3. phase \in {"serving", "cleared"} /\ Total \in Nat
    BY <1>1, LogFacts DEF TypeInv, InProgress, Serving
<1>4. /\ phase' = phase /\ request' = request /\ mem' = mem /\ disk' = disk
    BY DEF SyncLog
<1>5. Done' = Done BY <1>1, <1>2 DEF Done
<1>6. ASSUME NEW p \in synced' .. Total' PROVE Known(t, p)'
    <2>1. p = Total' BY <1>2, <1>3
    <2>. QED BY <2>1, <1>1 DEF Known
<1>7. Intact(Done)' => Intact(Done) BY <1>2, <1>5 DEF Intact
<1>8. TraceOK(t)' BY <1>1, <1>2, <1>3, <1>4, <1>5, <1>6, <1>7 DEF TraceOK
<1>. QED BY <1>8

\* The command in progress would make what the trace has after its record.
LEMMA TracedPending ==
    ASSUME NEW t, Traced(t), pc # "idle", Intact(Total)
    PROVE  t[Total] = After(mem, request)
<1>1. TypeInv /\ TraceOK(t) BY DEF Traced
<1>2. phase \in {"serving", "cleared"} /\ Total \in Nat
    BY <1>1, LogFacts DEF TypeInv, InProgress, Serving
<1>3. /\ Traces(t, Log, Total, disk) /\ Total > 0 /\ Log[Total] = request
      /\ (Intact(Done) => mem = t[Done])
    BY <1>1, <1>2 DEF TraceOK
<1>4. Done = Total - 1 BY DEF Done
<1>5. Intact(Done)
    <2>1. ASSUME NEW i \in 1 .. Done - 1 PROVE i \in 1 .. Total - 1 BY <1>2, <1>4
    <2>. QED BY <2>1 DEF Intact
<1>6. Total \in 1 .. Total BY <1>2, <1>3
<1>7. t[Total] = After(t[Total - 1], Log[Total]) BY <1>3, <1>6 DEF Traces
<1>. QED BY <1>3, <1>4, <1>5, <1>7

\* The answer to a request adds the contents after it to the recent ones.
LEMMA TracedApplies == ASSUME NEW t, Traced(t), ApplyRequest PROVE \E u : TraceOK(u)'
<1>1. TypeInv /\ Plain /\ TraceOK(t) /\ Serving /\ pc = "apply" BY DEF Traced, ApplyRequest
<1>2. Log' = Log /\ Total' = Total /\ synced' = synced BY <1>1, QuietLog DEF Quiet
<1>3. /\ Total \in Nat /\ recent \in Seq(Contents) /\ mem \in Contents
      /\ synced \in Nat /\ request \in Records
    BY <1>1, LogFacts, Types DEF TypeInv, InProgress, Records
<1>4. Traces(t, Log, Total, disk) BY <1>1 DEF TraceOK
<1>5. /\ phase' = phase /\ pc' = "idle" /\ mem' = After(mem, request) /\ disk' = disk
      /\ recent' = IF unflushed_ops = 0 THEN <<mem'>> ELSE Append(recent, mem')
    BY DEF ApplyRequest
<1>6. phase \in {"serving", "cleared"} BY <1>1 DEF Serving
<1>7. Done' = Total BY <1>2, <1>5 DEF Done
<1>8. Intact(Total) => t[Total] = mem' BY <1>1, <1>5, TracedPending
<1>9. mem' \in Contents BY <1>3, <1>5, AfterType
<1>10. PICK m \in Contents : m = mem' BY <1>9
<1>11. mem' \in Range(recent') /\ (synced # Total => Range(recent) \subseteq Range(recent'))
    <2>1. CASE unflushed_ops = 0
        <3>1. synced = Total BY <2>1, <1>1 DEF Plain
        <3>2. recent' = <<mem'>> BY <2>1, <1>5
        <3>. QED BY <3>1, <3>2, OneInRange
    <2>2. CASE unflushed_ops # 0
        <3>1. recent' = Append(recent, m) BY <2>2, <1>5, <1>10
        <3>2. Range(recent) \subseteq Range(Append(recent, m)) /\ m \in Range(Append(recent, m))
            BY <1>3, AppendRange
        <3>. QED BY <3>1, <3>2, <1>10
    <2>. QED BY <2>1, <2>2
<1>12. ASSUME NEW p \in synced' .. Total, Intact(p), Known(t, p) PROVE Known(t, p)'
    <2>1. CASE p = Total
        <3>1. mem' = t[p] BY <2>1, <1>8, <1>12
        <3>. QED BY <3>1, <1>11 DEF Known
    <2>2. CASE p # Total
        <3>1. t[p] \in Range(recent) BY <2>2, <1>12 DEF Known
        <3>2. synced # Total BY <2>2, <1>2, <1>3
        <3>. QED BY <3>1, <3>2, <1>11 DEF Known
    <2>. QED BY <2>1, <2>2
<1>13. \A p \in synced' .. Total' : Intact(p)' => Known(t, p)'
    BY <1>1, <1>2, <1>3, <1>12, KnownStays
<1>14. Intact(Done)' => mem' = t[Done']
    <2>1. Intact(Done)' => Intact(Total) BY <1>2, <1>7 DEF Intact
    <2>. QED BY <2>1, <1>7, <1>8
<1>15. TraceOK(t)' BY <1>2, <1>4, <1>5, <1>6, <1>13, <1>14 DEF TraceOK
<1>. QED BY <1>15

\* What is known is so when the command in progress is interrupted, too.
LEMMA KnownInterrupted ==
    ASSUME NEW t, Traced(t), Interrupted, NEW p, Intact(p), Known(t, p)
    PROVE  t[p] \in Range(recent') \/ (p = Total /\ t[p] \in doubtful')
<1>1. recent' = recent
      /\ doubtful' = IF pc = "idle" THEN doubtful ELSE doubtful \cup {After(mem, request)}
    BY DEF Interrupted
<1>2. CASE t[p] \in Range(recent) BY <1>1, <1>2
<1>3. CASE p = Total /\ pc # "idle"
    <2>1. t[Total] = After(mem, request) BY <1>3, TracedPending
    <2>. QED BY <2>1, <1>1, <1>3
<1>4. CASE p = Total /\ t[p] \in doubtful BY <1>1, <1>4
<1>. QED BY <1>2, <1>3, <1>4 DEF Known

\* The shutdown begins.
LEMMA TracedCloses == ASSUME NEW t, Traced(t), Shutdown PROVE \E u : TraceOK(u)'
<1>1. TypeInv /\ TraceOK(t) /\ phase' = "closing" /\ disk' = disk /\ Interrupted
    BY DEF Traced, Shutdown
<1>2. Log' = Log /\ Total' = Total /\ synced' = synced /\ synced \in Nat
    BY <1>1, QuietLog, LogFacts DEF Quiet
<1>3. Traces(t, Log, Total, disk) BY <1>1 DEF TraceOK
<1>4. ASSUME NEW p \in synced' .. Total, Intact(p), Known(t, p) PROVE Known(t, p)'
    BY <1>1, <1>2, <1>4, KnownInterrupted DEF Known
<1>5. \A p \in synced' .. Total' : Intact(p)' => Known(t, p)'
    BY <1>1, <1>2, <1>4, KnownStays
<1>6. TraceOK(t)' BY <1>1, <1>2, <1>3, <1>5 DEF TraceOK
<1>. QED BY <1>6

\* The process ends.
LEMMA TracedStops ==
    ASSUME NEW t, Traced(t), phase' = "off", Interrupted, disk' = disk,
           NEW n \in Nat, CutTo(n)
    PROVE  \E u : TraceOK(u)'
<1>1. TypeInv /\ TraceOK(t) BY DEF Traced
<1>2. /\ Total \in Nat /\ synced \in Nat /\ n >= synced /\ n <= Total
      /\ \A i \in 1 .. n : Log'[i] = Log[i]
    BY <1>1, LogFacts DEF CutTo
<1>3. Traces(t, Log, Total, disk) BY <1>1 DEF TraceOK
<1>4. PICK u : /\ Traces(u, Log', Total', disk') /\ u[Total'] = t[n]
               /\ \A p \in 0 .. n : u[p] = t[p]
    BY <1>1, <1>3, CutTrace
<1>5. ASSUME NEW q \in synced .. n, Intact(q)
      PROVE  t[q] \in Range(recent') \/ (q = Total /\ t[q] \in doubtful')
    <2>1. q \in synced .. Total BY <1>2
    <2>2. Known(t, q) BY <2>1, <1>1, <1>5 DEF TraceOK
    <2>. QED BY <2>2, <1>5, KnownInterrupted
<1>6. ASSUME NEW p \in synced' .. Total', Intact(p)' PROVE Known(u, p)'
    <2>1. CASE Total' = n /\ synced' \in {n, synced}
        <3>1. p \in synced .. n /\ p \in 0 .. n BY <2>1, <1>2
        <3>2. Intact(p)
            <4>1. ASSUME NEW i \in 1 .. p - 1 PROVE Log[i].op # "torn"
                <5>1. i \in 1 .. n BY <3>1
                <5>. QED BY <5>1, <1>2, <1>6 DEF Intact
            <4>. QED BY <4>1 DEF Intact
        <3>3. t[p] \in Range(recent') \/ (p = Total /\ t[p] \in doubtful')
            BY <3>1, <3>2, <1>5
        <3>4. p = Total => p = Total' BY <3>1, <2>1, <1>2
        <3>5. u[p] = t[p] BY <3>1, <1>4
        <3>. QED BY <3>3, <3>4, <3>5 DEF Known
    <2>2. CASE Total' = n + 1 /\ synced' = Total'
        <3>1. p = n + 1 /\ p = Total' BY <2>2
        <3>2. Intact(n)
            <4>1. ASSUME NEW i \in 1 .. n - 1 PROVE Log[i].op # "torn"
                <5>1. i \in 1 .. n /\ i \in 1 .. p - 1 BY <3>1
                <5>. QED BY <5>1, <1>2, <1>6 DEF Intact
            <4>. QED BY <4>1 DEF Intact
        <3>3. n \in synced .. n BY <1>2
        <3>4. t[n] \in Range(recent') \/ t[n] \in doubtful' BY <3>2, <3>3, <1>5
        <3>5. u[p] = t[n] BY <3>1, <1>4
        <3>. QED BY <3>1, <3>4, <3>5 DEF Known
    <2>3. Total' = n + 1 => synced' = Total' BY DEF CutTo
    <2>4. Total' = n => synced' \in {n, synced} BY DEF CutTo
    <2>. QED BY <2>1, <2>2, <2>3, <2>4 DEF CutTo
<1>7. TraceOK(u)' BY <1>4, <1>6 DEF TraceOK
<1>. QED BY <1>7

\* With all pages written and the log cleared a new trace begins.
LEMMA TracedClears ==
    ASSUME TypeInv, Plain, ClearLog
    PROVE  \E u : TraceOK(u)'
<1>1. Log' = <<>> /\ Total' = 0 /\ synced' = 0 BY ClearedLog
<1>2. phase = "flushed" /\ disk = mem /\ pc = "idle" /\ mem \in Contents
    BY Types DEF ClearLog, Plain, TypeInv, InProgress, Serving
<1>3. /\ phase' = "cleared" /\ pc' = "idle" /\ mem' = mem /\ disk' = mem
      /\ recent' = <<mem>>
    BY <1>2 DEF ClearLog
<1>4. PICK t : t = [p \in 0 .. 0 |-> mem] OBVIOUS
<1>5. Traces(t, Log', 0, mem) BY <1>2, <1>4, NoTrace
<1>6. Done' = 0 BY <1>1, <1>3 DEF Done
<1>7. t[0] = mem BY <1>4
<1>8. ASSUME NEW p \in synced' .. Total' PROVE Known(t, p)'
    <2>1. p = 0 BY <1>1
    <2>2. t[p] \in Range(recent') BY <2>1, <1>3, <1>7, OneInRange
    <2>. QED BY <2>2 DEF Known
<1>9. TraceOK(t)' BY <1>1, <1>3, <1>5, <1>6, <1>7, <1>8 DEF TraceOK
<1>. QED BY <1>9

\* The empty log of a new database.
LEMMA TracedInit == ASSUME Init PROVE \E t : TraceOK(t)
<1>1. logFile = <<>> /\ logBuffer = <<>> /\ phase = "off" /\ disk = mem /\ recent = <<mem>>
      /\ synced = 0
    BY DEF Init
<1>2. <<>> \o <<>> = <<>> /\ Len(<<>>) = 0 OBVIOUS
<1>3. Total = 0 BY <1>1, <1>2 DEF Log, Total
<1>4. mem \in Contents BY InitType, Types
<1>5. PICK t : t = [p \in 0 .. 0 |-> mem] OBVIOUS
<1>6. Traces(t, Log, 0, mem) BY <1>4, <1>5, NoTrace
<1>7. t[0] = mem BY <1>5
<1>8. ASSUME NEW p \in synced .. Total PROVE Known(t, p)
    <2>1. p = 0 BY <1>1, <1>3
    <2>2. t[p] \in Range(recent) BY <2>1, <1>1, <1>7, OneInRange
    <2>. QED BY <2>2 DEF Known
<1>9. TraceOK(t) BY <1>1, <1>3, <1>6, <1>8 DEF TraceOK
<1>. QED BY <1>9

\* Every step up to the flush, and after the clear.
LEMMA TracedStep ==
    ASSUME NEW t, Traced(t), Step PROVE phase' = "flushed" \/ \E u : TraceOK(u)'
<1>1. TypeInv /\ Plain /\ phase # "flushed" BY DEF Traced
<1>2. CASE Exit \/ Crash
    <2>1. phase' = "off" /\ Interrupted /\ disk' = disk BY <1>2 DEF Exit, Crash
    <2>2. PICK n \in Nat : CutTo(n) BY <1>1, <1>2, CutByEnd
    <2>. QED BY <2>1, <2>2, TracedStops
<1>3. CASE FlushAll BY <1>3 DEF FlushAll
<1>4. CASE ClearLog BY <1>1, <1>4, TracedClears
<1>. QED
    BY <1>2, <1>3, <1>4, TracedStart, TracedReplay, TracedMisread, TracedEnd, TracedLogs,
       TracedWrites, TracedSyncs, TracedApplies, TracedCloses
    DEF Step, Recovery, Command, Closing

\* The steps from the flush to the clear.
LEMMA FlushedStep ==
    ASSUME TypeInv, Plain, "flushed" \notin faults, phase = "flushed", Step
    PROVE  phase' = "flushed" \/ \E u : TraceOK(u)'
<1>1. pc = "idle" /\ ~Serving BY DEF TypeInv, InProgress, Serving
<1>2. CASE ClearLog BY <1>2, TracedClears
<1>. QED
    BY <1>1, <1>2
    DEF Step, Recovery, Command, Closing, Start, Replay, Misread, RecoveryRaises, EndRecovery,
        WriteBuffer, SyncLog, ApplyRequest, Shutdown, FlushAll, Exit, Crash, LogRequest
------------------------------------------------------------------------------
(***************************************************************************)
(* The shell, when everything it logs is synchronised at once.             *)
(***************************************************************************)
\* A part of a record adds nothing.
LEMMA EndsCut ==
    ASSUME NEW n \in Nat, NEW s, NEW k \in Keys, NEW d \in Values, NEW c \in Values, NEW G,
           Ends(G, s, n, k, d, c), \A i \in 1 .. n : s[i] \in Records,
           NEW u, \A i \in 1 .. n : u[i] = s[i], NEW N,
           N = n \/ (N = n + 1 /\ u[n + 1] \in Records /\ u[n + 1].op = "torn")
    PROVE  \E H : Ends(H, u, N, k, d, c)
<1>1. Replays(G, s, n, k) /\ Kind(G, s, n, k, c) /\ G[0][d] = c BY DEF Ends
<1>2. CASE N = n
    <2>1. Ends(G, u, n, k, d, c) BY <1>1, ReplaysSame DEF Ends
    <2>. QED BY <1>2, <2>1
<1>3. CASE N = n + 1 /\ u[n + 1] \in Records /\ u[n + 1].op = "torn"
    <2>1. PICK r \in Records : r = u[n + 1] BY <1>3
    <2>2. r.op = "torn" BY <2>1, <1>3
    <2>3. PICK H : H = LongerReplay(G, n, k, r) OBVIOUS
    <2>4. ~(r.key = k /\ r.op = "update") BY <2>2
    <2>5. /\ Replays(H, u, n + 1, k) /\ Kind(H, u, n + 1, k, Op(c, r, k))
          /\ H[0][d] = Op(c, r, k)
        <3>1. Replays(G, s, n, k) /\ Kind(G, s, n, k, c) BY <1>1
        <3>2. r.key = k /\ r.op = "update" => c # Null BY <2>4
        <3>3. /\ Replays(H, u, n + 1, k) /\ Kind(H, u, n + 1, k, Op(c, r, k))
              /\ \A x \in Values : G[0][x] = c => H[0][x] = Op(c, r, k)
            BY <2>1, <2>3, <3>1, <3>2, ReplaysMore, SMTT(20)
        <3>. QED BY <1>1, <3>3
    <2>6. Op(c, r, k) = c BY <2>2, OpType
    <2>. QED BY <2>5, <2>6, <1>3 DEF Ends
<1>. QED BY <1>2, <1>3

\* Another record, that of a request the shell logs.
LEMMA EndsMore ==
    ASSUME NEW n \in Nat, NEW s, NEW k \in Keys, NEW d \in Values, NEW c \in Values, NEW G,
           Ends(G, s, n, k, d, c), \A i \in 1 .. n : s[i] \in Records,
           NEW r \in Records, s[n + 1] = r, r.key = k /\ r.op = "update" => c # Null
    PROVE  \E H : Ends(H, s, n + 1, k, d, Op(c, r, k))
<1>1. Replays(G, s, n, k) /\ Kind(G, s, n, k, c) /\ G[0][d] = c BY DEF Ends
<1>2. PICK H : H = LongerReplay(G, n, k, r) OBVIOUS
<1>3. PICK u : u = s OBVIOUS
<1>4. \A i \in 1 .. n : u[i] = s[i] BY <1>3
<1>5. u[n + 1] = r BY <1>3
<1>6. /\ Replays(H, u, n + 1, k) /\ Kind(H, u, n + 1, k, Op(c, r, k))
      /\ H[0][d] = Op(c, r, k)
    BY <1>1, <1>2, <1>4, <1>5, ReplaysMore
<1>. QED BY <1>3, <1>6 DEF Ends

\* The value of a key.
LEMMA ContentsAt ==
    ASSUME NEW m \in Contents, NEW k \in Keys
    PROVE  m[k] \in Values
BY DEF Contents, Values

\* What the history holds is contents.
LEMMA RecentType ==
    ASSUME TypeInv, NEW m \in Range(recent) \cup doubtful
    PROVE  m \in Contents
<1>1. recent \in Seq(Contents) /\ doubtful \subseteq Contents BY Types
<1>2. \A i \in DOMAIN recent : recent[i] \in Contents BY <1>1
<1>. QED BY <1>1, <1>2 DEF Range

\* Every key ends as in m.
AllEnd(n, m) == \A k \in Keys : \E G : Ends(G, Log, n, k, disk[k], m[k])

\* Whatever else Settled says of a recovery.
LEMMA SettledAll == ASSUME NEW n, NEW m, Settled(n, m) PROVE AllEnd(n, m)
BY DEF Settled, AllEnd, KeyOK

\* Nothing logged is after the log was cleared.
LEMMA NoReplay ==
    ASSUME NEW s, NEW k \in Keys, NEW d \in Values
    PROVE  \E G : Ends(G, s, 0, k, d, d)
<1>1. PICK G : G = [p \in 0 .. 0 |-> [x \in Values |-> x]] OBVIOUS
<1>2. G \in [0 .. 0 -> [Values -> Values]] /\ \A x \in Values : G[0][x] = x BY <1>1
<1>3. \A p \in 1 .. 0, x \in Values : G[p - 1][x] = G[p][Op(x, s[p], k)] OBVIOUS
<1>4. Replays(G, s, 0, k) BY <1>2, <1>3 DEF Replays
<1>5. NoDelete(s, 0, k) BY DEF NoDelete
<1>6. \A p \in 0 .. 0, x \in Values \ {Null} : G[p][x] = x
    <2>1. \A p \in 0 .. 0 : p = 0 OBVIOUS
    <2>. QED BY <2>1, <1>2
<1>7. Kind(G, s, 0, k, d) BY <1>5, <1>6 DEF Kind
<1>. QED BY <1>2, <1>4, <1>7 DEF Ends

\* The last request is done as well.
LEMMA AllEndMore ==
    ASSUME TypeInv, program = "shell", NEW n \in Nat, n = Total - 1, AllEnd(n, mem),
           Log[Total] \in Requests, Logged(Log[Total])
    PROVE  AllEnd(Total, After(mem, Log[Total]))
<1>1. Total = n + 1 /\ \A i \in 1 .. n : Log[i] \in Records BY LogFacts
<1>2. PICK r \in Requests : r = Log[Total] OBVIOUS
<1>3. r \in Records /\ Log[n + 1] = r BY <1>1, <1>2 DEF Records
<1>4. mem \in Contents /\ disk \in Contents BY Types
<1>5. r.op = "update" => mem[r.key] # Null BY <1>2 DEF Logged
<1>6. ASSUME NEW k \in Keys PROVE \E H : Ends(H, Log, Total, k, disk[k], After(mem, r)[k])
    <2>1. PICK c \in Values : c = mem[k] BY <1>4, ContentsAt
    <2>2. PICK d \in Values : d = disk[k] BY <1>4, ContentsAt
    <2>3. PICK G : Ends(G, Log, n, k, d, c) BY <2>1, <2>2 DEF AllEnd
    <2>4. PICK s : s = Log OBVIOUS
    <2>5. r.key = k /\ r.op = "update" => c # Null BY <1>5, <2>1
    <2>6. s[n + 1] = r /\ \A i \in 1 .. n : s[i] \in Records BY <1>1, <1>3, <2>4
    <2>7. Ends(G, s, n, k, d, c) BY <2>3, <2>4
    <2>8. \E H : Ends(H, s, n + 1, k, d, Op(c, r, k))
        BY <1>3, <2>5, <2>6, <2>7, EndsMore
    <2>9. After(mem, r)[k] = Op(c, r, k) BY <1>3, <1>4, <2>1, AfterAt
    <2>. QED BY <1>1, <2>2, <2>4, <2>8, <2>9
<1>. QED BY <1>2, <1>6 DEF AllEnd

\* The log is cut after the records that count.
LEMMA AllEndCut ==
    ASSUME TypeInv, NEW n \in Nat, CutTo(n), disk' = disk, NEW m \in Contents, AllEnd(n, m)
    PROVE  \A k \in Keys : \E G : Ends(G, Log', Total', k, disk'[k], m[k])
<1>1. /\ Total \in Nat /\ n \in 0 .. Total
      /\ \A i \in 1 .. n : Log'[i] = Log[i]
      /\ \A i \in 1 .. n : Log[i] \in Records
    BY LogFacts DEF CutTo
<1>2. /\ Total' = n \/ (Total' = n + 1 /\ Log'[n + 1] \in Records /\ Log'[n + 1].op = "torn")
    BY DEF CutTo
<1>3. PICK s : s = Log OBVIOUS
<1>4. PICK u : u = Log' OBVIOUS
<1>5. PICK N : N = Total' OBVIOUS
<1>6. disk \in Contents BY Types
<1>7. ASSUME NEW k \in Keys PROVE \E G : Ends(G, u, N, k, disk[k], m[k])
    <2>1. PICK d \in Values : d = disk[k] BY <1>6, ContentsAt
    <2>2. PICK c \in Values : c = m[k] BY ContentsAt
    <2>3. PICK G : Ends(G, s, n, k, d, c) BY <1>3, <2>1, <2>2 DEF AllEnd
    <2>4. (\A i \in 1 .. n : s[i] \in Records) /\ \A i \in 1 .. n : u[i] = s[i]
        BY <1>1, <1>3, <1>4
    <2>5. N = n \/ (N = n + 1 /\ u[n + 1] \in Records /\ u[n + 1].op = "torn")
        BY <1>2, <1>4, <1>5
    <2>6. \E H : Ends(H, u, N, k, d, c) BY <2>3, <2>4, <2>5, EndsCut
    <2>. QED BY <2>1, <2>2, <2>6
<1>. QED BY <1>4, <1>5, <1>7

\* The forms of the invariant after a step.
LEMMA ShellOff ==
    ASSUME phase' = "off", NEW m, m \in (Range(recent) \cup doubtful)',
           \A k \in Keys : \E G : Ends(G, Log', Total', k, disk'[k], m[k])
    PROVE  ShellOK'
BY DEF ShellOK, Settled, KeyOK

\* During the recovery,
LEMMA ShellRecovers ==
    ASSUME phase' = "recovering", NEW m, m \in (Range(recent) \cup doubtful)',
           \A k \in Keys : \E G :
             /\ Ends(G, Log', Total', k, disk'[k], m[k])
             /\ pos' <= Total' + 1 /\ G[pos' - 1][mem'[k]] = m[k]
    PROVE  ShellOK'
BY DEF ShellOK, Settled, KeyOK

\* and while the shell runs.
LEMMA ShellRuns ==
    ASSUME phase' \notin {"off", "recovering"}, recent' = <<mem'>>,
           NEW n \in Int, Pending(n)',
           \A k \in Keys : \E G : Ends(G, Log', n, k, disk'[k], mem'[k])
    PROVE  ShellOK'
BY DEF ShellOK, Settled, KeyOK

\* The steps of the shell with nothing in doubt.
Shell ==
    /\ TypeInv /\ Plain /\ ~Broken /\ SyncedAtOnce /\ ShellOK
    /\ UNCHANGED setup

LEMMA ShellProgram == ASSUME Shell PROVE program = "shell" /\ program' = program
BY DEF Shell, SyncedAtOnce, setup

\* A replay begins with the pages,
LEMMA ShellStart == ASSUME Shell, Start PROVE ShellOK'
<1>1. TypeInv /\ ShellOK /\ phase = "off" BY DEF Shell, Start
<1>2. Log' = Log /\ Total' = Total BY <1>1, QuietLog DEF Quiet, Recovery
<1>3. Total \in Nat BY <1>1, LogFacts
<1>4. PICK m \in Range(recent) \cup doubtful : Settled(Total, m) BY <1>1 DEF ShellOK
<1>5. /\ phase' = "recovering" /\ pos' = 1 /\ mem' = disk /\ disk' = disk
      /\ recent' = recent /\ doubtful' = doubtful
    BY DEF Start, history
<1>6. pos' - 1 = 0 /\ pos' <= Total' + 1 BY <1>2, <1>3, <1>5
<1>7. ASSUME NEW k \in Keys
      PROVE  \E G : /\ Ends(G, Log', Total', k, disk'[k], m[k])
                    /\ pos' <= Total' + 1 /\ G[pos' - 1][mem'[k]] = m[k]
    <2>1. PICK G : Ends(G, Log, Total, k, disk[k], m[k]) BY <1>4, SettledAll DEF AllEnd
    <2>2. G[0][disk[k]] = m[k] BY <2>1 DEF Ends
    <2>. QED BY <2>1, <2>2, <1>2, <1>5, <1>6
<1>8. m \in (Range(recent) \cup doubtful)' BY <1>4, <1>5
<1>. QED BY <1>5, <1>7, <1>8, ShellRecovers

\* goes on with the next record of each key,
LEMMA ShellReplay == ASSUME Shell, Replay PROVE ShellOK'
<1>1. TypeInv /\ Plain /\ ShellOK /\ phase = "recovering" BY DEF Shell, Replay
<1>2. Log' = Log /\ Total' = Total BY <1>1, QuietLog DEF Quiet, Recovery
<1>3. /\ Total \in Nat /\ Log = logFile /\ Total = Len(logFile)
      /\ \A i \in 1 .. Total : Log[i] \in Records
    BY <1>1, LogFacts, Resting
<1>4. PICK m \in Range(recent) \cup doubtful : Settled(Total, m) BY <1>1 DEF ShellOK
<1>5. pos \in 1 .. Total BY <1>1, <1>3 DEF Replay, TypeInv, InProgress
<1>6. /\ phase' = phase /\ pos' = pos + 1 /\ mem' = After(mem, Log[pos]) /\ disk' = disk
      /\ recent' = recent /\ doubtful' = doubtful
    BY <1>3 DEF Replay, history
<1>7. pos' - 1 = pos /\ pos' <= Total' + 1 BY <1>2, <1>3, <1>5, <1>6
<1>8. PICK r \in Records : r = Log[pos] BY <1>3, <1>5
<1>9. m \in Contents /\ mem \in Contents BY <1>1, RecentType, Types
<1>10. ASSUME NEW k \in Keys
       PROVE  \E G : /\ Ends(G, Log', Total', k, disk'[k], m[k])
                     /\ pos' <= Total' + 1 /\ G[pos' - 1][mem'[k]] = m[k]
    <2>1. PICK G : KeyOK(G, Total, k, m[k]) BY <1>4 DEF Settled
    <2>2. PICK c \in Values : c = m[k] BY <1>9, ContentsAt
    <2>3. PICK x \in Values : x = mem[k] BY <1>9, ContentsAt
    <2>4. PICK s : s = Log OBVIOUS
    <2>5. PICK n \in Nat : n = Total BY <1>3
    <2>6. PICK p \in 1 .. n : p = pos BY <1>5, <2>5
    <2>7. /\ Ends(G, Log, Total, k, disk[k], m[k])
          /\ G[p - 1][x] = c
        BY <2>1, <2>2, <2>3, <2>6, <1>1 DEF KeyOK
    <2>8. Replays(G, s, n, k) BY <2>4, <2>5, <2>7 DEF Ends
    <2>9. s[p] = r BY <2>4, <2>6, <1>8
    <2>10. PICK y : y = Op(x, s[p], k) OBVIOUS
    <2>11. G[p][y] = c
        <3>1. G[p - 1][x] = G[p][Op(x, s[p], k)] BY <2>8 DEF Replays
        <3>. QED BY <3>1, <2>7, <2>10
    <2>12. mem'[k] = y
        <3>1. After(mem, r)[k] = Op(mem[k], r, k) BY <1>9, AfterAt
        <3>2. mem' = After(mem, r) BY <1>6, <1>8
        <3>. QED BY <3>1, <3>2, <2>3, <2>9, <2>10
    <2>. QED BY <2>2, <2>6, <2>7, <2>11, <2>12, <1>2, <1>6, <1>7
<1>11. m \in (Range(recent) \cup doubtful)' BY <1>4, <1>6
<1>. QED BY <1>1, <1>6, <1>10, <1>11, ShellRecovers

\* At its end a replay has made a recent state.
LEMMA ShellRecovered ==
    ASSUME Shell, EndRecovery
    PROVE  mem \in Range(recent) \cup doubtful /\ AllEnd(Total, mem)
<1>1. TypeInv /\ Plain /\ ShellOK /\ phase = "recovering" /\ ~Broken /\ SyncedAtOnce
    BY DEF Shell, EndRecovery
<1>2. /\ Total \in Nat /\ Log = logFile /\ Total = Len(logFile) /\ Total = synced
      /\ \A i \in 1 .. Total : Log[i] \in Records
    BY <1>1, LogFacts, Resting
<1>3. PICK m \in Range(recent) \cup doubtful : Settled(Total, m) BY <1>1 DEF ShellOK
<1>4. m \in Contents /\ mem \in Contents BY <1>1, RecentType, Types
<1>5. pos \in Nat \ {0} BY <1>1 DEF TypeInv, InProgress
<1>6. pos <= Total => pos = Total /\ Log[pos].op = "torn"
    <2>1. SUFFICES ASSUME pos <= Total PROVE pos = Total /\ Log[pos].op = "torn" OBVIOUS
    <2>2. Log[pos].op = "torn" BY <2>1, <1>2 DEF EndRecovery
    <2>3. ~(pos \in 1 .. synced - 1) BY <2>2, <1>1 DEF Broken
    <2>. QED BY <2>1, <2>2, <2>3, <1>2, <1>5
<1>7. ASSUME NEW k \in Keys PROVE m[k] = mem[k]
    <2>1. PICK G : KeyOK(G, Total, k, m[k]) BY <1>3 DEF Settled
    <2>2. PICK x \in Values : x = mem[k] BY <1>4, ContentsAt
    <2>3. PICK n \in Nat : n = Total BY <1>2
    <2>4. PICK s : s = Log OBVIOUS
    <2>5. /\ Ends(G, s, n, k, disk[k], m[k]) /\ pos <= n + 1 /\ G[pos - 1][x] = m[k]
        BY <2>1, <2>2, <2>3, <2>4, <1>1 DEF KeyOK
    <2>6. Replays(G, s, n, k) BY <2>5 DEF Ends
    <2>7. G[n][x] = x BY <2>6 DEF Replays
    <2>8. CASE pos = n + 1
        <3>1. pos - 1 = n BY <2>8
        <3>. QED BY <3>1, <2>2, <2>5, <2>7
    <2>9. CASE pos <= n
        <3>1. pos = n /\ s[pos].op = "torn" /\ n \in 1 .. n BY <2>3, <2>4, <2>9, <1>5, <1>6
        <3>2. s[n] \in Records BY <3>1, <2>3, <2>4, <1>2
        <3>3. Op(x, s[n], k) = x BY <3>1, <3>2, OpType
        <3>4. G[n - 1][x] = G[n][Op(x, s[n], k)] BY <3>1, <2>6 DEF Replays
        <3>. QED BY <3>1, <3>3, <3>4, <2>2, <2>5, <2>7
    <2>. QED BY <2>5, <2>8, <2>9, <1>5
<1>8. m = mem BY <1>4, <1>7 DEF Contents
<1>. QED BY <1>3, <1>8, SettledAll

\* so that the shell then has the contents it will recover again.
LEMMA ShellEnd == ASSUME Shell, EndRecovery PROVE ShellOK'
<1>1. TypeInv /\ Plain /\ phase = "recovering" /\ SyncedAtOnce BY DEF Shell, EndRecovery
<1>2. Log' = Log /\ Total' = Total /\ synced' = synced
    BY <1>1, QuietLog DEF Quiet, Recovery
<1>3. Total \in Nat /\ Total = synced /\ Total = Len(logFile) /\ pc = "idle"
    BY <1>1, LogFacts, Resting
<1>4. /\ phase' = "serving" /\ pc' = "idle" /\ mem' = mem /\ disk' = disk /\ recent' = <<mem>>
    BY <1>3 DEF EndRecovery
<1>5. AllEnd(Total, mem) BY ShellRecovered
<1>6. PICK n \in Nat : n = Total BY <1>3
<1>7. \A k \in Keys : \E G : Ends(G, Log', n, k, disk'[k], mem'[k])
    BY <1>2, <1>4, <1>5, <1>6 DEF AllEnd
<1>8. n = Total' /\ n \in 0 .. synced' BY <1>2, <1>3, <1>6
<1>9. Pending(n)' BY <1>4, <1>8 DEF Pending
<1>10. recent' = <<mem'>> /\ phase' \notin {"off", "recovering"} BY <1>4
<1>. QED BY <1>7, <1>9, <1>10, ShellRuns

\* What the invariant says while the shell runs.
LEMMA ShellFacts ==
    ASSUME Shell, phase \notin {"off", "recovering"}
    PROVE  /\ TypeInv /\ Plain /\ program = "shell" /\ recent = <<mem>>
           /\ \E n \in Nat : Pending(n) /\ AllEnd(n, mem) /\ n <= Total
<1>1. TypeInv /\ Plain /\ program = "shell" /\ ShellOK BY ShellProgram DEF Shell
<1>2. recent = <<mem>> /\ \E n \in Int : Pending(n) /\ Settled(n, mem) BY <1>1 DEF ShellOK
<1>3. PICK n \in Int : Pending(n) /\ Settled(n, mem) BY <1>2
<1>4. AllEnd(n, mem) BY <1>3, SettledAll
<1>5. Total \in Nat /\ synced \in Nat /\ synced <= Total BY <1>1, LogFacts
<1>6. n \in Nat /\ n <= Total BY <1>3, <1>5 DEF Pending
<1>. QED BY <1>1, <1>2, <1>3, <1>4, <1>6

\* The record of a request that can be applied is logged.
LEMMA ShellLogs ==
    ASSUME Shell, NEW r \in Requests, LogRequest(r) PROVE ShellOK'
<1>1. TypeInv /\ program = "shell" /\ Serving /\ pc = "idle" /\ program' = program
    BY ShellProgram DEF Shell, LogRequest
<1>2. phase = "serving" BY <1>1 DEF Serving
<1>3. /\ Total' = Total + 1 /\ Log'[Total + 1] = r /\ synced' = synced
      /\ \A i \in 1 .. Total : Log'[i] = Log[i]
    BY <1>1, RequestedLog
<1>4. /\ recent = <<mem>> /\ \E n \in Nat : Pending(n) /\ AllEnd(n, mem) /\ n <= Total
    BY <1>2, ShellFacts
<1>5. PICK n \in Nat : Pending(n) /\ AllEnd(n, mem) BY <1>4
<1>6. /\ Total \in Nat /\ synced \in Nat /\ \A i \in 1 .. Total : Log[i] \in Records
    BY <1>1, LogFacts
<1>7. n = Total /\ n \in 0 .. synced BY <1>1, <1>2, <1>5 DEF Pending
<1>8. /\ phase' = phase /\ pc' # "idle" /\ request' = r /\ mem' = mem /\ disk' = disk
      /\ recent' = recent
    BY DEF LogRequest, history
<1>9. Logged(r)' BY <1>1, <1>8 DEF LogRequest, Logged
<1>10. Total' = n + 1 /\ Log'[Total'] = r BY <1>3, <1>7
<1>11. Pending(n)'
    <2>1. n = Total' - 1 /\ n \in 0 .. synced' BY <1>3, <1>7, <1>10
    <2>2. Logged(Log[Total])'
        BY <1>9, <1>10 DEF Logged
    <2>. QED BY <2>1, <2>2, <1>8, <1>10 DEF Pending
<1>12. ASSUME NEW k \in Keys PROVE \E G : Ends(G, Log', n, k, disk'[k], mem'[k])
    <2>1. PICK G : Ends(G, Log, n, k, disk[k], mem[k]) BY <1>5 DEF AllEnd
    <2>2. PICK s : s = Log OBVIOUS
    <2>3. PICK u : u = Log' OBVIOUS
    <2>4. \A i \in 1 .. n : u[i] = s[i] BY <2>2, <2>3, <1>3, <1>7
    <2>5. PICK d : d = disk[k] OBVIOUS
    <2>6. PICK c : c = mem[k] OBVIOUS
    <2>7. Ends(G, s, n, k, d, c) BY <2>1, <2>2, <2>5, <2>6
    <2>8. Ends(G, u, n, k, d, c) BY <2>4, <2>7, ReplaysSame DEF Ends
    <2>. QED BY <2>3, <2>5, <2>6, <2>8, <1>8
<1>13. recent' = <<mem'>> /\ phase' \notin {"off", "recovering"} BY <1>2, <1>4, <1>8
<1>. QED BY <1>11, <1>12, <1>13, ShellRuns

\* Steps that change neither what is logged nor the contents.
LEMMA ShellSame ==
    ASSUME Shell, phase \notin {"off", "recovering"}, Log' = Log, Total' = Total,
           synced' \in Int, synced' >= synced, phase' \notin {"off", "recovering", "serving"}
             \/ (phase' = phase /\ (pc = "idle" <=> pc' = "idle")),
           program' = program, mem' = mem, recent' = recent,
           pc' # "idle" => request' = request,
           pc' = "idle" => doubtful' = IF pc = "idle" THEN doubtful
                                       ELSE doubtful \cup {After(mem, request)},
           pc = "idle" => pc' = "idle",
           \A n \in Nat : AllEnd(n, mem) =>
             \A k \in Keys : \E G : Ends(G, Log, n, k, disk'[k], mem[k])
    PROVE  ShellOK'
<1>1. /\ TypeInv /\ Plain /\ program = "shell" /\ recent = <<mem>>
      /\ \E n \in Nat : Pending(n) /\ AllEnd(n, mem) /\ n <= Total
    BY ShellFacts
<1>2. PICK n \in Nat : Pending(n) /\ AllEnd(n, mem) BY <1>1
<1>3. synced \in Nat BY <1>1, LogFacts
<1>4. n \in 0 .. synced' BY <1>2, <1>3 DEF Pending
<1>5. ASSUME n = Total, pc = "idle" PROVE Pending(n)'
    BY <1>4, <1>5 DEF Pending
<1>6. ASSUME n = Total - 1, Log[Total] \in Requests, Logged(Log[Total]),
             IF pc = "idle" THEN phase # "serving" /\ After(mem, Log[Total]) \in doubtful
             ELSE Log[Total] = request
      PROVE  Pending(n)'
    <2>1. Logged(Log[Total])' BY <1>6 DEF Logged
    <2>2. CASE pc' = "idle"
        <3>1. phase' # "serving" BY <1>6, <2>2
        <3>2. After(mem, Log[Total]) \in doubtful' BY <1>6, <2>2
        <3>3. (After(mem, Log[Total]) \in doubtful)' BY <3>2 DEF After
        <3>. QED BY <3>1, <3>3, <2>1, <2>2, <1>4, <1>6 DEF Pending
    <2>3. CASE pc' # "idle"
        <3>1. Log'[Total'] = request' BY <1>6, <2>3
        <3>. QED BY <3>1, <2>1, <2>3, <1>4, <1>6 DEF Pending
    <2>. QED BY <2>2, <2>3
<1>7. \A k \in Keys : \E G : Ends(G, Log', n, k, disk'[k], mem'[k]) BY <1>2
<1>8. Pending(n)' BY <1>2, <1>5, <1>6 DEF Pending
<1>9. recent' = <<mem'>> /\ phase' \notin {"off", "recovering"} BY <1>1
<1>. QED BY <1>7, <1>8, <1>9, ShellRuns

\* The pages that are written in the shutdown make no difference to a replay.
LEMMA PagesWritten ==
    ASSUME TypeInv, NEW n \in Nat, AllEnd(n, mem), disk' = mem
    PROVE  \A k \in Keys : \E G : Ends(G, Log, n, k, disk'[k], mem[k])
<1>1. mem \in Contents /\ disk \in Contents BY Types
<1>2. PICK s : s = Log OBVIOUS
<1>3. ASSUME NEW k \in Keys PROVE \E G : Ends(G, s, n, k, disk'[k], mem[k])
    <2>1. PICK d \in Values : d = disk[k] BY <1>1, ContentsAt
    <2>2. PICK c \in Values : c = mem[k] BY <1>1, ContentsAt
    <2>3. PICK G : Ends(G, s, n, k, d, c) BY <1>2, <2>1, <2>2 DEF AllEnd
    <2>4. Kind(G, s, n, k, c) /\ G[0][d] = c BY <2>3 DEF Ends
    <2>5. G[0][c] = c BY <2>4, ReplayAgain
    <2>6. Ends(G, s, n, k, c, c) BY <2>3, <2>5 DEF Ends
    <2>. QED BY <2>2, <2>6
<1>. QED BY <1>2, <1>3

\* The buffer is written out or synchronised.
LEMMA ShellBuffers == ASSUME Shell, WriteBuffer \/ SyncLog PROVE ShellOK'
<1>1. TypeInv /\ Plain /\ program' = program BY ShellProgram DEF Shell
<1>2. phase \notin {"off", "recovering"}
    BY <1>1 DEF WriteBuffer, SyncLog, Plain, TypeInv, InProgress, Serving
<1>3. Total \in Nat /\ synced \in Nat /\ synced <= Total BY <1>1, LogFacts
<1>4. /\ Log' = Log /\ Total' = Total /\ synced' \in {synced, Total}
    BY <1>1, WrittenLog, SyncedLog
<1>5. synced' \in Int /\ synced' >= synced BY <1>3, <1>4
<1>6. /\ phase' = phase /\ (pc = "idle" <=> pc' = "idle") /\ request' = request
      /\ mem' = mem /\ disk' = disk /\ recent' \in {recent, <<mem>>} /\ doubtful' = doubtful
    BY DEF WriteBuffer, SyncLog, history
<1>7. recent' = recent BY <1>2, <1>6, ShellFacts
<1>8. \A n \in Nat : AllEnd(n, mem) =>
        \A k \in Keys : \E G : Ends(G, Log, n, k, disk'[k], mem[k])
    BY <1>6 DEF AllEnd
<1>. QED BY <1>1, <1>2, <1>4, <1>5, <1>6, <1>7, <1>8, ShellSame

\* The shutdown begins, or goes on with the flush.
LEMMA ShellCloses == ASSUME Shell, Shutdown \/ FlushAll PROVE ShellOK'
<1>1. TypeInv /\ Plain /\ program' = program BY ShellProgram DEF Shell
<1>2. phase \notin {"off", "recovering"} /\ phase' \notin {"off", "recovering", "serving"}
    BY DEF Shutdown, FlushAll
<1>3. Log' = Log /\ Total' = Total /\ synced' = synced BY <1>1, QuietLog DEF Quiet
<1>4. synced' \in Int /\ synced' >= synced BY <1>1, <1>3, LogFacts
<1>5. mem' = mem /\ disk' \in {disk, mem} /\ recent' = recent
    BY DEF Shutdown, FlushAll, Interrupted, history
<1>6. phase = "closing" => pc = "idle" BY <1>1 DEF TypeInv, InProgress, Serving
<1>7. /\ pc' = "idle"
      /\ doubtful' = IF pc = "idle" THEN doubtful ELSE doubtful \cup {After(mem, request)}
    BY <1>6 DEF Shutdown, FlushAll, Interrupted, history
<1>8. ASSUME NEW n \in Nat, AllEnd(n, mem)
      PROVE  \A k \in Keys : \E G : Ends(G, Log, n, k, disk'[k], mem[k])
    <2>1. CASE disk' = disk BY <2>1, <1>8 DEF AllEnd
    <2>2. CASE disk' = mem BY <2>2, <1>1, <1>8, PagesWritten
    <2>. QED BY <2>1, <2>2, <1>5
<1>. QED BY <1>1, <1>2, <1>3, <1>4, <1>5, <1>7, <1>8, ShellSame

\* Every record is on the disk when the tree is changed.
LEMMA ShellApplies == ASSUME Shell, ApplyRequest PROVE ShellOK'
<1>1. TypeInv /\ Plain /\ program = "shell" /\ program' = program /\ Serving /\ pc = "apply"
    BY ShellProgram DEF Shell, ApplyRequest
<1>2. phase = "serving" BY <1>1 DEF Serving
<1>3. Log' = Log /\ Total' = Total /\ synced' = synced BY <1>1, QuietLog DEF Quiet
<1>4. /\ recent = <<mem>> /\ \E n \in Nat : Pending(n) /\ AllEnd(n, mem) /\ n <= Total
    BY <1>2, ShellFacts
<1>5. PICK n \in Nat : Pending(n) /\ AllEnd(n, mem) BY <1>4
<1>6. /\ n = Total - 1 /\ Log[Total] \in Requests /\ Logged(Log[Total])
      /\ Log[Total] = request
    BY <1>1, <1>5 DEF Pending
<1>7. AllEnd(Total, After(mem, request)) BY <1>1, <1>5, <1>6, AllEndMore
<1>8. /\ phase' = phase /\ pc' = "idle" /\ mem' = After(mem, request) /\ disk' = disk
      /\ recent' = IF unflushed_ops = 0 THEN <<mem'>> ELSE Append(recent, mem')
    BY DEF ApplyRequest
<1>9. unflushed_ops = 0 BY <1>1 DEF Plain
<1>10. recent' = <<mem'>> BY <1>8, <1>9
<1>11. Total \in Nat /\ Total = synced BY <1>1, <1>9, LogFacts DEF Plain
<1>12. PICK N \in Nat : N = Total BY <1>11
<1>13. \A k \in Keys : \E G : Ends(G, Log', N, k, disk'[k], mem'[k])
    BY <1>3, <1>7, <1>8, <1>12 DEF AllEnd
<1>14. N = Total' /\ N \in 0 .. synced' BY <1>3, <1>11, <1>12
<1>15. Pending(N)' BY <1>8, <1>14 DEF Pending
<1>16. phase' \notin {"off", "recovering"} BY <1>2, <1>8
<1>17. N \in Int OBVIOUS
<1>. QED BY <1>10, <1>13, <1>15, <1>16, <1>17, ShellRuns

\* The process ends.  Only the record of the command in progress can be lost or left.
LEMMA ShellStops ==
    ASSUME Shell, phase # "off", phase' = "off", Interrupted, UNCHANGED <<mem, disk>>,
           NEW q \in Nat, CutTo(q)
    PROVE  ShellOK'
<1>1. TypeInv /\ Plain /\ SyncedAtOnce /\ program = "shell" /\ ShellOK
    BY ShellProgram DEF Shell
<1>2. Total \in Nat /\ synced \in Nat /\ synced <= q /\ q <= Total
    BY <1>1, LogFacts DEF CutTo
<1>3. recent' = recent /\ doubtful \subseteq doubtful'
      /\ (pc # "idle" => After(mem, request) \in doubtful')
    BY DEF Interrupted
<1>4. mem \in Contents /\ disk' = disk BY <1>1, Types
<1>5. ASSUME NEW m \in Contents, m \in Range(recent) \cup doubtful', AllEnd(q, m)
      PROVE  ShellOK'
    <2>1. \A k \in Keys : \E G : Ends(G, Log', Total', k, disk'[k], m[k])
        BY <1>1, <1>4, <1>5, AllEndCut
    <2>2. m \in (Range(recent) \cup doubtful)' BY <1>3, <1>5
    <2>. QED BY <2>1, <2>2, ShellOff
<1>6. CASE phase = "recovering"
    <2>1. q = Total BY <1>1, <1>2, <1>6, Resting
    <2>2. PICK m \in Range(recent) \cup doubtful : Settled(Total, m)
        BY <1>1, <1>6 DEF ShellOK
    <2>3. m \in Contents BY <1>1, RecentType
    <2>4. AllEnd(q, m) BY <2>1, <2>2, SettledAll
    <2>. QED BY <2>2, <2>3, <2>4, <1>3, <1>5
<1>7. CASE phase # "recovering"
    <2>1. /\ recent = <<mem>> /\ \E n \in Nat : Pending(n) /\ AllEnd(n, mem) /\ n <= Total
        BY <1>7, ShellFacts
    <2>2. PICK n \in Nat : Pending(n) /\ AllEnd(n, mem) BY <2>1
    <2>3. n <= synced /\ (n = Total \/ n = Total - 1) BY <2>2, <1>2 DEF Pending
    <2>4. CASE q = n
        <3>1. mem \in Range(recent) BY <2>1, OneInRange
        <3>. QED BY <3>1, <2>2, <2>4, <1>4, <1>5
    <2>5. CASE q # n
        <3>1. q = Total /\ n = Total - 1 BY <2>3, <2>5, <1>2
        <3>2. /\ Log[Total] \in Requests /\ Logged(Log[Total])
              /\ IF pc = "idle" THEN After(mem, Log[Total]) \in doubtful
                 ELSE Log[Total] = request
            BY <3>1, <2>2, <1>2 DEF Pending
        <3>3. AllEnd(Total, After(mem, Log[Total])) BY <3>1, <3>2, <2>2, <1>1, AllEndMore
        <3>4. After(mem, Log[Total]) \in doubtful' BY <3>2, <1>3
        <3>5. Log[Total] \in Records BY <3>2 DEF Records
        <3>6. After(mem, Log[Total]) \in Contents BY <3>5, <1>4, AfterType
        <3>. QED BY <3>1, <3>3, <3>4, <3>6, <1>5
    <2>. QED BY <2>4, <2>5
<1>. QED BY <1>6, <1>7

\* With all pages written and the log cleared there is nothing to replay.
LEMMA ShellClears ==
    ASSUME TypeInv, Plain, ClearLog, program = "shell"
    PROVE  ShellOK'
<1>1. Log' = <<>> /\ Total' = 0 /\ synced' = 0 BY ClearedLog
<1>2. phase = "flushed" /\ disk = mem /\ pc = "idle" /\ mem \in Contents
    BY Types DEF ClearLog, Plain, TypeInv, InProgress, Serving
<1>3. /\ phase' = "cleared" /\ pc' = "idle" /\ mem' = mem /\ disk' = mem
      /\ recent' = <<mem>>
    BY <1>2 DEF ClearLog
<1>4. PICK s : s = Log' OBVIOUS
<1>5. ASSUME NEW k \in Keys PROVE \E G : Ends(G, Log', 0, k, disk'[k], mem'[k])
    <2>1. PICK d \in Values : d = mem[k] BY <1>2, ContentsAt
    <2>2. \E G : Ends(G, s, 0, k, d, d) BY NoReplay
    <2>. QED BY <2>1, <2>2, <1>3, <1>4
<1>6. Pending(0)' BY <1>1, <1>3 DEF Pending
<1>7. recent' = <<mem'>> /\ phase' \notin {"off", "recovering"} BY <1>3
<1>. QED BY <1>5, <1>6, <1>7, ShellRuns

\* The empty log of a new database.
LEMMA ShellInit == ASSUME Init PROVE ShellOK
<1>1. logFile = <<>> /\ logBuffer = <<>> /\ phase = "off" /\ disk = mem /\ recent = <<mem>>
    BY DEF Init
<1>2. <<>> \o <<>> = <<>> /\ Len(<<>>) = 0 OBVIOUS
<1>3. Total = 0 BY <1>1, <1>2 DEF Log, Total
<1>4. mem \in Contents BY InitType, Types
<1>5. PICK s : s = Log OBVIOUS
<1>6. ASSUME NEW k \in Keys PROVE \E G : KeyOK(G, Total, k, mem[k])
    <2>1. PICK d \in Values : d = mem[k] BY <1>4, ContentsAt
    <2>2. PICK G : Ends(G, s, 0, k, d, d) BY NoReplay
    <2>3. KeyOK(G, Total, k, mem[k]) BY <2>1, <2>2, <1>1, <1>3, <1>5 DEF KeyOK
    <2>. QED BY <2>3
<1>7. mem \in Range(recent) BY <1>1, OneInRange
<1>. QED BY <1>1, <1>6, <1>7 DEF ShellOK, Settled

\* Every step of the shell.
LEMMA ShellStep == ASSUME Shell, Step PROVE ShellOK'
<1>1. TypeInv /\ Plain /\ SyncedAtOnce /\ program = "shell" /\ ~Broken
    BY ShellProgram DEF Shell
<1>2. CASE Misread \/ RecoveryRaises
    <2>1. phase = "recovering" /\ pos < Len(logFile) /\ logFile[pos].op = "torn"
        BY <1>2 DEF Misread, RecoveryRaises
    <2>2. Log = logFile /\ synced = Len(logFile) /\ synced \in Int
        BY <2>1, <1>1, Resting, LogFacts
    <2>3. pos \in Nat \ {0} BY <1>1 DEF TypeInv, InProgress
    <2>4. pos \in 1 .. synced - 1 BY <2>1, <2>2, <2>3
    <2>5. Log[pos].op = "torn" BY <2>1, <2>2
    <2>6. Broken BY <2>4, <2>5 DEF Broken
    <2>. QED BY <2>6, <1>1
<1>3. CASE Exit \/ Crash
    <2>1. phase # "off" /\ phase' = "off" /\ Interrupted /\ UNCHANGED <<mem, disk>>
        BY <1>3 DEF Exit, Crash
    <2>2. PICK n \in Nat : CutTo(n) BY <1>1, <1>3, CutByEnd
    <2>. QED BY <2>1, <2>2, ShellStops
<1>. QED
    BY <1>1, <1>2, <1>3, ShellStart, ShellReplay, ShellEnd, ShellLogs, ShellBuffers,
       ShellApplies, ShellCloses, ShellClears
    DEF Step, Recovery, Command, Closing
------------------------------------------------------------------------------
(***************************************************************************)
(* Both programs.                                                          *)
(***************************************************************************)
\* A new database has nothing to recover.
LEMMA RecoveryInit == Init => RecoveryInv
<1>1. SUFFICES ASSUME Init PROVE RecoveryInv OBVIOUS
<1>2. /\ logFile = <<>> /\ logBuffer = <<>> /\ phase = "off" /\ synced = 0 /\ pc = "idle"
    BY <1>1 DEF Init
<1>3. Len(logFile) = 0 BY <1>2
<1>4. Plain BY <1>2, <1>3 DEF Plain, Serving
<1>. QED BY <1>1, <1>4, InitType, TracedInit, ShellInit DEF RecoveryInv

\* A step that changes nothing.
LEMMA RecoveryStutter == ASSUME RecoveryInv, UNCHANGED vars, TypeInv' PROVE RecoveryInv'
<1>1. TypeInv /\ Plain BY DEF RecoveryInv
<1>2. /\ UNCHANGED <<program, faults, phase, pc, request, mem, disk, synced, unflushed_ops>>
      /\ UNCHANGED <<pos, recent, doubtful, logFile, logBuffer>>
    BY DEF vars, setup, log, history
<1>3. Log' = Log /\ Total' = Total BY <1>2, LogSame
<1>4. Serving' = Serving /\ Done' = Done /\ SyncedAtOnce' = SyncedAtOnce
    BY <1>2, <1>3 DEF Serving, Done, SyncedAtOnce
<1>5. Plain' BY <1>1, <1>2, <1>3, <1>4 DEF Plain
<1>6. Broken => Broken' BY <1>2, <1>3 DEF Broken
<1>7. ASSUME NEW t, TraceOK(t) PROVE TraceOK(t)'
    BY <1>2, <1>3, <1>4, <1>7 DEF TraceOK, Intact, Known
<1>8. ASSUME NEW G, NEW n, NEW k, NEW c PROVE KeyOK(G, n, k, c)' <=> KeyOK(G, n, k, c)
    BY <1>2, <1>3 DEF KeyOK
<1>9. ASSUME NEW n PROVE Pending(n)' <=> Pending(n)
    BY <1>2, <1>3 DEF Pending, Logged
<1>10. ASSUME ShellOK PROVE ShellOK'
    <2>1. CASE phase \in {"off", "recovering"}
        <3>1. PICK m \in Range(recent) \cup doubtful : Settled(Total, m)
            BY <1>10, <2>1 DEF ShellOK
        <3>2. PICK n : n = Total OBVIOUS
        <3>3. Settled(n, m)' BY <3>1, <3>2, <1>8 DEF Settled
        <3>4. Settled(Total, m)' BY <3>2, <3>3, <1>3 DEF Settled
        <3>. QED BY <3>1, <3>4, <2>1, <1>2 DEF ShellOK
    <2>2. CASE phase \notin {"off", "recovering"}
        <3>1. PICK n \in Int : Pending(n) /\ Settled(n, mem)
            BY <1>10, <2>2 DEF ShellOK
        <3>2. PICK m : m = mem OBVIOUS
        <3>3. Settled(n, m)' BY <3>1, <3>2, <1>8 DEF Settled
        <3>4. Settled(n, mem)' BY <3>2, <3>3, <1>2 DEF Settled
        <3>5. Pending(n)' BY <3>1, <1>9
        <3>. QED BY <3>4, <3>5, <1>2, <1>10, <2>2 DEF ShellOK
    <2>. QED BY <2>1, <2>2
<1>. QED BY <1>2, <1>4, <1>5, <1>6, <1>7, <1>10 DEF RecoveryInv

\* RecoveryInv is inductive.
LEMMA RecoveryStep == RecoveryInv /\ [Next]_vars => RecoveryInv'
<1>1. SUFFICES ASSUME RecoveryInv, [Next]_vars PROVE RecoveryInv' OBVIOUS
<1>2. TypeInv /\ Plain /\ TypeInv' BY <1>1, StepType DEF RecoveryInv
<1>3. CASE UNCHANGED vars BY <1>1, <1>2, <1>3, RecoveryStutter
<1>4. CASE Next
    <2>1. Step /\ UNCHANGED setup BY <1>4 DEF Next
    <2>2. Plain' BY <2>1, <1>2, PlainStep
    <2>3. faults' = faults /\ (SyncedAtOnce' <=> SyncedAtOnce)
        BY <2>1 DEF setup, SyncedAtOnce
    <2>4. ASSUME "flushed" \notin faults PROVE phase' = "flushed" \/ \E t : TraceOK(t)'
        <3>1. CASE phase = "flushed" BY <3>1, <2>1, <2>4, <1>2, FlushedStep
        <3>2. CASE phase # "flushed"
            <4>1. PICK t : TraceOK(t) BY <3>2, <2>4, <1>1 DEF RecoveryInv
            <4>2. Traced(t) BY <4>1, <3>2, <2>1, <2>4, <1>2 DEF Traced
            <4>. QED BY <4>2, <2>1, TracedStep
        <3>. QED BY <3>1, <3>2
    <2>5. ASSUME SyncedAtOnce PROVE Broken' \/ ShellOK'
        <3>1. CASE ClearLog BY <3>1, <2>5, <1>2, ShellClears DEF SyncedAtOnce
        <3>2. CASE ~ClearLog /\ Broken BY <3>2, <2>1, <1>2, BrokenStep
        <3>3. CASE ~Broken
            <4>1. Shell BY <3>3, <2>1, <2>5, <1>1, <1>2 DEF Shell, RecoveryInv
            <4>. QED BY <4>1, <2>1, ShellStep
        <3>. QED BY <3>1, <3>2, <3>3
    <2>. QED BY <2>2, <2>3, <2>4, <2>5, <1>2 DEF RecoveryInv
<1>. QED BY <1>1, <1>3, <1>4

\* A server dies at no point of the shutdown after the flush, nor does a shell that may have
\* been killed before.
NoLateCrash ==
    /\ \A f \in ServerFaults : "flushed" \notin f
    /\ \A f \in ShellFaults : ~({"kill", "flushed"} \subseteq f)

\* The step in which a recovery ends.
LEMMA RecoveredStep ==
    ASSUME NoLateCrash
    PROVE  RecoveryInv /\ [Next]_vars /\ Recovered /\ ~WroteAfterTorn =>
             mem \in Range(recent) \cup doubtful
<1>1. SUFFICES ASSUME RecoveryInv, [Next]_vars, Recovered, ~WroteAfterTorn
               PROVE  mem \in Range(recent) \cup doubtful
    OBVIOUS
<1>2. phase = "recovering" /\ phase' = "serving" BY <1>1 DEF Recovered
<1>3. Step /\ UNCHANGED setup BY <1>1, <1>2 DEF Next, vars
<1>4. EndRecovery
    BY <1>2, <1>3
    DEF Step, Recovery, Command, Closing, Start, Replay, Misread, RecoveryRaises, WriteBuffer,
        SyncLog, ApplyRequest, Shutdown, FlushAll, ClearLog, Exit, Crash, LogRequest
<1>5. TypeInv /\ Plain BY <1>1 DEF RecoveryInv
<1>6. Log = logFile /\ Total = Len(logFile) BY <1>2, <1>5, Resting
<1>7. CASE "flushed" \notin faults
    <2>1. PICK t : TraceOK(t) BY <1>1, <1>2, <1>7 DEF RecoveryInv
    <2>2. Traced(t) BY <2>1, <1>2, <1>3, <1>5, <1>7 DEF Traced
    <2>3. Intact(Total) BY <1>1, <1>6 DEF Intact, WroteAfterTorn
    <2>. QED BY <2>2, <2>3, <1>4, TracedRecovered
<1>8. CASE "flushed" \in faults
    <2>1. SyncedAtOnce BY <1>5, <1>8, Types DEF NoLateCrash, SyncedAtOnce
    <2>2. ~Broken
        <3>1. synced = Total BY <2>1, <1>2, <1>5, Resting
        <3>. QED BY <3>1, <1>1, <1>6 DEF Broken, WroteAfterTorn
    <2>3. Shell BY <2>1, <2>2, <1>1, <1>3, <1>5 DEF Shell, RecoveryInv
    <2>. QED BY <2>3, <1>4, ShellRecovered
<1>. QED BY <1>7, <1>8

\* RecoversRecent: as long as nothing is logged behind a torn record, recover() ends with the
\* contents at the last fsync, with those after one of the requests answered since, or with
\* what an interrupted command would have left.  This supposes that no crash hits the server,
\* nor a shell that may be killed too, between the flush of the pages and the clear of the log;
\* and the model, that none comes between two page writes, that no page is evicted and that
\* the tree does in every replay what a map does.
THEOREM RecentIsRecovered == ASSUME NoLateCrash PROVE Spec => RecoversRecent
<1>1. RecoveryInv /\ [Next]_vars => RecoveryInv' BY RecoveryStep
<1>2. RecoveryInv /\ [Next]_vars =>
        [Recovered /\ ~WroteAfterTorn => mem \in Range(recent) \cup doubtful]_vars
    BY RecoveredStep
<1>. QED BY <1>1, <1>2, RecoveryInit, PTL DEF Spec, RecoversRecent
==============================================================================
