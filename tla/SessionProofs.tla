---------------------------- MODULE SessionProofs ----------------------------
(***************************************************************************)
(* The safety of the sessions, for every number of clients, connections    *)
(* and commands and every size of the buffers: a caller gets the reply to  *)
(* its own command, if the client was never used without a connect() that  *)
(* succeeded (and, in JavaScript, has no promise nobody will answer), and  *)
(* a command that a Python caller was told is lost was not executed.       *)
(*                                                                         *)
(* Nothing on the wire connects a reply with a command, so the invariant   *)
(* follows each command along its connection, from the inbox to the thread *)
(* to the outbox.  A Python client has at most one on the way; what a      *)
(* JavaScript client waits for is the outbox followed by what the thread   *)
(* and the inbox hold, until the server closes the connection.             *)
(***************************************************************************)
EXTENDS Session, SequenceTheorems, WellFoundedInduction, TLAPS

Kinds == {"welcome", "auth", "command", "empty", "exit"}
Calls == {"command", "empty", "exit"}
Msgs  == [kind : Kinds, num : Nat]
Runs  == [client : Clients, num : Nat]

\* A thread that has taken a command from its inbox and not answered it.
Answering == {"lock", "send", "sendError"}

TypeInv ==
    /\ owner \in [Conns -> Clients \cup {"nobody"}]
    /\ inbox \in [Conns -> Seq(Msgs)] /\ outbox \in [Conns -> Seq(Msgs)]
    /\ closedBy \in [Conns -> SUBSET {"client", "server"}]
    /\ thread \in [Conns -> {"none", "recv"} \cup Answering]
    /\ command \in [Conns -> Msgs]
    /\ loggedIn \in [Conns -> BOOLEAN]
    /\ db_lock \in Conns \cup {0}
    /\ conn \in [Clients -> Conns \cup {0}]
    /\ buffer \in [Clients -> Seq(Msgs)]
    /\ ready \in SUBSET Clients
    /\ waiting \in [Clients -> Seq(Msgs)]
    /\ sent \in [Clients -> Nat]
    /\ misled \in SUBSET Clients /\ spoiled \in SUBSET Clients
    /\ lost \in SUBSET Runs /\ executed \in SUBSET Runs

\* The server's end of a connection: closed only after its thread has ended, and then
\* nothing is left unread.
LinkOK(n) ==
    /\ owner[n] = "nobody" =>
         /\ thread[n] = "none" /\ command[n] = Welcome
         /\ inbox[n] = <<>> /\ outbox[n] = <<>> /\ closedBy[n] = {}
    /\ "server" \in closedBy[n] => thread[n] = "none" /\ inbox[n] = <<>>
    /\ thread[n] = "lock" => command[n].kind = "command"

\* The lock is held to send the reply to a command, and by nobody else.
LockOK ==
    db_lock # 0 => /\ thread[db_lock] \in {"send", "sendError"}
                   /\ command[db_lock].kind = "command"

\* A client uses a connection of its own that it has not closed.
ConnOK(c) ==
    /\ conn[c] # 0 => owner[conn[c]] = c /\ "client" \notin closedBy[conn[c]]
    /\ c \in ready => conn[c] # 0

\* Command k of client c.
Of(c, k) == [client |-> c, num |-> k]

\* The server may still run x, a command that came on connection n.
Pending(n, x) ==
    /\ x.kind = "command"
    /\ \/ thread[n] = "lock" /\ command[n] = x
       \/ \E i \in DOMAIN inbox[n] : inbox[n][i] = x

\* The reply to the last command of c is on its way, if that was executed, or another
\* one in its place.
Replied(c) ==
    \/ buffer[c] # <<>> \/ outbox[conn[c]] # <<>>
    \/ thread[conn[c]] \in {"send", "sendError"}

\* The call in progress is connect(), or an execute() of the last command, which was
\* sent on the connection in use.
InCall(c, m) ==
    /\ waiting[c] = <<m>> /\ conn[c] # 0
    /\ m \notin {Welcome, Login} =>
         /\ m.num = sent[c] /\ sent[c] # 0 /\ Of(c, sent[c]) \notin lost
         /\ Of(c, sent[c]) \in executed => Replied(c)
         /\ \A n \in Conns, x \in Msgs :
              owner[n] = c /\ n # conn[c] /\ Pending(n, x) => x.num # sent[c]

\* What is lost, executed or still to be executed of the commands of a Python client.
LostOK(c) ==
    /\ \A k \in Nat :
         /\ Of(c, k) \in lost => k <= sent[c]
         /\ Of(c, k) \in executed => k # 0 /\ k <= sent[c] /\ Of(c, k) \notin lost
    /\ \A n \in Conns, x \in Msgs :
         owner[n] = c /\ Pending(n, x) =>
           x.num # 0 /\ x.num <= sent[c] /\ Of(c, x.num) \notin lost
    /\ waiting[c] = <<>> \/ \E m \in Msgs : InCall(c, m)

\* Nothing is on the way on connection n.
Idle(n) == inbox[n] = <<>> /\ thread[n] \notin Answering /\ outbox[n] = <<>>

\* Message m is the only one on the way on connection n: unread, with the thread, or
\* answered.
At(n, m) ==
    \/ inbox[n] = <<m>> /\ thread[n] \notin Answering /\ outbox[n] = <<>>
    \/ inbox[n] = <<>> /\ thread[n] \in Answering /\ command[n] = m /\ outbox[n] = <<>>
    \/ inbox[n] = <<>> /\ thread[n] \notin Answering /\ outbox[n] = <<m>>

\* A Python client waits for message m only, which is the only one on its way, if it is
\* not gone already.
Waits(c, m) ==
    LET n == conn[c] IN
    /\ waiting[c] = <<m>> /\ n # 0
    /\ Idle(n) \/ At(n, m)
    /\ c \notin ready => m \in {Welcome, Login}
    /\ c \in ready => m.kind \in Calls

\* A Python client waits for nothing, and nothing is on the way but what a login that
\* timed out has left.
Rests(c) ==
    LET n == conn[c] IN
    /\ waiting[c] = <<>>
    /\ n # 0 => Idle(n) \/ (c \notin ready /\ (At(n, Welcome) \/ At(n, Login)))

\* A Python client that is used as it should be never receives more than it waits for.
PythonOK(c) ==
    /\ buffer[c] = <<>>
    /\ Rests(c) \/ \E m \in Msgs : Waits(c, m)

\* What the server has received on connection n and not answered.
Unanswered(n) == IF thread[n] \in Answering THEN <<command[n]>> \o inbox[n] ELSE inbox[n]

\* The replies come in the order of the promises; `rest' are the promises without one.
Queued(c, rest) ==
    LET n == conn[c] IN
    /\ waiting[c] = outbox[n] \o rest
    /\ "server" \notin closedBy[n] => rest = Unanswered(n)
    /\ \A i \in DOMAIN rest : rest[i].kind # "empty"

JSOK(c) ==
    /\ conn[c] = 0 => waiting[c] = <<>>
    /\ conn[c] # 0 => \E rest \in Seq(Msgs) : Queued(c, rest)

ClientOK(c) ==
    /\ ConnOK(c)
    /\ c \in PythonClients => LostOK(c)
    /\ c \in PythonClients \ spoiled => PythonOK(c)
    /\ c \in JSClients \ spoiled => JSOK(c)
    /\ c \in JSClients => \A k \in Nat : Of(c, k) \notin lost
    /\ c \in misled => c \in spoiled

Inv ==
    /\ TypeInv /\ LockOK
    /\ \A n \in Conns : LinkOK(n)
    /\ \A c \in Clients : ClientOK(c)
------------------------------------------------------------------------------
(***************************************************************************)
(* Sequences.                                                              *)
(***************************************************************************)
\* A sequence of one message.
LEMMA One ==
    ASSUME NEW S, NEW m \in S
    PROVE  /\ <<m>> \in Seq(S) /\ <<m>> # <<>> /\ Head(<<m>>) = m /\ Tail(<<m>>) = <<>>
           /\ Append(<<>>, m) = <<m>> /\ <<>> \in Seq(S)
OBVIOUS

\* A message is not nothing.
LEMMA OneNotEmpty == \A m : <<m>> # <<>>
OBVIOUS

\* The only entry of a sequence of one.
LEMMA OneEntry ==
    ASSUME NEW m
    PROVE  DOMAIN <<m>> = {1} /\ <<m>>[1] = m
OBVIOUS

\* What Append adds and what it keeps.
LEMMA AppendType ==
    ASSUME NEW S, NEW q \in Seq(S), NEW m \in S
    PROVE  /\ Append(q, m) \in Seq(S) /\ Append(q, m) # <<>>
           /\ DOMAIN Append(q, m) = DOMAIN q \cup {Len(q) + 1}
           /\ \A i \in DOMAIN q : Append(q, m)[i] = q[i]
           /\ Append(q, m)[Len(q) + 1] = m
OBVIOUS

\* What Head and Tail take from a sequence.
LEMMA TailType ==
    ASSUME NEW S, NEW q \in Seq(S), q # <<>>
    PROVE  /\ Tail(q) \in Seq(S) /\ Head(q) \in S
           /\ \A i \in DOMAIN Tail(q) : i + 1 \in DOMAIN q /\ Tail(q)[i] = q[i + 1]
           /\ 1 \in DOMAIN q /\ q[1] = Head(q)
OBVIOUS

\* Head and Tail together.
LEMMA HeadTail ==
    ASSUME NEW S, NEW q \in Seq(S), q # <<>>
    PROVE  <<Head(q)>> \o Tail(q) = q
OBVIOUS

\* Two sequences one after the other are one.
LEMMA ConcatType ==
    ASSUME NEW S, NEW o \in Seq(S), NEW r \in Seq(S)
    PROVE  o \o r \in Seq(S)
OBVIOUS

\* A message moves from the second sequence to the first; one is added to the second.
LEMMA ConcatAppend ==
    ASSUME NEW S, NEW o \in Seq(S), NEW r \in Seq(S), NEW m \in S
    PROVE  /\ Append(o, m) \o r = o \o (<<m>> \o r)
           /\ Append(o \o r, m) = o \o Append(r, m)
<1>1. <<m>> \in Seq(S) /\ Append(o, m) = o \o <<m>> OBVIOUS
<1>2. Append(r, m) = r \o <<m>> /\ Append(o \o r, m) = (o \o r) \o <<m>>
    BY ConcatType, AppendIsConcat
<1>3. Append(o, m) \o r = o \o (<<m>> \o r) BY <1>1, ConcatAssociative
<1>4. Append(o \o r, m) = o \o Append(r, m) BY <1>1, <1>2, ConcatAssociative
<1>. QED BY <1>3, <1>4

\* Append and \o, as operators whose uses the provers recognise.
Longer(q, m) == Append(q, m)
Joined(o, r) == o \o r

\* The same of the operators above.
LEMMA LongerMoves ==
    ASSUME NEW S, NEW o \in Seq(S), NEW r \in Seq(S), NEW m \in S
    PROVE  Longer(Joined(o, r), m) = Joined(o, Longer(r, m))
BY ConcatAppend DEF Longer, Joined

\* The entries behind a first one.
LEMMA ConcatOne ==
    ASSUME NEW S, NEW m \in S, NEW r \in Seq(S)
    PROVE  \A i \in DOMAIN r : i + 1 \in DOMAIN (<<m>> \o r) /\ (<<m>> \o r)[i + 1] = r[i]
OBVIOUS

\* The first of two sequences is read first.
LEMMA ConcatTail ==
    ASSUME NEW S, NEW o \in Seq(S), NEW r \in Seq(S), o # <<>>
    PROVE  /\ o \o r # <<>> /\ Head(o \o r) = Head(o) /\ Tail(o \o r) = Tail(o) \o r
OBVIOUS
\* What one recv() brings, and what it leaves.
LEMMA Received ==
    ASSUME NEW S, NEW b \in Seq(S), NEW q \in Seq(S), NEW k \in 0..Len(q),
           (k = 0) <=> (b # <<>>)
    PROVE  /\ b \o SubSeq(q, 1, k) \in Seq(S) /\ b \o SubSeq(q, 1, k) # <<>>
           /\ Tail(b \o SubSeq(q, 1, k)) \in Seq(S)
           /\ SubSeq(q, k + 1, Len(q)) \in Seq(S)
<1>1. PICK t : t = SubSeq(q, 1, k) OBVIOUS
<1>2. t \in Seq(S) /\ Len(t) = k
    BY <1>1
<1>3. SubSeq(q, k + 1, Len(q)) \in Seq(S) OBVIOUS
<1>4. b \o t \in Seq(S) /\ Len(b \o t) = Len(b) + Len(t) BY <1>2
<1>5. Len(b \o t) # 0
    <2>1. CASE k = 0
        <3>1. Len(b) # 0 BY <2>1, EmptySeq
        <3>. QED BY <1>2, <1>4, <3>1
    <2>2. CASE k # 0 BY <1>2, <1>4, <2>2
    <2>. QED BY <2>1, <2>2
<1>6. b \o t # <<>>
    <2>1. Len(<<>>) = 0 OBVIOUS
    <2>. QED BY <1>5, <2>1
<1>7. Tail(b \o t) \in Seq(S) BY <1>4, <1>6
<1>. QED BY <1>1, <1>3, <1>4, <1>6, <1>7

\* With an empty buffer and one reply on the connection, that reply is received.
LEMMA OneReceived ==
    ASSUME NEW S, NEW m \in S, NEW k \in 0..Len(<<m>>), k # 0
    PROVE  /\ k = 1 /\ <<>> \o SubSeq(<<m>>, 1, k) = <<m>>
           /\ SubSeq(<<m>>, k + 1, Len(<<m>>)) = <<>>
<1>1. k = 1 OBVIOUS
<1>2. SubSeq(<<m>>, 1, 1) = <<m>>
    <2>1. <<m>> \in Seq(S) /\ Len(<<m>>) = 1 BY One
    <2>. QED BY <2>1, SubSeqFull
<1>3. SubSeq(<<m>>, 2, 1) = <<>> OBVIOUS
<1>4. <<>> \o <<m>> = <<m>> BY ConcatEmptySeq, One
<1>. QED BY <1>1, <1>2, <1>3, <1>4

------------------------------------------------------------------------------
(***************************************************************************)
(* The connection that connect() opens.                                    *)
(***************************************************************************)
\* Every set of naturals has a least element.
LEMMA LeastNatural ==
    ASSUME NEW S \in SUBSET Nat, S # {}
    PROVE  \E n \in S : \A m \in S : n <= m
<1>1. PICK n \in S : \A m \in S : ~ (<<m, n>> \in OpToRel(<, Nat))
    BY NatLessThanWellFounded, WFMin
<1>2. \A m \in S : ~(m < n) BY <1>1 DEF OpToRel
<1>. QED BY <1>2

\* Min finds it.
LEMMA MinIn ==
    ASSUME NEW S \in SUBSET Nat, S # {}
    PROVE  Min(S) \in S
BY LeastNatural DEF Min

\* Connect takes a connection nobody has opened.
LEMMA FreshConnection ==
    ASSUME NEW c \in Clients, Connect(c)
    PROVE  LET n == Min({m \in Conns : owner[m] = "nobody"})
           IN  n \in Conns /\ owner[n] = "nobody"
<1>. DEFINE S == {m \in Conns : owner[m] = "nobody"}
<1>1. S # {} BY DEF Connect
<1>2. S \in SUBSET Nat BY DEF Conns
<1>3. Min(S) \in S BY <1>1, <1>2, MinIn
<1>. QED BY <1>3
------------------------------------------------------------------------------
(***************************************************************************)
(* The types.                                                              *)
(***************************************************************************)
\* The messages and their kinds.
LEMMA MessageTypes ==
    /\ Welcome \in Msgs /\ Login \in Msgs /\ Goodbye \in Msgs
    /\ \A k \in Nat, x \in Calls : Msg(x, k) \in Msgs
    /\ Welcome # Login
    /\ Welcome.kind = "welcome" /\ Login.kind = "auth" /\ Goodbye.kind = "exit"
    /\ Welcome.num = 0 /\ Login.num = 0
BY DEF Welcome, Login, Goodbye, Msg, Msgs, Kinds, Calls

\* The types hold at first.
LEMMA InitTypes == Init => TypeInv
<1>1. SUFFICES ASSUME Init PROVE TypeInv OBVIOUS
<1>2. Welcome \in Msgs BY MessageTypes
<1>3. \A S : <<>> \in Seq(S) BY EmptySeq
<1>. QED BY <1>1, <1>2, <1>3 DEF Init, TypeInv, Answering

\* The types after the end of a thread, whoever closes the connection.
LEMMA EndThreadTypes ==
    ASSUME TypeInv, NEW n \in Conns, EndThread(n) \/ Leave(n)
    PROVE  /\ thread' \in [Conns -> {"none", "recv"} \cup Answering]
           /\ command' \in [Conns -> Msgs] /\ loggedIn' \in [Conns -> BOOLEAN]
           /\ inbox' \in [Conns -> Seq(Msgs)]
           /\ closedBy' \in [Conns -> SUBSET {"client", "server"}]
           /\ db_lock' \in Conns \cup {0}
<1>1. <<>> \in Seq(Msgs) BY EmptySeq
<1>2. Welcome \in Msgs BY MessageTypes
<1>3. CASE EndThread(n)
    <2>1. /\ thread' \in [Conns -> {"none", "recv"} \cup Answering]
          /\ loggedIn' \in [Conns -> BOOLEAN] /\ db_lock' \in Conns \cup {0}
        BY <1>3 DEF EndThread, TypeInv
    <2>2. command' \in [Conns -> Msgs] /\ inbox' \in [Conns -> Seq(Msgs)]
        BY <1>1, <1>2, <1>3 DEF EndThread, TypeInv
    <2>3. closedBy' \in [Conns -> SUBSET {"client", "server"}]
        BY <1>3 DEF EndThread, TypeInv
    <2>. QED BY <2>1, <2>2, <2>3
<1>4. CASE Leave(n) /\ ~ EndThread(n)
    <2>1. /\ thread' = [thread EXCEPT ![n] = "none"]
          /\ command' = [command EXCEPT ![n] = Welcome]
          /\ loggedIn' = [loggedIn EXCEPT ![n] = FALSE]
          /\ UNCHANGED <<inbox, closedBy, db_lock>>
        BY <1>4 DEF Leave
    <2>2. thread' \in [Conns -> {"none", "recv"} \cup Answering]
        BY <2>1 DEF TypeInv
    <2>3. command' \in [Conns -> Msgs] /\ loggedIn' \in [Conns -> BOOLEAN]
        BY <1>2, <2>1 DEF TypeInv
    <2>. QED BY <2>1, <2>2, <2>3 DEF TypeInv
<1>. QED BY <1>3, <1>4

\* The types after a message of a client.
LEMMA SendToTypes ==
    ASSUME TypeInv, NEW n \in Conns, NEW m \in Msgs, SendTo(n, m)
    PROVE  inbox' \in [Conns -> Seq(Msgs)]
BY AppendType DEF SendTo, TypeInv

\* The types after a client closed its connection.
LEMMA HangUpTypes ==
    ASSUME TypeInv, NEW c \in Clients, conn[c] # 0, HangUp(c)
    PROVE  /\ inbox' \in [Conns -> Seq(Msgs)] /\ outbox' \in [Conns -> Seq(Msgs)]
           /\ closedBy' \in [Conns -> SUBSET {"client", "server"}]
           /\ conn' \in [Clients -> Conns \cup {0}]
           /\ buffer' \in [Clients -> Seq(Msgs)] /\ ready' \in SUBSET Clients
<1>1. <<>> \in Seq(Msgs) BY EmptySeq
<1>2. PICK n \in Conns : n = conn[c] BY DEF TypeInv
<1>3. inbox' \in [Conns -> Seq(Msgs)] BY <1>2, SendToTypes, MessageTypes DEF HangUp
<1>4. outbox' \in [Conns -> Seq(Msgs)] /\ buffer' \in [Clients -> Seq(Msgs)]
    BY <1>1 DEF HangUp, TypeInv
<1>5. closedBy' \in [Conns -> SUBSET {"client", "server"}]
    <2>1. closedBy[n] \cup {"client"} \in SUBSET {"client", "server"} BY DEF TypeInv
    <2>. QED BY <1>2, <2>1 DEF HangUp, TypeInv
<1>6. conn' \in [Clients -> Conns \cup {0}] /\ ready' \in SUBSET Clients
    BY DEF HangUp, TypeInv
<1>. QED BY <1>3, <1>4, <1>5, <1>6

\* The types after a step of a thread.
LEMMA ThreadTypes ==
    ASSUME TypeInv, NEW n \in Conns, LinkOK(n), Thread(n)
    PROVE  TypeInv'
<1>1. CASE Receive(n)
    <2>1. Tail(inbox[n]) \in Seq(Msgs) /\ Head(inbox[n]) \in Msgs
        BY <1>1, TailType DEF Receive, TypeInv
    <2>2. inbox' \in [Conns -> Seq(Msgs)] BY <1>1, <2>1 DEF Receive, TypeInv
    <2>3. command' \in [Conns -> Msgs] BY <1>1, <2>1 DEF Receive, TypeInv
    <2>4. thread' \in [Conns -> {"none", "recv"} \cup Answering]
        BY <1>1 DEF Receive, TypeInv, Answering
    <2>5. loggedIn' \in [Conns -> BOOLEAN] BY <1>1, Zenon DEF Receive, TypeInv
    <2>. QED BY <1>1, <2>2, <2>3, <2>4, <2>5 DEF Receive, TypeInv, drivers, history
<1>2. CASE RunLocked(n)
    <2>1. owner[n] \in Clients /\ command[n].num \in Nat
        BY <1>2 DEF RunLocked, LinkOK, TypeInv, Msgs
    <2>2. executed' \in SUBSET Runs BY <1>2, <2>1 DEF RunLocked, TypeInv, Runs
    <2>3. thread' \in [Conns -> {"none", "recv"} \cup Answering]
        BY <1>2 DEF RunLocked, TypeInv, Answering
    <2>4. db_lock' \in Conns \cup {0} BY <1>2 DEF RunLocked
    <2>. QED BY <1>2, <2>2, <2>3, <2>4 DEF RunLocked, TypeInv, drivers, network
<1>3. CASE Send(n)
    <2>1. outbox' \in [Conns -> Seq(Msgs)]
        <3>1. Append(outbox[n], command[n]) \in Seq(Msgs) BY AppendType DEF TypeInv
        <3>. QED BY <1>3, <3>1 DEF Send, TypeInv
    <2>2. Welcome \in Msgs BY MessageTypes
    <2>3. CASE command[n].kind = "exit"
        BY <1>3, <2>1, <2>3, EndThreadTypes DEF Send, TypeInv, drivers, history
    <2>4. CASE command[n].kind # "exit"
        <3>1. thread' \in [Conns -> {"none", "recv"} \cup Answering]
            BY <1>3, <2>4 DEF Send, TypeInv
        <3>2. command' \in [Conns -> Msgs] BY <1>3, <2>2, <2>4 DEF Send, TypeInv
        <3>3. db_lock' \in Conns \cup {0} BY <1>3, <2>4 DEF Send, TypeInv
        <3>. QED BY <1>3, <2>1, <2>4, <3>1, <3>2, <3>3 DEF Send, TypeInv, drivers, history
    <2>. QED BY <2>3, <2>4
<1>4. CASE SendFails(n)
    <2>1. CASE thread[n] = "send" /\ db_lock = n
        <3>1. thread' = [thread EXCEPT ![n] = "sendError"] /\ "sendError" \in Answering
            BY <1>4, <2>1 DEF SendFails, Answering
        <3>2. thread' \in [Conns -> {"none", "recv"} \cup Answering]
            BY <3>1 DEF TypeInv
        <3>. QED BY <1>4, <2>1, <3>2 DEF SendFails, TypeInv, drivers, history
    <2>2. CASE ~ (thread[n] = "send" /\ db_lock = n)
        BY <1>4, <2>2, EndThreadTypes DEF SendFails, TypeInv, drivers, history
    <2>. QED BY <2>1, <2>2
<1>5. CASE IdleTimeout(n)
    BY <1>5, EndThreadTypes DEF IdleTimeout, TypeInv, drivers, history
<1>. QED BY <1>1, <1>2, <1>3, <1>4, <1>5 DEF Thread

\* What the calls of the Python driver take, in a form without LET.
Taken(c, k) == buffer[c] \o SubSeq(outbox[conn[c]], 1, k)
Kept(c, k)  == SubSeq(outbox[conn[c]], k + 1, Len(outbox[conn[c]]))

\* A call takes one reply.
LEMMA PythonTakes ==
    ASSUME NEW c \in PythonClients, PythonRead(c)
    PROVE  /\ conn[c] # 0 /\ waiting[c] # <<>>
           /\ UNCHANGED <<owner, threads, sent, lost, executed, spoiled>>
           /\ \E k \in 0..Len(outbox[conn[c]]) :
                /\ (k = 0) <=> (buffer[c] # <<>>)
                /\ Told(c, Head(Taken(c, k)))
                /\ Took(c, Head(Taken(c, k)), Kept(c, k), Tail(Taken(c, k)))
BY DEF PythonRead, Taken, Kept

\* The types after a Python client has read a reply.
LEMMA PythonReadTypes ==
    ASSUME TypeInv, NEW c \in PythonClients, PythonRead(c)
    PROVE  TypeInv'
<1>0. c \in Clients BY DEF Clients
<1>1. PICK n \in Conns : n = conn[c] BY <1>0, PythonTakes DEF TypeInv
<1>2. PICK k \in 0..Len(outbox[n]) :
        /\ (k = 0) <=> (buffer[c] # <<>>)
        /\ Told(c, Head(Taken(c, k)))
        /\ Took(c, Head(Taken(c, k)), Kept(c, k), Tail(Taken(c, k)))
    BY <1>1, PythonTakes
<1>3. PICK t \in Seq(Msgs) : t = Tail(Taken(c, k))
    <2>1. buffer[c] \in Seq(Msgs) /\ outbox[n] \in Seq(Msgs) BY <1>0 DEF TypeInv
    <2>. QED BY <1>1, <1>2, <2>1, Received DEF Taken
<1>4. PICK q \in Seq(Msgs) : q = Kept(c, k)
    <2>1. buffer[c] \in Seq(Msgs) /\ outbox[n] \in Seq(Msgs) BY <1>0 DEF TypeInv
    <2>. QED BY <1>1, <1>2, <2>1, Received DEF Kept
<1>5. PICK reply : reply = Head(Taken(c, k)) OBVIOUS
<1>6. Told(c, reply) /\ Took(c, reply, q, t) /\ conn[c] # 0 /\ waiting[c] # <<>>
    BY <1>2, <1>3, <1>4, <1>5, PythonTakes
<1>7. misled' \in SUBSET Clients BY <1>0, <1>6 DEF Told, TypeInv
<1>8. waiting' \in [Clients -> Seq(Msgs)]
    <2>1. <<>> \in Seq(Msgs) /\ <<Login>> \in Seq(Msgs) BY MessageTypes, One
    <2>2. waiting' = [waiting EXCEPT ![c] = <<>>] \/ waiting' = [waiting EXCEPT ![c] = <<Login>>]
        BY <1>6 DEF Took
    <2>. QED BY <2>1, <2>2 DEF TypeInv
<1>9. CASE HangUp(c)
    BY <1>0, <1>6, <1>7, <1>8, <1>9, HangUpTypes, PythonTakes DEF TypeInv, threads
<1>10. CASE /\ outbox' = [outbox EXCEPT ![n] = q] /\ buffer' = [buffer EXCEPT ![c] = t]
            /\ UNCHANGED <<closedBy, conn>>
    <2>1. inbox' \in [Conns -> Seq(Msgs)] /\ ready' \in SUBSET Clients
        <3>1. (SendTo(n, Login) /\ ready' = ready)
                \/ (inbox' = inbox /\ (ready' = ready \/ ready' = ready \cup {c}))
              \/ HangUp(c)
            BY <1>1, <1>6 DEF Took
        <3>2. CASE SendTo(n, Login) /\ ready' = ready
            BY <3>2, MessageTypes, SendToTypes DEF TypeInv
        <3>3. CASE inbox' = inbox /\ (ready' = ready \/ ready' = ready \cup {c})
            BY <1>0, <3>3 DEF TypeInv
        <3>4. CASE HangUp(c) BY <1>0, <1>6, <3>4, HangUpTypes
        <3>. QED BY <3>1, <3>2, <3>3, <3>4
    <2>2. /\ outbox' \in [Conns -> Seq(Msgs)] /\ buffer' \in [Clients -> Seq(Msgs)]
          /\ UNCHANGED <<closedBy, conn>>
        BY <1>3, <1>4, <1>10 DEF TypeInv
    <2>. QED BY <1>7, <1>8, <2>1, <2>2, PythonTakes DEF TypeInv, threads
<1>. QED BY <1>1, <1>6, <1>9, <1>10 DEF Took

\* The types after connect().
LEMMA ConnectTypes ==
    ASSUME TypeInv, NEW c \in Clients, Connect(c)
    PROVE  TypeInv'
<1>1. PICK n : n = Min({m \in Conns : owner[m] = "nobody"}) OBVIOUS
<1>2. n \in Conns BY <1>1, FreshConnection
<1>3. Append(waiting[c], Welcome) \in Seq(Msgs) BY AppendType, MessageTypes DEF TypeInv
<1>4. /\ owner' \in [Conns -> Clients \cup {"nobody"}]
      /\ conn' \in [Clients -> Conns \cup {0}]
      /\ ready' \in SUBSET Clients
    BY <1>1, <1>2 DEF Connect, TypeInv
<1>5. thread' \in [Conns -> {"none", "recv"} \cup Answering]
    BY <1>1, <1>2 DEF Connect, TypeInv, Answering
<1>6. waiting' \in [Clients -> Seq(Msgs)] BY <1>3 DEF Connect, TypeInv
<1>7. inbox' \in [Conns -> Seq(Msgs)] /\ outbox' \in [Conns -> Seq(Msgs)]
    <2>1. <<>> \in Seq(Msgs) BY EmptySeq
    <2>. QED BY <2>1 DEF Connect, TypeInv
<1>8. closedBy' \in [Conns -> SUBSET {"client", "server"}] BY DEF Connect, TypeInv
<1>. QED BY <1>4, <1>5, <1>6, <1>7, <1>8 DEF Connect, TypeInv, history

\* The types after a step of a client.
LEMMA ClientTypes ==
    ASSUME TypeInv, NEW c \in Clients, ConnOK(c), Driver(c) \/ Caller(c)
    PROVE  TypeInv'
<1>1. CASE Connect(c) BY <1>1, ConnectTypes
<1>2. CASE Raise(c)
    <2>1. <<>> \in Seq(Msgs) BY EmptySeq
    <2>2. waiting' \in [Clients -> Seq(Msgs)] BY <1>2, <2>1 DEF Raise, TypeInv
    <2>. QED BY <1>2, <2>2 DEF Raise, TypeInv, history, network, threads
<1>3. CASE Close(c)
    <2>1. conn[c] # 0 /\ HangUp(c) /\ spoiled' \in SUBSET Clients BY <1>3 DEF Close, TypeInv
    <2>. QED BY <1>3, <2>1, HangUpTypes DEF Close, TypeInv, threads
<1>4. ASSUME NEW kind \in Calls, Execute(c, kind) PROVE TypeInv'
    <2>1. sent[c] + 1 \in Nat BY DEF TypeInv
    <2>2. PICK m : m = Msg(kind, sent[c] + 1) OBVIOUS
    <2>3. m \in Msgs BY <2>1, <2>2, MessageTypes
    <2>4. conn[c] \in Conns BY <1>4 DEF Execute, TypeInv
    <2>5. inbox' \in [Conns -> Seq(Msgs)] BY <1>4, <2>2, <2>3, <2>4, SendToTypes DEF Execute
    <2>6. Append(waiting[c], m) \in Seq(Msgs) BY <2>3, AppendType DEF TypeInv
    <2>7. waiting' \in [Clients -> Seq(Msgs)] BY <1>4, <2>2, <2>6 DEF Execute, TypeInv
    <2>8. sent' \in [Clients -> Nat] BY <1>4, <2>1 DEF Execute, TypeInv
    <2>9. spoiled' \in SUBSET Clients BY <1>4 DEF Execute, TypeInv
    <2>. QED BY <1>4, <2>5, <2>7, <2>8, <2>9 DEF Execute, TypeInv, threads
<1>5. CASE JSRead(c)
    <2>1. conn[c] \in Conns BY <1>5 DEF JSRead, TypeInv
    <2>2. PICK reply : reply = Head(outbox[conn[c]]) OBVIOUS
    <2>3. Tail(outbox[conn[c]]) \in Seq(Msgs) BY <1>5, <2>1, TailType DEF JSRead, TypeInv
    <2>4. outbox' \in [Conns -> Seq(Msgs)] BY <1>5, <2>1, <2>3 DEF JSRead, TypeInv
    <2>5. CASE waiting[c] = <<>>
        BY <1>5, <2>4, <2>5 DEF JSRead, TypeInv, threads
    <2>6. CASE waiting[c] # <<>>
        <3>1. Head(waiting[c]) \in Msgs /\ Tail(waiting[c]) \in Seq(Msgs)
            BY <2>6, TailType DEF TypeInv
        <3>2. Append(Tail(waiting[c]), Login) \in Seq(Msgs)
            BY <3>1, AppendType, MessageTypes
        <3>3. misled' \in SUBSET Clients BY <1>5, <2>6 DEF JSRead, Told, TypeInv
        <3>4. inbox' \in [Conns -> Seq(Msgs)]
            BY <1>5, <2>1, <2>6, SendToTypes, MessageTypes DEF JSRead, TypeInv
        <3>5. waiting' \in [Clients -> Seq(Msgs)]
            BY <1>5, <2>6, <3>1, <3>2 DEF JSRead, TypeInv
        <3>6. ready' \in SUBSET Clients BY <1>5, <2>6 DEF JSRead, TypeInv
        <3>. QED BY <1>5, <2>4, <3>3, <3>4, <3>5, <3>6 DEF JSRead, TypeInv, threads
    <2>. QED BY <2>5, <2>6
<1>6. CASE PythonSeeEnd(c)
    <2>1. <<>> \in Seq(Msgs) /\ Head(waiting[c]) \in Msgs
        BY <1>6, TailType, EmptySeq DEF PythonSeeEnd, TypeInv
    <2>2. waiting' \in [Clients -> Seq(Msgs)] BY <1>6, <2>1 DEF PythonSeeEnd, TypeInv
    <2>3. CASE Head(waiting[c]) \in {Welcome, Login}
        <3>1. HangUp(c) /\ conn[c] # 0 /\ lost' = lost BY <1>6, <2>3 DEF PythonSeeEnd, Ended
        <3>. QED BY <1>6, <2>2, <3>1, HangUpTypes DEF PythonSeeEnd, TypeInv, threads
    <2>4. CASE Head(waiting[c]) \notin {Welcome, Login}
        <3>1. Head(waiting[c]).num \in Nat BY <2>1 DEF Msgs
        <3>2. lost' \in SUBSET Runs BY <1>6, <2>4, <3>1 DEF PythonSeeEnd, TypeInv, Runs
        <3>. QED BY <1>6, <2>2, <2>4, <3>2 DEF PythonSeeEnd, TypeInv, threads
    <2>. QED BY <2>3, <2>4
<1>7. CASE JSSeeEnd(c)
    <2>1. /\ conn' \in [Clients -> Conns \cup {0}] /\ ready' \in SUBSET Clients
          /\ spoiled' \in SUBSET Clients
        BY <1>7 DEF JSSeeEnd, TypeInv
    <2>. QED BY <1>7, <2>1 DEF JSSeeEnd, TypeInv, threads, network
<1>8. CASE PythonRead(c) BY <1>8, PythonReadTypes DEF PythonRead, IsPython
<1>. QED BY <1>1, <1>2, <1>3, <1>4, <1>5, <1>6, <1>7, <1>8 DEF Driver, Caller, Calls
------------------------------------------------------------------------------
(***************************************************************************)
(* A step leaves alone what is not its own.                                *)
(***************************************************************************)
\* Connection n is as it was.
SameLink(n) ==
    /\ owner'[n] = owner[n] /\ inbox'[n] = inbox[n] /\ outbox'[n] = outbox[n]
    /\ closedBy'[n] = closedBy[n] /\ thread'[n] = thread[n] /\ command'[n] = command[n]

\* The last reference to the server's end of connection n has gone with an accept().
Swept(n) ==
    /\ owner'[n] = owner[n] /\ outbox'[n] = outbox[n] /\ thread'[n] = thread[n]
    /\ command'[n] = command[n] /\ owner[n] # "nobody" /\ thread[n] = "none"
    /\ inbox'[n] = <<>> /\ closedBy'[n] = closedBy[n] \cup {"server"}

KeptLink(n) == SameLink(n) \/ Swept(n)

\* Client c is as it was, and the connection it uses is kept.
SameClient(c) ==
    /\ conn'[c] = conn[c] /\ buffer'[c] = buffer[c]
    /\ waiting'[c] = waiting[c] /\ sent'[c] = sent[c]
    /\ c \in ready' <=> c \in ready
    /\ c \in misled' <=> c \in misled
    /\ c \in spoiled' <=> c \in spoiled
    /\ \A k \in Nat : Of(c, k) \in lost' <=> Of(c, k) \in lost
    /\ \A k \in Nat : Of(c, k) \in executed' <=> Of(c, k) \in executed
    /\ conn[c] # 0 => KeptLink(conn[c])

\* No connection of c is new, and none brings the server another command.
NothingNew(c) ==
    \A n \in Conns : owner'[n] = c =>
        /\ owner[n] = c
        /\ \A x \in Msgs : Pending(n, x)' => Pending(n, x)

\* A connection that is kept stays right.
LEMMA LinkStays ==
    ASSUME NEW n \in Conns, LinkOK(n), KeptLink(n)
    PROVE  LinkOK(n)'
BY DEF LinkOK, KeptLink, SameLink, Swept

\* It brings no other command.
LEMMA PendingStays ==
    ASSUME NEW n \in Conns, KeptLink(n), NEW x, Pending(n, x)'
    PROVE  Pending(n, x)
<1>1. CASE SameLink(n) BY <1>1 DEF Pending, SameLink
<1>2. CASE Swept(n)
    <2>1. DOMAIN <<>> = {} OBVIOUS
    <2>. QED BY <1>2, <2>1 DEF Pending, Swept
<1>. QED BY <1>1, <1>2 DEF KeptLink

\* What stays to be shown of the commands of a Python client that makes no call and ends
\* none.
LEMMA LostStays ==
    ASSUME TypeInv, NEW c \in Clients, LostOK(c), NothingNew(c),
           conn'[c] = conn[c], waiting'[c] = waiting[c], sent'[c] = sent[c],
           \A k \in Nat : Of(c, k) \in lost' <=> Of(c, k) \in lost,
           \A k \in Nat : Of(c, k) \in executed' <=> Of(c, k) \in executed,
           conn[c] # 0 /\ Replied(c) => Replied(c)'
    PROVE  LostOK(c)'
<1>1. sent[c] \in Nat BY DEF TypeInv
<1>2. \A k \in Nat :
         /\ Of(c, k) \in lost' => k <= sent'[c]
         /\ Of(c, k) \in executed' => k # 0 /\ k <= sent'[c] /\ Of(c, k) \notin lost'
    BY DEF LostOK
<1>3. ASSUME NEW n \in Conns, NEW x \in Msgs, owner'[n] = c, Pending(n, x)'
      PROVE  x.num # 0 /\ x.num <= sent'[c] /\ Of(c, x.num) \notin lost'
    <2>1. owner[n] = c /\ Pending(n, x) BY <1>3 DEF NothingNew
    <2>2. x.num \in Nat BY DEF Msgs
    <2>. QED BY <2>1, <2>2 DEF LostOK
<1>4. ASSUME NEW m \in Msgs, InCall(c, m) PROVE InCall(c, m)'
    <2>1. waiting'[c] = <<m>> /\ conn'[c] # 0 BY <1>4 DEF InCall
    <2>2. ASSUME m \notin {Welcome, Login}
          PROVE  /\ m.num = sent'[c] /\ sent'[c] # 0 /\ Of(c, sent'[c]) \notin lost'
                 /\ Of(c, sent'[c]) \in executed' => Replied(c)'
        BY <1>1, <1>4, <2>2 DEF InCall
    <2>3. ASSUME m \notin {Welcome, Login}, NEW n \in Conns, NEW x \in Msgs,
                 owner'[n] = c, n # conn'[c], Pending(n, x)'
          PROVE  x.num # sent'[c]
        <3>1. owner[n] = c /\ Pending(n, x) BY <2>3 DEF NothingNew
        <3>. QED BY <1>4, <2>3, <3>1 DEF InCall
    <2>. QED BY <2>1, <2>2, <2>3 DEF InCall, Of, Welcome, Login, Msg
<1>5. waiting'[c] = <<>> \/ \E m \in Msgs : InCall(c, m)' BY <1>4 DEF LostOK
<1>. QED BY <1>2, <1>3, <1>5 DEF LostOK, Of

\* The order of the messages of a Python client whose connection is kept.
LEMMA PythonStays ==
    ASSUME TypeInv, NEW c \in Clients, ConnOK(c), PythonOK(c), SameClient(c)
    PROVE  PythonOK(c)'
<1>1. conn[c] # 0 => conn[c] \in Conns /\ KeptLink(conn[c]) BY DEF SameClient, TypeInv
<1>2. ASSUME NEW n \in Conns, KeptLink(n)
      PROVE  /\ Idle(n) => Idle(n)'
             /\ \A m \in Msgs : At(n, m) => At(n, m)' \/ Idle(n)'
    BY <1>2 DEF KeptLink, SameLink, Swept, Idle, At, Answering
<1>3. Rests(c) => Rests(c)'
    <2>1. SUFFICES ASSUME Rests(c) PROVE Rests(c)' OBVIOUS
    <2>2. CASE conn[c] = 0 BY <2>1, <2>2 DEF Rests, SameClient
    <2>3. CASE conn[c] # 0
        <3>1. PICK n \in Conns : n = conn[c] /\ KeptLink(n) BY <1>1, <2>3
        <3>2. Idle(n) \/ (c \notin ready /\ (At(n, Welcome) \/ At(n, Login)))
            BY <2>1, <2>3, <3>1 DEF Rests
        <3>3. Idle(n)' \/ (c \notin ready' /\ (At(n, Welcome)' \/ At(n, Login)'))
            BY <1>2, <3>1, <3>2, MessageTypes DEF SameClient
        <3>4. conn'[c] = n /\ waiting'[c] = <<>> BY <2>1, <3>1 DEF Rests, SameClient
        <3>. QED BY <3>3, <3>4 DEF Rests, At, Idle, Welcome, Login, Msg
    <2>. QED BY <2>2, <2>3
<1>4. ASSUME NEW m \in Msgs, Waits(c, m) PROVE Waits(c, m)'
    <2>1. PICK n \in Conns : n = conn[c] /\ KeptLink(n) BY <1>1, <1>4 DEF Waits
    <2>2. Idle(n)' \/ At(n, m)' BY <1>2, <1>4, <2>1 DEF Waits
    <2>3. conn'[c] = n /\ waiting'[c] = <<m>> /\ n # 0
        BY <1>4, <2>1 DEF Waits, SameClient
    <2>4. /\ c \notin ready' => m \in {Welcome, Login}
          /\ c \in ready' => m.kind \in Calls
        BY <1>4 DEF Waits, SameClient
    <2>. QED BY <2>2, <2>3, <2>4 DEF Waits, At, Idle, Welcome, Login, Msg
<1>5. buffer'[c] = <<>> BY DEF PythonOK, SameClient
<1>. QED BY <1>3, <1>4, <1>5 DEF PythonOK

\* The queue of a JavaScript client whose connection is kept.
LEMMA JSStays ==
    ASSUME TypeInv, NEW c \in Clients, JSOK(c), SameClient(c)
    PROVE  JSOK(c)'
<1>1. conn'[c] = 0 => waiting'[c] = <<>> BY DEF JSOK, SameClient
<1>2. ASSUME conn'[c] # 0 PROVE \E rest \in Seq(Msgs) : Queued(c, rest)'
    <2>1. PICK rest \in Seq(Msgs) : Queued(c, rest) BY <1>2 DEF JSOK, SameClient
    <2>2. PICK n \in Conns : n = conn[c] /\ n = conn'[c] /\ KeptLink(n)
        BY <1>2 DEF SameClient, TypeInv
    <2>3. outbox'[n] = outbox[n] /\ waiting'[c] = waiting[c]
        BY <2>2 DEF KeptLink, SameLink, Swept, SameClient
    <2>4. "server" \notin closedBy'[n] =>
             "server" \notin closedBy[n] /\ Unanswered(n)' = Unanswered(n)
        BY <2>2 DEF KeptLink, SameLink, Swept, Unanswered
    <2>5. Queued(c, rest)' BY <2>1, <2>2, <2>3, <2>4 DEF Queued, Unanswered
    <2>. QED BY <2>5
<1>. QED BY <1>1, <1>2 DEF JSOK

\* So a client stays as it should be.
LEMMA ClientStays ==
    ASSUME TypeInv, NEW c \in Clients, ClientOK(c), SameClient(c), NothingNew(c)
    PROVE  ClientOK(c)'
<1>1. conn[c] # 0 => conn[c] \in Conns /\ KeptLink(conn[c]) BY DEF SameClient, TypeInv
<1>2. ConnOK(c)'
    BY <1>1 DEF ClientOK, ConnOK, SameClient, KeptLink, SameLink, Swept
<1>3. ASSUME LostOK(c) PROVE LostOK(c)'
    <2>1. conn[c] # 0 /\ Replied(c) => Replied(c)'
        BY <1>1 DEF Replied, SameClient, KeptLink, SameLink, Swept
    <2>. QED BY <1>3, <2>1, LostStays DEF SameClient
<1>4. PythonOK(c) => PythonOK(c)' BY PythonStays DEF ClientOK
<1>5. JSOK(c) => JSOK(c)' BY JSStays
<1>6. /\ c \in misled' => c \in spoiled'
      /\ c \in JSClients => \A k \in Nat : Of(c, k) \notin lost'
      /\ c \in spoiled' <=> c \in spoiled
    BY DEF ClientOK, SameClient
<1>. QED BY <1>2, <1>3, <1>4, <1>5, <1>6 DEF ClientOK, Of
------------------------------------------------------------------------------
(***************************************************************************)
(* The steps of a thread.                                                  *)
(***************************************************************************)
\* The thread of connection n touches no other connection, and no client but the one
\* the connection belongs to.
LEMMA ThreadTouches ==
    ASSUME Inv, NEW n \in Conns, Thread(n)
    PROVE  /\ owner[n] \in Clients /\ thread[n] # "none" /\ "server" \notin closedBy[n]
           /\ \A m \in Conns \ {n} : SameLink(m)
           /\ UNCHANGED <<owner, drivers, misled, lost, spoiled>>
           /\ RunLocked(n) \/ executed' = executed
<1>. USE DEF Inv
<1>1. thread[n] # "none"
    BY DEF Thread, Receive, RunLocked, Send, SendFails, IdleTimeout
<1>2. owner[n] \in Clients /\ "server" \notin closedBy[n] BY <1>1 DEF LinkOK, TypeInv
<1>3. UNCHANGED <<owner, drivers, misled, lost, spoiled>>
    BY DEF Thread, Receive, RunLocked, Send, SendFails, IdleTimeout, network, history
<1>4. RunLocked(n) \/ executed' = executed
    BY DEF Thread, Receive, Send, SendFails, IdleTimeout, history
<1>5. ASSUME NEW m \in Conns \ {n} PROVE SameLink(m)
    <2>1. CASE Receive(n) BY <2>1 DEF Receive, SameLink, TypeInv
    <2>2. CASE RunLocked(n) BY <2>2 DEF RunLocked, SameLink, TypeInv, network
    <2>3. CASE Send(n) BY <2>3 DEF Send, Leave, EndThread, SameLink, TypeInv
    <2>4. CASE SendFails(n) BY <2>4 DEF SendFails, EndThread, SameLink, TypeInv
    <2>5. CASE IdleTimeout(n) BY <2>5 DEF IdleTimeout, EndThread, SameLink, TypeInv
    <2>. QED BY <2>1, <2>2, <2>3, <2>4, <2>5 DEF Thread
<1>. QED BY <1>1, <1>2, <1>3, <1>4, <1>5

\* What a step of its thread makes of a connection, and of the lock.
LEMMA ThreadLink ==
    ASSUME Inv, NEW n \in Conns, Thread(n)
    PROVE  LinkOK(n)' /\ LockOK'
<1>. USE DEF Inv
<1>1. owner'[n] # "nobody" /\ owner[n] # "nobody" /\ LinkOK(n)
    BY ThreadTouches, SessionAssumption
<1>2. \A m \in Conns \ {n} : thread'[m] = thread[m] /\ command'[m] = command[m]
    BY ThreadTouches DEF SameLink
<1>3. CASE Receive(n)
    <2>1. LinkOK(n)' BY <1>1, <1>3 DEF Receive, LinkOK, TypeInv
    <2>2. LockOK' BY <1>2, <1>3 DEF Receive, LockOK, TypeInv
    <2>. QED BY <2>1, <2>2
<1>4. CASE RunLocked(n)
    <2>1. LinkOK(n)' BY <1>1, <1>4 DEF RunLocked, LinkOK, TypeInv, network
    <2>2. db_lock' = n /\ thread'[n] = "send" /\ command'[n].kind = "command"
        BY <1>1, <1>4 DEF RunLocked, LinkOK, TypeInv
    <2>3. LockOK' BY <2>2 DEF LockOK
    <2>. QED BY <2>1, <2>3
<1>5. CASE Send(n)
    <2>1. LinkOK(n)' BY <1>1, <1>5 DEF Send, Leave, EndThread, LinkOK, TypeInv
    <2>2. LockOK'
        <3>1. CASE EndThread(n) BY <1>2, <3>1 DEF EndThread, LockOK, TypeInv
        <3>2. CASE command[n].kind = "exit" /\ ~ EndThread(n)
            <4>1. /\ thread' = [thread EXCEPT ![n] = "none"]
                  /\ command' = [command EXCEPT ![n] = Welcome] /\ db_lock' = db_lock
                BY <1>5, <3>2 DEF Send, Leave
            <4>2. db_lock # n BY <3>2 DEF LockOK, Conns
            <4>. QED BY <1>2, <4>1, <4>2 DEF LockOK, TypeInv
        <3>3. CASE command[n].kind # "exit"
            BY <1>2, <1>5, <3>3 DEF Send, LockOK, TypeInv
        <3>. QED BY <1>5, <3>1, <3>2, <3>3 DEF Send, Leave
    <2>. QED BY <2>1, <2>2
<1>6. CASE SendFails(n)
    <2>1. LinkOK(n)' BY <1>1, <1>6 DEF SendFails, EndThread, LinkOK, TypeInv
    <2>2. LockOK' BY <1>2, <1>6 DEF SendFails, EndThread, LockOK, TypeInv
    <2>. QED BY <2>1, <2>2
<1>7. CASE IdleTimeout(n)
    <2>1. LinkOK(n)' BY <1>1, <1>7 DEF IdleTimeout, EndThread, LinkOK, TypeInv
    <2>2. LockOK' BY <1>2, <1>7 DEF IdleTimeout, EndThread, LockOK, TypeInv
    <2>. QED BY <2>1, <2>2
<1>. QED BY <1>3, <1>4, <1>5, <1>6, <1>7 DEF Thread

\* It takes commands from the inbox, and adds none.
LEMMA ThreadPending ==
    ASSUME Inv, NEW n \in Conns, Thread(n), NEW x \in Msgs, Pending(n, x)'
    PROVE  Pending(n, x)
<1>. USE DEF Inv
<1>1. CASE Receive(n)
    <2>1. PICK q \in Seq(Msgs) : q = inbox[n] BY DEF TypeInv
    <2>2. q # <<>> BY <1>1, <2>1 DEF Receive
    <2>3. /\ inbox'[n] = Tail(q) /\ thread[n] = "recv"
          /\ thread'[n] = "lock" => command'[n] = Head(q)
        BY <1>1, <2>1 DEF Receive, TypeInv
    <2>4. \A i \in DOMAIN Tail(q) : i + 1 \in DOMAIN q /\ Tail(q)[i] = q[i + 1]
        BY <2>2, TailType
    <2>5. 1 \in DOMAIN q /\ q[1] = Head(q) BY <2>2, TailType
    <2>6. x.kind = "command" BY DEF Pending
    <2>7. CASE thread'[n] = "lock" /\ command'[n] = x
        <3>1. q[1] = x BY <2>3, <2>5, <2>7
        <3>. QED BY <2>1, <2>5, <2>6, <3>1 DEF Pending
    <2>8. ASSUME NEW i \in DOMAIN Tail(q), Tail(q)[i] = x PROVE Pending(n, x)
        <3>1. i + 1 \in DOMAIN q /\ q[i + 1] = x BY <2>4, <2>8
        <3>. QED BY <2>1, <2>6, <3>1 DEF Pending
    <2>. QED BY <2>3, <2>7, <2>8 DEF Pending
<1>2. ASSUME inbox'[n] \in {inbox[n], <<>>}, thread'[n] # "lock" PROVE Pending(n, x)
    <2>1. DOMAIN <<>> = {} OBVIOUS
    <2>. QED BY <1>2, <2>1 DEF Pending
<1>3. CASE RunLocked(n)
    <2>1. inbox'[n] = inbox[n] /\ thread'[n] # "lock"
        BY <1>3 DEF RunLocked, TypeInv, network
    <2>. QED BY <1>2, <2>1
<1>4. CASE Send(n)
    <2>1. inbox'[n] \in {inbox[n], <<>>} /\ thread'[n] # "lock"
        BY <1>4 DEF Send, Leave, EndThread, TypeInv
    <2>. QED BY <1>2, <2>1
<1>5. CASE SendFails(n)
    <2>1. inbox'[n] \in {inbox[n], <<>>} /\ thread'[n] # "lock"
        BY <1>5 DEF SendFails, EndThread, TypeInv
    <2>. QED BY <1>2, <2>1
<1>6. CASE IdleTimeout(n)
    <2>1. inbox'[n] \in {inbox[n], <<>>} /\ thread'[n] # "lock"
        BY <1>6 DEF IdleTimeout, EndThread, TypeInv
    <2>. QED BY <1>2, <2>1
<1>. QED BY <1>1, <1>3, <1>4, <1>5, <1>6 DEF Thread

\* A reply is sent, or stays where it is: the thread gives up a client that is there only
\* after the replies it does not read.
LEMMA ThreadReplied ==
    ASSUME Inv, NEW n \in Conns, Thread(n), NEW c \in Clients, conn[c] = n, Replied(c)
    PROVE  Replied(c)'
<1>. USE DEF Inv
<1>1. conn'[c] = n /\ buffer'[c] = buffer[c] BY ThreadTouches DEF drivers
<1>2. n # 0 /\ owner[n] = c /\ "client" \notin closedBy[n]
    <2>1. n # 0 BY DEF Conns
    <2>. QED BY <2>1 DEF ClientOK, ConnOK
<1>3. CASE buffer[c] # <<>> BY <1>1, <1>3 DEF Replied
<1>4. CASE outbox'[n] # <<>> BY <1>1, <1>4 DEF Replied
<1>5. CASE thread'[n] \in {"send", "sendError"} BY <1>1, <1>5 DEF Replied
<1>6. CASE Send(n)
    <2>1. outbox'[n] = Append(outbox[n], command[n])
        BY <1>2, <1>6 DEF Send, ClientGone, TypeInv
    <2>2. outbox[n] \in Seq(Msgs) /\ command[n] \in Msgs BY DEF TypeInv
    <2>. QED BY <1>4, <2>1, <2>2, AppendType
<1>7. CASE SendFails(n)
    <2>1. Len(<<>>) = 0 /\ SendBuffer[c] # 0 BY SessionAssumption
    <2>2. outbox[n] # <<>> BY <1>2, <1>7, <2>1 DEF SendFails, MayFail, ClientGone
    <2>3. outbox'[n] = outbox[n] BY <1>7 DEF SendFails
    <2>. QED BY <1>4, <2>2, <2>3
<1>8. CASE Receive(n) \/ RunLocked(n) \/ IdleTimeout(n)
    <2>1. outbox'[n] = outbox[n] /\ thread[n] \notin {"send", "sendError"}
        BY <1>8 DEF Receive, RunLocked, IdleTimeout, network
    <2>. QED BY <1>3, <1>4, <2>1 DEF Replied
<1>. QED BY <1>6, <1>7, <1>8 DEF Thread

\* A command is executed that was sent, and not lost.
LEMMA RunLost ==
    ASSUME Inv, NEW n \in Conns, RunLocked(n), NEW c \in PythonClients, owner[n] = c
    PROVE  LostOK(c)'
<1>. USE DEF Inv
<1>1. c \in Clients /\ LostOK(c) /\ sent[c] \in Nat BY DEF Clients, ClientOK, TypeInv
<1>2. Thread(n) BY DEF Thread
<1>3. /\ owner' = owner /\ lost' = lost
      /\ conn'[c] = conn[c] /\ waiting'[c] = waiting[c] /\ sent'[c] = sent[c]
      /\ \A m \in Conns \ {n} : SameLink(m)
    BY <1>2, ThreadTouches DEF drivers
<1>4. PICK x \in Msgs : x = command[n] BY DEF TypeInv
<1>5. Pending(n, x) BY <1>4 DEF RunLocked, LinkOK, Pending
<1>6. x.num \in Nat /\ x.num # 0 /\ x.num <= sent[c] /\ Of(c, x.num) \notin lost
    BY <1>1, <1>5 DEF LostOK, Msgs
<1>7. executed' = executed \cup {Of(c, x.num)} BY <1>4 DEF RunLocked, Of
<1>8. \A k \in Nat : Of(c, k) \in executed' => Of(c, k) \in executed \/ k = x.num
    BY <1>7 DEF Of
<1>9. \A k \in Nat :
         /\ Of(c, k) \in lost' => k <= sent'[c]
         /\ Of(c, k) \in executed' => k # 0 /\ k <= sent'[c] /\ Of(c, k) \notin lost'
    BY <1>1, <1>3, <1>6, <1>8 DEF LostOK
<1>10. ASSUME NEW m \in Conns, NEW y \in Msgs, Pending(m, y)' PROVE Pending(m, y)
    <2>1. CASE m = n BY <1>2, <1>10, <2>1, ThreadPending
    <2>2. CASE m # n BY <1>3, <1>10, <2>2, PendingStays DEF KeptLink
    <2>. QED BY <2>1, <2>2
<1>11. \A m \in Conns, y \in Msgs : owner'[m] = c /\ Pending(m, y)' =>
          y.num # 0 /\ y.num <= sent'[c] /\ Of(c, y.num) \notin lost'
    BY <1>1, <1>3, <1>10 DEF LostOK
<1>12. ASSUME NEW m \in Msgs, InCall(c, m) PROVE InCall(c, m)'
    <2>1. waiting'[c] = <<m>> /\ conn'[c] # 0 BY <1>3, <1>12 DEF InCall
    <2>2. ASSUME m \notin {Welcome, Login}
          PROVE  m.num = sent'[c] /\ sent'[c] # 0 /\ Of(c, sent'[c]) \notin lost'
        BY <1>3, <1>12, <2>2 DEF InCall
    <2>3. ASSUME m \notin {Welcome, Login}, Of(c, sent[c]) \in executed'
          PROVE  Replied(c)'
        <3>1. CASE conn[c] = n
            <4>1. thread'[n] = "send" BY DEF RunLocked, TypeInv
            <4>. QED BY <1>3, <3>1, <4>1 DEF Replied
        <3>2. CASE conn[c] # n
            <4>1. x.num # sent[c] BY <1>5, <1>12, <2>3, <3>2 DEF InCall
            <4>2. Of(c, sent[c]) \in executed BY <1>1, <1>8, <2>3, <4>1
            <4>3. Replied(c) BY <1>12, <2>3, <4>2 DEF InCall
            <4>4. SameLink(conn[c]) BY <1>1, <1>3, <1>12, <3>2 DEF InCall, TypeInv
            <4>5. buffer'[c] = buffer[c] BY <1>2, ThreadTouches DEF drivers
            <4>. QED BY <1>3, <4>3, <4>4, <4>5 DEF Replied, SameLink
        <3>. QED BY <3>1, <3>2
    <2>4. ASSUME m \notin {Welcome, Login}, NEW q \in Conns, NEW y \in Msgs,
                 owner'[q] = c, q # conn'[c], Pending(q, y)'
          PROVE  y.num # sent'[c]
        BY <1>3, <1>10, <1>12, <2>4 DEF InCall
    <2>. QED BY <1>3, <2>1, <2>2, <2>3, <2>4 DEF InCall, Of, Welcome, Login, Msg
<1>13. waiting'[c] = <<>> \/ \E m \in Msgs : InCall(c, m)'
    BY <1>1, <1>3, <1>12 DEF LostOK
<1>. QED BY <1>9, <1>11, <1>13 DEF LostOK, Of

\* So what a Python caller is told of lost commands stays true.
LEMMA ThreadLost ==
    ASSUME Inv, NEW n \in Conns, Thread(n), NEW c \in PythonClients
    PROVE  LostOK(c)'
<1>. USE DEF Inv
<1>1. c \in Clients /\ LostOK(c) BY DEF Clients, ClientOK
<1>2. /\ owner' = owner /\ lost' = lost /\ UNCHANGED <<conn, buffer, waiting, sent>>
      /\ \A m \in Conns \ {n} : SameLink(m)
      /\ RunLocked(n) \/ executed' = executed
    BY ThreadTouches DEF drivers
<1>3. CASE RunLocked(n) /\ owner[n] = c BY <1>3, RunLost
<1>4. CASE ~ (RunLocked(n) /\ owner[n] = c)
    <2>1. \A k \in Nat : Of(c, k) \in executed' <=> Of(c, k) \in executed
        BY <1>2, <1>4 DEF RunLocked, Of
    <2>2. ASSUME NEW m \in Conns, NEW x \in Msgs, Pending(m, x)' PROVE Pending(m, x)
        <3>1. CASE m = n BY <2>2, <3>1, ThreadPending
        <3>2. CASE m # n BY <1>2, <2>2, <3>2, PendingStays DEF KeptLink
        <3>. QED BY <3>1, <3>2
    <2>3. NothingNew(c) BY <1>2, <2>2 DEF NothingNew
    <2>4. ASSUME conn[c] # 0, Replied(c) PROVE Replied(c)'
        <3>1. CASE conn[c] = n BY <1>1, <2>4, <3>1, ThreadReplied
        <3>2. CASE conn[c] # n
            <4>1. SameLink(conn[c]) BY <1>1, <1>2, <2>4, <3>2 DEF TypeInv
            <4>. QED BY <1>2, <2>4, <4>1 DEF Replied, SameLink
        <3>. QED BY <3>1, <3>2
    <2>. QED BY <1>1, <1>2, <2>1, <2>3, <2>4, LostStays
<1>. QED BY <1>3, <1>4

\* What stays to be shown for a Python client when its connection n moves.
LEMMA PythonMoves ==
    ASSUME TypeInv, NEW c \in Clients, NEW n \in Conns, conn[c] = n, PythonOK(c),
           UNCHANGED drivers,
           Idle(n) => Idle(n)',
           \A x \in Msgs : At(n, x) => At(n, x)' \/ Idle(n)'
    PROVE  PythonOK(c)'
<1>1. UNCHANGED <<conn, buffer, ready, waiting, sent>> BY DEF drivers
<1>2. Rests(c) => Rests(c)' BY <1>1, MessageTypes DEF Rests, Idle, At
<1>3. ASSUME NEW m \in Msgs, Waits(c, m) PROVE Waits(c, m)'
    <2>1. Idle(n)' \/ At(n, m)' BY <1>3 DEF Waits
    <2>. QED BY <1>1, <1>3, <2>1 DEF Waits, Idle, At, Welcome, Login, Msg
<1>. QED BY <1>1, <1>2, <1>3 DEF PythonOK

\* The thread moves the message a Python client waits for, or drops it.
LEMMA ThreadPython ==
    ASSUME Inv, NEW n \in Conns, Thread(n), NEW c \in PythonClients \ spoiled, conn[c] = n
    PROVE  PythonOK(c)'
<1>. USE DEF Inv
<1>1. c \in Clients BY DEF Clients
<1>2. /\ PythonOK(c) /\ owner[n] = c /\ "client" \notin closedBy[n]
      /\ UNCHANGED drivers
    <2>1. n # 0 BY DEF Conns
    <2>. QED BY <1>1, <2>1, ThreadTouches DEF ClientOK, ConnOK
<1>3. CASE Receive(n)
    <2>1. ~ Idle(n) BY <1>3 DEF Receive, Idle
    <2>2. ASSUME NEW x \in Msgs, At(n, x) PROVE At(n, x)' \/ Idle(n)'
        <3>1. inbox[n] = <<x>> /\ outbox[n] = <<>> BY <1>3, <2>2 DEF Receive, At, Answering
        <3>2. Head(inbox[n]) = x /\ Tail(inbox[n]) = <<>> BY <3>1, One
        <3>3. inbox'[n] = <<>> /\ outbox'[n] = <<>> BY <1>3, <3>1, <3>2 DEF Receive, TypeInv
        <3>4. CASE x.kind = "empty"
            <4>1. thread'[n] = "recv" BY <1>3, <3>2, <3>4 DEF Receive, TypeInv
            <4>. QED BY <3>3, <4>1 DEF Idle, Answering
        <3>5. CASE x.kind # "empty"
            <4>1. thread'[n] \in {"lock", "send"} /\ command'[n] = x
                BY <1>3, <3>2, <3>5 DEF Receive, TypeInv
            <4>. QED BY <3>3, <4>1 DEF At, Answering
        <3>. QED BY <3>4, <3>5
    <2>. QED BY <1>1, <1>2, <2>1, <2>2, PythonMoves
<1>4. CASE RunLocked(n)
    <2>1. ~ Idle(n) BY <1>4 DEF RunLocked, Idle, Answering
    <2>2. ASSUME NEW x \in Msgs, At(n, x) PROVE At(n, x)'
        <3>1. /\ inbox' = inbox /\ outbox' = outbox /\ command' = command
              /\ thread'[n] = "send" /\ thread[n] = "lock"
            BY <1>4 DEF RunLocked, network, TypeInv
        <3>. QED BY <2>2, <3>1 DEF At, Answering
    <2>. QED BY <1>1, <1>2, <2>1, <2>2, PythonMoves
<1>5. CASE Send(n)
    <2>1. ~ Idle(n) BY <1>5 DEF Send, Idle, Answering
    <2>2. ASSUME NEW x \in Msgs, At(n, x) PROVE At(n, x)'
        <3>1. inbox[n] = <<>> /\ outbox[n] = <<>> /\ command[n] = x
            BY <1>5, <2>2 DEF Send, At, Answering
        <3>2. outbox'[n] = <<x>> BY <1>2, <1>5, <3>1, One DEF Send, ClientGone, TypeInv
        <3>3. inbox'[n] = <<>> /\ thread'[n] \in {"none", "recv"}
            BY <1>5, <3>1 DEF Send, Leave, EndThread, TypeInv
        <3>. QED BY <3>2, <3>3 DEF At, Answering
    <2>. QED BY <1>1, <1>2, <2>1, <2>2, PythonMoves
<1>6. CASE SendFails(n)
    <2>1. Len(<<>>) = 0 /\ SendBuffer[c] # 0 BY <1>1, SessionAssumption
    <2>2. outbox[n] # <<>> BY <1>2, <1>6, <2>1 DEF SendFails, MayFail, ClientGone
    <2>3. \A x \in Msgs : ~ At(n, x) BY <1>6, <2>2 DEF SendFails, At, Answering
    <2>4. ~ Idle(n) BY <1>6 DEF SendFails, Idle, Answering
    <2>. QED BY <1>1, <1>2, <2>3, <2>4, PythonMoves
<1>7. CASE IdleTimeout(n)
    <2>1. /\ inbox'[n] = inbox[n] /\ thread'[n] \notin Answering /\ thread[n] = "recv"
          /\ outbox' = outbox
        BY <1>7 DEF IdleTimeout, EndThread, TypeInv, Answering
    <2>2. Idle(n) => Idle(n)' BY <2>1 DEF Idle
    <2>3. ASSUME NEW x \in Msgs, At(n, x) PROVE At(n, x)'
        BY <2>1, <2>3 DEF At, Answering
    <2>. QED BY <1>1, <1>2, <2>2, <2>3, PythonMoves
<1>. QED BY <1>3, <1>4, <1>5, <1>6, <1>7 DEF Thread

\* The thread keeps the order of the messages of a JavaScript client.
LEMMA ThreadJS ==
    ASSUME Inv, NEW n \in Conns, Thread(n), NEW c \in JSClients \ spoiled, conn[c] = n
    PROVE  JSOK(c)'
<1>. USE DEF Inv
<1>1. c \in Clients BY DEF Clients
<1>2. /\ JSOK(c) /\ n # 0 /\ owner[n] = c /\ "client" \notin closedBy[n]
      /\ UNCHANGED <<conn, waiting>>
      /\ "server" \notin closedBy[n]
    <2>1. n # 0 BY DEF Conns
    <2>. QED BY <1>1, <2>1, ThreadTouches DEF ClientOK, ConnOK, drivers
<1>3. PICK rest \in Seq(Msgs) : Queued(c, rest) BY <1>2 DEF JSOK
<1>4. /\ waiting[c] = outbox[n] \o rest /\ rest = Unanswered(n)
      /\ \A i \in DOMAIN rest : rest[i].kind # "empty"
    BY <1>2, <1>3 DEF Queued
<1>5. SUFFICES ASSUME TRUE PROVE \E r \in Seq(Msgs) : Queued(c, r)'
    BY <1>2 DEF JSOK
<1>6. ASSUME outbox'[n] = outbox[n],
             "server" \notin closedBy'[n] => Unanswered(n)' = rest
      PROVE  \E r \in Seq(Msgs) : Queued(c, r)'
    <2>1. Queued(c, rest)' BY <1>2, <1>4, <1>6 DEF Queued, Unanswered
    <2>. QED BY <2>1
<1>7. ASSUME EndThread(n), outbox' = outbox PROVE \E r \in Seq(Msgs) : Queued(c, r)'
    <2>1. "server" \in closedBy'[n] BY <1>7 DEF EndThread, TypeInv
    <2>. QED BY <1>6, <1>7, <2>1
<1>8. CASE Receive(n)
    <2>1. PICK q \in Seq(Msgs) : q = inbox[n] BY DEF TypeInv
    <2>2. q # <<>> /\ rest = q BY <1>4, <1>8, <2>1 DEF Receive, Unanswered, Answering
    <2>3. Head(q).kind # "empty" BY <1>4, <2>2, TailType
    <2>4. /\ inbox'[n] = Tail(q) /\ outbox'[n] = outbox[n] /\ command'[n] = Head(q)
          /\ thread'[n] \in {"lock", "send"}
        BY <1>8, <2>1, <2>3 DEF Receive, TypeInv
    <2>5. Unanswered(n)' = <<Head(q)>> \o Tail(q) BY <2>4 DEF Unanswered, Answering
    <2>6. Unanswered(n)' = rest BY <2>2, <2>5, HeadTail
    <2>. QED BY <1>6, <2>4, <2>6
<1>9. CASE RunLocked(n)
    <2>1. Unanswered(n)' = Unanswered(n)
        BY <1>9 DEF RunLocked, Unanswered, Answering, TypeInv, network
    <2>2. outbox'[n] = outbox[n] BY <1>9 DEF RunLocked, network
    <2>. QED BY <1>4, <1>6, <2>1, <2>2
<1>10. CASE Send(n)
    <2>1. PICK o \in Seq(Msgs) : o = outbox[n] BY DEF TypeInv
    <2>2. PICK i \in Seq(Msgs) : i = inbox[n] BY DEF TypeInv
    <2>3. PICK m \in Msgs : m = command[n] BY DEF TypeInv
    <2>4. rest = <<m>> \o i
        BY <1>4, <1>10, <2>2, <2>3 DEF Send, Unanswered, Answering
    <2>5. outbox'[n] = Append(o, m)
        BY <1>2, <1>10, <2>1, <2>3 DEF Send, ClientGone, TypeInv
    <2>6. waiting[c] = Append(o, m) \o i
        <3>1. waiting[c] = o \o (<<m>> \o i) BY <1>4, <2>1, <2>4
        <3>2. Append(o, m) \o i = o \o (<<m>> \o i) BY ConcatAppend
        <3>. QED BY <3>1, <3>2
    <2>7. "server" \notin closedBy'[n] => Unanswered(n)' = i
        BY <1>10, <2>2 DEF Send, Leave, EndThread, Unanswered, Answering, TypeInv
    <2>8. ASSUME NEW j \in DOMAIN i PROVE i[j].kind # "empty"
        <3>1. j + 1 \in DOMAIN (<<m>> \o i) /\ (<<m>> \o i)[j + 1] = i[j] BY ConcatOne
        <3>2. j + 1 \in DOMAIN rest /\ rest[j + 1] = i[j] BY <2>4, <3>1
        <3>. QED BY <1>4, <3>2
    <2>9. Queued(c, i)' BY <1>2, <2>5, <2>6, <2>7, <2>8 DEF Queued, Unanswered
    <2>. QED BY <2>9
<1>11. CASE SendFails(n)
    <2>1. CASE thread[n] = "send" /\ db_lock = n
        <3>1. Unanswered(n)' = Unanswered(n) /\ outbox'[n] = outbox[n]
            BY <1>11, <2>1 DEF SendFails, Unanswered, Answering, TypeInv
        <3>. QED BY <1>4, <1>6, <3>1
    <2>2. CASE ~ (thread[n] = "send" /\ db_lock = n)
        BY <1>7, <1>11, <2>2 DEF SendFails
    <2>. QED BY <2>1, <2>2
<1>12. CASE IdleTimeout(n) BY <1>7, <1>12 DEF IdleTimeout
<1>. QED BY <1>8, <1>9, <1>10, <1>11, <1>12 DEF Thread

\* The steps of a thread keep the invariant.
LEMMA ThreadStep ==
    ASSUME Inv, NEW n \in Conns, Thread(n)
    PROVE  Inv'
<1>. USE DEF Inv
<1>1. /\ owner[n] \in Clients
      /\ \A m \in Conns \ {n} : SameLink(m)
      /\ owner' = owner /\ UNCHANGED <<conn, buffer, ready, waiting, sent>>
      /\ UNCHANGED <<misled, lost, spoiled>>
    BY ThreadTouches DEF drivers
<1>2. TypeInv' BY ThreadTypes
<1>3. \A m \in Conns : LinkOK(m)' BY <1>1, LinkStays, ThreadLink DEF KeptLink
<1>4. LockOK' BY ThreadLink
<1>5. ASSUME NEW c \in Clients PROVE ClientOK(c)'
    <2>1. ConnOK(c)'
        <3>1. closedBy'[n] \subseteq closedBy[n] \cup {"server"}
            BY DEF Thread, Receive, RunLocked, Send, SendFails, IdleTimeout, Leave,
                   EndThread, TypeInv, network
        <3>2. \A m \in Conns : "client" \in closedBy'[m] => "client" \in closedBy[m]
            BY <1>1, <3>1 DEF SameLink
        <3>. QED BY <1>1, <1>5, <3>2 DEF ClientOK, ConnOK, TypeInv
    <2>2. c \in PythonClients => LostOK(c)' BY ThreadLost
    <2>3. ASSUME c \in PythonClients \ spoiled PROVE PythonOK(c)'
        <3>1. CASE conn[c] = n BY <2>3, <3>1, ThreadPython
        <3>2. CASE conn[c] # n
            <4>1. conn[c] # 0 => conn[c] \in Conns /\ SameLink(conn[c])
                BY <1>1, <1>5, <3>2 DEF TypeInv
            <4>2. PythonOK(c) BY <1>5, <2>3 DEF ClientOK
            <4>3. Rests(c) => Rests(c)' BY <1>1, <4>1, MessageTypes DEF Rests, Idle, At, SameLink
            <4>4. ASSUME NEW m \in Msgs, Waits(c, m) PROVE Waits(c, m)'
                BY <1>1, <4>1, <4>4 DEF Waits, Idle, At, SameLink, Welcome, Login, Msg
            <4>. QED BY <1>1, <4>2, <4>3, <4>4 DEF PythonOK
        <3>. QED BY <3>1, <3>2
    <2>4. ASSUME c \in JSClients \ spoiled PROVE JSOK(c)'
        <3>1. CASE conn[c] = n BY <2>4, <3>1, ThreadJS
        <3>2. CASE conn[c] # n
            <4>1. conn[c] # 0 => conn[c] \in Conns /\ SameLink(conn[c])
                BY <1>1, <1>5, <3>2 DEF TypeInv
            <4>2. JSOK(c) BY <1>5, <2>4 DEF ClientOK
            <4>3. ASSUME conn[c] # 0, NEW r \in Seq(Msgs), Queued(c, r) PROVE Queued(c, r)'
                BY <1>1, <4>1, <4>3 DEF Queued, Unanswered, SameLink
            <4>. QED BY <1>1, <4>2, <4>3 DEF JSOK
        <3>. QED BY <3>1, <3>2
    <2>5. /\ c \in JSClients => \A k \in Nat : Of(c, k) \notin lost'
          /\ c \in misled' => c \in spoiled'
        BY <1>1, <1>5 DEF ClientOK
    <2>. QED BY <1>1, <2>1, <2>2, <2>3, <2>4, <2>5 DEF ClientOK, Of
<1>. QED BY <1>2, <1>3, <1>4, <1>5
------------------------------------------------------------------------------
(***************************************************************************)
(* The steps of a client.                                                  *)
(***************************************************************************)
\* A message goes to the client's own connection, if that is open.
LEMMA SendToTouches ==
    ASSUME TypeInv, NEW n \in Conns, NEW x, SendTo(n, x)
    PROVE  /\ \A m \in Conns \ {n} : inbox'[m] = inbox[m]
           /\ \A m \in Conns : closedBy[m] # {} => inbox'[m] = inbox[m]
BY DEF SendTo, TypeInv

\* What a client that does not connect does to its connection.
OwnLink(c) ==
    /\ \A m \in Conns \ {conn[c]} :
         inbox'[m] = inbox[m] /\ outbox'[m] = outbox[m] /\ closedBy'[m] = closedBy[m]
    /\ \A m \in Conns : closedBy'[m] = closedBy[m] \/ closedBy'[m] = closedBy[m] \cup {"client"}
    /\ \A m \in Conns : closedBy[m] # {} => inbox'[m] = inbox[m]

\* What a client does to the other ones.
OthersSame(c) ==
    \A d \in Clients \ {c} :
        /\ conn'[d] = conn[d] /\ buffer'[d] = buffer[d]
        /\ waiting'[d] = waiting[d] /\ sent'[d] = sent[d]
        /\ d \in ready' <=> d \in ready
        /\ d \in misled' <=> d \in misled
        /\ d \in spoiled' <=> d \in spoiled
        /\ \A k \in Nat : Of(d, k) \in lost' <=> Of(d, k) \in lost

\* So it is when the connection is closed,
LEMMA HangUpTouches ==
    ASSUME TypeInv, NEW c \in Clients, conn[c] # 0, HangUp(c)
    PROVE  /\ OwnLink(c)
           /\ \A d \in Clients \ {c} :
                conn'[d] = conn[d] /\ buffer'[d] = buffer[d] /\ (d \in ready' <=> d \in ready)
<1>1. PICK n \in Conns : n = conn[c] BY DEF TypeInv
<1>2. SendTo(n, Goodbye) BY <1>1 DEF HangUp
<1>3. /\ \A m \in Conns \ {n} : inbox'[m] = inbox[m]
      /\ \A m \in Conns : closedBy[m] # {} => inbox'[m] = inbox[m]
    BY <1>2, SendToTouches
<1>4. /\ \A m \in Conns \ {n} : outbox'[m] = outbox[m] /\ closedBy'[m] = closedBy[m]
      /\ \A m \in Conns : \/ closedBy'[m] = closedBy[m]
                          \/ closedBy'[m] = closedBy[m] \cup {"client"}
    BY <1>1 DEF HangUp, TypeInv
<1>5. \A d \in Clients \ {c} :
         conn'[d] = conn[d] /\ buffer'[d] = buffer[d] /\ (d \in ready' <=> d \in ready)
    BY DEF HangUp, TypeInv
<1>. QED BY <1>1, <1>3, <1>4, <1>5 DEF OwnLink

\* when a reply is read by a Python client,
LEMMA PythonReadTouches ==
    ASSUME TypeInv, NEW c \in PythonClients, PythonRead(c)
    PROVE  /\ OwnLink(c) /\ OthersSame(c) /\ UNCHANGED <<owner, threads, executed, lost, sent>>
           /\ \/ HangUp(c) /\ conn[c] # 0 /\ waiting'[c] = <<>>
              \/ /\ UNCHANGED <<closedBy, conn>>
                 /\ \/ inbox' = inbox /\ waiting'[c] = <<>>
                    \/ SendTo(conn[c], Login) /\ waiting'[c] = <<Login>>
<1>0. c \in Clients BY DEF Clients
<1>1. PICK n \in Conns : n = conn[c] BY <1>0, PythonTakes DEF TypeInv
<1>2. PICK k : /\ Told(c, Head(Taken(c, k)))
               /\ Took(c, Head(Taken(c, k)), Kept(c, k), Tail(Taken(c, k)))
    BY <1>1, PythonTakes
<1>3. PICK reply, unread, rest : Told(c, reply) /\ Took(c, reply, unread, rest)
    BY <1>2
<1>4. conn[c] # 0 /\ UNCHANGED <<owner, threads, sent, lost, executed, spoiled>>
    BY PythonTakes
<1>5. \A d \in Clients \ {c} : d \in misled' <=> d \in misled BY <1>3 DEF Told
<1>6. /\ waiting' = [waiting EXCEPT ![c] = <<>>] \/ waiting' = [waiting EXCEPT ![c] = <<Login>>]
      /\ \A d \in Clients \ {c} : waiting'[d] = waiting[d]
    BY <1>3 DEF Took, TypeInv
<1>7. CASE HangUp(c)
    <2>1. waiting'[c] = <<>> \/ (UNCHANGED <<closedBy, conn>> /\ SendTo(conn[c], Login)
                                  /\ waiting'[c] = <<Login>>)
        BY <1>0, <1>1, <1>3 DEF Took, TypeInv
    <2>2. OwnLink(c) BY <1>0, <1>4, <1>7, HangUpTouches
    <2>3. \A d \in Clients \ {c} :
             conn'[d] = conn[d] /\ buffer'[d] = buffer[d] /\ (d \in ready' <=> d \in ready)
        BY <1>0, <1>4, <1>7, HangUpTouches
    <2>4. OthersSame(c) BY <1>4, <1>5, <1>6, <2>3 DEF OthersSame
    <2>. QED BY <1>4, <1>7, <2>1, <2>2, <2>4
<1>8. CASE ~ HangUp(c)
    <2>1. /\ outbox' = [outbox EXCEPT ![n] = unread]
          /\ buffer' = [buffer EXCEPT ![c] = rest]
          /\ UNCHANGED <<closedBy, conn>>
        BY <1>1, <1>3, <1>8 DEF Took
    <2>2. \/ SendTo(n, Login) /\ ready' = ready /\ waiting' = [waiting EXCEPT ![c] = <<Login>>]
          \/ /\ inbox' = inbox /\ (ready' = ready \/ ready' = ready \cup {c})
             /\ waiting' = [waiting EXCEPT ![c] = <<>>]
        BY <1>1, <1>3, <1>8 DEF Took
    <2>3. /\ \A m \in Conns \ {n} : inbox'[m] = inbox[m]
          /\ \A m \in Conns : closedBy[m] # {} => inbox'[m] = inbox[m]
        BY <2>2, SendToTouches
    <2>4. \A m \in Conns \ {n} : outbox'[m] = outbox[m] /\ closedBy'[m] = closedBy[m]
        BY <2>1 DEF TypeInv
    <2>5. OwnLink(c) BY <1>1, <2>1, <2>3, <2>4 DEF OwnLink
    <2>6. \A d \in Clients \ {c} :
             conn'[d] = conn[d] /\ buffer'[d] = buffer[d] /\ (d \in ready' <=> d \in ready)
        BY <2>1, <2>2 DEF TypeInv
    <2>7. OthersSame(c) BY <1>4, <1>5, <1>6, <2>6 DEF OthersSame
    <2>8. /\ waiting' = [waiting EXCEPT ![c] = <<>>] => waiting'[c] = <<>>
          /\ waiting' = [waiting EXCEPT ![c] = <<Login>>] => waiting'[c] = <<Login>>
        BY <1>0 DEF TypeInv
    <2>. QED BY <1>1, <1>4, <2>1, <2>2, <2>5, <2>7, <2>8
<1>. QED BY <1>7, <1>8

\* and in every other step but connect().
LEMMA OwnTouches ==
    ASSUME TypeInv, NEW c \in Clients, ConnOK(c), Driver(c) \/ Caller(c), ~ Connect(c)
    PROVE  /\ OwnLink(c) /\ OthersSame(c)
           /\ UNCHANGED <<owner, thread, command, db_lock, executed>>
<1>1. CASE PythonRead(c)
    <2>1. c \in PythonClients BY <1>1 DEF PythonRead, IsPython
    <2>. QED BY <1>1, <2>1, PythonReadTouches DEF threads
<1>2. CASE Raise(c)
    <2>1. OwnLink(c) BY <1>2 DEF Raise, OwnLink, network
    <2>2. OthersSame(c) BY <1>2 DEF Raise, OthersSame, history, TypeInv
    <2>. QED BY <1>2, <2>1, <2>2 DEF Raise, network, threads, history
<1>3. CASE Close(c)
    <2>1. conn[c] # 0 /\ HangUp(c) BY <1>3 DEF Close
    <2>2. OwnLink(c) BY <2>1, HangUpTouches
    <2>3. \A d \in Clients \ {c} :
             conn'[d] = conn[d] /\ buffer'[d] = buffer[d] /\ (d \in ready' <=> d \in ready)
        BY <2>1, HangUpTouches
    <2>4. OthersSame(c) BY <1>3, <2>3 DEF Close, OthersSame
    <2>. QED BY <1>3, <2>2, <2>4 DEF Close, threads
<1>4. ASSUME NEW kind \in Calls, Execute(c, kind)
      PROVE  /\ OwnLink(c) /\ OthersSame(c)
             /\ UNCHANGED <<owner, thread, command, db_lock, executed>>
    <2>1. PICK m : SendTo(conn[c], m) /\ waiting' = [waiting EXCEPT ![c] = Append(@, m)]
        BY <1>4 DEF Execute
    <2>2. conn[c] \in Conns BY <1>4 DEF Execute, TypeInv
    <2>3. /\ \A q \in Conns \ {conn[c]} : inbox'[q] = inbox[q]
          /\ \A q \in Conns : closedBy[q] # {} => inbox'[q] = inbox[q]
        BY <2>1, <2>2, SendToTouches
    <2>4. OwnLink(c) BY <1>4, <2>3 DEF Execute, OwnLink
    <2>5. \A d \in Clients \ {c} : waiting'[d] = waiting[d] BY <2>1 DEF TypeInv
    <2>6. OthersSame(c) BY <1>4, <2>5 DEF Execute, OthersSame, TypeInv
    <2>. QED BY <1>4, <2>4, <2>6 DEF Execute, threads
<1>5. CASE JSRead(c)
    <2>1. PICK n \in Conns : n = conn[c] BY <1>5 DEF JSRead, TypeInv
    <2>2. inbox' = inbox \/ SendTo(n, Login) BY <1>5, <2>1 DEF JSRead
    <2>3. /\ \A q \in Conns \ {n} : inbox'[q] = inbox[q]
          /\ \A q \in Conns : closedBy[q] # {} => inbox'[q] = inbox[q]
        BY <2>2, SendToTouches
    <2>4. \A q \in Conns \ {n} : outbox'[q] = outbox[q] BY <1>5, <2>1 DEF JSRead, TypeInv
    <2>5. OwnLink(c) BY <1>5, <2>1, <2>3, <2>4 DEF JSRead, OwnLink
    <2>6. /\ \A d \in Clients \ {c} : d \in misled' <=> d \in misled
          /\ \A d \in Clients \ {c} : d \in ready' <=> d \in ready
        BY <1>5 DEF JSRead, Told
    <2>7. \A d \in Clients \ {c} : waiting'[d] = waiting[d] BY <1>5 DEF JSRead, TypeInv
    <2>8. OthersSame(c) BY <1>5, <2>6, <2>7 DEF JSRead, OthersSame
    <2>. QED BY <1>5, <2>5, <2>8 DEF JSRead, threads
<1>6. CASE PythonSeeEnd(c)
    <2>1. \A d \in Clients \ {c} : waiting'[d] = waiting[d] BY <1>6 DEF PythonSeeEnd, TypeInv
    <2>2. CASE Head(waiting[c]) \in {Welcome, Login}
        <3>1. HangUp(c) /\ conn[c] # 0 /\ lost' = lost BY <1>6, <2>2 DEF PythonSeeEnd, Ended
        <3>2. OwnLink(c) BY <3>1, HangUpTouches
        <3>3. \A d \in Clients \ {c} :
                 conn'[d] = conn[d] /\ buffer'[d] = buffer[d] /\ (d \in ready' <=> d \in ready)
            BY <3>1, HangUpTouches
        <3>4. OthersSame(c) BY <1>6, <2>1, <3>1, <3>3 DEF PythonSeeEnd, OthersSame
        <3>. QED BY <1>6, <3>2, <3>4 DEF PythonSeeEnd, threads
    <2>3. CASE Head(waiting[c]) \notin {Welcome, Login}
        <3>1. OwnLink(c) BY <1>6, <2>3 DEF PythonSeeEnd, OwnLink
        <3>2. \A d \in Clients \ {c}, k \in Nat : Of(d, k) \in lost' <=> Of(d, k) \in lost
            BY <1>6, <2>3 DEF PythonSeeEnd, Of
        <3>3. OthersSame(c) BY <1>6, <2>1, <2>3, <3>2 DEF PythonSeeEnd, OthersSame
        <3>. QED BY <1>6, <3>1, <3>3 DEF PythonSeeEnd, threads
    <2>. QED BY <2>2, <2>3
<1>7. CASE JSSeeEnd(c)
    <2>1. OwnLink(c) BY <1>7 DEF JSSeeEnd, OwnLink, network
    <2>2. OthersSame(c) BY <1>7 DEF JSSeeEnd, OthersSame, TypeInv
    <2>. QED BY <1>7, <2>1, <2>2 DEF JSSeeEnd, network, threads
<1>. QED BY <1>1, <1>2, <1>3, <1>4, <1>5, <1>6, <1>7 DEF Driver, Caller, Calls

\* connect() opens connection n; the server's end of others may go.
Opens(c, n) ==
    /\ owner[n] = "nobody" /\ n # conn[c] /\ n # 0
    /\ owner'[n] = c /\ thread'[n] = "send" /\ command'[n] = Welcome
    /\ inbox'[n] = <<>> /\ outbox'[n] = <<>> /\ closedBy'[n] = {}
    /\ conn'[c] = n /\ waiting'[c] = Append(waiting[c], Welcome) /\ c \notin ready'
    /\ \A m \in Conns \ {n} :
         /\ owner'[m] = owner[m] /\ thread'[m] = thread[m] /\ command'[m] = command[m]
         /\ m # conn[c] => KeptLink(m)
         /\ inbox'[m] \in {inbox[m], <<>>}
         /\ "server" \in closedBy'[m] /\ owner[m] # "nobody" =>
              "server" \in closedBy[m] \/ (thread[m] = "none" /\ inbox'[m] = <<>>)

\* So it does.
LEMMA ConnectOpens ==
    ASSUME Inv, NEW c \in Clients, Connect(c)
    PROVE  /\ \E n \in Conns : Opens(c, n)
           /\ OthersSame(c)
           /\ UNCHANGED <<buffer, sent, misled, lost, executed, spoiled, db_lock>>
<1>. USE DEF Inv
<1>1. PICK n : n = Min({m \in Conns : owner[m] = "nobody"}) OBVIOUS
<1>2. n \in Conns /\ owner[n] = "nobody" BY <1>1, FreshConnection
<1>3. n # conn[c] /\ n # 0
    BY <1>2, SessionAssumption DEF ClientOK, ConnOK, Conns
<1>4. /\ owner' = [owner EXCEPT ![n] = c] /\ thread' = [thread EXCEPT ![n] = "send"]
      /\ conn' = [conn EXCEPT ![c] = n] /\ ready' = ready \ {c}
      /\ waiting' = [waiting EXCEPT ![c] = Append(@, Welcome)]
      /\ UNCHANGED <<command, loggedIn, db_lock, buffer, sent, history>>
    BY <1>1 DEF Connect
<1>5. /\ inbox' = [m \in Conns |-> IF m \in Left THEN <<>> ELSE inbox[m]]
      /\ outbox' = [m \in Conns |-> IF m = conn[c] THEN <<>> ELSE outbox[m]]
    BY DEF Connect
<1>6. closedBy' = [m \in Conns |->
                     closedBy[m] \cup (IF m \in Left THEN {"server"} ELSE {})
                                 \cup (IF m = conn[c] THEN {"client"} ELSE {})]
    BY DEF Connect
<1>7. n \notin Left BY <1>2 DEF Left
<1>8. /\ thread[n] = "none" /\ command[n] = Welcome
      /\ inbox[n] = <<>> /\ outbox[n] = <<>> /\ closedBy[n] = {}
    BY <1>2 DEF LinkOK
<1>9. /\ owner'[n] = c /\ thread'[n] = "send" /\ command'[n] = Welcome
      /\ inbox'[n] = <<>> /\ outbox'[n] = <<>>
    BY <1>2, <1>3, <1>4, <1>5, <1>7, <1>8 DEF TypeInv
<1>10. closedBy'[n] = {} BY <1>2, <1>3, <1>6, <1>7, <1>8
<1>11. conn'[c] = n /\ waiting'[c] = Append(waiting[c], Welcome) /\ c \notin ready'
    BY <1>4 DEF TypeInv
<1>12. ASSUME NEW m \in Conns \ {n}
       PROVE  /\ owner'[m] = owner[m] /\ thread'[m] = thread[m] /\ command'[m] = command[m]
              /\ m # conn[c] => KeptLink(m)
              /\ inbox'[m] \in {inbox[m], <<>>}
              /\ "server" \in closedBy'[m] /\ owner[m] # "nobody" =>
                   "server" \in closedBy[m] \/ (thread[m] = "none" /\ inbox'[m] = <<>>)
    <2>1. owner'[m] = owner[m] /\ thread'[m] = thread[m] /\ command'[m] = command[m]
        BY <1>4 DEF TypeInv
    <2>2. CASE m \in Left
        <3>1. inbox'[m] = <<>> /\ owner[m] # "nobody" /\ thread[m] = "none"
            BY <1>5, <2>2 DEF Left
        <3>2. m # conn[c] => outbox'[m] = outbox[m] BY <1>5
        <3>3. m # conn[c] => closedBy'[m] = closedBy[m] \cup {"server"} BY <1>6, <2>2
        <3>. QED BY <2>1, <3>1, <3>2, <3>3 DEF KeptLink, Swept
    <2>3. CASE m \notin Left
        <3>1. inbox'[m] = inbox[m] BY <1>5, <2>3
        <3>2. m # conn[c] => outbox'[m] = outbox[m] BY <1>5
        <3>3. m # conn[c] => closedBy'[m] = closedBy[m] BY <1>6, <2>3
        <3>4. "server" \in closedBy'[m] => "server" \in closedBy[m] BY <1>6, <2>3
        <3>. QED BY <2>1, <3>1, <3>2, <3>3, <3>4 DEF KeptLink, SameLink
    <2>. QED BY <2>2, <2>3
<1>13. Opens(c, n) BY <1>2, <1>3, <1>9, <1>10, <1>11, <1>12 DEF Opens
<1>14. UNCHANGED <<buffer, sent, misled, lost, executed, spoiled>> BY <1>4 DEF history
<1>15. OthersSame(c) BY <1>4, <1>14 DEF OthersSame, TypeInv
<1>. QED BY <1>2, <1>4, <1>13, <1>14, <1>15

\* What the connections become.
LEMMA ClientLink ==
    ASSUME Inv, NEW c \in Clients, Driver(c) \/ Caller(c), NEW m \in Conns
    PROVE  LinkOK(m)'
<1>. USE DEF Inv
<1>1. CASE Connect(c)
    <2>1. PICK n \in Conns : Opens(c, n) BY <1>1, ConnectOpens
    <2>2. CASE m = n BY <2>1, <2>2, SessionAssumption DEF Opens, LinkOK
    <2>3. CASE m # n /\ m # conn[c]
        <3>1. KeptLink(m) BY <2>1, <2>3 DEF Opens
        <3>. QED BY <3>1, LinkStays
    <2>4. CASE m # n /\ m = conn[c]
        <3>1. m # 0 BY DEF Conns
        <3>2. owner[m] = c BY <2>4, <3>1 DEF ClientOK, ConnOK
        <3>3. owner[m] # "nobody" BY <3>2, SessionAssumption
        <3>4. /\ owner'[m] = owner[m] /\ thread'[m] = thread[m] /\ command'[m] = command[m]
              /\ inbox'[m] \in {inbox[m], <<>>}
              /\ "server" \in closedBy'[m] =>
                   "server" \in closedBy[m] \/ (thread[m] = "none" /\ inbox'[m] = <<>>)
            BY <2>1, <2>4, <3>3 DEF Opens
        <3>. QED BY <3>3, <3>4 DEF LinkOK
    <2>. QED BY <2>2, <2>3, <2>4
<1>2. CASE ~ Connect(c)
    <2>1. OwnLink(c) /\ UNCHANGED <<owner, thread, command>>
        BY <1>2, OwnTouches DEF ClientOK
    <2>2. CASE m # conn[c]
        <3>1. SameLink(m) BY <2>1, <2>2 DEF OwnLink, SameLink
        <3>. QED BY <3>1, LinkStays DEF KeptLink
    <2>3. CASE m = conn[c]
        <3>1. m # 0 BY DEF Conns
        <3>2. owner[m] # "nobody" BY <2>3, <3>1, SessionAssumption DEF ClientOK, ConnOK
        <3>3. "server" \in closedBy'[m] => "server" \in closedBy[m] /\ inbox'[m] = inbox[m]
            BY <2>1 DEF OwnLink
        <3>. QED BY <2>1, <3>2, <3>3 DEF LinkOK
    <2>. QED BY <2>2, <2>3
<1>. QED BY <1>1, <1>2

\* A client does not touch the lock.
LEMMA ClientLock ==
    ASSUME Inv, NEW c \in Clients, Driver(c) \/ Caller(c)
    PROVE  LockOK'
<1>. USE DEF Inv
<1>1. CASE Connect(c)
    <2>1. PICK n \in Conns : Opens(c, n) BY <1>1, ConnectOpens
    <2>2. db_lock' = db_lock BY <1>1, ConnectOpens
    <2>3. thread[n] = "none" BY <2>1 DEF Opens, LinkOK
    <2>4. db_lock # n BY <2>3 DEF LockOK, Conns
    <2>5. \A m \in Conns \ {n} : thread'[m] = thread[m] /\ command'[m] = command[m]
        BY <2>1 DEF Opens
    <2>. QED BY <2>2, <2>4, <2>5 DEF LockOK, TypeInv
<1>2. CASE ~ Connect(c)
    <2>1. UNCHANGED <<thread, command, db_lock>> BY <1>2, OwnTouches DEF ClientOK
    <2>. QED BY <2>1 DEF LockOK
<1>. QED BY <1>1, <1>2

\* The other clients.
LEMMA OtherClients ==
    ASSUME Inv, NEW c \in Clients, Driver(c) \/ Caller(c), NEW d \in Clients \ {c}
    PROVE  ClientOK(d)'
<1>. USE DEF Inv
<1>1. OthersSame(c) /\ executed' = executed
    <2>1. CASE Connect(c) BY <2>1, ConnectOpens
    <2>2. CASE ~ Connect(c) BY <2>2, OwnTouches DEF ClientOK
    <2>. QED BY <2>1, <2>2
<1>2. ASSUME NEW m \in Conns, owner[m] = d PROVE KeptLink(m)
    <2>1. m # conn[c] BY <1>2 DEF ClientOK, ConnOK, Conns
    <2>2. CASE Connect(c)
        <3>1. PICK n \in Conns : Opens(c, n) BY <2>2, ConnectOpens
        <3>2. m # n BY <1>2, <3>1, SessionAssumption DEF Opens
        <3>. QED BY <2>1, <3>1, <3>2 DEF Opens
    <2>3. CASE ~ Connect(c)
        <3>1. OwnLink(c) /\ UNCHANGED <<owner, thread, command>>
            BY <2>3, OwnTouches DEF ClientOK
        <3>. QED BY <2>1, <3>1 DEF OwnLink, KeptLink, SameLink
    <2>. QED BY <2>2, <2>3
<1>3. \A m \in Conns : owner'[m] = d => owner[m] = d
    <2>1. CASE Connect(c)
        <3>1. PICK n \in Conns : Opens(c, n) BY <2>1, ConnectOpens
        <3>. QED BY <3>1 DEF Opens
    <2>2. CASE ~ Connect(c) BY <2>2, OwnTouches DEF ClientOK
    <2>. QED BY <2>1, <2>2
<1>4. conn[d] # 0 => conn[d] \in Conns /\ owner[conn[d]] = d
    BY DEF ClientOK, ConnOK, TypeInv
<1>5. SameClient(d) BY <1>1, <1>2, <1>4 DEF OthersSame, SameClient
<1>6. NothingNew(d)
    <2>1. ASSUME NEW m \in Conns, owner'[m] = d, NEW x \in Msgs, Pending(m, x)'
          PROVE  Pending(m, x)
        BY <1>2, <1>3, <2>1, PendingStays
    <2>. QED BY <1>3, <2>1 DEF NothingNew
<1>. QED BY <1>5, <1>6, ClientStays

\* A client opens, keeps and closes connections of its own.
LEMMA ClientConn ==
    ASSUME Inv, NEW c \in Clients, Driver(c) \/ Caller(c)
    PROVE  ConnOK(c)'
<1>. USE DEF Inv
<1>0. ConnOK(c) BY DEF ClientOK
<1>1. CASE Connect(c)
    <2>1. PICK n \in Conns : Opens(c, n) BY <1>1, ConnectOpens
    <2>. QED BY <2>1 DEF Opens, ConnOK
<1>2. ASSUME HangUp(c) PROVE conn'[c] = 0 /\ c \notin ready'
    BY <1>2 DEF HangUp, TypeInv
<1>3. CASE Close(c) BY <1>2, <1>3 DEF Close, ConnOK
<1>4. CASE PythonRead(c)
    <2>1. c \in PythonClients BY <1>4 DEF PythonRead, IsPython
    <2>2. owner' = owner /\ (HangUp(c) \/ UNCHANGED <<closedBy, conn>>)
        BY <1>4, <2>1, PythonReadTouches
    <2>3. CASE HangUp(c) BY <1>2, <2>3 DEF ConnOK
    <2>4. CASE UNCHANGED <<closedBy, conn>>
        <3>1. conn[c] # 0 BY <1>4 DEF PythonRead
        <3>. QED BY <1>0, <2>2, <2>4, <3>1 DEF ConnOK
    <2>. QED BY <2>2, <2>3, <2>4
<1>5. CASE JSRead(c) BY <1>0, <1>5 DEF JSRead, ConnOK
<1>6. CASE PythonSeeEnd(c)
    <2>1. CASE HangUp(c) BY <1>2, <2>1 DEF ConnOK
    <2>2. CASE ~ HangUp(c) BY <1>0, <1>6, <2>2 DEF PythonSeeEnd, ConnOK
    <2>. QED BY <2>1, <2>2
<1>7. CASE JSSeeEnd(c) BY <1>0, <1>7 DEF JSSeeEnd, ConnOK, TypeInv, network
<1>8. CASE Raise(c) BY <1>0, <1>8 DEF Raise, ConnOK, network
<1>9. ASSUME NEW kind \in Calls, Execute(c, kind) PROVE ConnOK(c)'
    BY <1>0, <1>9 DEF Execute, ConnOK
<1>. QED BY <1>1, <1>3, <1>4, <1>5, <1>6, <1>7, <1>8, <1>9 DEF Driver, Caller, Calls
------------------------------------------------------------------------------
(***************************************************************************)
(* The answers.                                                            *)
(***************************************************************************)
\* A Python client that receives anything receives what it waits for, and all of it.
LEMMA PythonReceives ==
    ASSUME Inv, NEW c \in PythonClients \ spoiled, PythonRead(c)
    PROVE  \E m \in Msgs :
             /\ Waits(c, m) /\ outbox[conn[c]] = <<m>> /\ inbox[conn[c]] = <<>>
             /\ thread[conn[c]] \notin Answering
             /\ Told(c, m) /\ Took(c, m, <<>>, <<>>)
<1>. USE DEF Inv
<1>1. c \in Clients /\ PythonOK(c) BY DEF Clients, ClientOK
<1>2. PICK n : n = conn[c] OBVIOUS
<1>3. PICK k \in 0..Len(outbox[n]) :
        /\ (k = 0) <=> (buffer[c] # <<>>)
        /\ Told(c, Head(Taken(c, k)))
        /\ Took(c, Head(Taken(c, k)), Kept(c, k), Tail(Taken(c, k)))
    BY <1>2, PythonTakes
<1>4. waiting[c] # <<>> BY PythonTakes
<1>5. PICK m \in Msgs : Waits(c, m) BY <1>1, <1>4 DEF PythonOK, Rests
<1>6. buffer[c] = <<>> /\ k # 0 BY <1>1, <1>3 DEF PythonOK
<1>7. outbox[n] # <<>>
    <2>1. Len(<<>>) = 0 OBVIOUS
    <2>2. ASSUME outbox[n] = <<>> PROVE FALSE
        <3>1. k \in 0..0 BY <1>3, <2>1, <2>2
        <3>. QED BY <1>6, <3>1
    <2>. QED BY <2>2
<1>8. outbox[n] = <<m>> /\ inbox[n] = <<>> /\ thread[n] \notin Answering
    BY <1>2, <1>5, <1>7 DEF Waits, Idle, At
<1>9. /\ <<>> \o SubSeq(<<m>>, 1, k) = <<m>>
      /\ SubSeq(<<m>>, k + 1, Len(<<m>>)) = <<>>
    <2>1. k \in 0..Len(<<m>>) BY <1>3, <1>8
    <2>. QED BY <1>6, <2>1, OneReceived
<1>10. Taken(c, k) = <<m>> /\ Kept(c, k) = <<>>
    BY <1>2, <1>6, <1>8, <1>9 DEF Taken, Kept
<1>11. Head(Taken(c, k)) = m /\ Tail(Taken(c, k)) = <<>> BY <1>10, One
<1>12. Told(c, m) /\ Took(c, m, <<>>, <<>>) BY <1>3, <1>10, <1>11
<1>. QED BY <1>2, <1>5, <1>8, <1>12

\* A caller gets the first of the replies, and the first reply is that to the first
\* command in line.
LEMMA JSReceives ==
    ASSUME Inv, NEW c \in JSClients \ spoiled, JSRead(c), waiting[c] # <<>>
    PROVE  Head(outbox[conn[c]]) = Head(waiting[c])
<1>. USE DEF Inv
<1>0. c \in Clients BY DEF Clients
<1>1. PICK n \in Conns : n = conn[c] BY <1>0 DEF JSRead, TypeInv
<1>2. n # 0 /\ outbox[n] # <<>> BY <1>1 DEF JSRead
<1>3. JSOK(c) BY <1>0 DEF ClientOK
<1>4. PICK rest \in Seq(Msgs) : waiting[c] = outbox[n] \o rest
    BY <1>1, <1>2, <1>3 DEF JSOK, Queued
<1>5. PICK o \in Seq(Msgs) : o = outbox[n] BY DEF TypeInv
<1>6. Head(o \o rest) = Head(o) BY <1>2, <1>5, ConcatTail
<1>. QED BY <1>1, <1>4, <1>5, <1>6

\* Once misled, a client stays what made it so.
LEMMA StaysSpoiled ==
    ASSUME NEW c \in Clients, Driver(c) \/ Caller(c), c \in spoiled
    PROVE  c \in spoiled'
BY DEF Driver, Caller, PythonRead, PythonSeeEnd, Raise, JSRead, JSSeeEnd, Connect, Close,
       Execute, history

\* So a caller gets the reply to its own command.
LEMMA ClientAnswer ==
    ASSUME Inv, NEW c \in Clients, Driver(c) \/ Caller(c), c \in misled'
    PROVE  c \in spoiled'
<1>. USE DEF Inv
<1>1. SUFFICES ASSUME c \notin spoiled PROVE c \notin misled' BY StaysSpoiled
<1>2. c \notin misled BY <1>1 DEF ClientOK
<1>3. CASE PythonRead(c)
    <2>1. c \in PythonClients \ spoiled BY <1>1, <1>3 DEF PythonRead, IsPython
    <2>2. PICK m \in Msgs : Waits(c, m) /\ Told(c, m) BY <1>3, <2>1, PythonReceives
    <2>3. Head(waiting[c]) = m BY <2>2, One DEF Waits
    <2>. QED BY <1>2, <2>2, <2>3 DEF Told
<1>4. CASE JSRead(c)
    <2>1. c \in JSClients \ spoiled BY <1>1, <1>4 DEF JSRead, IsPython, Clients
    <2>2. CASE waiting[c] = <<>> BY <1>2, <1>4, <2>2 DEF JSRead
    <2>3. CASE waiting[c] # <<>>
        <3>1. Head(outbox[conn[c]]) = Head(waiting[c]) BY <1>4, <2>1, <2>3, JSReceives
        <3>2. misled' = misled BY <1>4, <2>3, <3>1 DEF JSRead, Told
        <3>. QED BY <1>2, <3>2
    <2>. QED BY <2>2, <2>3
<1>5. CASE ~ PythonRead(c) /\ ~ JSRead(c)
    <2>1. misled' = misled
        BY <1>5 DEF Driver, Caller, PythonSeeEnd, Raise, JSSeeEnd, Connect, Close, Execute,
                    history
    <2>. QED BY <1>2, <2>1
<1>. QED BY <1>3, <1>4, <1>5
------------------------------------------------------------------------------
(***************************************************************************)
(* What a Python caller is told of lost commands.                          *)
(***************************************************************************)
\* A message brings the server no other command.
LEMMA SendPending ==
    ASSUME TypeInv, NEW n \in Conns, NEW m \in Msgs, SendTo(n, m),
           UNCHANGED <<thread, command>>,
           NEW q \in Conns, NEW x \in Msgs, Pending(q, x)'
    PROVE  Pending(q, x) \/ (q = n /\ x = m)
<1>1. x.kind = "command" BY DEF Pending
<1>2. CASE inbox'[q] = inbox[q] BY <1>2 DEF Pending
<1>3. CASE inbox'[q] # inbox[q]
    <2>1. q = n /\ inbox'[q] = Append(inbox[q], m) BY <1>3 DEF SendTo, TypeInv
    <2>2. PICK s \in Seq(Msgs) : s = inbox[q] BY DEF TypeInv
    <2>3. /\ DOMAIN Append(s, m) = DOMAIN s \cup {Len(s) + 1}
          /\ \A i \in DOMAIN s : Append(s, m)[i] = s[i]
          /\ Append(s, m)[Len(s) + 1] = m
        BY AppendType
    <2>4. CASE thread'[q] = "lock" /\ command'[q] = x BY <1>1, <2>4 DEF Pending
    <2>5. ASSUME NEW i \in DOMAIN Append(s, m), Append(s, m)[i] = x
          PROVE  Pending(q, x) \/ x = m
        <3>1. CASE i = Len(s) + 1 BY <2>3, <2>5, <3>1
        <3>2. CASE i \in DOMAIN s
            <4>1. s[i] = x BY <2>3, <2>5, <3>2
            <4>. QED BY <1>1, <2>2, <3>2, <4>1 DEF Pending
        <3>. QED BY <2>3, <3>1, <3>2
    <2>. QED BY <2>1, <2>2, <2>4, <2>5 DEF Pending
<1>. QED BY <1>2, <1>3

\* What stays to be shown if no execute() begins or is told of a loss.
LEMMA LostRests ==
    ASSUME TypeInv, NEW c \in Clients, LostOK(c),
           sent' = sent, lost' = lost, executed' = executed,
           \A q \in Conns, x \in Msgs :
             owner'[q] = c /\ Pending(q, x)' => owner[q] = c /\ Pending(q, x),
           waiting'[c] = <<>> \/ (conn'[c] # 0 /\ waiting'[c] \in {<<Welcome>>, <<Login>>})
    PROVE  LostOK(c)'
<1>1. \A k \in Nat :
         /\ Of(c, k) \in lost' => k <= sent'[c]
         /\ Of(c, k) \in executed' => k # 0 /\ k <= sent'[c] /\ Of(c, k) \notin lost'
    BY DEF LostOK
<1>2. \A q \in Conns, x \in Msgs : owner'[q] = c /\ Pending(q, x)' =>
         x.num # 0 /\ x.num <= sent'[c] /\ Of(c, x.num) \notin lost'
    BY DEF LostOK
<1>3. ASSUME NEW m \in {Welcome, Login}, conn'[c] # 0, waiting'[c] = <<m>>
      PROVE  \E y \in Msgs : InCall(c, y)'
    <2>1. m \in Msgs BY MessageTypes
    <2>2. InCall(c, m)' BY <1>3 DEF InCall, Welcome, Login, Msg
    <2>. QED BY <2>1, <2>2
<1>4. waiting'[c] = <<>> \/ \E m \in Msgs : InCall(c, m)' BY <1>3
<1>. QED BY <1>1, <1>2, <1>4 DEF LostOK, Of

\* The goodbye and the login are no commands.
LEMMA NoCommandSent ==
    ASSUME Inv, NEW c \in Clients, NEW m \in {Login, Goodbye}, conn[c] # 0,
           SendTo(conn[c], m), UNCHANGED <<owner, thread, command>>
    PROVE  \A q \in Conns, x \in Msgs :
             owner'[q] = c /\ Pending(q, x)' => owner[q] = c /\ Pending(q, x)
<1>. USE DEF Inv
<1>1. PICK n \in Conns : n = conn[c] BY DEF TypeInv
<1>2. m \in Msgs /\ m.kind # "command" BY MessageTypes
<1>3. ASSUME NEW q \in Conns, NEW x \in Msgs, Pending(q, x)' PROVE Pending(q, x)
    <2>1. x # m BY <1>2, <1>3 DEF Pending
    <2>2. SendTo(n, m) BY <1>1
    <2>. QED BY <1>2, <1>3, <2>1, <2>2, SendPending
<1>. QED BY <1>3

\* connect() brings no command.
LEMMA ConnectLost ==
    ASSUME Inv, NEW c \in PythonClients, Connect(c)
    PROVE  LostOK(c)'
<1>. USE DEF Inv
<1>1. c \in Clients /\ LostOK(c) BY DEF Clients, ClientOK
<1>2. PICK n \in Conns : Opens(c, n) BY <1>1, ConnectOpens
<1>3. sent' = sent /\ lost' = lost /\ executed' = executed BY <1>1, ConnectOpens
<1>4. waiting[c] = <<>> BY DEF Connect, IsPython
<1>5. waiting'[c] = <<Welcome>> /\ conn'[c] # 0
    <2>1. waiting'[c] = Append(<<>>, Welcome) BY <1>2, <1>4 DEF Opens
    <2>. QED BY <1>2, <2>1, One, MessageTypes DEF Opens
<1>6. DOMAIN <<>> = {} OBVIOUS
<1>7. ASSUME NEW q \in Conns, NEW x \in Msgs, owner'[q] = c, Pending(q, x)'
      PROVE  owner[q] = c /\ Pending(q, x)
    <2>1. CASE q = n
        <3>1. inbox'[q] = <<>> /\ thread'[q] # "lock" BY <1>2, <2>1 DEF Opens
        <3>. QED BY <1>6, <1>7, <3>1 DEF Pending
    <2>2. CASE q # n
        <3>1. /\ owner'[q] = owner[q] /\ thread'[q] = thread[q] /\ command'[q] = command[q]
              /\ inbox'[q] \in {inbox[q], <<>>}
            BY <1>2, <2>2 DEF Opens
        <3>. QED BY <1>6, <1>7, <3>1 DEF Pending
    <2>. QED BY <2>1, <2>2
<1>. QED BY <1>1, <1>3, <1>5, <1>7, LostRests

\* The command of execute() is a new one.
LEMMA ExecuteLost ==
    ASSUME Inv, NEW c \in PythonClients, NEW kind \in Calls, Execute(c, kind)
    PROVE  LostOK(c)'
<1>. USE DEF Inv
<1>1. c \in Clients /\ LostOK(c) /\ sent[c] \in Nat BY DEF Clients, ClientOK, TypeInv
<1>2. PICK n \in Conns : n = conn[c] BY <1>1 DEF Execute, TypeInv
<1>3. sent[c] + 1 \in Nat BY <1>1
<1>4. PICK m \in Msgs : m = Msg(kind, sent[c] + 1) BY <1>3, MessageTypes
<1>5. /\ waiting[c] = <<>> /\ n # 0 /\ SendTo(n, m)
      /\ sent' = [sent EXCEPT ![c] = @ + 1]
      /\ waiting' = [waiting EXCEPT ![c] = Append(@, m)]
      /\ UNCHANGED <<owner, thread, command, conn, lost, executed>>
    <2>1. SendTo(n, m) BY <1>2, <1>4 DEF Execute
    <2>2. waiting' = [waiting EXCEPT ![c] = Append(@, m)] BY <1>4 DEF Execute
    <2>. QED BY <1>2, <2>1, <2>2 DEF Execute, IsPython, threads
<1>6. /\ sent'[c] = sent[c] + 1 /\ waiting'[c] = <<m>> /\ conn'[c] = n
      /\ m.num = sent[c] + 1
    <2>1. sent'[c] = sent[c] + 1 BY <1>1, <1>5 DEF TypeInv
    <2>2. waiting'[c] = Append(<<>>, m) BY <1>1, <1>5 DEF TypeInv
    <2>3. m.num = sent[c] + 1 BY <1>4 DEF Msg
    <2>. QED BY <1>2, <1>5, <2>1, <2>2, <2>3, One
<1>7. ~ (sent[c] + 1 <= sent[c]) /\ sent[c] + 1 # 0 /\ sent[c] + 1 <= sent[c] + 1
    BY <1>1
<1>8. Of(c, sent[c] + 1) \notin lost /\ Of(c, sent[c] + 1) \notin executed
    BY <1>1, <1>3, <1>7 DEF LostOK
<1>9. \A k \in Nat :
         /\ Of(c, k) \in lost' => k <= sent'[c]
         /\ Of(c, k) \in executed' => k # 0 /\ k <= sent'[c] /\ Of(c, k) \notin lost'
    <2>1. \A k \in Nat : k <= sent[c] => k <= sent'[c] BY <1>1, <1>6
    <2>. QED BY <1>1, <1>5, <2>1 DEF LostOK
<1>10. ASSUME NEW q \in Conns, NEW x \in Msgs, owner'[q] = c, Pending(q, x)'
       PROVE  \/ x.num # 0 /\ x.num <= sent[c] /\ Of(c, x.num) \notin lost
              \/ q = n /\ x.num = sent[c] + 1
    <2>1. owner[q] = c BY <1>5, <1>10
    <2>2. Pending(q, x) \/ (q = n /\ x = m)
        <3>1. UNCHANGED <<thread, command>> BY <1>5
        <3>. QED BY <1>5, <1>10, <3>1, SendPending
    <2>. QED BY <1>1, <1>6, <2>1, <2>2 DEF LostOK
<1>11. ASSUME NEW q \in Conns, NEW x \in Msgs, owner'[q] = c, Pending(q, x)'
       PROVE  x.num # 0 /\ x.num <= sent'[c] /\ Of(c, x.num) \notin lost'
    <2>1. x.num \in Nat BY DEF Msgs
    <2>. QED BY <1>1, <1>5, <1>6, <1>7, <1>8, <1>10, <1>11, <2>1
<1>12. InCall(c, m)'
    <2>1. ASSUME NEW q \in Conns, NEW x \in Msgs, owner'[q] = c, q # conn'[c], Pending(q, x)'
          PROVE  x.num # sent'[c]
        BY <1>6, <1>7, <1>10, <2>1
    <2>2. /\ sent'[c] # 0 /\ Of(c, sent'[c]) \notin lost' /\ Of(c, sent'[c]) \notin executed'
        BY <1>5, <1>6, <1>7, <1>8
    <2>. QED BY <1>5, <1>6, <2>1, <2>2 DEF InCall, Of
<1>. QED BY <1>9, <1>11, <1>12 DEF LostOK, Of

\* A connection has ended: its reply would be on the way.
LEMMA EndedLink ==
    ASSUME Inv, NEW c \in Clients, Ended(c)
    PROVE  /\ conn[c] \in Conns /\ conn[c] # 0 /\ inbox[conn[c]] = <<>>
           /\ thread[conn[c]] = "none" /\ outbox[conn[c]] = <<>> /\ Idle(conn[c])
<1>. USE DEF Inv
<1>1. PICK n \in Conns : n = conn[c] BY DEF Ended, TypeInv
<1>2. outbox[n] = <<>> /\ "server" \in closedBy[n] /\ n # 0 BY <1>1 DEF Ended
<1>3. thread[n] = "none" /\ inbox[n] = <<>> BY <1>2 DEF LinkOK
<1>. QED BY <1>1, <1>2, <1>3 DEF Idle, Answering

\* So the command was not executed, nor will it be.
LEMMA SeeEndLost ==
    ASSUME Inv, NEW c \in PythonClients, PythonSeeEnd(c)
    PROVE  LostOK(c)'
<1>. USE DEF Inv
<1>1. c \in Clients /\ LostOK(c) /\ sent[c] \in Nat BY DEF Clients, ClientOK, TypeInv
<1>2. /\ waiting[c] # <<>> /\ buffer[c] = <<>> /\ waiting' = [waiting EXCEPT ![c] = <<>>]
      /\ Ended(c) /\ UNCHANGED <<owner, thread, command, sent, executed>>
    BY DEF PythonSeeEnd, threads
<1>3. waiting'[c] = <<>> BY <1>1, <1>2 DEF TypeInv
<1>4. PICK m \in Msgs : InCall(c, m) BY <1>1, <1>2 DEF LostOK
<1>5. Head(waiting[c]) = m BY <1>4, One DEF InCall
<1>6. CASE m \in {Welcome, Login}
    <2>1. HangUp(c) /\ lost' = lost BY <1>5, <1>6 DEF PythonSeeEnd
    <2>2. conn[c] # 0 /\ SendTo(conn[c], Goodbye) BY <1>2, <2>1 DEF Ended, HangUp
    <2>3. \A q \in Conns, x \in Msgs :
             owner'[q] = c /\ Pending(q, x)' => owner[q] = c /\ Pending(q, x)
        BY <1>1, <1>2, <2>2, NoCommandSent
    <2>. QED BY <1>1, <1>2, <1>3, <2>1, <2>3, LostRests
<1>7. CASE m \notin {Welcome, Login}
    <2>1. m.num = sent[c] /\ sent[c] # 0 /\ Of(c, sent[c]) \notin executed
        <3>1. ~ Replied(c) BY <1>1, <1>2, EndedLink DEF Replied
        <3>. QED BY <1>4, <1>7, <3>1 DEF InCall
    <2>2. lost' = lost \cup {Of(c, sent[c])} /\ inbox' = inbox
        BY <1>5, <1>7, <2>1 DEF PythonSeeEnd, Of
    <2>3. \A k \in Nat : Of(c, k) \in lost' => Of(c, k) \in lost \/ k = sent[c]
        BY <2>2 DEF Of
    <2>4. \A k \in Nat :
             /\ Of(c, k) \in lost' => k <= sent'[c]
             /\ Of(c, k) \in executed' => k # 0 /\ k <= sent'[c] /\ Of(c, k) \notin lost'
        BY <1>1, <1>2, <2>1, <2>3 DEF LostOK
    <2>5. ASSUME NEW q \in Conns, NEW x \in Msgs, owner'[q] = c, Pending(q, x)'
          PROVE  x.num # 0 /\ x.num <= sent'[c] /\ Of(c, x.num) \notin lost'
        <3>1. owner[q] = c /\ Pending(q, x) BY <1>2, <2>2, <2>5 DEF Pending
        <3>2. x.num # sent[c]
            <4>1. CASE q = conn[c]
                <5>1. DOMAIN <<>> = {} OBVIOUS
                <5>2. inbox[q] = <<>> /\ thread[q] = "none" BY <1>1, <1>2, <4>1, EndedLink
                <5>. QED BY <3>1, <5>1, <5>2 DEF Pending
            <4>2. CASE q # conn[c] BY <1>4, <1>7, <3>1, <4>2 DEF InCall
            <4>. QED BY <4>1, <4>2
        <3>3. x.num \in Nat BY DEF Msgs
        <3>. QED BY <1>1, <1>2, <2>3, <3>1, <3>2, <3>3 DEF LostOK
    <2>. QED BY <1>3, <2>4, <2>5 DEF LostOK, Of
<1>. QED BY <1>6, <1>7

\* What a Python caller is told of lost commands stays true.
LEMMA ClientLost ==
    ASSUME Inv, NEW c \in PythonClients, Driver(c) \/ Caller(c)
    PROVE  LostOK(c)'
<1>. USE DEF Inv
<1>1. c \in Clients /\ LostOK(c) BY DEF Clients, ClientOK
<1>2. CASE PythonRead(c)
    <2>1. /\ UNCHANGED <<owner, thread, command, executed, lost, sent>>
          /\ \/ HangUp(c) /\ conn[c] # 0 /\ waiting'[c] = <<>>
             \/ /\ UNCHANGED <<closedBy, conn>>
                /\ \/ inbox' = inbox /\ waiting'[c] = <<>>
                   \/ SendTo(conn[c], Login) /\ waiting'[c] = <<Login>>
        BY <1>2, PythonReadTouches DEF threads
    <2>2. conn[c] # 0 BY <1>2, PythonTakes
    <2>3. CASE inbox' = inbox /\ waiting'[c] = <<>>
        <3>1. \A q \in Conns, x \in Msgs :
                 owner'[q] = c /\ Pending(q, x)' => owner[q] = c /\ Pending(q, x)
            BY <2>1, <2>3 DEF Pending
        <3>. QED BY <1>1, <2>1, <2>3, <3>1, LostRests
    <2>4. CASE HangUp(c) /\ waiting'[c] = <<>>
        <3>1. SendTo(conn[c], Goodbye) BY <2>4 DEF HangUp
        <3>2. \A q \in Conns, x \in Msgs :
                 owner'[q] = c /\ Pending(q, x)' => owner[q] = c /\ Pending(q, x)
            BY <1>1, <2>1, <2>2, <3>1, NoCommandSent
        <3>. QED BY <1>1, <2>1, <2>4, <3>2, LostRests
    <2>5. CASE SendTo(conn[c], Login) /\ waiting'[c] = <<Login>> /\ conn' = conn
        <3>1. \A q \in Conns, x \in Msgs :
                 owner'[q] = c /\ Pending(q, x)' => owner[q] = c /\ Pending(q, x)
            BY <1>1, <2>1, <2>2, <2>5, NoCommandSent
        <3>2. conn'[c] # 0 BY <2>2, <2>5
        <3>. QED BY <1>1, <2>1, <2>5, <3>1, <3>2, LostRests
    <2>. QED BY <2>1, <2>3, <2>4, <2>5
<1>3. CASE Raise(c)
    <2>1. /\ UNCHANGED <<owner, inbox, thread, command, sent, lost, executed>>
          /\ waiting' = [waiting EXCEPT ![c] = <<>>]
        BY <1>3 DEF Raise, network, threads, history
    <2>2. waiting'[c] = <<>> BY <1>1, <2>1 DEF TypeInv
    <2>3. \A q \in Conns, x \in Msgs :
             owner'[q] = c /\ Pending(q, x)' => owner[q] = c /\ Pending(q, x)
        BY <2>1 DEF Pending
    <2>. QED BY <1>1, <2>1, <2>2, <2>3, LostRests
<1>4. CASE Close(c)
    <2>1. /\ UNCHANGED <<owner, thread, command, waiting, sent, lost, executed>>
          /\ conn[c] # 0 /\ waiting[c] = <<>> /\ SendTo(conn[c], Goodbye)
        BY <1>4 DEF Close, HangUp, IsPython, threads
    <2>2. \A q \in Conns, x \in Msgs :
             owner'[q] = c /\ Pending(q, x)' => owner[q] = c /\ Pending(q, x)
        BY <1>1, <2>1, NoCommandSent
    <2>3. waiting'[c] = <<>> BY <2>1
    <2>. QED BY <1>1, <2>1, <2>2, <2>3, LostRests
<1>5. ~ JSRead(c) /\ ~ JSSeeEnd(c) BY DEF JSRead, JSSeeEnd, IsPython
<1>. QED BY <1>2, <1>3, <1>4, <1>5, ConnectLost, ExecuteLost, SeeEndLost
     DEF Driver, Caller, Calls
------------------------------------------------------------------------------
(***************************************************************************)
(* What a Python client waits for.                                         *)
(***************************************************************************)
\* connect(): the new connection brings the welcome.
LEMMA PythonConnect ==
    ASSUME Inv, NEW c \in PythonClients \ spoiled, Connect(c)
    PROVE  PythonOK(c)'
<1>. USE DEF Inv
<1>1. c \in Clients /\ PythonOK(c) BY DEF Clients, ClientOK
<1>2. PICK n \in Conns : Opens(c, n) BY <1>1, ConnectOpens
<1>3. buffer' = buffer BY <1>1, ConnectOpens
<1>4. waiting[c] = <<>> BY DEF Connect, IsPython
<1>5. waiting'[c] = <<Welcome>>
    <2>1. waiting'[c] = Append(<<>>, Welcome) BY <1>2, <1>4 DEF Opens
    <2>. QED BY <2>1, One, MessageTypes
<1>6. At(n, Welcome)' BY <1>2 DEF Opens, At, Answering, Welcome, Msg
<1>7. Waits(c, Welcome)' BY <1>2, <1>5, <1>6 DEF Opens, Waits, Welcome, Login, Msg, At, Idle
<1>8. \E m \in Msgs : Waits(c, m)'
    <2>1. PICK w \in Msgs : w = Welcome BY MessageTypes
    <2>2. Waits(c, w)' BY <1>7, <2>1 DEF Waits, Welcome, Login, Msg, At, Idle
    <2>. QED BY <2>2
<1>. QED BY <1>1, <1>3, <1>8 DEF PythonOK

\* execute(): a new command on an idle connection, or on one that has ended.
LEMMA PythonExecute ==
    ASSUME Inv, NEW c \in PythonClients \ spoiled, NEW kind \in Calls, Execute(c, kind),
           c \notin spoiled'
    PROVE  PythonOK(c)'
<1>. USE DEF Inv
<1>1. c \in Clients /\ PythonOK(c) /\ sent[c] \in Nat BY DEF Clients, ClientOK, TypeInv
<1>2. PICK n \in Conns : n = conn[c] BY <1>1 DEF Execute, TypeInv
<1>3. PICK m \in Msgs : m = Msg(kind, sent[c] + 1)
    <2>1. sent[c] + 1 \in Nat BY <1>1
    <2>. QED BY <2>1, MessageTypes
<1>4. /\ n # 0 /\ c \in ready /\ waiting[c] = <<>> /\ SendTo(n, m)
      /\ waiting' = [waiting EXCEPT ![c] = Append(@, m)]
      /\ UNCHANGED <<outbox, thread, command, conn, buffer, ready>>
    <2>1. SendTo(n, m) BY <1>2, <1>3 DEF Execute
    <2>2. waiting' = [waiting EXCEPT ![c] = Append(@, m)] BY <1>3 DEF Execute
    <2>3. c \in ready BY DEF Execute, IsPython
    <2>. QED BY <1>2, <2>1, <2>2, <2>3 DEF Execute, IsPython, threads
<1>5. Idle(n)
    <2>1. Rests(c) BY <1>1, <1>4, OneNotEmpty DEF PythonOK, Waits
    <2>. QED BY <1>2, <1>4, <2>1 DEF Rests
<1>6. Idle(n)' \/ At(n, m)'
    <2>1. CASE closedBy[n] = {}
        <3>1. inbox[n] = <<>> BY <1>5 DEF Idle
        <3>2. inbox'[n] = <<m>> BY <1>4, <2>1, <3>1, One DEF SendTo, TypeInv
        <3>. QED BY <1>4, <1>5, <3>2 DEF Idle, At
    <2>2. CASE closedBy[n] # {}
        <3>1. inbox'[n] = inbox[n] BY <1>4, <2>2 DEF SendTo, TypeInv
        <3>. QED BY <1>4, <1>5, <3>1 DEF Idle, At
    <2>. QED BY <2>1, <2>2
<1>7. waiting'[c] = <<m>> /\ conn'[c] = n /\ m.kind \in Calls
    <2>1. waiting'[c] = Append(<<>>, m) BY <1>1, <1>4 DEF TypeInv
    <2>. QED BY <1>2, <1>3, <1>4, <2>1, One DEF Msg
<1>8. Waits(c, m)' BY <1>4, <1>6, <1>7 DEF Waits, Idle, At
<1>. QED BY <1>1, <1>4, <1>8 DEF PythonOK

\* The reply arrives; the welcome is followed by the login.
LEMMA PythonReply ==
    ASSUME Inv, NEW c \in PythonClients \ spoiled, PythonRead(c)
    PROVE  PythonOK(c)'
<1>. USE DEF Inv
<1>1. c \in Clients BY DEF Clients
<1>2. PICK m \in Msgs :
        /\ Waits(c, m) /\ outbox[conn[c]] = <<m>> /\ inbox[conn[c]] = <<>>
        /\ thread[conn[c]] \notin Answering
        /\ Took(c, m, <<>>, <<>>)
    BY PythonReceives
<1>3. PICK n \in Conns : n = conn[c] /\ n # 0 BY <1>1, <1>2 DEF Waits, TypeInv
<1>4. Head(waiting[c]) = m BY <1>2, One DEF Waits
<1>5. thread' = thread /\ command' = command BY PythonTakes DEF threads
<1>6. /\ outbox' = [outbox EXCEPT ![n] = <<>>] /\ buffer' = [buffer EXCEPT ![c] = <<>>]
      /\ UNCHANGED <<closedBy, conn>>
      /\ m = Welcome => /\ SendTo(n, Login) /\ waiting' = [waiting EXCEPT ![c] = <<Login>>]
                        /\ ready' = ready
      /\ m # Welcome => inbox' = inbox /\ waiting' = [waiting EXCEPT ![c] = <<>>]
    BY <1>2, <1>3, <1>4, MessageTypes DEF Took
<1>7. /\ outbox'[n] = <<>> /\ buffer'[c] = <<>> /\ conn'[c] = n
      /\ thread'[n] \notin Answering
    BY <1>1, <1>2, <1>3, <1>5, <1>6 DEF TypeInv
<1>8. CASE m # Welcome
    <2>1. waiting'[c] = <<>> /\ inbox'[n] = <<>> BY <1>1, <1>2, <1>3, <1>6, <1>8 DEF TypeInv
    <2>2. Idle(n)' BY <1>7, <2>1 DEF Idle, Answering
    <2>. QED BY <1>7, <2>1, <2>2 DEF PythonOK, Rests, Idle
<1>9. CASE m = Welcome
    <2>1. c \notin ready /\ ready' = ready
        <3>1. m.kind \notin Calls BY <1>9, MessageTypes DEF Calls
        <3>. QED BY <1>2, <1>6, <1>9, <3>1 DEF Waits
    <2>2. waiting'[c] = <<Login>> BY <1>1, <1>6, <1>9 DEF TypeInv
    <2>3. Idle(n)' \/ At(n, Login)'
        <3>1. CASE closedBy[n] = {}
            <4>1. inbox'[n] = Append(<<>>, Login)
                BY <1>2, <1>3, <1>6, <1>9, <3>1 DEF SendTo, TypeInv
            <4>2. inbox'[n] = <<Login>> BY <4>1, One, MessageTypes
            <4>. QED BY <1>7, <4>2 DEF At, Answering, Login, Msg
        <3>2. CASE closedBy[n] # {}
            <4>1. inbox'[n] = <<>> BY <1>2, <1>3, <1>6, <1>9, <3>2 DEF SendTo, TypeInv
            <4>. QED BY <1>7, <4>1 DEF Idle, Answering
        <3>. QED BY <3>1, <3>2
    <2>4. PICK l \in Msgs : l = Login BY MessageTypes
    <2>5. Waits(c, l)'
        BY <1>3, <1>7, <2>1, <2>2, <2>3, <2>4 DEF Waits, Idle, At, Login, Welcome, Msg
    <2>. QED BY <1>7, <2>5 DEF PythonOK
<1>. QED BY <1>8, <1>9

\* The end of a connection: nothing is on the way.
LEMMA PythonEnd ==
    ASSUME Inv, NEW c \in PythonClients \ spoiled, PythonSeeEnd(c)
    PROVE  PythonOK(c)'
<1>. USE DEF Inv
<1>1. c \in Clients /\ Ended(c) BY DEF Clients, PythonSeeEnd
<1>2. PICK n \in Conns : n = conn[c] /\ n # 0 /\ Idle(n) BY <1>1, EndedLink
<1>3. waiting'[c] = <<>>
    <2>1. waiting' = [waiting EXCEPT ![c] = <<>>] BY DEF PythonSeeEnd
    <2>. QED BY <1>1, <2>1 DEF TypeInv
<1>4. CASE HangUp(c)
    <2>1. conn'[c] = 0 /\ buffer'[c] = <<>> BY <1>1, <1>4 DEF HangUp, TypeInv
    <2>. QED BY <1>3, <2>1 DEF PythonOK, Rests
<1>5. CASE ~ HangUp(c)
    <2>1. UNCHANGED <<inbox, outbox, thread, conn, buffer>> /\ buffer[c] = <<>>
        BY <1>5 DEF PythonSeeEnd, threads
    <2>. QED BY <1>2, <1>3, <2>1 DEF PythonOK, Rests, Idle
<1>. QED BY <1>4, <1>5

\* The login is given up; its replies may still come, to nobody.  Or the connection has
\* ended.
LEMMA PythonRaise ==
    ASSUME Inv, NEW c \in PythonClients \ spoiled, Raise(c)
    PROVE  PythonOK(c)'
<1>. USE DEF Inv
<1>1. c \in Clients /\ PythonOK(c) BY DEF Clients, ClientOK
<1>2. /\ UNCHANGED <<inbox, outbox, thread, command, conn, buffer, ready>>
      /\ waiting' = [waiting EXCEPT ![c] = <<>>] /\ waiting[c] # <<>>
      /\ c \notin ready \/ Ended(c)
    BY DEF Raise, network, threads
<1>3. PICK m \in Msgs : Waits(c, m) BY <1>1, <1>2 DEF PythonOK, Rests
<1>4. Idle(conn[c]) \/ (c \notin ready /\ (At(conn[c], Welcome) \/ At(conn[c], Login)))
    BY <1>1, <1>2, <1>3, EndedLink DEF Waits
<1>5. waiting'[c] = <<>> BY <1>1, <1>2 DEF TypeInv
<1>6. Rests(c)' BY <1>2, <1>4, <1>5 DEF Rests, Idle, At, Welcome, Login, Msg
<1>. QED BY <1>1, <1>2, <1>6 DEF PythonOK

\* close(): there is no connection any more.
LEMMA PythonClose ==
    ASSUME Inv, NEW c \in PythonClients \ spoiled, Close(c)
    PROVE  PythonOK(c)'
<1>. USE DEF Inv
<1>1. c \in Clients /\ waiting[c] = <<>> /\ HangUp(c) /\ waiting' = waiting
    BY DEF Clients, Close, IsPython
<1>2. conn'[c] = 0 /\ buffer'[c] = <<>> BY <1>1 DEF HangUp, TypeInv
<1>. QED BY <1>1, <1>2 DEF PythonOK, Rests

\* Whatever the client does, if it is used as it should be.
LEMMA ClientPython ==
    ASSUME Inv, NEW c \in PythonClients, Driver(c) \/ Caller(c), c \notin spoiled'
    PROVE  PythonOK(c)'
<1>1. c \in Clients BY DEF Clients
<1>2. c \in PythonClients \ spoiled BY <1>1, StaysSpoiled
<1>3. ~ JSRead(c) /\ ~ JSSeeEnd(c) BY DEF JSRead, JSSeeEnd, IsPython
<1>. QED BY <1>2, <1>3, PythonConnect, PythonExecute, PythonReply, PythonEnd, PythonRaise,
        PythonClose DEF Driver, Caller, Calls
------------------------------------------------------------------------------
(***************************************************************************)
(* What a JavaScript client waits for.                                     *)
(***************************************************************************)
\* connect(): the first promise is that of the welcome.
LEMMA JSConnect ==
    ASSUME Inv, NEW c \in JSClients \ spoiled, Connect(c)
    PROVE  JSOK(c)'
<1>. USE DEF Inv
<1>1. c \in Clients /\ c \notin PythonClients /\ JSOK(c)
    BY SessionAssumption DEF Clients, ClientOK
<1>2. PICK n \in Conns : Opens(c, n) BY <1>1, ConnectOpens
<1>3. conn[c] = 0 BY <1>1 DEF Connect, IsPython
<1>4. /\ inbox'[n] = <<>> /\ outbox'[n] = <<>> /\ command'[n] = Welcome
      /\ thread'[n] = "send" /\ conn'[c] = n /\ n # 0
    BY <1>2 DEF Opens
<1>5. waiting'[c] = <<Welcome>>
    <2>1. waiting[c] = <<>> BY <1>1, <1>3 DEF JSOK
    <2>2. waiting'[c] = Append(<<>>, Welcome) BY <1>2, <2>1 DEF Opens
    <2>. QED BY <2>2, One, MessageTypes
<1>6. PICK w \in Msgs : w = Welcome BY MessageTypes
<1>7. <<w>> \in Seq(Msgs) /\ <<>> \o <<w>> = <<w>> /\ <<w>> \o <<>> = <<w>>
    BY One, ConcatEmptySeq
<1>8. Unanswered(n)' = <<w>> BY <1>4, <1>6, <1>7 DEF Unanswered, Answering
<1>9. \A i \in DOMAIN <<w>> : <<w>>[i].kind # "empty"
    <2>1. w.kind # "empty" BY <1>6, MessageTypes
    <2>. QED BY <2>1, OneEntry
<1>10. Queued(c, <<w>>)' BY <1>4, <1>5, <1>6, <1>7, <1>8, <1>9 DEF Queued, Unanswered
<1>. QED BY <1>4, <1>7, <1>10 DEF JSOK

\* A message is sent and waited for.
LEMMA JSAppends ==
    ASSUME TypeInv, NEW c \in Clients, JSOK(c), NEW n \in Conns, n = conn[c], n # 0,
           NEW m \in Msgs, m.kind # "empty", SendTo(n, m), "client" \notin closedBy[n],
           NEW o \in Seq(Msgs), outbox'[n] = o,
           \A r \in Seq(Msgs) : Queued(c, r) => waiting'[c] = Joined(o, Longer(r, m)),
           UNCHANGED <<closedBy, thread, command, conn>>
    PROVE  \E r \in Seq(Msgs) : Queued(c, r)'
<1>1. PICK r \in Seq(Msgs) : Queued(c, r) BY DEF JSOK
<1>2. PICK i \in Seq(Msgs) : i = inbox[n] BY DEF TypeInv
<1>3. PICK x \in Msgs : x = command[n] BY DEF TypeInv
<1>4. Append(r, m) \in Seq(Msgs) /\ waiting'[c] = o \o Append(r, m)
    <2>1. waiting'[c] = Joined(o, Longer(r, m)) BY <1>1
    <2>2. waiting'[c] = o \o Append(r, m) BY <2>1, Zenon DEF Joined, Longer
    <2>. QED BY <2>2, AppendType
<1>5. ASSUME "server" \notin closedBy[n] PROVE Append(r, m) = Unanswered(n)'
    <2>0. closedBy[n] \in SUBSET {"client", "server"} BY DEF TypeInv
    <2>1. closedBy[n] = {} BY <1>5, <2>0
    <2>2. inbox'[n] = Append(i, m) BY <1>2, <2>1 DEF SendTo, TypeInv
    <2>3. r = Unanswered(n) BY <1>1, <1>5 DEF Queued
    <2>4. CASE thread[n] \in Answering
        <3>1. r = <<x>> \o i BY <1>2, <1>3, <2>3, <2>4 DEF Unanswered
        <3>2. Append(<<x>> \o i, m) = <<x>> \o Append(i, m)
            <4>1. PICK p \in Seq(Msgs) : p = <<x>> BY One
            <4>2. Longer(Joined(p, i), m) = Joined(p, Longer(i, m)) BY LongerMoves
            <4>3. Append(p \o i, m) = p \o Append(i, m) BY <4>2, Zenon DEF Longer, Joined
            <4>. QED BY <4>1, <4>3
        <3>3. Unanswered(n)' = <<x>> \o Append(i, m)
            BY <1>3, <2>2, <2>4 DEF Unanswered, Answering
        <3>. QED BY <3>1, <3>2, <3>3
    <2>5. CASE thread[n] \notin Answering
        <3>1. r = i /\ Unanswered(n)' = Append(i, m)
            BY <1>2, <2>2, <2>3, <2>5 DEF Unanswered, Answering
        <3>. QED BY <3>1
    <2>. QED BY <2>4, <2>5
<1>6. \A j \in DOMAIN Append(r, m) : Append(r, m)[j].kind # "empty"
    <2>1. /\ DOMAIN Append(r, m) = DOMAIN r \cup {Len(r) + 1}
          /\ \A j \in DOMAIN r : Append(r, m)[j] = r[j]
          /\ Append(r, m)[Len(r) + 1] = m
        BY AppendType
    <2>2. \A j \in DOMAIN r : r[j].kind # "empty" BY <1>1 DEF Queued
    <2>. QED BY <2>1, <2>2
<1>7. PICK q \in Seq(Msgs) : q = Append(r, m) BY <1>4
<1>8. Queued(c, q)'
    BY <1>4, <1>5, <1>6, <1>7 DEF Queued, Unanswered, Answering
<1>. QED BY <1>8

\* A command goes to the end of both queues.
LEMMA JSExecute ==
    ASSUME Inv, NEW c \in JSClients \ spoiled, NEW kind \in Calls,
           Execute(c, kind), c \notin spoiled'
    PROVE  JSOK(c)'
<1>. USE DEF Inv
<1>1. c \in Clients /\ c \notin PythonClients /\ JSOK(c) /\ ConnOK(c) /\ sent[c] + 1 \in Nat
    BY SessionAssumption DEF Clients, ClientOK, TypeInv
<1>2. kind # "empty" BY <1>1 DEF Execute, IsPython
<1>3. PICK n \in Conns : n = conn[c] BY <1>1 DEF Execute, TypeInv
<1>4. PICK m \in Msgs : m = Msg(kind, sent[c] + 1) BY <1>1, MessageTypes
<1>5. /\ n # 0 /\ SendTo(n, m) /\ waiting' = [waiting EXCEPT ![c] = Append(@, m)]
      /\ UNCHANGED <<outbox, closedBy, thread, command, conn>>
    <2>1. n # 0 BY DEF Conns
    <2>2. SendTo(n, m) BY <1>3, <1>4 DEF Execute
    <2>3. waiting' = [waiting EXCEPT ![c] = Append(@, m)] BY <1>4 DEF Execute
    <2>. QED BY <2>1, <2>2, <2>3 DEF Execute, threads
<1>6. m.kind # "empty" BY <1>2, <1>4 DEF Msg
<1>7. "client" \notin closedBy[n] BY <1>1, <1>3, <1>5 DEF ConnOK
<1>8. PICK o \in Seq(Msgs) : o = outbox[n] BY DEF TypeInv
<1>9. outbox'[n] = o BY <1>5, <1>8
<1>10. ASSUME NEW r \in Seq(Msgs), Queued(c, r) PROVE waiting'[c] = Joined(o, Longer(r, m))
    <2>1. waiting[c] = o \o r BY <1>3, <1>8, <1>10 DEF Queued
    <2>2. waiting'[c] = Append(o \o r, m) BY <1>1, <1>5, <2>1 DEF TypeInv
    <2>3. waiting'[c] = Longer(Joined(o, r), m) BY <2>2, Zenon DEF Longer, Joined
    <2>4. Longer(Joined(o, r), m) = Joined(o, Longer(r, m)) BY LongerMoves
    <2>. QED BY <2>3, <2>4
<1>11. SendTo(n, m) /\ n # 0 /\ UNCHANGED <<closedBy, thread, command, conn>> BY <1>5
<1>12. \E r \in Seq(Msgs) : Queued(c, r)'
    BY <1>1, <1>3, <1>6, <1>7, <1>9, <1>10, <1>11, JSAppends
<1>. QED BY <1>1, <1>3, <1>5, <1>12 DEF JSOK

\* The first reply goes to the first promise.
LEMMA JSReply ==
    ASSUME Inv, NEW c \in JSClients \ spoiled, JSRead(c)
    PROVE  JSOK(c)'
<1>. USE DEF Inv
<1>1. c \in Clients /\ c \notin PythonClients /\ JSOK(c) /\ ConnOK(c)
    BY SessionAssumption DEF Clients, ClientOK
<1>2. PICK n \in Conns : n = conn[c] BY <1>1 DEF JSRead, TypeInv
<1>3. n # 0 /\ outbox[n] # <<>> /\ "client" \notin closedBy[n]
    BY <1>1, <1>2 DEF JSRead, ConnOK
<1>4. PICK o \in Seq(Msgs) : o = outbox[n] BY DEF TypeInv
<1>5. PICK t \in Seq(Msgs) : t = Tail(o)
    BY <1>3, <1>4, TailType
<1>6. /\ outbox'[n] = t
      /\ UNCHANGED <<closedBy, thread, command, conn>>
    BY <1>1, <1>2, <1>4, <1>5 DEF JSRead, threads, TypeInv
<1>7. ASSUME NEW r \in Seq(Msgs), Queued(c, r)
      PROVE  waiting[c] # <<>> /\ Tail(waiting[c]) = t \o r
    <2>1. waiting[c] = o \o r BY <1>2, <1>4, <1>7 DEF Queued
    <2>2. o \o r # <<>> /\ Tail(o \o r) = Tail(o) \o r BY <1>3, <1>4, ConcatTail
    <2>. QED BY <1>5, <2>1, <2>2
<1>8. PICK r \in Seq(Msgs) : Queued(c, r) BY <1>1, <1>2, <1>3 DEF JSOK
<1>9. waiting[c] # <<>> BY <1>7, <1>8
<1>10. CASE Head(waiting[c]) = Welcome
    <2>1. SendTo(n, Login) /\ waiting' = [waiting EXCEPT ![c] = Append(Tail(@), Login)]
        BY <1>2, <1>9, <1>10 DEF JSRead
    <2>2. ASSUME NEW q \in Seq(Msgs), Queued(c, q) PROVE waiting'[c] = Joined(t, Longer(q, Login))
        <3>1. Tail(waiting[c]) = t \o q BY <1>7, <2>2
        <3>2. waiting'[c] = Append(t \o q, Login) BY <1>1, <2>1, <3>1 DEF TypeInv
        <3>3. waiting'[c] = Longer(Joined(t, q), Login) BY <3>2, Zenon DEF Longer, Joined
        <3>4. Login \in Msgs BY MessageTypes
        <3>5. Longer(Joined(t, q), Login) = Joined(t, Longer(q, Login)) BY <3>4, LongerMoves
        <3>. QED BY <3>3, <3>5
    <2>3. Login \in Msgs /\ Login.kind # "empty" BY MessageTypes
    <2>4. \E q \in Seq(Msgs) : Queued(c, q)'
        BY <1>1, <1>2, <1>3, <1>6, <2>1, <2>2, <2>3, JSAppends
    <2>. QED BY <1>1, <1>2, <1>3, <1>6, <2>4 DEF JSOK
<1>11. CASE Head(waiting[c]) # Welcome
    <2>1. inbox' = inbox /\ waiting' = [waiting EXCEPT ![c] = Tail(@)]
        BY <1>2, <1>9, <1>11 DEF JSRead
    <2>2. waiting'[c] = t \o r BY <1>1, <1>7, <1>8, <2>1 DEF TypeInv
    <2>3. Unanswered(n)' = Unanswered(n) BY <1>6, <2>1 DEF Unanswered
    <2>4. /\ "server" \notin closedBy[n] => r = Unanswered(n)
          /\ \A i \in DOMAIN r : r[i].kind # "empty"
        BY <1>2, <1>8 DEF Queued
    <2>5. Queued(c, r)' BY <1>2, <1>6, <2>2, <2>3, <2>4 DEF Queued, Unanswered
    <2>. QED BY <1>1, <1>2, <1>3, <1>6, <2>5 DEF JSOK
<1>. QED BY <1>10, <1>11

\* The client is left without a connection and without promises.
LEMMA JSLeaves ==
    ASSUME Inv, NEW c \in JSClients \ spoiled, Close(c) \/ JSSeeEnd(c), c \notin spoiled'
    PROVE  JSOK(c)'
<1>. USE DEF Inv
<1>1. c \in Clients /\ ~ IsPython(c) /\ JSOK(c)
    BY SessionAssumption DEF Clients, ClientOK, IsPython
<1>2. waiting[c] = <<>> /\ waiting' = waiting /\ conn' = [conn EXCEPT ![c] = 0]
    BY <1>1 DEF Close, HangUp, JSSeeEnd
<1>3. conn'[c] = 0 BY <1>1, <1>2 DEF TypeInv
<1>. QED BY <1>1, <1>2, <1>3 DEF JSOK

\* Whatever the client does, while every promise will be answered.
LEMMA ClientJS ==
    ASSUME Inv, NEW c \in JSClients, Driver(c) \/ Caller(c), c \notin spoiled'
    PROVE  JSOK(c)'
<1>1. c \in Clients BY DEF Clients
<1>2. c \in JSClients \ spoiled BY <1>1, StaysSpoiled
<1>3. ~ PythonRead(c) /\ ~ PythonSeeEnd(c) /\ ~ Raise(c)
    BY SessionAssumption DEF PythonRead, PythonSeeEnd, Raise, IsPython
<1>. QED BY <1>2, <1>3, JSConnect, JSExecute, JSReply, JSLeaves DEF Driver, Caller, Calls

\* The steps of a client keep the invariant.
LEMMA ClientStep ==
    ASSUME Inv, NEW c \in Clients, Driver(c) \/ Caller(c)
    PROVE  Inv'
<1>. USE DEF Inv
<1>1. TypeInv' BY ClientTypes DEF ClientOK
<1>2. LockOK' BY ClientLock
<1>3. \A n \in Conns : LinkOK(n)' BY ClientLink
<1>4. \A d \in Clients \ {c} : ClientOK(d)' BY OtherClients
<1>5. ASSUME c \in JSClients, NEW k \in Nat PROVE Of(c, k) \notin lost'
    <2>1. c \notin PythonClients BY <1>5, SessionAssumption
    <2>2. ~ PythonRead(c) /\ ~ PythonSeeEnd(c) /\ ~ Raise(c)
        BY <2>1 DEF PythonRead, PythonSeeEnd, Raise, IsPython
    <2>3. lost' = lost
        BY <2>2 DEF Driver, Caller, JSRead, JSSeeEnd, Connect, Close, Execute, history
    <2>. QED BY <1>5, <2>3 DEF ClientOK
<1>6. ClientOK(c)'
    <2>1. ConnOK(c)' BY ClientConn
    <2>2. c \in PythonClients => LostOK(c)' BY ClientLost
    <2>3. c \in PythonClients \ spoiled' => PythonOK(c)' BY ClientPython
    <2>4. c \in JSClients \ spoiled' => JSOK(c)' BY ClientJS
    <2>5. c \in misled' => c \in spoiled' BY ClientAnswer
    <2>. QED BY <1>5, <2>1, <2>2, <2>3, <2>4, <2>5 DEF ClientOK, Of
<1>. QED BY <1>1, <1>2, <1>3, <1>4, <1>6
------------------------------------------------------------------------------
\* The invariant holds in every behaviour.
LEMMA InvariantHolds == Spec => []Inv
<1>1. Init => Inv
    <2>1. SUFFICES ASSUME Init PROVE Inv OBVIOUS
    <2>2. TypeInv BY <2>1, InitTypes
    <2>3. LockOK BY <2>1 DEF Init, LockOK
    <2>4. \A n \in Conns : LinkOK(n) BY <2>1 DEF Init, LinkOK
    <2>5. ASSUME NEW c \in Clients PROVE ClientOK(c)
        <3>1. /\ conn[c] = 0 /\ waiting[c] = <<>> /\ buffer[c] = <<>> /\ c \notin ready
              /\ misled = {} /\ lost = {} /\ executed = {}
            BY <2>1 DEF Init
        <3>2. ConnOK(c) BY <3>1 DEF ConnOK
        <3>3. PythonOK(c) BY <3>1 DEF PythonOK, Rests
        <3>4. JSOK(c) BY <3>1 DEF JSOK
        <3>5. LostOK(c)
            <4>1. \A m \in Conns : owner[m] # c BY <2>1, SessionAssumption DEF Init
            <4>. QED BY <3>1, <4>1 DEF LostOK
        <3>. QED BY <3>1, <3>2, <3>3, <3>4, <3>5 DEF ClientOK
    <2>. QED BY <2>2, <2>3, <2>4, <2>5 DEF Inv
<1>2. Inv /\ [Next]_vars => Inv'
    <2>1. SUFFICES ASSUME Inv, [Next]_vars PROVE Inv' OBVIOUS
    <2>2. ASSUME NEW n \in Conns, Thread(n) PROVE Inv' BY <2>1, <2>2, ThreadStep
    <2>3. ASSUME NEW c \in Clients, Driver(c) \/ Caller(c) PROVE Inv'
        BY <2>1, <2>3, ClientStep
    <2>4. CASE UNCHANGED vars
        <3>1. /\ UNCHANGED <<owner, inbox, outbox, closedBy, thread, command, loggedIn, db_lock>>
              /\ UNCHANGED <<conn, buffer, ready, waiting, sent>>
              /\ UNCHANGED <<misled, lost, executed, spoiled>>
            BY <2>4 DEF vars, network, threads, drivers, history
        <3>2. TypeInv' BY <2>1, <3>1 DEF Inv, TypeInv
        <3>3. LockOK' BY <2>1, <3>1 DEF Inv, LockOK
        <3>4. \A n \in Conns : SameLink(n) BY <3>1 DEF SameLink
        <3>5. \A n \in Conns : LinkOK(n)' BY <2>1, <3>4, LinkStays DEF Inv, KeptLink
        <3>6. ASSUME NEW c \in Clients PROVE ClientOK(c)'
            <4>1. TypeInv /\ ClientOK(c) BY <2>1 DEF Inv
            <4>2. conn[c] # 0 => KeptLink(conn[c]) BY <3>4, <4>1 DEF TypeInv, KeptLink
            <4>3. SameClient(c) BY <3>1, <4>2 DEF SameClient
            <4>4. NothingNew(c) BY <3>1 DEF NothingNew, Pending
            <4>. QED BY <4>1, <4>3, <4>4, ClientStays
        <3>. QED BY <3>2, <3>3, <3>5, <3>6 DEF Inv
    <2>. QED BY <2>1, <2>2, <2>3, <2>4 DEF Next
<1>. QED BY <1>1, <1>2, PTL DEF Spec

\* A caller of execute() or query() gets the reply to its own command, if one thread uses
\* the client, its connect() succeeded before every command, and, with the JavaScript
\* driver, it has no promise that nobody will answer.
THEOREM RepliesMatch == Spec => []AnswersMatch
<1>1. Inv => AnswersMatch BY DEF Inv, TypeInv, ClientOK, AnswersMatch
<1>. QED BY <1>1, InvariantHolds, PTL

\* A command that execute() of the Python driver reports as lost was not executed, and
\* never will be: handle_client gives up a connection only between two commands.  So it is
\* also for a client that was used although connect() had failed.
THEOREM LostCanBeSentAgain == Spec => []LostIsNotExecuted
<1>1. Inv => LostIsNotExecuted
    <2>1. SUFFICES ASSUME Inv, NEW e \in lost, e \in executed PROVE FALSE
        BY DEF LostIsNotExecuted
    <2>2. e.client \in Clients /\ e.num \in Nat /\ e = Of(e.client, e.num)
        BY <2>1 DEF Inv, TypeInv, Runs, Of
    <2>3. e.client \in PythonClients
        BY <2>1, <2>2 DEF Inv, ClientOK, Clients
    <2>. QED BY <2>1, <2>2, <2>3 DEF Inv, ClientOK, LostOK
<1>. QED BY <1>1, InvariantHolds, PTL

\* A thread has db_lock only while it sends the reply to a command: none that waits for
\* a message, waits for the lock or has ended keeps it.
THEOREM LockIsHeldToReply ==
    Spec => [](\A n \in Conns : db_lock = n => thread[n] \in {"send", "sendError"})
<1>1. Inv => \A n \in Conns : db_lock = n => thread[n] \in {"send", "sendError"}
    BY DEF Inv, LockOK, Conns
<1>. QED BY <1>1, InvariantHolds, PTL
==============================================================================
