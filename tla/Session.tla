-------------------------------- MODULE Session --------------------------------
(***************************************************************************)
(* The sessions of server.py with two of its drivers.  The server has one  *)
(* thread for each connection; a thread takes db_lock to run a command and *)
(* keeps it until the reply is sent.  The Python driver sends a command    *)
(* and waits for its reply under a lock; the JavaScript driver sends at    *)
(* once and hands the replies to the promises in its responseQueue, first  *)
(* come first served.  (The Go, C# and PHP drivers wait like the Python    *)
(* one.)  Neither puts a number on a command: a reply belongs to the       *)
(* command that is first in line.                                          *)
(*                                                                         *)
(* One thread uses a Python client object: of its methods only execute()   *)
(* and close() take its lock, and connect(), which does not, would share   *)
(* conn and _buffer with an execute() of another thread.                   *)
(*                                                                         *)
(* A message is a command without the bytes; `num' is its place among the  *)
(* commands of its client and only the properties look at it.  Connections *)
(* lose nothing: the network and the server stay up.                       *)
(***************************************************************************)
EXTENDS Integers, Sequences, FiniteSetsExt, Functions

CONSTANTS
    PythonClients, JSClients,  \* the client objects, by their driver, and the one
                               \* thread that uses each
    SendBuffer,    \* SendBuffer[c]: how many replies a connection holds for client c, if it
                   \* does not read
    MaxCommands,   \* bound: how many commands the clients send
    MaxConns       \* bound: how many connections there are

Clients == PythonClients \cup JSClients
Conns   == 1..MaxConns

ASSUME SessionAssumption ==
    /\ PythonClients \cap JSClients = {} /\ "nobody" \notin Clients
    /\ SendBuffer \in [Clients -> Nat \ {0}] /\ MaxCommands \in Nat /\ MaxConns \in Nat

VARIABLES
    owner,      \* owner[n]: the client that opened connection n
    inbox,      \* inbox[n]: what the client sent and the server has not read
    outbox,     \* outbox[n]: the replies sent and not read
    closedBy,   \* closedBy[n]: the ends that have closed connection n
    thread,     \* thread[n]: what the thread of connection n does
    command,    \* command[n]: the command it is at
    loggedIn,   \* is_authenticated of each thread
    db_lock,    \* the connection whose thread has the lock, 0 if free
    conn,       \* conn[c]: the client's connection, 0 if none
    buffer,     \* buffer[c]: the replies in the _buffer of a Python client
    ready,      \* the clients whose connect() succeeded
    waiting,    \* waiting[c]: what the client waits for, in order
    sent,       \* sent[c]: how many commands it has sent
    misled,     \* history: the clients one of whose calls got the reply to another one
    lost,       \* history: the commands a Python caller was told are lost
    executed,   \* history: the commands of Python clients the tree was given
    spoiled     \* history: the clients used although connect() had not succeeded, and the
                \* JavaScript clients with a promise nobody will answer

network == <<owner, inbox, outbox, closedBy>>
threads == <<thread, command, loggedIn, db_lock>>
drivers == <<conn, buffer, ready, waiting, sent>>
history == <<misled, lost, executed, spoiled>>
vars    == <<network, threads, drivers, history>>

Msg(kind, num) == [kind |-> kind, num |-> num]
Welcome == Msg("welcome", 0)
Login   == Msg("auth", 0)
Goodbye == Msg("exit", 0)

Init ==
    /\ owner = [n \in Conns |-> "nobody"]
    /\ inbox = [n \in Conns |-> <<>>] /\ outbox = [n \in Conns |-> <<>>]
    /\ closedBy = [n \in Conns |-> {}]
    /\ thread = [n \in Conns |-> "none"]
    /\ command = [n \in Conns |-> Welcome]
    /\ loggedIn = [n \in Conns |-> FALSE]
    /\ db_lock = 0
    /\ conn = [c \in Clients |-> 0] /\ ready = {}
    /\ buffer = [c \in Clients |-> <<>>]
    /\ waiting = [c \in Clients |-> <<>>]
    /\ sent = [c \in Clients |-> 0]
    /\ misled = {} /\ lost = {} /\ executed = {} /\ spoiled = {}
------------------------------------------------------------------------------
(***************************************************************************)
(* handle_client.                                                          *)
(***************************************************************************)
\* The thread ends; a lock it has is released by the `with', and what it has not read
\* is lost.
EndThread(n) ==
    /\ thread' = [thread EXCEPT ![n] = "none"]
    /\ command' = [command EXCEPT ![n] = Welcome]
    /\ loggedIn' = [loggedIn EXCEPT ![n] = FALSE]
    /\ inbox' = [inbox EXCEPT ![n] = <<>>]
    /\ closedBy' = [closedBy EXCEPT ![n] = @ \cup {"server"}]
    /\ db_lock' = IF db_lock = n THEN 0 ELSE db_lock

\* The while loop over the messages of the buffer: an empty command is skipped, a
\* well-formed one of a client that has logged in waits for the lock, and all others
\* (malformed, unknown, auth, exit, whatever comes before the login) are answered at
\* once.
Receive(n) ==
    LET m == Head(inbox[n])
    IN  /\ thread[n] = "recv" /\ inbox[n] # <<>>
        /\ inbox' = [inbox EXCEPT ![n] = Tail(@)]
        /\ command' = IF m.kind = "empty" THEN command ELSE [command EXCEPT ![n] = m]
        /\ loggedIn' = [loggedIn EXCEPT ![n] = @ \/ m.kind = "auth"]
        /\ \E at \in IF m.kind = "empty" THEN {"recv"}
                     ELSE IF m.kind = "command" /\ loggedIn[n] THEN {"lock", "send"}
                     ELSE {"send"} :
             thread' = [thread EXCEPT ![n] = at]
        /\ UNCHANGED <<owner, outbox, closedBy, db_lock, drivers, history>>

RunLocked(n) ==
    /\ thread[n] = "lock" /\ db_lock = 0
    /\ db_lock' = n
    /\ executed' = IF owner[n] \in PythonClients
                   THEN executed \cup {[client |-> owner[n], num |-> command[n].num]}
                   ELSE executed
    /\ thread' = [thread EXCEPT ![n] = "send"]
    /\ UNCHANGED <<network, command, loggedIn, drivers, misled, lost, spoiled>>

ClientGone(n) == "client" \in closedBy[n]
CanSend(n)    == ClientGone(n) \/ Len(outbox[n]) < SendBuffer[owner[n]]
MayFail(n)    == ClientGone(n) \/ Len(outbox[n]) = SendBuffer[owner[n]]

\* main() has the connection it accepted last in its own variable, too.
Latest(n) == \A m \in Conns : m > n => owner[m] = "nobody"

\* The thread returns from an exit without conn.close(): nothing refers to the socket
\* any more and it is closed, but for the one main() still has, which stays open and
\* unread.
Leave(n) ==
    IF Latest(n)
      THEN /\ thread' = [thread EXCEPT ![n] = "none"]
           /\ command' = [command EXCEPT ![n] = Welcome]
           /\ loggedIn' = [loggedIn EXCEPT ![n] = FALSE]
           /\ UNCHANGED <<inbox, closedBy, db_lock>>
      ELSE EndThread(n)

\* The welcome is sent like a reply.  What is sent after the client has closed goes
\* nowhere.
Send(n) ==
    /\ thread[n] \in {"send", "sendError"} /\ CanSend(n)
    /\ outbox' = IF ClientGone(n) THEN outbox ELSE [outbox EXCEPT ![n] = Append(@, command[n])]
    /\ IF command[n].kind = "exit"
         THEN Leave(n)
         ELSE /\ thread' = [thread EXCEPT ![n] = "recv"]
              /\ command' = [command EXCEPT ![n] = Welcome]
              /\ db_lock' = IF db_lock = n THEN 0 ELSE db_lock
              /\ UNCHANGED <<inbox, closedBy, loggedIn>>
    /\ UNCHANGED <<owner, drivers, history>>

SendFailsLocked(n) ==  \* mutant: the lock is not released
    /\ thread[n] \in {"send", "sendError"} /\ MayFail(n)
    /\ thread' = [thread EXCEPT ![n] = "none"]
    /\ closedBy' = [closedBy EXCEPT ![n] = @ \cup {"server"}]
    /\ UNCHANGED <<owner, inbox, outbox, command, loggedIn, db_lock, drivers, history>>

\* sendall raises: the client is gone, or does not read for 300 s.  With the lock held
\* the exception is taken for one of the command's and an error is sent.
SendFails(n) ==
    /\ thread[n] \in {"send", "sendError"} /\ MayFail(n)
    /\ IF thread[n] = "send" /\ db_lock = n
         THEN /\ thread' = [thread EXCEPT ![n] = "sendError"]
              /\ UNCHANGED <<inbox, command, loggedIn, closedBy, db_lock>>
         ELSE EndThread(n)
    /\ UNCHANGED <<owner, outbox, drivers, history>>

NeverTimesOut(n) == FALSE /\ UNCHANGED vars  \* mutant: no settimeout
HungUp(n) ==  \* mutant: the connection is closed while the thread goes on
    /\ thread[n] \in {"recv", "lock"} /\ inbox[n] = <<>>
    /\ closedBy' = [closedBy EXCEPT ![n] = @ \cup {"server"}]
    /\ UNCHANGED <<owner, inbox, outbox, threads, drivers, history>>

\* Nothing came for 300 s, or the client closed the connection.
IdleTimeout(n) ==
    /\ thread[n] = "recv" /\ inbox[n] = <<>>
    /\ EndThread(n)
    /\ UNCHANGED <<owner, outbox, drivers, history>>
------------------------------------------------------------------------------
(***************************************************************************)
(* The drivers.                                                            *)
(***************************************************************************)
IsPython(c) == c \in PythonClients

\* A message to a connection that has ended goes nowhere.
SendTo(n, m) == inbox' = [inbox EXCEPT ![n] = IF closedBy[n] = {} THEN Append(@, m) ELSE @]

\* The connections whose last reference the next accept() of main() takes away.
Left == {n \in Conns : owner[n] # "nobody" /\ thread[n] = "none"}

\* connect(): a Python caller drops the connection it had, dead or not, and keeps its
\* buffer; a JavaScript caller has none.  What the responseQueue holds stays in it.  The
\* server accepts.
Connect(c) ==
    LET n == Min({m \in Conns : owner[m] = "nobody"})
        Closers(m) == closedBy[m] \cup (IF m \in Left THEN {"server"} ELSE {})
                                  \cup (IF m = conn[c] THEN {"client"} ELSE {})
    IN  /\ IF IsPython(c) THEN waiting[c] = <<>> ELSE conn[c] = 0
        /\ \E m \in Conns : owner[m] = "nobody"
        /\ owner' = [owner EXCEPT ![n] = c]
        /\ thread' = [thread EXCEPT ![n] = "send"]
        /\ closedBy' = [m \in Conns |-> Closers(m)]
        /\ inbox' = [m \in Conns |-> IF m \in Left THEN <<>> ELSE inbox[m]]
        /\ outbox' = [m \in Conns |-> IF m = conn[c] THEN <<>> ELSE outbox[m]]
        /\ conn' = [conn EXCEPT ![c] = n]
        /\ ready' = ready \ {c}
        /\ waiting' = [waiting EXCEPT ![c] = Append(@, Welcome)]
        /\ UNCHANGED <<command, loggedIn, db_lock, buffer, sent, history>>

\* execute() and query().  Both drivers send whenever they hold a connection, also one that
\* has ended or whose login is not done or has failed.
Execute(c, kind) ==
    LET m == Msg(kind, sent[c] + 1)
        spoils == c \notin ready \/ (~IsPython(c) /\ kind = "empty")
    IN  /\ FoldFunction(+, 0, sent) < MaxCommands
        /\ conn[c] # 0 /\ (IsPython(c) => waiting[c] = <<>>)
        /\ SendTo(conn[c], m)
        /\ sent' = [sent EXCEPT ![c] = @ + 1]
        /\ waiting' = [waiting EXCEPT ![c] = Append(@, m)]
        /\ spoiled' = IF spoils THEN spoiled \cup {c} ELSE spoiled
        /\ UNCHANGED <<owner, outbox, closedBy, threads, conn, buffer, ready, misled, lost,
                       executed>>

\* The first call of the client gets a reply.
Told(c, reply) == misled' = IF reply = Head(waiting[c]) THEN misled ELSE misled \cup {c}

\* What close() does to the connection and the buffer.
HangUp(c) ==
    /\ SendTo(conn[c], Goodbye)
    /\ closedBy' = [closedBy EXCEPT ![conn[c]] = @ \cup {"client"}]
    /\ outbox' = [outbox EXCEPT ![conn[c]] = <<>>]
    /\ conn' = [conn EXCEPT ![c] = 0] /\ ready' = ready \ {c}
    /\ buffer' = [buffer EXCEPT ![c] = <<>>]

\* What a call of the Python driver does with its reply: connect() logs in after the
\* welcome, is done if the login succeeds and closes if it does not, and execute()
\* returns the reply, whatever it is.  outbox and buffer are left as `unread' says.
Took(c, reply, unread, left) ==
    LET n    == conn[c]
        call == Head(waiting[c])
        Keep == /\ outbox' = [outbox EXCEPT ![n] = unread]
                /\ buffer' = [buffer EXCEPT ![c] = left]
                /\ UNCHANGED <<closedBy, conn>>
    IN  \/ /\ call = Welcome
           /\ SendTo(n, Login) /\ waiting' = [waiting EXCEPT ![c] = <<Login>>]
           /\ Keep /\ UNCHANGED ready
        \/ /\ call = Login /\ reply # Login
           /\ HangUp(c) /\ waiting' = [waiting EXCEPT ![c] = <<>>]
        \/ /\ call # Welcome /\ (call = Login => reply = Login)
           /\ ready' = IF call = Login THEN ready \cup {c} ELSE ready
           /\ waiting' = [waiting EXCEPT ![c] = <<>>]
           /\ Keep /\ UNCHANGED inbox

\* _recv_until_eom: a reply of the buffer is taken before anything is received; what one
\* recv() brings behind the first reply stays in the buffer.
PythonRead(c) ==
    LET replies == outbox[conn[c]]
    IN  /\ IsPython(c) /\ conn[c] # 0 /\ waiting[c] # <<>>
        /\ \E k \in 0..Len(replies) :
             LET all == buffer[c] \o SubSeq(replies, 1, k)
             IN  /\ (k = 0) <=> (buffer[c] # <<>>)
                 /\ Told(c, Head(all))
                 /\ Took(c, Head(all), SubSeq(replies, k + 1, Len(replies)), Tail(all))
        /\ UNCHANGED <<owner, threads, sent, lost, executed, spoiled>>

\* _processBuffer: a reply goes to the first promise in the queue; one that nobody waits
\* for is dropped.
JSRead(c) ==
    LET n     == conn[c]
        reply == Head(outbox[n])
    IN  /\ ~IsPython(c) /\ n # 0 /\ outbox[n] # <<>>
        /\ outbox' = [outbox EXCEPT ![n] = Tail(@)]
        /\ IF waiting[c] = <<>>
             THEN UNCHANGED <<inbox, ready, waiting, misled>>
             ELSE /\ Told(c, reply)
                  /\ IF Head(waiting[c]) = Welcome
                       THEN /\ SendTo(n, Login)
                            /\ waiting' = [waiting EXCEPT ![c] = Append(Tail(@), Login)]
                       ELSE /\ waiting' = [waiting EXCEPT ![c] = Tail(@)]
                            /\ UNCHANGED inbox
                  /\ ready' = IF Head(waiting[c]) = Login /\ reply = Login
                              THEN ready \cup {c} ELSE ready
        /\ UNCHANGED <<owner, closedBy, threads, conn, buffer, sent, lost, executed, spoiled>>

Ended(c) == conn[c] # 0 /\ outbox[conn[c]] = <<>> /\ "server" \in closedBy[conn[c]]

\* The end of the connection, seen by a call of the Python driver: "Conexao perdida" is
\* returned, and for a login connect() closes.
PythonSeeEnd(c) ==
    LET call == Head(waiting[c])
    IN  /\ IsPython(c) /\ Ended(c) /\ waiting[c] # <<>> /\ buffer[c] = <<>>
        /\ waiting' = [waiting EXCEPT ![c] = <<>>]
        /\ IF call \in {Welcome, Login}
             THEN HangUp(c) /\ UNCHANGED lost
             ELSE /\ lost' = lost \cup {[client |-> c, num |-> call.num]}
                  /\ UNCHANGED <<inbox, outbox, closedBy, conn, ready, buffer>>
        /\ UNCHANGED <<owner, threads, sent, misled, executed, spoiled>>

\* The JavaScript driver forgets the connection and leaves its promises.
JSSeeEnd(c) ==
    /\ ~IsPython(c) /\ Ended(c)
    /\ conn' = [conn EXCEPT ![c] = 0] /\ ready' = ready \ {c}
    /\ spoiled' = IF waiting[c] = <<>> THEN spoiled ELSE spoiled \cup {c}
    /\ UNCHANGED <<network, threads, buffer, waiting, sent, misled, lost, executed>>

TimeoutIgnored(c) ==  \* mutant: connect() returns True after the timeout
    /\ IsPython(c) /\ c \notin ready /\ waiting[c] # <<>>
    /\ waiting' = [waiting EXCEPT ![c] = <<>>]
    /\ ready' = ready \cup {c}
    /\ UNCHANGED <<network, threads, conn, buffer, sent, history>>

\* A call of the Python driver raises, or returns False if it is connect(), and holds the
\* connection still: after 5 s, until a login has succeeded, or because the connection
\* was reset.
Raise(c) ==
    /\ IsPython(c) /\ waiting[c] # <<>>
    /\ c \notin ready \/ Ended(c)
    /\ waiting' = [waiting EXCEPT ![c] = <<>>]
    /\ UNCHANGED <<network, threads, conn, buffer, ready, sent, history>>

\* close(): the Python driver waits for the command in progress.
Close(c) ==
    /\ conn[c] # 0 /\ (IsPython(c) => waiting[c] = <<>>)
    /\ HangUp(c)
    /\ spoiled' = IF waiting[c] = <<>> THEN spoiled ELSE spoiled \cup {c}
    /\ UNCHANGED <<owner, threads, waiting, sent, misled, lost, executed>>
------------------------------------------------------------------------------
Thread(n) ==
    \/ Receive(n) \/ RunLocked(n) \/ Send(n) \/ SendFails(n) \/ IdleTimeout(n)

Driver(c) ==
    \/ PythonRead(c) \/ PythonSeeEnd(c) \/ Raise(c) \/ JSRead(c) \/ JSSeeEnd(c)

Caller(c) ==
    \/ Connect(c) \/ Close(c)
    \/ \E kind \in {"command", "empty", "exit"} : Execute(c, kind)

Next ==
    \/ \E n \in Conns : Thread(n)
    \/ \E c \in Clients : Driver(c) \/ Caller(c)

Spec == Init /\ [][Next]_vars

\* The threads of the server run, their timeouts included, and so do those of a Python
\* client that waits.  A JavaScript client may stop reading for good.
Fairness ==
    /\ \A n \in Conns : WF_vars(Thread(n))
    /\ \A c \in PythonClients : WF_vars(Driver(c))

FairSpec == Spec /\ Fairness
------------------------------------------------------------------------------
\* A caller gets the reply to its own command, although commands and replies carry no
\* numbers: whatever was malformed, timed out, was closed or was left unanswered on
\* other connections of the client.  One thread at a time uses the client.  Not so for a
\* client that was used before connect() succeeded: a Python client may find the replies
\* to a login that timed out.  Nor for a JavaScript client with a promise that nobody
\* will answer: after an empty command, or after a connection that ended with replies
\* outstanding, every promise gets the reply of another.
AnswersMatch == misled \subseteq spoiled

\* A command the Python driver reports as lost was not executed and never will be:
\* the server gives up a connection only between two commands.  So it can be sent
\* again.
LostIsNotExecuted == lost \cap executed = {}

\* Nobody reads what is sent on the connection of c, and nobody has closed it: it is the
\* one the server accepted last, and was left by an exit.
Deserted(c) ==
    LET n == conn[c]
    IN  /\ n # 0 /\ thread[n] = "none" /\ "server" \notin closedBy[n]
        /\ outbox[n] = <<>> /\ buffer[c] = <<>>

\* A call of the Python driver returns, also that of an empty command, which has no
\* reply, and whatever another client that does not read makes the server wait for.
\* Not so after an execute("exit"): if no client has connected since, the next call
\* waits until one does.
CallsReturn ==
    \A c \in PythonClients : waiting[c] # <<>> /\ ~Deserted(c) ~> waiting[c] = <<>>

\* The lock the replies are sent under is released, if the client reads or not.
LockIsReleased == db_lock # 0 ~> db_lock = 0
==============================================================================
