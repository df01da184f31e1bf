------------------------------- MODULE Async -------------------------------
(***************************************************************************)
(* The asynchronous client of MQTTAsync.c and MQTTAsyncUtils.c: a command  *)
(* list filled by the application and emptied by the send thread, a list   *)
(* of commands that wait for an answer, a receive thread that reads the    *)
(* answers, the connect state machine with its attempts, timeouts and      *)
(* automatic reconnect, and the commands kept by the file persistence.     *)
(*                                                                         *)
(* One client handle with a clean session (the default), no retry          *)
(* interval, and any number of application threads.  The send thread and   *)
(* the receive thread hold mqttasync_mutex through processCommand,         *)
(* checkTimeouts and MQTTAsync_cycle, so each of these is one step.  The   *)
(* receive thread gives the mutex up between the cycle that reads a        *)
(* CONNACK, SUBACK, UNSUBACK or an error and the step that handles it, and *)
(* a caller between MQTTAsync_assignMsgId and MQTTAsync_addCommand.  (A    *)
(* call made by a callback comes after the step that makes the callback.)  *)
(***************************************************************************)
EXTENDS Integers, Sequences, FiniteSets, SequencesExt

CONSTANTS
    NOps,                   \* number of operations the application asks for
    OpType,                 \* PUBLISH0, PUBLISH1, SUBSCRIBE or UNSUBSCRIBE of each
    AutoReconnect,          \* automaticReconnect
    SendWhileDisconnected,  \* createOptions.sendWhileDisconnected
    MaxBuffered,            \* createOptions.maxBufferedMessages
    DeleteOldest,           \* createOptions.deleteOldestMessages
    MaxInflight,            \* maxInflightMessages
    MaxMsgId,               \* MAX_MSG_ID
    ServerURIcount,         \* serverURIcount, 0 without a list of servers
    VersionDefault,         \* MQTTVersion = MQTTVERSION_DEFAULT: try 3.1.1, then 3.1
    MaxConnects,            \* bound: calls of MQTTAsync_connect by one process
    MaxCalls,               \* bound: calls of MQTTAsync_reconnect and _disconnect
    MaxFaults,              \* bound: failed or late connects, connections lost, ends
                            \* of the process
    MaxDelays               \* bound: packets only partly written

Ops == 1..NOps
Publishes == {i \in Ops : OpType[i] \in {"PUBLISH0", "PUBLISH1"}}
Acknowledged == {i \in Ops : OpType[i] # "PUBLISH0"}

ASSUME AsyncAssumption ==
    /\ NOps \in Nat
    /\ OpType \in [1..NOps -> {"PUBLISH0", "PUBLISH1", "SUBSCRIBE", "UNSUBSCRIBE"}]
    /\ {AutoReconnect, SendWhileDisconnected, DeleteOldest, VersionDefault} \subseteq BOOLEAN
    /\ {MaxBuffered, MaxInflight, MaxMsgId} \subseteq Nat \ {0} /\ MaxMsgId > 1
    /\ {ServerURIcount, MaxConnects, MaxCalls, MaxFaults,
        MaxDelays} \subseteq Nat

VARIABLES
    m,        \* the client structure (MQTTAsyncs and its Clients), see Created
    stored,   \* the commands in the persistence directory, in order of seqno
    call,     \* the fate of each operation, as the application knows it
    replies,  \* the callbacks made for each operation
    conns,    \* the callbacks made for each call of MQTTAsync_connect
    written,  \* operations whose packet was written completely
    got,      \* broker: operations in the order their packets were read
    asked,    \* calls made so far: [conn, other]; history: whether one was a
              \* disconnect, whether two held the same message id at a time
    faults,   \* how many faults have happened
    delays    \* how many packets were only partly written

vars == <<m, stored, call, replies, conns, written, got, asked, faults,
          delays>>

Nothing == [type |-> "NONE", stale |-> FALSE]
NewSocket == [out |-> <<>>, in |-> <<>>, pending |-> <<>>, broken |-> FALSE]

\* A CONNECT command: cb is the call whose callbacks it carries (0 for none),
\* late that its start_time is more than connectTimeout ago.
ConnectCommand(k) == [type |-> "CONNECT", cb |-> k, uri |-> 0, version |-> 0, late |-> TRUE]
DisconnectCommand(internal) ==
    [type |-> "DISCONNECT", internal |-> internal, expired |-> internal]
OpCommand(i) == [type |-> "OP", op |-> i]

NoReplies == [i \in Ops |-> <<>>]
NoConnReplies == [k \in 1..MaxConnects |-> <<>>]

\* The structures after MQTTAsync_create, with nothing to restore.
Created ==
    [connected |-> FALSE,
     state |-> "NOT_IN_PROGRESS",      \* connect_state
     should |-> FALSE,                 \* shouldBeConnected
     retrying |-> FALSE, now |-> FALSE,  \* retrying, reconnectNow
     connect |-> ConnectCommand(0),    \* the connect command in use
     disconnect |-> DisconnectCommand(TRUE),
     commands |-> <<>>,                \* MQTTAsync_commands
     buffered |-> 0,                   \* noBufferedMessages
     responses |-> <<>>,               \* operations that wait for an answer
     outbound |-> <<>>,                \* outboundMsgs
     pendingWrite |-> 0,               \* pending_write
     msgID |-> 0,
     token |-> [i \in Ops |-> 0],      \* token of each operation
     net |-> NewSocket,
     held |-> Nothing,                 \* what the receive thread is about to handle
     told |-> NoReplies,               \* callbacks of this step for each operation
     toldConn |-> NoConnReplies]       \* and for each connect call

Init ==
    /\ m = Created
    /\ stored = <<>>
    /\ call = [i \in Ops |-> "new"]
    /\ replies = NoReplies /\ conns = NoConnReplies
    /\ written = {} /\ got = <<>>
    /\ asked = [conn |-> 0, other |-> 0, left |-> FALSE, shared |-> FALSE]
    /\ faults = 0 /\ delays = 0

HasSocket(x) == x.connected \/ x.state # "NOT_IN_PROGRESS"
IsOp(c) == c.type = "OP"
OpPositions(x) == {n \in DOMAIN x.commands : IsOp(x.commands[n])}
QueuedOps(x) == {x.commands[n].op : n \in OpPositions(x)}

\* ListRemove and ListDetach: a list without the first of its entries at S.
Detach(s, S) == IF S = {} THEN s ELSE RemoveAt(s, Min(S))
Positions(s, i) == {n \in DOMAIN s : s[n] = i}

-----------------------------------------------------------------------------
(* Steps of the handlers, as functions from client structure to structure. *)

\* A callback of an operation, or of the connect call that m->connect carries,
\* whose pointers are then cleared.
Reply(x, i, kind) == [x EXCEPT !.told[i] = Append(@, kind)]
ReplyConnect(x, k, kind) ==
    IF k = 0 THEN x ELSE [x EXCEPT !.toldConn[k] = Append(@, kind)]
AnswerConnect(x, kind) ==
    [ReplyConnect(x, x.connect.cb, kind) EXCEPT !.connect.cb = 0]

\* onFailure, once for each entry of a list that is emptied.
Failures(S) == [n \in 1..Cardinality(S) |-> "failure"]

\* MQTTAsync_freeResponses
FreeResponses(x) ==
    [x EXCEPT !.responses = <<>>,
              !.told = [i \in Ops |-> x.told[i] \o Failures(Positions(x.responses, i))]]

\* Mutant: a cleaned session forgets the responses without telling anybody.
CleanedSessionSilent(x) == [x EXCEPT !.outbound = <<>>, !.msgID = 0, !.responses = <<>>]
CleanedSession(x) == FreeResponses([x EXCEPT !.outbound = <<>>, !.msgID = 0])

CloseOnly(x) ==
    [x EXCEPT !.connected = FALSE, !.state = "NOT_IN_PROGRESS", !.net = NewSocket,
              !.held.stale = x.held.type # "NONE"]

CloseSession(x) == CleanedSession(CloseOnly(x))

\* Mutant: a lost connection starts no retry.
StartConnectRetryNever(x) == x
StartConnectRetry(x) ==
    IF AutoReconnect /\ x.should THEN [x EXCEPT !.retrying = TRUE] ELSE x

\* MQTTAsync_addCommand for a CONNECT or an internal DISCONNECT: ignored when
\* such a command is already at the head of the list.
Ignored(x) == x.commands # <<>> /\ ~IsOp(Head(x.commands))
Started(x, c) ==
    IF c.type = "CONNECT" /\ x.state = "NOT_IN_PROGRESS" THEN [c EXCEPT !.late = FALSE] ELSE c
AddFirst(x, c) ==
    IF Ignored(x) THEN x ELSE [x EXCEPT !.commands = <<Started(x, c)>> \o @]

\* MQTTAsync_checkConn, and the attempt that comes after attempt c.
CheckConn(c) == c.uri + 1 < ServerURIcount \/ (c.version = 4 /\ VersionDefault)
NextTry(c) ==
    IF VersionDefault
    THEN IF c.version = 3 THEN [c EXCEPT !.uri = @ + 1, !.version = 0] ELSE c
    ELSE [c EXCEPT !.uri = @ + 1]
Restarted(c) == IF VersionDefault THEN [c EXCEPT !.version = 0] ELSE c

\* nextOrClose
GiveUp(x) == StartConnectRetry(AnswerConnect(CloseSession(x), "failure"))
NextOrClose(x) ==
    IF CheckConn(x.connect) /\ ~Ignored(x)
    THEN AddFirst(CloseOnly(x), NextTry(x.connect))
    ELSE GiveUp(x)

CheckDisconnect(x, d) ==
    IF x.outbound # <<>> /\ ~d.expired THEN x
    ELSE IF d.internal THEN StartConnectRetry(CloseSession(x))
    ELSE CloseSession(x)

\* MQTTAsync_disconnect_internal
DisconnectInternal(x) ==
    IF x.connected THEN AddFirst(x, DisconnectCommand(TRUE)) ELSE x

-----------------------------------------------------------------------------
(* The shape of a step: the new structure, with the callbacks it made.     *)

Become(structure) == \E x \in {structure} :   \* so that TLC evaluates it once
    /\ m' = [x EXCEPT !.told = NoReplies, !.toldConn = NoConnReplies]
    /\ replies' = [i \in Ops |->
           IF call[i] = "accepted" THEN replies[i] \o x.told[i] ELSE replies[i]]
    /\ conns' = [k \in 1..MaxConnects |-> conns[k] \o x.toldConn[k]]

Fault == faults < MaxFaults /\ faults' = faults + 1 /\ UNCHANGED delays
Delay == delays < MaxDelays /\ delays' = delays + 1 /\ UNCHANGED faults
NoFault == UNCHANGED <<faults, delays>>

-----------------------------------------------------------------------------
(* The application's calls.                                                *)

\* MQTTAsync_connect: the callbacks are set before the command is queued.
Connect ==
    LET k == asked.conn + 1
        x == [m EXCEPT !.connect.cb = k, !.should = TRUE]
    IN  /\ asked.conn < MaxConnects
        /\ asked' = [asked EXCEPT !.conn = k]
        /\ m' = AddFirst(x, ConnectCommand(k))
        /\ conns' = [conns EXCEPT ![k] = <<>>]
        /\ UNCHANGED <<stored, call, replies, written, got, faults, delays>>

\* MQTTAsync_reconnect
Reconnect ==
    /\ 0 < asked.conn /\ asked.other < MaxCalls
    /\ asked' = [asked EXCEPT !.other = @ + 1]
    /\ IF AutoReconnect
       THEN /\ m.should
            /\ Become([m EXCEPT !.now = TRUE, !.retrying = TRUE])
       ELSE Become(AddFirst(m, Restarted(m.connect)))
    /\ UNCHANGED <<stored, call, written, got, faults, delays>>

\* MQTTAsync_disconnect: queued behind everything else, and only if connected.
Disconnect ==
    LET x == [m EXCEPT !.should = FALSE] IN
    /\ asked.other < MaxCalls
    /\ asked' = [asked EXCEPT !.other = @ + 1, !.left = TRUE]
    /\ Become(IF m.connected
              THEN [x EXCEPT !.commands = Append(@, DisconnectCommand(FALSE))] ELSE x)
    /\ UNCHANGED <<stored, call, written, got, faults, delays>>

\* MQTTAsync_assignMsgId: the first id after the last one that no command, no
\* outbound message and no response has; 0 if there is none before the last one
\* comes round again.
\* Mutant: the command list is not searched.
UsedTokensNoCommands ==
    {m.token[i] : i \in Range(m.outbound)} \cup {m.token[i] : i \in Range(m.responses)}
UsedTokens ==
    {m.token[i] : i \in QueuedOps(m)} \cup {m.token[i] : i \in Range(m.outbound)}
        \cup {m.token[i] : i \in Range(m.responses)}
AssignMsgId ==
    LET after(t) == (t - m.msgID - 1) % MaxMsgId
        free == (1..MaxMsgId) \ (UsedTokens \cup {m.msgID})
    IN  IF free = {} THEN 0 ELSE CHOOSE t \in free : \A u \in free : after(t) <= after(u)
\* Begun at 0, the search for an id never comes back to its beginning: a call that
\* finds every id in use does not return, and holds both mutexes.
SearchEnds == m.msgID # 0 \/ ~ (1..MaxMsgId \subseteq UsedTokens)

\* MQTTAsync_send, MQTTAsync_subscribeMany, MQTTAsync_unsubscribeMany: the checks
\* and the token.  (The number of buffered messages is looked at a moment later.)
Allowed(i) ==
    m.connected \/ (i \in Publishes /\ SendWhileDisconnected /\ m.should)
BufferFull == ~DeleteOldest /\ m.buffered >= MaxBuffered

Ask(i) ==
    LET t == IF i \in Acknowledged THEN AssignMsgId ELSE 0
        x == IF t = 0 THEN m ELSE [m EXCEPT !.msgID = t, !.token[i] = t]
        refused == (i \in Acknowledged /\ t = 0) \/ (i \in Publishes /\ BufferFull)
        held == {m.token[j] : j \in {k \in Ops : call[k] = "calling"}} \ {0}
    IN  /\ call[i] = "new" /\ Allowed(i) /\ (i \in Acknowledged => SearchEnds)
        /\ call' = [call EXCEPT ![i] = IF refused THEN "refused" ELSE "calling"]
        /\ asked' = [asked EXCEPT !.shared = @ \/ (~refused /\ t \in held)]
        /\ m' = x
        /\ UNCHANGED <<stored, replies, conns, written, got, faults, delays>>

\* MQTTAsync_addCommand for an operation: appended and persisted; a full buffer
\* loses its oldest publish, even with deleteOldestMessages 0: two callers may
\* have seen room for one.  (Operations that get this far are numbered in the
\* order in which they do.)
PublishPositions(x) == {n \in OpPositions(x) : x.commands[n].op \in Publishes}
OldestPublish(x) == x.commands[Min(PublishPositions(x))].op
DropOldest(x) == [x EXCEPT !.commands = Detach(@, PublishPositions(x))]

\* MQTTAsync_persistCommand writes the command under the next number of the
\* sequence; MQTTAsync_unpersistCommand removes it.
PersistCommand(s, i) == Append(s, i)
\* Mutant: the command of a dropped publish stays on the disk.
UnpersistDroppedForgotten(s, i) == s
UnpersistDropped(s, i) == Detach(s, Positions(s, i))
\* Mutant: operations overtake each other, the newest first.
EnqueueAtHead(x, i) == [x EXCEPT !.commands = <<OpCommand(i)>> \o @]
Enqueue(x, i) == [x EXCEPT !.commands = Append(@, OpCommand(i))]

AddCommand(i) ==
    LET x == Enqueue(m, i)
        old == OldestPublish(x)
        full == i \in Publishes /\ m.buffered >= MaxBuffered
    IN  /\ call[i] = "calling" /\ \A j \in 1..(i - 1) : call[j] \notin {"new", "calling"}
        /\ IF full
           THEN /\ m' = DropOldest(x)
                /\ stored' = UnpersistDropped(PersistCommand(stored, i), old)
                /\ call' = [call EXCEPT ![i] = "accepted", ![old] =
                                IF @ = "accepted" \/ old = i THEN "dropped" ELSE @]
           ELSE /\ m' = IF i \in Publishes THEN [x EXCEPT !.buffered = @ + 1] ELSE x
                /\ stored' = PersistCommand(stored, i)
                /\ call' = [call EXCEPT ![i] = "accepted"]
        /\ UNCHANGED <<replies, conns, written, got, asked, faults, delays>>

-----------------------------------------------------------------------------
(* The send thread.                                                        *)

\* MQTTAsync_processCommand takes the first command of the list; a connection
\* that is not up, a pending write or too many messages in flight hold up an
\* operation and everything behind it.
Ready(x) ==
    /\ x.commands # <<>>
    /\ IsOp(Head(x.commands)) =>
           /\ x.connected /\ x.state = "NOT_IN_PROGRESS" /\ x.net.pending = <<>>
           /\ Len(x.outbound) < MaxMsgId - 1
           /\ OpType[Head(x.commands).op] # "PUBLISH0" => Len(x.outbound) < MaxInflight
Detached(x) == [x EXCEPT !.commands = Tail(@)]

Packet(type, i) == [type |-> type, op |-> i, ok |-> TRUE]

\* The version of the next attempt.
WithVersion(c) ==
    [c EXCEPT !.version = IF VersionDefault /\ c.version # 0 THEN 3 ELSE 4]

Connecting(x, c, state, out) ==
    [x EXCEPT !.state = state, !.connect = c, !.net = [NewSocket EXCEPT !.out = out]]

\* A CONNECT that fails at once: the user-level disconnect it makes and the
\* reset after it leave shouldBeConnected set; the command keeps its callbacks.
ConnectFailed(x, c) ==
    LET y == [x EXCEPT !.should = TRUE] IN
    IF CheckConn(c) THEN AddFirst(y, NextTry(c))
    ELSE StartConnectRetry([ReplyConnect(y, c.cb, "failure") EXCEPT !.connect = c])

ProcessConnect ==
    LET x == Detached(m)
        first == Head(m.commands)
        c == WithVersion(first)
    IN  /\ Ready(m) /\ first.type = "CONNECT"
        /\ IF HasSocket(m)
           THEN Become([x EXCEPT !.connect = first]) /\ NoFault
           ELSE \/ Become(Connecting(x, c, "TCP_IN_PROGRESS", <<>>)) /\ NoFault
                \/ Become(Connecting(x, c, "WAIT_FOR_CONNACK", <<Packet("CONNECT", 0)>>))
                   /\ NoFault
                \/ Become(ConnectFailed(x, c)) /\ Fault
        /\ UNCHANGED <<stored, call, written, got, asked>>

ProcessDisconnect ==
    LET d == Head(m.commands)
        x == Detached(m)
        y == IF m.state # "NOT_IN_PROGRESS" THEN AnswerConnect(x, "failure") ELSE x
        z == CheckDisconnect([y EXCEPT !.state = "DISCONNECTING"], d)
    IN  /\ Ready(m) /\ d.type = "DISCONNECT"
        /\ Become([IF HasSocket(m) THEN z ELSE x EXCEPT !.disconnect = d])
        /\ UNCHANGED <<stored, call, written, got, asked, faults, delays>>

\* MQTTProtocol_startPublish and the rest of processCommand for a PUBLISH,
\* MQTTProtocol_subscribe or _unsubscribe for the others: the packet is written,
\* partly written, or the write fails.
\* Mutant: every command taken counts as a buffered message.
TakenCountsAll(x, i) ==
    [Detached(x) EXCEPT !.buffered = @ - 1,
                        !.outbound = IF OpType[i] = "PUBLISH1" THEN Append(@, i) ELSE @]
Taken(x, i) ==
    [Detached(x) EXCEPT !.buffered = IF i \in Publishes THEN @ - 1 ELSE @,
                        !.outbound = IF OpType[i] = "PUBLISH1" THEN Append(@, i) ELSE @]
Write(x, i) == [x EXCEPT !.net.out = Append(@, Packet(OpType[i], i))]
\* Mutant: a QoS 0 publish partly written is reported as sent.
WritePartlyAsComplete(x, i) ==
    Reply([x EXCEPT !.net.pending = <<i>>], i, "success")
WritePartly(x, i) ==
    [x EXCEPT !.net.pending = <<i>>,
              !.pendingWrite = IF OpType[i] = "PUBLISH0" THEN i ELSE @]
Await(x, i) == [x EXCEPT !.responses = Append(@, i)]
WriteFailed(x, i) ==
    Reply(DisconnectInternal([x EXCEPT !.pendingWrite =
              IF OpType[i] = "PUBLISH0" THEN i ELSE @]), i, "failure")

ProcessOp ==
    LET i == Head(m.commands).op
        x == Taken(m, i)
    IN  /\ Ready(m) /\ IsOp(Head(m.commands))
        /\ stored' = Tail(stored)
        /\ \/ /\ Become(IF OpType[i] = "PUBLISH0" THEN Reply(Write(x, i), i, "success")
                        ELSE Await(Write(x, i), i))
              /\ written' = written \cup {i}
              /\ NoFault
           \/ Become(Await(WritePartly(x, i), i)) /\ Delay /\ UNCHANGED written
           \/ Become(WriteFailed(x, i)) /\ Fault /\ UNCHANGED written
        /\ UNCHANGED <<call, got, asked>>

\* MQTTAsync_checkTimeouts: the disconnect timeout, the connect timeout, then the
\* automatic reconnect when its interval has passed or reconnectNow is set.
Retry(x) == [AddFirst(x, Restarted(x.connect)) EXCEPT !.now = FALSE]

CheckTimeouts ==
    LET x == IF m.state = "DISCONNECTING" THEN CheckDisconnect(m, m.disconnect) ELSE m
    IN  /\ Become(IF x.state # "NOT_IN_PROGRESS" /\ x.connect.late THEN NextOrClose(x)
                  ELSE IF AutoReconnect /\ x.retrying THEN Retry(x)
                  ELSE x)
        /\ UNCHANGED <<stored, call, written, got, asked, faults, delays>>

-----------------------------------------------------------------------------
(* The receive thread.                                                     *)

Idle == m.held.type = "NONE"
Error == [type |-> "ERROR", stale |-> FALSE]

\* MQTTAsync_connecting: the TCP connect has completed; or it has failed, or the
\* CONNECT could not be written, which is an error of the cycle as well.
TcpComplete ==
    /\ Idle /\ m.state = "TCP_IN_PROGRESS"
    /\ \/ /\ Become([m EXCEPT !.state = "WAIT_FOR_CONNACK",
                              !.net.out = <<Packet("CONNECT", 0)>>])
          /\ NoFault
       \/ \E held \in {Nothing, Error} : Become(NextOrClose([m EXCEPT !.held = held])) /\ Fault
    /\ UNCHANGED <<stored, call, written, got, asked>>

\* A packet read and put aside for the second half of the loop.
ReadPacket ==
    /\ Idle /\ m.state # "TCP_IN_PROGRESS"
    /\ m.net.in # <<>> /\ Head(m.net.in).type # "PUBACK"
    /\ Become([m EXCEPT !.net.in = Tail(@),
                        !.held = [type |-> Head(m.net.in).type, stale |-> FALSE,
                                  pack |-> Head(m.net.in)]])
    /\ UNCHANGED <<stored, call, written, got, asked, faults, delays>>

\* A PUBACK is handled by MQTTAsync_cycle itself.
Matching(x, ops, t) == {n \in DOMAIN ops : x.token[ops[n]] = t}
Answered(x, t, kind) ==
    LET found == Matching(x, x.responses, t)
    IN  IF found = {} THEN x
        ELSE Reply([x EXCEPT !.responses = Detach(@, found)], x.responses[Min(found)], kind)

HandlePuback ==
    LET t == m.token[Head(m.net.in).op]
        x == [m EXCEPT !.net.in = Tail(@),
                       !.outbound = Detach(@, Matching(m, @, t))]
    IN  /\ Idle /\ m.state # "TCP_IN_PROGRESS"
        /\ m.net.in # <<>> /\ Head(m.net.in).type = "PUBACK"
        /\ Become(Answered(x, t, "success"))
        /\ UNCHANGED <<stored, call, written, got, asked, faults, delays>>

\* An error on the socket: a connection that waits for its CONNACK is given up
\* at once, and again in the second half of the loop if its socket is in use.
ReadError ==
    LET x == [m EXCEPT !.held = Error]
    IN  /\ Idle /\ HasSocket(m) /\ m.net.broken /\ m.net.in = <<>>
        /\ Become(IF m.state = "WAIT_FOR_CONNACK" THEN NextOrClose(x) ELSE x)
        /\ UNCHANGED <<stored, call, written, got, asked, faults, delays>>

\* MQTTAsync_retry, at the end of a cycle: MQTTProtocol_keepalive closes the
\* session of a server that does not answer (see KeepAlive).
KeepAliveClose ==
    /\ m.connected
    /\ Become(NextOrClose(m)) /\ Fault
    /\ UNCHANGED <<stored, call, written, got, asked>>

\* MQTTAsync_completeConnection, with nothing left to be sent again, and what the
\* receive thread does with its result.
Completed(x) ==
    CleanedSession([x EXCEPT !.retrying = FALSE, !.connected = TRUE, !.state = "NOT_IN_PROGRESS"])

HandleConnack(x, pack) ==
    IF x.state = "WAIT_FOR_CONNACK" /\ pack.ok
    THEN AnswerConnect(Completed(x), "success")
    ELSE NextOrClose(x)

\* The second half of the loop.  The client is found by its socket number: a
\* connection opened since may have been given the same number.
Handled(x) ==
    CASE x.held.type = "ERROR"   -> NextOrClose(x)
      [] x.held.type = "CONNACK" -> HandleConnack(x, x.held.pack)
      [] OTHER -> Answered(x, x.token[x.held.pack.op],
                           IF x.held.pack.ok THEN "success" ELSE "failure")

Release(x) == [x EXCEPT !.held = Nothing]

HandlePacket ==
    /\ ~Idle
    /\ \/ HasSocket(m) /\ Become(Release(Handled(m)))
       \/ (m.held.stale \/ ~HasSocket(m)) /\ Become(Release(m))
    /\ UNCHANGED <<stored, call, written, got, asked, faults, delays>>

\* MQTTAsync_writeComplete, from the socket layer: rc 1 or -1.
WriteComplete ==
    LET w == m.net.pending[1]
        p == m.pendingWrite
        waiting == p \in Range(m.responses) /\ p \in Publishes
        Finish(x, kind) ==
            [IF waiting THEN Reply([x EXCEPT !.responses = Detach(@, Positions(@, p))], p, kind) ELSE x
             EXCEPT !.pendingWrite = 0]
    IN  /\ m.net.pending # <<>> /\ HasSocket(m)
        /\ \/ /\ ~m.net.broken
              /\ Become(Finish([Write(m, w) EXCEPT !.net.pending = <<>>], "success"))
              /\ written' = written \cup {w}
              /\ NoFault
           \/ /\ Become(Finish([m EXCEPT !.net = [NewSocket EXCEPT !.broken = TRUE]],
                               "failure"))
              /\ IF m.net.broken THEN NoFault ELSE Fault
              /\ UNCHANGED written
        /\ UNCHANGED <<stored, call, got, asked>>

-----------------------------------------------------------------------------
(* The world around the client.                                            *)

\* External: the broker reads a packet and answers it.  A refused CONNECT counts
\* as a failure, a refused SUBSCRIBE is an answer.
BrokerReads ==
    LET p == Head(m.net.out)
        Reads(ans) == m' = [m EXCEPT !.net.out = Tail(@), !.net.in = @ \o ans]
    IN  /\ m.net.out # <<>> /\ ~m.net.broken
        /\ got' = IF p.op = 0 THEN got ELSE Append(got, p.op)
        /\ \/ p.type = "CONNECT" /\ Reads(<<[p EXCEPT !.type = "CONNACK"]>>) /\ NoFault
           \/ /\ p.type = "CONNECT" /\ Fault
              /\ Reads(<<[p EXCEPT !.type = "CONNACK", !.ok = FALSE]>>)
           \/ p.type = "PUBLISH0" /\ Reads(<<>>) /\ NoFault
           \/ p.type = "PUBLISH1" /\ Reads(<<[p EXCEPT !.type = "PUBACK"]>>) /\ NoFault
           \/ /\ p.type \in {"SUBSCRIBE", "UNSUBSCRIBE"} /\ NoFault
              /\ \E ok \in (IF p.type = "SUBSCRIBE" THEN BOOLEAN ELSE {TRUE}) :
                     Reads(<<[p EXCEPT !.type = "SUBACK", !.ok = ok]>>)
        /\ UNCHANGED <<stored, call, replies, conns, written, asked>>

\* External: the connection is lost with what was on it.
LinkDown ==
    /\ HasSocket(m) /\ m.state # "TCP_IN_PROGRESS" /\ ~m.net.broken /\ Fault
    /\ m' = [m EXCEPT !.net.broken = TRUE, !.net.in = <<>>, !.net.out = <<>>]
    /\ UNCHANGED <<stored, call, replies, conns, written, got, asked>>

\* External: time passes the connectTimeout of the connect command in use (looked
\* at while a connect, where it is a fault, or a disconnect is in progress), or
\* the timeout of a user's disconnect.
TimePasses ==
    /\ \/ /\ ~m.connect.late /\ m.state = "DISCONNECTING"
          /\ m' = [m EXCEPT !.connect.late = TRUE] /\ NoFault
       \/ /\ ~m.connect.late /\ m.state \in {"TCP_IN_PROGRESS", "WAIT_FOR_CONNACK"}
          /\ m' = [m EXCEPT !.connect.late = TRUE] /\ Fault
       \/ /\ m.state = "DISCONNECTING" /\ ~m.disconnect.expired
          /\ m' = [m EXCEPT !.disconnect.expired = TRUE] /\ NoFault
    /\ UNCHANGED <<stored, call, replies, conns, written, got, asked>>

\* The process crashes; MQTTAsync_create of the next one restores the commands
\* and the outbound messages.  processCommand removes a command from the disk
\* before startPublish stores its message: a crash in between loses it.  (Of two
\* messages that share an id one is stored.)
RestoreCommand(i) == OpCommand(i)    \* with its token, without its callbacks
RestoreCommands(s) ==
    [Created EXCEPT !.commands = [n \in DOMAIN s |-> RestoreCommand(s[n])],
                    !.buffered = Cardinality({n \in DOMAIN s : s[n] \in Publishes}),
                    !.outbound = m.outbound,
                    !.token = m.token]
Crash ==
    /\ Fault
    /\ stored' \in {stored} \cup (IF Ready(m) /\ IsOp(Head(m.commands)) THEN {Tail(stored)} ELSE {})
    /\ m' = RestoreCommands(stored')
    /\ call' = [i \in Ops |-> CASE call[i] = "calling" -> "refused"
                                [] call[i] = "accepted" /\ replies[i] = <<>> -> "orphan"
                                [] OTHER -> call[i]]
    /\ asked' = [asked EXCEPT !.conn = 0]
    /\ UNCHANGED <<replies, conns, written, got>>

\* MQTTAsync_destroy, and the next MQTTAsync_create: every command and response
\* fails, but the commands stay on the disk and are restored.
FreeCommands(x) ==
    [x EXCEPT !.commands = <<>>,
              !.told = [i \in Ops |-> x.told[i] \o Failures(Positions(x.commands, OpCommand(i)))]]
Destroy ==
    LET x == FreeCommands(FreeResponses(CloseSession(m))) IN
    /\ Idle /\ \A i \in Ops : call[i] # "calling"
    /\ Fault
    /\ Become([RestoreCommands(stored) EXCEPT !.outbound = x.outbound, !.told = x.told,
                                               !.toldConn = x.toldConn])
    /\ call' = [i \in Ops |-> IF i \in QueuedOps(m) THEN "orphan" ELSE call[i]]
    /\ asked' = [asked EXCEPT !.conn = 0]
    /\ UNCHANGED <<stored, written, got>>

-----------------------------------------------------------------------------

Application ==
    \/ Connect \/ Reconnect \/ Disconnect \/ Destroy
    \/ \E i \in Ops : Ask(i) \/ AddCommand(i)
SendThread == ProcessConnect \/ ProcessDisconnect \/ ProcessOp \/ CheckTimeouts
ReceiveThread ==
    \/ TcpComplete \/ ReadPacket \/ HandlePuback \/ ReadError \/ HandlePacket
    \/ WriteComplete

Next == Application \/ SendThread \/ ReceiveThread \/ KeepAliveClose
            \/ BrokerReads \/ LinkDown \/ TimePasses \/ Crash

\* The threads run, the broker answers, and a call that has its token goes on.
\* The send thread processes commands until none is ready before it looks at
\* the timeouts again, so the commands checkTimeouts puts in front of an
\* operation do not hold it up for ever.
Fairness ==
    /\ WF_vars(\E i \in Ops : AddCommand(i))
    /\ WF_vars(ProcessConnect \/ ProcessDisconnect) /\ SF_vars(ProcessOp)
    /\ WF_vars(CheckTimeouts)
    /\ WF_vars(ReceiveThread)
    /\ WF_vars(BrokerReads)

Spec == Init /\ [][Next]_vars /\ Fairness

-----------------------------------------------------------------------------

TypeOK ==
    /\ m.connected \in BOOLEAN
    /\ m.state \in {"NOT_IN_PROGRESS", "TCP_IN_PROGRESS", "WAIT_FOR_CONNACK",
                    "DISCONNECTING"}
    /\ m.connected => m.state \in {"NOT_IN_PROGRESS", "DISCONNECTING"}
    /\ m.buffered \in 0..MaxBuffered
    /\ stored \in Seq(Ops) /\ got \in Seq(Ops) /\ written \subseteq Ops
    /\ call \in [Ops -> {"new", "calling", "accepted", "refused", "dropped", "orphan"}]
    /\ replies \in [Ops -> Seq({"success", "failure"})]
    /\ conns \in [1..MaxConnects -> Seq({"success", "failure"})]

Places(i) ==
    Cardinality(Positions(m.commands, OpCommand(i))) + Cardinality(Positions(m.responses, i))

\* An operation the client accepted is in exactly one place: in the command
\* list, among the responses, or answered by exactly one of its callbacks.
OneReply ==
    \A i \in Ops : call[i] = "accepted" => Places(i) + Len(replies[i]) = 1

\* No two operations still to be answered share a message id: an answer of the
\* broker is matched by the id alone.  assignMsgId looks through all that is queued
\* or sent, and so this holds until it gives out an id that another caller has got
\* and not queued yet, which it does once msgID has been set back to 0 (or has come
\* round) since.
TokensUnique ==
    LET open == QueuedOps(m) \cup Range(m.responses) \cup Range(m.outbound)
    IN  ~asked.shared =>
            \A i, j \in open \cap Acknowledged : m.token[i] = m.token[j] => i = j

\* onSuccess tells the truth: a QoS 0 publish was written completely, and the broker
\* has read the packet of any other operation.  (The answer to one of two operations
\* that share a message id may be taken for the other's.)
SuccessIsReal ==
    /\ \A i \in Ops \ Acknowledged : "success" \in Range(replies[i]) => i \in written
    /\ ~asked.shared =>
           \A i \in Acknowledged : "success" \in Range(replies[i]) => i \in Range(got)

\* The commands on the disk are the operations in the command list, in order, and
\* noBufferedMessages counts the publishes among them: a restart repeats nothing
\* that was processed or dropped and the buffer limit stays what it says.
StoreMatchesQueue ==
    /\ \E at \in [DOMAIN stored -> OpPositions(m)] :
           /\ OpPositions(m) = Range(at)
           /\ \A a, b \in DOMAIN stored : a < b => at[a] < at[b]
           /\ \A a \in DOMAIN stored : m.commands[at[a]] = OpCommand(stored[a])
    /\ m.buffered = Cardinality({n \in DOMAIN stored : stored[n] \in Publishes})

\* Packets reach the broker in the order their operations were queued, over partial
\* writes, failed writes and any number of connections.
InOrder ==
    \A a, b \in DOMAIN got : a < b => got[a] < got[b]

\* Mutant: the outbound messages are not searched.
IsCompleteIgnoresOutbound(i) == i \notin QueuedOps(m)
\* MQTTAsync_isComplete: the token is in no command and no outbound message.
IsComplete(i) == i \notin QueuedOps(m) /\ i \notin Range(m.outbound)

\* A publication that isComplete reports complete has had its callback (unless the
\* answer to another operation with its message id ended its exchange).
CompleteIsAnswered ==
    ~asked.shared =>
        \A i \in Publishes \cap Acknowledged :
            call[i] = "accepted" /\ IsComplete(i) => replies[i] # <<>>

\* Again and again there is nothing left to answer: an accepted operation has its
\* callback in the end, unless it is dropped, the application disconnects or the
\* process ends.
EventuallyAnswered ==
    []<>(asked.left \/ \A i \in Ops : call[i] = "accepted" => replies[i] # <<>>)

\* With automaticReconnect the client that should be connected gets connected.
Reconnects == m.should ~> (m.connected \/ ~m.should \/ asked.left)

=============================================================================
