----------------------------- MODULE PahoClient -----------------------------
(***************************************************************************)
(* The synchronous Paho client library (src/include/MQTTClient.c and       *)
(* MQTTProtocolClient.c) as one connected client with callbacks uses it:   *)
(* the session state, the background thread MQTTClient_run, and the calls  *)
(* subscribe, unsubscribe, publish and disconnect made by the threads of   *)
(* the application.                                                        *)
(*                                                                         *)
(* One action is one critical section of mqttclient_mutex.  The mutex is   *)
(* held across a blocking step in one place only, while MQTTClient_cycle   *)
(* runs the deliveryComplete callback, so it needs no variable: it is held *)
(* exactly when runpc = "delivered".  The messageArrived callback and the  *)
(* read of m->pack in MQTTClient_waitfor happen without it.                *)
(*                                                                         *)
(* The client connects with the defaults of MQTTClient_connectOptions:     *)
(* MQTT 3.1.1, cleansession, reliable, no persistence, no retry interval.  *)
(***************************************************************************)
EXTENDS Broker, FiniteSets

CONSTANTS
    Subs, Pubs,     \* the subscriber and publisher threads of the application
    MAX_MSG_ID,     \* the largest message id (65535 in the code)
    NULL

Threads == Subs \cup Pubs

\* The acknowledgements that MQTTClient_cycle returns to MQTTClient_run and that
\* MQTTClient_waitfor waits for.
AckTypes == {"SUBACK", "UNSUBACK"}
Packs == {p \in Packets : p.type \in AckTypes}

ASSUME ClientAssumption ==
    /\ MAX_MSG_ID \in Nat
    /\ MAX_MSG_ID >= 3
    /\ Subs \cap Pubs = {}
    /\ NULL \notin Threads
    /\ NULL \notin Packs

\* options->reliable is 1 by default, which allows one message in flight.
maxInflightMessages == 1

VARIABLES
    \* struct Clients
    connected, msgID, outboundMsgs, inboundMsgs, messageQueue,
    \* struct MQTTClients and the module's globals: sem is suback_sem and
    \* unsuback_sem, call_mutex is subscribe_mutex and unsubscribe_mutex
    pack, sem, call_mutex, running, tostop,
    \* the locals of MQTTClient_run: its control state, the packet and the
    \* return code of the last cycle, the token being reported as delivered
    \* and the topic of the message being handed over
    runpc, got, rc, dt, qe,
    \* the application's threads: control state, the acknowledgement their
    \* current subscribe or unsubscribe call is about, and that call's locals
    \* msgid (the token, in a publish call) and pack
    pc, call, msgid, seen

sessionVars == <<connected, msgID, outboundMsgs, inboundMsgs, messageQueue>>
waitVars == <<pack, sem, call_mutex>>
runVars == <<running, tostop, runpc, got, rc, dt, qe>>
threadVars == <<pc, call, msgid, seen>>
clientVars == <<sessionVars, waitVars, runVars, threadVars>>

MutexFree == runpc # "delivered"

NextMessageTypes == {"PUBACK", "PUBREC", "PUBCOMP"}
RunStates == {"cycle", "delivered", "dispatch", "callback", "after", "stopped"}

\* The state MQTTClient_connect leaves behind, the background thread running.
ClientInit ==
    /\ connected = TRUE
    /\ msgID = 0
    /\ outboundMsgs = {}
    /\ inboundMsgs = {}
    /\ messageQueue = <<>>
    /\ pack = NULL
    /\ sem = [a \in AckTypes |-> 0]
    /\ call_mutex = [a \in AckTypes |-> NULL]
    /\ running = TRUE /\ tostop = FALSE
    /\ runpc = "cycle" /\ got = NULL /\ rc = "COMPLETE" /\ dt = 0 /\ qe = "topic"
    /\ pc = [t \in Threads |-> "idle"]
    /\ call = [t \in Threads |-> "SUBACK"]
    /\ msgid = [t \in Threads |-> 0]
    /\ seen = [t \in Threads |-> NULL]

-----------------------------------------------------------------------------
(* Helpers of the critical sections.                                        *)

InUse == {m.msgid : m \in outboundMsgs}

\* The k-th id the loop of MQTTProtocol_assignMsgId tries, from msgID + 1
\* upwards and wrapping past MAX_MSG_ID to 1.
Candidate(k) == IF msgID + k <= MAX_MSG_ID THEN msgID + k ELSE msgID + k - MAX_MSG_ID

\* MQTTProtocol_assignMsgId returns id: the first candidate not in use.  The
\* loop gives up when it is back at the id it started from, which is no id at
\* all in a new session.
AssignMsgId(id) ==
    \E k \in 1..(IF msgID = 0 THEN MAX_MSG_ID ELSE MAX_MSG_ID - 1) :
        /\ id = Candidate(k)
        /\ id \notin InUse
        /\ \A j \in 1..(k - 1) : Candidate(j) \in InUse

\* The outcomes of writing one packet: on a broken connection the write either
\* fails or is still accepted by the local TCP stack, and lost.
WriteOutcomes == IF link THEN {"COMPLETE"} ELSE {"COMPLETE", "SOCKET_ERROR"}

Write(p) == toBroker' = IF link THEN Append(toBroker, p) ELSE toBroker

\* MQTTClient_closeSession followed by MQTTClient_cleanSession: the socket is
\* closed, every list is emptied and the entries of messageQueue are freed.
CloseSession ==
    /\ connected' = FALSE
    /\ msgID' = 0
    /\ outboundMsgs' = {}
    /\ inboundMsgs' = {}
    /\ messageQueue' = <<>>
    /\ toBroker' = <<>>
    /\ toClient' = <<>>

\* MQTTClient_stop asks the background thread to end only if it runs and has
\* not been asked before; the caller then waits for it.
MustStop == running /\ ~tostop
Stop == tostop' = (tostop \/ running)

-----------------------------------------------------------------------------
(* MQTTClient_cycle on the background thread: one packet is read and        *)
(* handled with the mutex held.                                             *)

Incoming == Head(toClient)

Reads(type) ==
    /\ runpc = "cycle"
    /\ connected
    /\ toClient # <<>>
    /\ Incoming.type = type
    /\ toClient' = Tail(toClient)

\* Protocol_processPublication
ProcessPublication(topic) == messageQueue' = Append(messageQueue, topic)

\* What the handlers of a publication do, once each: QoS 0 and 1 queue it, QoS 2
\* stores it (replacing one of the same id) until PUBREL.
HandlePublishes ==
    /\ Reads("PUBLISH")
    /\ \/ /\ TopicQos(Incoming.topic) = 0
          /\ ProcessPublication(Incoming.topic)
          /\ rc' = "COMPLETE"
          /\ UNCHANGED <<inboundMsgs, toBroker>>
       \/ /\ TopicQos(Incoming.topic) = 1
          /\ ProcessPublication(Incoming.topic)
          /\ rc' \in WriteOutcomes
          /\ Write(Reply("PUBACK", Incoming.id))
          /\ UNCHANGED inboundMsgs
       \/ /\ TopicQos(Incoming.topic) = 2
          /\ inboundMsgs' = {m \in inboundMsgs : m.msgid # Incoming.id}
                  \cup {[msgid |-> Incoming.id, topic |-> Incoming.topic]}
          /\ rc' \in WriteOutcomes
          /\ Write(Reply("PUBREC", Incoming.id))
          /\ UNCHANGED messageQueue
    /\ runpc' = "dispatch"
    /\ got' = NULL
    /\ UNCHANGED <<link, brokerVars, connected, msgID, outboundMsgs, waitVars,
                   running, tostop, dt, qe, threadVars>>

\* PUBREL releases a stored publication to the queue; PUBCOMP is always sent.
HandlePubrels ==
    /\ Reads("PUBREL")
    /\ LET released == {m \in inboundMsgs : m.msgid = Incoming.id}
       IN  /\ IF released = {}
              THEN UNCHANGED messageQueue
              ELSE \E m \in released : ProcessPublication(m.topic)
           /\ inboundMsgs' = inboundMsgs \ released
    /\ rc' \in WriteOutcomes
    /\ Write(Reply("PUBCOMP", Incoming.id))
    /\ runpc' = "dispatch"
    /\ got' = NULL
    /\ UNCHANGED <<link, brokerVars, connected, msgID, outboundMsgs, waitVars,
                   running, tostop, dt, qe, threadVars>>

\* The entry PUBACK or PUBCOMP completes: QoS 1 for the one, QoS 2 that has seen
\* its PUBREC for the other.
Completed(p) ==
    {m \in outboundMsgs : m.msgid = p.id /\ m.nextMessageType = p.type}

\* PUBACK and PUBCOMP: the entry goes, and the callback is called with the mutex
\* held whether or not there was one.
HandleAcks ==
    /\ Reads("PUBACK") \/ Reads("PUBCOMP")
    /\ outboundMsgs' = outboundMsgs \ Completed(Incoming)
    /\ dt' = Incoming.id
    /\ rc' = "COMPLETE"
    /\ runpc' = "delivered"
    /\ got' = NULL
    /\ UNCHANGED <<link, toBroker, brokerVars, connected, msgID, inboundMsgs,
                   messageQueue, waitVars, running, tostop, qe, threadVars>>

\* Mutant of HandlePubrecs: the callback is already called for PUBREC.
HandlePubrecsConfirms ==
    /\ Reads("PUBREC")
    /\ LET due == {m \in outboundMsgs :
                        m.msgid = Incoming.id /\ m.nextMessageType = "PUBREC"}
       IN  outboundMsgs' = (outboundMsgs \ due) \cup
                {[msgid |-> m.msgid, nextMessageType |-> "PUBCOMP"] : m \in due}
    /\ rc' \in WriteOutcomes
    /\ Write(Reply("PUBREL", Incoming.id))
    /\ dt' = Incoming.id
    /\ runpc' = "delivered"
    /\ got' = NULL
    /\ UNCHANGED <<link, brokerVars, connected, msgID, inboundMsgs, messageQueue,
                   waitVars, running, tostop, qe, threadVars>>

\* PUBREC moves the entry on; PUBREL is sent under all circumstances.
HandlePubrecs ==
    /\ Reads("PUBREC")
    /\ LET due == {m \in outboundMsgs :
                        m.msgid = Incoming.id /\ m.nextMessageType = "PUBREC"}
       IN  outboundMsgs' = (outboundMsgs \ due) \cup
                {[msgid |-> m.msgid, nextMessageType |-> "PUBCOMP"] : m \in due}
    /\ rc' \in WriteOutcomes
    /\ Write(Reply("PUBREL", Incoming.id))
    /\ runpc' = "dispatch"
    /\ got' = NULL
    /\ UNCHANGED <<link, brokerVars, connected, msgID, inboundMsgs, messageQueue,
                   waitVars, running, tostop, dt, qe, threadVars>>

\* SUBACK and UNSUBACK are returned to MQTTClient_run.
ReturnPack ==
    /\ Reads("SUBACK") \/ Reads("UNSUBACK")
    /\ got' = Incoming
    /\ rc' = "COMPLETE"
    /\ runpc' = "dispatch"
    /\ UNCHANGED <<link, toBroker, brokerVars, sessionVars, waitVars, running,
                   tostop, dt, qe, threadVars>>

\* The read fails once nothing is left to read on a broken connection.
ReadError ==
    /\ runpc = "cycle"
    /\ connected
    /\ ~link
    /\ toClient = <<>>
    /\ got' = NULL
    /\ rc' = "SOCKET_ERROR"
    /\ runpc' = "dispatch"
    /\ UNCHANGED <<netVars, brokerVars, sessionVars, waitVars, running, tostop,
                   dt, qe, threadVars>>

-----------------------------------------------------------------------------
(* MQTTClient_run after a cycle.                                            *)

RunExit ==
    /\ running' = FALSE
    /\ tostop' = FALSE
    /\ runpc' = "stopped"

\* m->pack = pack, and the semaphore of its type is posted.
PostPack ==
    /\ pack' = IF got = NULL THEN pack ELSE got
    /\ sem' = IF got = NULL THEN sem ELSE [sem EXCEPT ![got.type] = @ + 1]
    /\ got' = NULL

\* tostop is tested after every cycle: the packet just read is forgotten.
RunStops ==
    /\ runpc \in {"cycle", "dispatch"}
    /\ tostop
    /\ RunExit
    /\ got' = NULL
    /\ UNCHANGED <<netVars, brokerVars, sessionVars, waitVars, rc, dt, qe, threadVars>>

\* MQTTClient_disconnect_internal called by the background thread itself: it does
\* not wait for itself, and leaves its loop with the mutex still held.
DispatchError ==
    /\ runpc = "dispatch"
    /\ ~tostop
    /\ rc = "SOCKET_ERROR"
    /\ CloseSession
    /\ RunExit
    /\ UNCHANGED <<link, brokerVars, waitVars, got, rc, dt, qe, threadVars>>

DispatchMessage ==
    /\ runpc = "dispatch"
    /\ ~tostop
    /\ rc = "COMPLETE"
    /\ messageQueue # <<>>
    /\ qe' = Head(messageQueue)
    /\ runpc' = "callback"
    /\ UNCHANGED <<netVars, brokerVars, sessionVars, waitVars, running, tostop,
                   got, rc, dt, threadVars>>

DispatchPack ==
    /\ runpc = "dispatch"
    /\ ~tostop
    /\ rc = "COMPLETE"
    /\ messageQueue = <<>>
    /\ PostPack
    /\ runpc' = "cycle"
    /\ UNCHANGED <<netVars, brokerVars, sessionVars, call_mutex, running, tostop, rc, dt, qe, threadVars>>

\* The callback returned 1: ListRemove takes its entry off the queue (nothing, if
\* the queue was emptied meanwhile), the pack is posted, tostop ends the loop.
AfterMessage ==
    /\ runpc = "after"
    /\ messageQueue' = IF messageQueue = <<>> THEN <<>> ELSE Tail(messageQueue)
    /\ PostPack
    /\ IF tostop THEN RunExit
       ELSE runpc' = "cycle" /\ UNCHANGED <<running, tostop>>
    /\ UNCHANGED <<netVars, brokerVars, connected, msgID, outboundMsgs, inboundMsgs,
                   call_mutex, rc, dt, qe, threadVars>>

RunStep ==
    \/ HandlePublishes
    \/ HandlePubrels
    \/ HandleAcks
    \/ HandlePubrecs
    \/ ReturnPack
    \/ ReadError
    \/ RunStops
    \/ DispatchError
    \/ DispatchMessage
    \/ DispatchPack
    \/ AfterMessage

-----------------------------------------------------------------------------
(* The calls of the application's threads.  A call that fails ends at pc     *)
(* "exit": every caller in mqtt.c then calls exit(EXIT_FAILURE).             *)

\* The calls hold subscribe_mutex or unsubscribe_mutex to their end.
Release(t) ==
    call_mutex' = [a \in AckTypes |-> IF call_mutex[a] = t THEN NULL ELSE call_mutex[a]]

\* MQTTClient_disconnect_internal called by thread t: it waits at pc waiting for
\* the background thread to end if it is the first to ask, then goes on at next.
DisconnectInternal(t, waiting, next) ==
    /\ CloseSession
    /\ Stop
    /\ pc' = [pc EXCEPT ![t] = IF MustStop THEN waiting ELSE next]
    /\ UNCHANGED <<link, brokerVars, running, runpc, got, rc, dt, qe>>

\* MQTTClient_stop returns to thread t.
Stopped(t, waiting, next) ==
    /\ pc[t] = waiting
    /\ ~running
    /\ pc' = [pc EXCEPT ![t] = next]
    /\ Release(t)
    /\ UNCHANGED <<netVars, brokerVars, sessionVars, pack, sem, runVars, call,
                   msgid, seen>>

\* Mutant of Ask: two calls of the same kind do not exclude each other.
AskUnserialised(t, topic) ==
    /\ pc[t] = "ask"
    /\ MutexFree
    /\ connected
    /\ \E id \in 1..MAX_MSG_ID :
            /\ AssignMsgId(id)
            /\ msgID' = id
            /\ msgid' = [msgid EXCEPT ![t] = id]
            /\ Write(Packet(IF call[t] = "SUBACK" THEN "SUBSCRIBE" ELSE "UNSUBSCRIBE",
                            topic, id))
    /\ call_mutex' = [call_mutex EXCEPT ![call[t]] = t]
    /\ pc' = [pc EXCEPT ![t] = "wait"]
    /\ UNCHANGED <<link, toClient, brokerVars, connected, outboundMsgs, inboundMsgs,
                   messageQueue, pack, sem, runVars, call, seen>>

\* MQTTClient_subscribe and MQTTClient_unsubscribe up to the wait: the packet is
\* sent with a new message id.
Ask(t, topic) ==
    /\ pc[t] = "ask"
    /\ call_mutex[call[t]] = NULL
    /\ MutexFree
    /\ connected
    /\ \E id \in 1..MAX_MSG_ID :
            /\ AssignMsgId(id)
            /\ msgID' = id
            /\ msgid' = [msgid EXCEPT ![t] = id]
            /\ Write(Packet(IF call[t] = "SUBACK" THEN "SUBSCRIBE" ELSE "UNSUBSCRIBE",
                            topic, id))
    /\ call_mutex' = [call_mutex EXCEPT ![call[t]] = t]
    /\ pc' = [pc EXCEPT ![t] = "wait"]
    /\ UNCHANGED <<link, toClient, brokerVars, connected, outboundMsgs, inboundMsgs,
                   messageQueue, pack, sem, runVars, call, seen>>

\* The write of the packet fails.
AskError(t) ==
    /\ pc[t] = "ask"
    /\ call_mutex[call[t]] = NULL
    /\ MutexFree
    /\ connected
    /\ "SOCKET_ERROR" \in WriteOutcomes
    /\ DisconnectInternal(t, "stop_exit", "exit")
    /\ UNCHANGED <<waitVars, call, msgid, seen>>

\* Every call fails at once on a client that is not connected.
NotConnected(t) ==
    /\ pc[t] \in {"ask", "publish"}
    /\ pc[t] = "ask" => call_mutex[call[t]] = NULL
    /\ MutexFree
    /\ ~connected
    /\ pc' = [pc EXCEPT ![t] = "exit"]
    /\ UNCHANGED <<netVars, brokerVars, sessionVars, waitVars, runVars, call, msgid, seen>>

\* MQTTClient_waitfor: the semaphore is taken, then m->pack is read, without the
\* mutex and without a look at its type or message id.
Wait(t) ==
    /\ pc[t] = "wait"
    /\ sem[call[t]] > 0
    /\ sem' = [sem EXCEPT ![call[t]] = @ - 1]
    /\ seen' = [seen EXCEPT ![t] = pack]
    /\ pc' = [pc EXCEPT ![t] = "answered"]
    /\ UNCHANGED <<netVars, brokerVars, sessionVars, pack, call_mutex, runVars,
                   call, msgid>>

\* MQTTClient_waitfor gives up after commandTimeout.  It returns m->pack even then,
\* or NULL if it found the background thread gone and read the socket itself.
Timeout(t) ==
    /\ pc[t] = "wait"
    /\ "timeout" \in Faults \/ ~running
    /\ \E p \in {pack} \cup (IF running THEN {} ELSE {NULL}) :
            seen' = [seen EXCEPT ![t] = p]
    /\ pc' = [pc EXCEPT ![t] = "timedout"]
    /\ UNCHANGED <<netVars, brokerVars, sessionVars, waitVars, runVars, call, msgid>>

\* A subscribe call takes whatever packet it got for a SUBACK.  Of an UNSUBACK it
\* follows a NULL list of QoSs, and the process dies.
Usable(t) == call[t] = "SUBACK" => seen[t].type = "SUBACK"

\* Back from the wait with a packet: m->pack is cleared and the call succeeds, or
\* fails with the return code of the wait if that timed out.
Answered(t, next) ==
    /\ pc[t] \in {"answered", "timedout"}
    /\ MutexFree
    /\ seen[t] # NULL
    /\ pack' = NULL
    /\ pc' = [pc EXCEPT ![t] = IF pc[t] = "answered" /\ Usable(t) THEN next ELSE "exit"]
    /\ Release(t)
    /\ UNCHANGED <<netVars, brokerVars, sessionVars, sem, runVars, call, msgid, seen>>

\* Back from the wait without a packet: the client disconnects itself.
Unanswered(t) ==
    /\ pc[t] \in {"answered", "timedout"}
    /\ MutexFree
    /\ seen[t] = NULL
    /\ DisconnectInternal(t, "stop_exit", "exit")
    /\ UNCHANGED <<waitVars, call, msgid, seen>>

\* The end of MQTTClient_publish once there is room in outboundMsgs: above QoS 0
\* the message gets an id, which is also its token, and is kept until its ack.
PublishMessage(t) ==
    IF QOS = 0
    THEN /\ Write(Packet("PUBLISH", "topic", 0))
         /\ UNCHANGED <<msgID, outboundMsgs, msgid>>
    ELSE \E id \in 1..MAX_MSG_ID :
            /\ AssignMsgId(id)
            /\ msgID' = id
            /\ msgid' = [msgid EXCEPT ![t] = id]
            /\ outboundMsgs' = outboundMsgs \cup
                    {[msgid |-> id,
                      nextMessageType |-> IF QOS = 1 THEN "PUBACK" ELSE "PUBREC"]}
            /\ Write(Packet("PUBLISH", "topic", id))

\* MQTTClient_publish blocks while maxInflightMessages messages are in flight.
CanPublish(t) ==
    /\ pc[t] = "publish"
    /\ MutexFree
    /\ connected
    /\ Cardinality(outboundMsgs) < maxInflightMessages

Publish(t) ==
    /\ CanPublish(t)
    /\ Room
    /\ PublishMessage(t)
    /\ pc' = [pc EXCEPT ![t] = IF QOS = 0 THEN "sleep" ELSE "spin"]
    /\ UNCHANGED <<link, toClient, brokerVars, connected, inboundMsgs, messageQueue,
                   waitVars, runVars, call, seen>>

\* The write fails: the client disconnects itself, which also drops the message;
\* above QoS 0 the call succeeds all the same.
PublishError(t) ==
    /\ CanPublish(t)
    /\ "SOCKET_ERROR" \in WriteOutcomes
    /\ IF QOS = 0
       THEN /\ DisconnectInternal(t, "stop_exit", "exit")
            /\ UNCHANGED msgid
       ELSE /\ DisconnectInternal(t, "stop_spin", "spin")
            /\ \E id \in 1..MAX_MSG_ID :
                    AssignMsgId(id) /\ msgid' = [msgid EXCEPT ![t] = id]
    /\ UNCHANGED <<waitVars, call, seen>>
=============================================================================
