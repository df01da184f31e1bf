--------------------------- MODULE BenchmarkProofs ---------------------------
(***************************************************************************)
(* Type correctness of a benchmark process: TypeOK is inductive as it      *)
(* stands, by one lemma for each actor (the background thread and its      *)
(* callbacks, the threads' library calls and own statements, main, and     *)
(* the broker, from BrokerProofs).                                         *)
(***************************************************************************)
EXTENDS Benchmark, BrokerProofs

USE BrokerAssumption, ClientAssumption, IterAssumption
USE DEF netVars, brokerVars, sessionVars, waitVars, runVars, threadVars, clientVars,
        semVars, sampleVars, mainVars, appVars

\* The packet MQTTClient_cycle reads is a packet, and so are those behind it.
LEMMA IncomingType ==
    ASSUME BrokerTypeOK, toClient # <<>>
    PROVE  Incoming \in Packets /\ Tail(toClient) \in Seq(Packets)
  BY DEF BrokerTypeOK, Incoming

\* CloseSession, wherever it is called, leaves well-typed empty lists.
LEMMA CloseSessionType ==
    ASSUME CloseSession
    PROVE  /\ connected' \in BOOLEAN
           /\ msgID' \in 0..MAX_MSG_ID
           /\ outboundMsgs' = {}
           /\ inboundMsgs' = {}
           /\ messageQueue' \in Seq(Topics)
           /\ toBroker' \in Seq(Packets)
           /\ toClient' \in Seq(Packets)
  <1>1. /\ connected' = FALSE /\ msgID' = 0 /\ outboundMsgs' = {} /\ inboundMsgs' = {}
        /\ messageQueue' = <<>> /\ toBroker' = <<>> /\ toClient' = <<>>
    BY DEF CloseSession
  <1>2. <<>> \in Seq(Topics) /\ <<>> \in Seq(Packets)
    OBVIOUS
  <1>3. 0 \in 0..MAX_MSG_ID
    OBVIOUS
  <1> QED  BY <1>1, <1>2, <1>3, Zenon

\* Every critical section of MQTTClient_run and MQTTClient_cycle keeps the types:
\* the handlers' lists hold well-formed entries, and a semaphore is only posted.
LEMMA RunStepType ==
    ASSUME TypeOK, RunStep, UNCHANGED appVars
    PROVE  TypeOK'
  <1> USE DEF TypeOK, BrokerTypeOK
  <1>a. ASSUME NEW type \in RequestTypes \cup ReplyTypes, Reads(type)
        PROVE  /\ Incoming \in Packets
               /\ Incoming.id \in Nat
               /\ Incoming.type = type
               /\ type \in RequestTypes => Incoming.topic \in Topics
               /\ toClient' \in Seq(Packets)
    <2>1. Incoming \in Packets /\ Tail(toClient) \in Seq(Packets)
      BY <1>a, IncomingType DEF Reads
    <2> QED  BY <1>a, <2>1 DEF Reads, Packets, RequestTypes, ReplyTypes
  <1>w. ASSUME NEW type \in ReplyTypes, NEW id \in Nat, Write(Reply(type, id))
        PROVE  toBroker' \in Seq(Packets)
    <2>1. Reply(type, id) \in Packets
      BY ReplyType
    <2> QED  BY <1>w, <2>1 DEF Write
  <1>q. ASSUME NEW topic \in Topics, ProcessPublication(topic)
        PROVE  messageQueue' \in Seq(Topics)
    BY <1>q DEF ProcessPublication
  <1>1. CASE HandlePublishes
    <2>0. /\ Incoming.id \in Nat /\ Incoming.topic \in Topics
          /\ toClient' \in Seq(Packets)
      BY <1>1, <1>a DEF HandlePublishes, RequestTypes
    <2>1. messageQueue' \in Seq(Topics)
      BY <1>1, <1>q, <2>0 DEF HandlePublishes
    <2>2. toBroker' \in Seq(Packets)
      BY <1>1, <1>w, <2>0 DEF HandlePublishes, ReplyTypes
    <2>3. inboundMsgs' \subseteq [msgid : Nat, topic : Topics]
      BY <1>1, <2>0 DEF HandlePublishes
    <2>4. rc' \in {"COMPLETE", "SOCKET_ERROR"}
      BY <1>1 DEF HandlePublishes, WriteOutcomes
    <2>5. /\ runpc' = "dispatch" /\ got' = NULL
          /\ UNCHANGED <<link, brokerVars, connected, msgID, outboundMsgs, waitVars,
                         running, tostop, dt, qe, threadVars>>
      BY <1>1 DEF HandlePublishes
    <2> QED  BY <2>0, <2>1, <2>2, <2>3, <2>4, <2>5 DEF RunStates
  <1>2. CASE HandlePubrels
    <2>0. Incoming.id \in Nat /\ toClient' \in Seq(Packets)
      BY <1>2, <1>a DEF HandlePubrels, ReplyTypes
    <2>1. messageQueue' \in Seq(Topics)
      BY <1>2, <1>q DEF HandlePubrels
    <2>2. toBroker' \in Seq(Packets)
      BY <1>2, <1>w, <2>0 DEF HandlePubrels, ReplyTypes
    <2>3. inboundMsgs' \subseteq [msgid : Nat, topic : Topics]
      BY <1>2 DEF HandlePubrels
    <2>4. rc' \in {"COMPLETE", "SOCKET_ERROR"}
      BY <1>2 DEF HandlePubrels, WriteOutcomes
    <2> QED  BY <1>2, <2>0, <2>1, <2>2, <2>3, <2>4 DEF HandlePubrels, RunStates
  <1>3. CASE HandleAcks
    <2>0. Incoming.id \in Nat /\ toClient' \in Seq(Packets)
      BY <1>3, <1>a DEF HandleAcks, ReplyTypes
    <2> QED  BY <1>3, <2>0 DEF HandleAcks, RunStates
  <1>4. CASE HandlePubrecs
    <2>0. Incoming.id \in Nat /\ toClient' \in Seq(Packets)
      BY <1>4, <1>a DEF HandlePubrecs, ReplyTypes
    <2>1. toBroker' \in Seq(Packets)
      BY <1>4, <1>w, <2>0 DEF HandlePubrecs, ReplyTypes
    <2>2. outboundMsgs' \subseteq [msgid : 1..MAX_MSG_ID, nextMessageType : NextMessageTypes]
      BY <1>4 DEF HandlePubrecs, NextMessageTypes
    <2>3. rc' \in {"COMPLETE", "SOCKET_ERROR"}
      BY <1>4 DEF HandlePubrecs, WriteOutcomes
    <2> QED  BY <1>4, <2>0, <2>1, <2>2, <2>3 DEF HandlePubrecs, RunStates
  <1>5. CASE ReturnPack
    <2>0. got' \in Packs /\ toClient' \in Seq(Packets)
      BY <1>5, <1>a DEF ReturnPack, ReplyTypes, Packs, AckTypes
    <2> QED  BY <1>5, <2>0 DEF ReturnPack, RunStates
  <1>6. CASE ReadError
    BY <1>6 DEF ReadError, RunStates
  <1>7. CASE RunStops
    BY <1>7 DEF RunStops, RunExit, RunStates
  <1>8. CASE DispatchError
    <2>1. CloseSession
      BY <1>8 DEF DispatchError
    <2> QED  BY <1>8, <2>1, CloseSessionType DEF DispatchError, RunExit, RunStates
  <1>9. CASE DispatchMessage
    <2>1. qe' \in Topics
      BY <1>9 DEF DispatchMessage
    <2> QED  BY <1>9, <2>1 DEF DispatchMessage, RunStates
  <1>p. ASSUME PostPack
        PROVE  /\ pack' \in Packs \cup {NULL}
               /\ sem' \in [AckTypes -> Nat]
               /\ got' \in Packs \cup {NULL}
    BY <1>p DEF PostPack, Packs
  <1>10. CASE DispatchPack
    BY <1>10, <1>p DEF DispatchPack, RunStates
  <1>11. CASE AfterMessage
    <2>1. messageQueue' \in Seq(Topics)
      BY <1>11 DEF AfterMessage
    <2>2. /\ running' \in BOOLEAN /\ tostop' \in BOOLEAN /\ runpc' \in RunStates
      BY <1>11 DEF AfterMessage, RunExit, RunStates
    <2> QED  BY <1>11, <1>p, <2>1, <2>2 DEF AfterMessage
  <1> QED  BY <1>1, <1>2, <1>3, <1>4, <1>5, <1>6, <1>7, <1>8, <1>9, <1>10, <1>11
           DEF RunStep

\* Every step of a subscribe, unsubscribe or publish call keeps the types: the
\* ids MQTTProtocol_assignMsgId returns stay in range, and waitfor takes a
\* semaphore only when it is positive.
LEMMA LibraryCallType ==
    ASSUME TypeOK, NEW t \in Threads, LibraryCall(t), UNCHANGED appVars
    PROVE  TypeOK'
  <1> USE DEF TypeOK, BrokerTypeOK
  <1>p. ASSUME NEW label \in ThreadStates, pc' = [pc EXCEPT ![t] = label]
        PROVE  pc' \in [Threads -> ThreadStates]
    BY <1>p
  <1>w. ASSUME NEW type \in RequestTypes, NEW topic \in Topics, NEW id \in Nat,
               Write(Packet(type, topic, id))
        PROVE  toBroker' \in Seq(Packets)
    <2>1. Packet(type, topic, id) \in Packets
      BY PacketType
    <2> QED  BY <1>w, <2>1 DEF Write
  <1>r. ASSUME Release(t)
        PROVE  call_mutex' \in [AckTypes -> Threads \cup {NULL}]
    BY <1>r DEF Release
  <1>i. ASSUME NEW id \in 1..MAX_MSG_ID, msgid' = [msgid EXCEPT ![t] = id]
        PROVE  id \in 0..MAX_MSG_ID /\ msgid' \in [Threads -> 0..MAX_MSG_ID]
    <2>1. id \in 0..MAX_MSG_ID
      OBVIOUS
    <2>2. msgid \in [Threads -> 0..MAX_MSG_ID]
      OBVIOUS
    <2> HIDE DEF TypeOK, BrokerTypeOK
    <2> QED  BY <1>i, <2>1, <2>2
  <1>d. ASSUME NEW waiting \in ThreadStates, NEW next \in ThreadStates,
               DisconnectInternal(t, waiting, next), UNCHANGED <<waitVars, call, seen>>,
               msgid' \in [Threads -> 0..MAX_MSG_ID]
        PROVE  TypeOK'
    <2>1. CloseSession
      BY <1>d DEF DisconnectInternal
    <2>2. pc' \in [Threads -> ThreadStates] /\ tostop' \in BOOLEAN
      BY <1>d DEF DisconnectInternal, Stop, MustStop
    <2> QED  BY <1>d, <2>1, <2>2, CloseSessionType DEF DisconnectInternal
  <1>1. CASE Ask(t, TopicOf(t))
    <2>1. PICK id \in 1..MAX_MSG_ID :
              /\ msgID' = id
              /\ msgid' = [msgid EXCEPT ![t] = id]
              /\ Write(Packet(IF call[t] = "SUBACK" THEN "SUBSCRIBE" ELSE "UNSUBSCRIBE",
                              TopicOf(t), id))
      BY <1>1 DEF Ask
    <2>2. toBroker' \in Seq(Packets)
      BY <2>1, <1>w DEF RequestTypes, TopicOf, Topics
    <2>3. call_mutex' \in [AckTypes -> Threads \cup {NULL}]
      BY <1>1 DEF Ask
    <2>4. pc' \in [Threads -> ThreadStates]
      BY <1>1, <1>p DEF Ask, ThreadStates
    <2>5. msgID' \in 0..MAX_MSG_ID /\ msgid' \in [Threads -> 0..MAX_MSG_ID]
      BY <2>1, <1>i
    <2>6. UNCHANGED <<link, toClient, brokerVars, connected, outboundMsgs, inboundMsgs,
                      messageQueue, pack, sem, runVars, call, seen>>
      BY <1>1 DEF Ask
    <2> QED  BY <2>2, <2>3, <2>4, <2>5, <2>6
  <1>2. CASE AskError(t)
    BY <1>2, <1>d DEF AskError, ThreadStates
  <1>3. CASE NotConnected(t)
    <2>1. pc' \in [Threads -> ThreadStates]
      BY <1>3, <1>p DEF NotConnected, ThreadStates
    <2>2. UNCHANGED <<netVars, brokerVars, sessionVars, waitVars, runVars, call, msgid, seen>>
      BY <1>3 DEF NotConnected
    <2> QED  BY <2>1, <2>2
  <1>4. CASE Wait(t)
    <2>1. pc' \in [Threads -> ThreadStates]
      BY <1>4, <1>p DEF Wait, ThreadStates
    <2>2. sem' \in [AckTypes -> Nat] /\ seen' \in [Threads -> Packs \cup {NULL}]
      BY <1>4 DEF Wait
    <2> QED  BY <1>4, <2>1, <2>2 DEF Wait
  <1>5. CASE Timeout(t)
    <2>1. pc' \in [Threads -> ThreadStates]
      BY <1>5, <1>p DEF Timeout, ThreadStates
    <2>2. seen' \in [Threads -> Packs \cup {NULL}]
      BY <1>5 DEF Timeout
    <2> QED  BY <1>5, <2>1, <2>2 DEF Timeout
  <1>6. CASE Answered(t, AfterCall(t))
    <2>1. pc' \in [Threads -> ThreadStates]
      BY <1>6, <1>p DEF Answered, AfterCall, ThreadStates
    <2> QED  BY <1>6, <1>r, <2>1 DEF Answered
  <1>7. CASE Unanswered(t)
    BY <1>7, <1>d DEF Unanswered, ThreadStates
  <1>8. CASE Stopped(t, "stop_exit", "exit")
    <2>1. pc' \in [Threads -> ThreadStates]
      BY <1>8, <1>p DEF Stopped, ThreadStates
    <2>2. call_mutex' \in [AckTypes -> Threads \cup {NULL}]
      BY <1>8, <1>r DEF Stopped
    <2>3. UNCHANGED <<netVars, brokerVars, sessionVars, pack, sem, runVars, call, msgid, seen>>
      BY <1>8 DEF Stopped
    <2> QED  BY <2>1, <2>2, <2>3
  <1>9. CASE Publish(t)
    <2>0. UNCHANGED <<link, toClient, brokerVars, connected, inboundMsgs, messageQueue,
                      waitVars, runVars, call, seen>>
      BY <1>9 DEF Publish
    <2>1. pc' \in [Threads -> ThreadStates]
      BY <1>9, <1>p DEF Publish, ThreadStates
    <2>2. CASE QOS = 0
      <3>1. Write(Packet("PUBLISH", "topic", 0)) /\ UNCHANGED <<msgID, outboundMsgs, msgid>>
        BY <1>9, <2>2 DEF Publish, PublishMessage
      <3>2. toBroker' \in Seq(Packets)
        BY <3>1, <1>w DEF RequestTypes, Topics
      <3> QED  BY <2>0, <2>1, <3>1, <3>2
    <2>3. CASE QOS # 0
      <3>1. PICK id \in 1..MAX_MSG_ID :
                /\ msgID' = id
                /\ msgid' = [msgid EXCEPT ![t] = id]
                /\ outboundMsgs' = outboundMsgs \cup
                        {[msgid |-> id,
                          nextMessageType |-> IF QOS = 1 THEN "PUBACK" ELSE "PUBREC"]}
                /\ Write(Packet("PUBLISH", "topic", id))
        BY <1>9, <2>3 DEF Publish, PublishMessage
      <3>2. toBroker' \in Seq(Packets)
        <4>1. id \in Nat /\ "PUBLISH" \in RequestTypes /\ "topic" \in Topics
          BY DEF RequestTypes, Topics
        <4>2. Write(Packet("PUBLISH", "topic", id))
          BY <3>1
        <4> QED  BY <1>w, <4>1, <4>2
      <3>3. outboundMsgs' \subseteq [msgid : 1..MAX_MSG_ID, nextMessageType : NextMessageTypes]
        <4>1. [msgid |-> id, nextMessageType |-> IF QOS = 1 THEN "PUBACK" ELSE "PUBREC"]
                  \in [msgid : 1..MAX_MSG_ID, nextMessageType : NextMessageTypes]
          BY DEF NextMessageTypes
        <4> QED  BY <3>1, <4>1
      <3>4. msgID' \in 0..MAX_MSG_ID /\ msgid' \in [Threads -> 0..MAX_MSG_ID]
        BY <3>1, <1>i
      <3> QED  BY <2>0, <2>1, <3>2, <3>3, <3>4
    <2> QED  BY <2>2, <2>3
  <1>10. CASE PublishError(t)
    <2>0. UNCHANGED <<waitVars, call, seen>>
      BY <1>10 DEF PublishError
    <2>1. CASE QOS = 0
      <3>1. DisconnectInternal(t, "stop_exit", "exit") /\ UNCHANGED msgid
        BY <1>10, <2>1 DEF PublishError
      <3>2. {"stop_exit", "exit"} \subseteq ThreadStates
        BY DEF ThreadStates
      <3> QED  BY <1>d, <2>0, <3>1, <3>2
    <2>2. CASE QOS # 0
      <3>1. /\ DisconnectInternal(t, "stop_spin", "spin")
            /\ \E id \in 1..MAX_MSG_ID : msgid' = [msgid EXCEPT ![t] = id]
        BY <1>10, <2>2 DEF PublishError
      <3>2. msgid' \in [Threads -> 0..MAX_MSG_ID]
        BY <1>i, <3>1
      <3>3. {"stop_spin", "spin"} \subseteq ThreadStates
        BY DEF ThreadStates
      <3> QED  BY <1>d, <2>0, <3>1, <3>2, <3>3
    <2> QED  BY <2>1, <2>2
  <1>11. CASE Stopped(t, "stop_spin", "spin")
    <2>1. pc' \in [Threads -> ThreadStates]
      BY <1>11, <1>p DEF Stopped, ThreadStates
    <2>2. call_mutex' \in [AckTypes -> Threads \cup {NULL}]
      BY <1>11, <1>r DEF Stopped
    <2>3. UNCHANGED <<netVars, brokerVars, sessionVars, pack, sem, runVars, call, msgid, seen>>
      BY <1>11 DEF Stopped
    <2> QED  BY <2>1, <2>2, <2>3
  <1> QED  BY <1>1, <1>2, <1>3, <1>4, <1>5, <1>6, <1>7, <1>8, <1>9, <1>10, <1>11
           DEF LibraryCall

\* Every step of subscribe_thread and publish_thread keeps the types, the
\* semaphores taken by sem_wait and sem_trywait included.
LEMMA ThreadStepType ==
    ASSUME TypeOK, NEW t \in Threads, ThreadStep(t)
    PROVE  TypeOK'
  <1> USE DEF TypeOK, BrokerTypeOK
  <1>g. ASSUME NEW label \in ThreadStates, Goto(t, label)
        PROVE  pc' \in [Threads -> ThreadStates] /\ call' \in [Threads -> AckTypes]
    BY <1>g DEF Goto
  <1>c. ASSUME NEW ack \in AckTypes, Calls(t, ack)
        PROVE  pc' \in [Threads -> ThreadStates] /\ call' \in [Threads -> AckTypes]
    BY <1>c DEF Calls, ThreadStates
  <1>1. CASE LibraryCall(t) /\ UNCHANGED appVars
    BY <1>1, LibraryCallType
  <1>2. CASE Calloc(t)
    BY <1>2, <1>c DEF Calloc, LocalStep, AckTypes
  <1>3. CASE DoneReceiving(t)
    BY <1>3, <1>g DEF DoneReceiving, LocalStep, ThreadStates
  <1>4. CASE PostStop(t)
    BY <1>4, <1>c DEF PostStop, LocalStep, AckTypes
  <1>5. CASE ResetToken(t)
    BY <1>5, <1>g DEF ResetToken, LocalStep, ThreadStates
  <1>6. CASE Acknowledge(t)
    BY <1>6, <1>g DEF Acknowledge, LocalStep, ThreadStates
  <1>7. CASE TryStop(t)
    <2>1. pc' \in [Threads -> ThreadStates] /\ call' \in [Threads -> AckTypes]
      BY <1>7, <1>g, <1>c DEF TryStop, ThreadStates, AckTypes
    <2> QED  BY <1>7, <2>1 DEF TryStop, LocalStep
  <1>8. CASE ExitFailure(t)
    BY <1>8 DEF ExitFailure
  <1> QED  BY <1>1, <1>2, <1>3, <1>4, <1>5, <1>6, <1>7, <1>8 DEF ThreadStep

\* Every step of main keeps the types.
LEMMA MainStepType ==
    ASSUME TypeOK, MainStep
    PROVE  TypeOK'
  <1> USE DEF TypeOK, BrokerTypeOK
  <1>1. ASSUME NEW t \in Subs, SpawnSub(t)
        PROVE  TypeOK'
    <2>1. t \in Threads
      BY DEF Threads
    <2>2. pc' \in [Threads -> ThreadStates] /\ call' = call
      BY <1>1, <2>1 DEF SpawnSub, Goto, ThreadStates
    <2> QED  BY <1>1, <2>2 DEF SpawnSub
  <1>2. ASSUME NEW t \in Pubs, SpawnPub(t)
        PROVE  TypeOK'
    <2>1. t \in Threads
      BY DEF Threads
    <2>2. pc' \in [Threads -> ThreadStates] /\ call' \in [Threads -> AckTypes]
      BY <1>2, <2>1 DEF SpawnPub, Calls, ThreadStates, AckTypes
    <2> QED  BY <1>2, <2>2 DEF SpawnPub
  <1>a. ASSUME NEW from, NEW to \in MainStates, NEW done, Advance(from, to, done)
        PROVE  TypeOK'
    BY <1>a DEF Advance
  <1>3. CASE SubsSpawned \/ PubsSpawned \/ JoinSubs \/ SummaryStats \/ JoinPubs
             \/ BackgroundStopped
    BY <1>3, <1>a DEF SubsSpawned, PubsSpawned, JoinSubs, SummaryStats, JoinPubs,
                      BackgroundStopped, MainStates, Summarised
  <1>4. CASE Disconnect
    <2>1. CloseSession /\ tostop' \in BOOLEAN /\ mpc' \in MainStates
      BY <1>4 DEF Disconnect, Stop, MainStates, Summarised
    <2> QED  BY <1>4, <2>1, CloseSessionType DEF Disconnect
  <1>5. CASE Destroy
    BY <1>5 DEF Destroy
  <1> QED  BY <1>1, <1>2, <1>3, <1>4, <1>5 DEF MainStep

\* The callbacks delivered and msgarrvd keep the types: no sample is written
\* outside the MAX_ITER entries of rtt_ts.
LEMMA CallbackType ==
    ASSUME TypeOK, Delivered \/ MsgArrived
    PROVE  TypeOK'
  <1> USE DEF TypeOK, BrokerTypeOK
  <1>1. CASE Delivered
    BY <1>1 DEF Delivered, RunStates
  <1>2. CASE MsgArrived
    <2>1. /\ it' \in 0..(MAX_ITER + 1)
          /\ recorded' \subseteq 0..(MAX_ITER - 1)
          /\ done_receiving' \in Nat
          /\ stop_publish' \in Nat
      <3>1. CASE qe = "pubkill"
        <4>1. UNCHANGED <<it, recorded, done_receiving>> /\ stop_publish' = stop_publish + 1
          BY <1>2, <3>1 DEF MsgArrived, Pubkill
        <4>2. stop_publish + 1 \in Nat
          OBVIOUS
        <4> QED  BY <4>1, <4>2
      <3>2. CASE qe # "pubkill"
        <4>1. Sample
          BY <1>2, <3>2 DEF MsgArrived
        <4>2. it' \in 0..(MAX_ITER + 1)
          BY <4>1 DEF Sample, Count
        <4>3. done_receiving' \in Nat /\ stop_publish' \in Nat
          BY <4>1 DEF Sample
        <4>4. it < MAX_ITER => it \in 0..(MAX_ITER - 1)
          OBVIOUS
        <4>5. recorded' \subseteq 0..(MAX_ITER - 1)
          BY <4>1, <4>4 DEF Sample
        <4> QED  BY <4>2, <4>3, <4>5
      <3> QED  BY <3>1, <3>2
    <2> QED  BY <1>2, <2>1 DEF MsgArrived, RunStates
  <1> QED  BY <1>1, <1>2

\* The state after MQTTClient_connect and sem_init is well typed.
LEMMA TypeInit == Init => TypeOK
  <1> SUFFICES ASSUME Init PROVE TypeOK
    OBVIOUS
  <1>1. toBroker \in Seq(Packets) /\ toClient \in Seq(Packets) /\ messageQueue \in Seq(Topics)
    BY DEF Init, BrokerInit, ClientInit
  <1>2. BrokerTypeOK
    BY <1>1 DEF Init, BrokerInit, BrokerTypeOK
  <1>3. /\ sem \in [AckTypes -> Nat]
        /\ call_mutex \in [AckTypes -> Threads \cup {NULL}]
        /\ pc \in [Threads -> ThreadStates]
        /\ call \in [Threads -> AckTypes]
        /\ msgid \in [Threads -> 0..MAX_MSG_ID]
        /\ seen \in [Threads -> Packs \cup {NULL}]
    BY DEF Init, ClientInit, ThreadStates, AckTypes
  <1>4. /\ it \in 0..(MAX_ITER + 1)
        /\ msgID \in 0..MAX_MSG_ID
        /\ runpc \in RunStates
        /\ mpc \in MainStates
        /\ qe \in Topics
    BY DEF Init, ClientInit, RunStates, MainStates, Topics
  <1> QED  BY <1>1, <1>2, <1>3, <1>4 DEF Init, ClientInit, TypeOK

\* Every step of the process, the broker and the environment keeps the types.
LEMMA TypeNext == TypeOK /\ [Next]_vars => TypeOK'
  <1> SUFFICES ASSUME TypeOK, [Next]_vars PROVE TypeOK'
    OBVIOUS
  <1>1. CASE MainStep
    BY <1>1, MainStepType
  <1>2. CASE \E t \in Threads : ThreadStep(t)
    BY <1>2, ThreadStepType
  <1>3. CASE BackgroundStep
    BY <1>3, RunStepType, CallbackType DEF BackgroundStep
  <1>4. CASE OutsideStep
    <2>1. BrokerTypeOK'
      BY <1>4, BrokerStepType, EnvironmentStepType DEF OutsideStep, TypeOK
    <2> QED  BY <1>4, <2>1 DEF OutsideStep, TypeOK
  <1>5. CASE UNCHANGED vars
    BY <1>5 DEF vars, TypeOK, BrokerTypeOK
  <1> QED  BY <1>1, <1>2, <1>3, <1>4, <1>5 DEF Next, ProcessStep, Ended

\* Type correctness: in every behaviour of a process, with any number of threads
\* and whatever fails, no semaphore of mqtt.c or of the library goes below zero,
\* message ids stay within 1..MAX_MSG_ID and samples within the buffer.
THEOREM TypeCorrect == Spec => []TypeOK
  BY TypeInit, TypeNext, PTL DEF Spec
=============================================================================
