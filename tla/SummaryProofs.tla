---------------------------- MODULE SummaryProofs ----------------------------
(***************************************************************************)
(* The samples are complete when main reads them: SummaryComplete and      *)
(* SampleHasBuffer for every process with at most one subscriber thread,   *)
(* whatever the number of publishers, iterations, packets in transit and   *)
(* failures.                                                               *)
(***************************************************************************)
EXTENDS BenchmarkProofs

USE BrokerAssumption, ClientAssumption, IterAssumption
USE DEF netVars, brokerVars, sessionVars, waitVars, runVars, threadVars, clientVars,
        semVars, sampleVars, mainVars, appVars

\* A reply asks for nothing and carries nothing.
LEMMA ReplyHarmless ==
    ASSUME NEW type \in ReplyTypes, NEW id \in Nat
    PROVE  Reply(type, id) \in NotAsking /\ Reply(type, id) \in NotCarrying
  <1>1. Reply(type, id) \in Packets /\ Reply(type, id).type = type
    BY ReplyType DEF Reply, Packet
  <1> QED  BY <1>1 DEF NotAsking, NotCarrying, ReplyTypes

\* Without a subscription the broker sends nothing for a publication on the data
\* topic; what it sends for one on pubkill is harmless.
LEMMA DeliveriesHarmless ==
    ASSUME BrokerTypeOK, "topic" \notin bsubs, NEW topic \in Topics,
           NEW d \in Deliveries(topic)
    PROVE  d.sent \in Seq(NotCarrying)
  <1>1. CASE topic \notin bsubs
    <2>1. d = [sent |-> <<>>, inflight |-> binflight]
      BY <1>1 DEF Deliveries
    <2>2. d.sent = <<>>
      BY <2>1
    <2> QED  BY <2>2
  <1>2. CASE topic \in bsubs
    <2>1. topic = "pubkill"
      BY <1>2 DEF Topics
    <2>2. PICK id \in BrokerIds : d = [sent |-> <<Packet("PUBLISH", "pubkill", id)>>,
                                       inflight |-> binflight \cup {id}]
      BY <1>2, <2>1 DEF Deliveries, TopicQos
    <2>3. Packet("PUBLISH", "pubkill", id) \in Packets
      BY PacketType DEF RequestTypes, BrokerIds, Topics
    <2>4. Packet("PUBLISH", "pubkill", id) \in NotCarrying
      BY <2>3 DEF NotCarrying, Packet
    <2>5. d.sent = <<Packet("PUBLISH", "pubkill", id)>>
      BY <2>2
    <2> QED  BY <2>4, <2>5, SeqOfOne, Zenon
  <1> QED  BY <1>1, <1>2

\* Steps of the broker and of the other nodes bring no data to a client that has
\* not asked for it.
LEMMA NoDataOutside ==
    ASSUME TypeOK, NoData, OutsideStep
    PROVE  NoData'
  <1>t. BrokerTypeOK
    BY DEF TypeOK
  <1>0. UNCHANGED <<inboundMsgs, messageQueue, runpc, qe>>
    BY DEF OutsideStep
  <1>c. toBroker \in Seq(NotAsking) /\ toClient \in Seq(NotCarrying) /\ "topic" \notin bsubs
    BY DEF NoData
  <1>q. ASSUME bsubs' \subseteq bsubs \cup {"pubkill"}, toBroker' \in Seq(NotAsking),
               toClient' \in Seq(NotCarrying)
        PROVE  NoData'
    BY <1>0, <1>q DEF NoData
  <1>1. CASE BrokerStep
    <2>0. /\ toBroker # <<>>
          /\ toBroker' = Tail(toBroker)
      BY <1>1 DEF BrokerStep, BrokerSubscribe, BrokerUnsubscribe, BrokerPublish,
                  BrokerPubrel, BrokerAcknowledged, BrokerPubrec, Receives
    <2>1. toBroker' \in Seq(NotAsking) /\ Received \in NotAsking
      BY <1>c, <2>0 DEF Received
    <2>2. Received \in Packets /\ Received.id \in Nat
      BY <2>1 DEF NotAsking, Packets
    <2>r. \A type \in ReplyTypes : Reply(type, Received.id) \in NotCarrying
      BY <2>2, ReplyHarmless
    <2>3. CASE BrokerSubscribe
      <3>1. Received.topic = "pubkill"
        BY <2>1, <2>3 DEF BrokerSubscribe, Receives, NotAsking, Packets, Topics, ReplyTypes
      <3>2. Reply("SUBACK", Received.id) \in NotCarrying
        BY <2>r DEF ReplyTypes
      <3>3. toClient' \in Seq(NotCarrying)
        BY <1>c, <2>3, <3>2 DEF BrokerSubscribe
      <3> QED  BY <1>q, <2>1, <2>3, <3>1, <3>3 DEF BrokerSubscribe
    <2>4. CASE BrokerUnsubscribe
      <3>1. Reply("UNSUBACK", Received.id) \in NotCarrying
        BY <2>r DEF ReplyTypes
      <3>2. toClient' \in Seq(NotCarrying)
        BY <1>c, <2>4, <3>1 DEF BrokerUnsubscribe
      <3> QED  BY <1>q, <2>1, <2>4, <3>2 DEF BrokerUnsubscribe
    <2>5. CASE BrokerPublish
      <3>1. CASE QOS = 2
        <4>1. Reply("PUBREC", Received.id) \in NotCarrying
          BY <2>r DEF ReplyTypes
        <4>2. toClient' \in Seq(NotCarrying)
          <5>1. toClient' = Append(toClient, Reply("PUBREC", Received.id))
            BY <2>5, <3>1 DEF BrokerPublish
          <5> QED  BY <1>c, <4>1, <5>1
        <4> QED  BY <1>q, <2>1, <2>5, <4>2 DEF BrokerPublish
      <3>2. CASE QOS # 2
        <4>1. PICK d \in Deliveries(Received.topic),
                   ack \in {<<>>, <<Reply("PUBACK", Received.id)>>} :
                  \/ toClient' = toClient \o ack \o d.sent
                  \/ toClient' = toClient \o d.sent \o ack
          BY <2>5, <3>2 DEF BrokerPublish
        <4>2. Received.topic \in Topics
          BY <2>2, <2>5 DEF BrokerPublish, Receives, Packets, ReplyTypes
        <4>3. d.sent \in Seq(NotCarrying)
          BY <1>t, <1>c, <4>2, DeliveriesHarmless
        <4>4. Reply("PUBACK", Received.id) \in NotCarrying
          BY <2>r DEF ReplyTypes
        <4>5. ack \in Seq(NotCarrying)
          BY <4>4, SeqOfOne
        <4>6. toClient' \in Seq(NotCarrying)
          <5>1. /\ toClient \o ack \o d.sent \in Seq(NotCarrying)
                /\ toClient \o d.sent \o ack \in Seq(NotCarrying)
            BY <1>c, <4>3, <4>5, SeqConcat, Zenon
          <5> QED  BY <4>1, <5>1, Zenon
        <4> QED  BY <1>q, <2>1, <2>5, <4>6 DEF BrokerPublish
      <3> QED  BY <3>1, <3>2
    <2>6. CASE BrokerPubrel
      <3>1. PICK d \in Deliveries("topic") \cup {[sent |-> <<>>, inflight |-> binflight]} :
                \/ toClient' = toClient \o <<Reply("PUBCOMP", Received.id)>> \o d.sent
                \/ toClient' = toClient \o d.sent \o <<Reply("PUBCOMP", Received.id)>>
        BY <2>6 DEF BrokerPubrel
      <3>2. d.sent \in Seq(NotCarrying)
        <4>1. CASE d \in Deliveries("topic")
          BY <1>t, <1>c, <4>1, DeliveriesHarmless DEF Topics
        <4>2. CASE d = [sent |-> <<>>, inflight |-> binflight]
          <5>1. d.sent = <<>>
            BY <4>2
          <5> QED  BY <5>1
        <4> QED  BY <4>1, <4>2
      <3>3. Reply("PUBCOMP", Received.id) \in NotCarrying
        BY <2>r DEF ReplyTypes
      <3>4. <<Reply("PUBCOMP", Received.id)>> \in Seq(NotCarrying)
        BY <3>3, SeqOfOne
      <3>5. toClient' \in Seq(NotCarrying)
        <4>1. /\ toClient \o <<Reply("PUBCOMP", Received.id)>> \o d.sent \in Seq(NotCarrying)
              /\ toClient \o d.sent \o <<Reply("PUBCOMP", Received.id)>> \in Seq(NotCarrying)
          BY <1>c, <3>2, <3>4, SeqConcat, Zenon
        <4> QED  BY <3>1, <4>1, Zenon
      <3> QED  BY <1>q, <2>1, <2>6, <3>5 DEF BrokerPubrel
    <2>7. CASE BrokerAcknowledged
      BY <1>c, <1>q, <2>1, <2>7 DEF BrokerAcknowledged
    <2>8. CASE BrokerPubrec
      <3>1. Reply("PUBREL", Received.id) \in NotCarrying
        BY <2>r DEF ReplyTypes
      <3>2. toClient' \in Seq(NotCarrying)
        BY <1>c, <2>8, <3>1 DEF BrokerPubrec
      <3> QED  BY <1>q, <2>1, <2>8, <3>2 DEF BrokerPubrec
    <2> QED  BY <1>1, <2>3, <2>4, <2>5, <2>6, <2>7, <2>8 DEF BrokerStep
  <1>2. CASE OtherPublish
    BY <1>c, <1>2 DEF OtherPublish
  <1>3. CASE KillPublish
    <2>1. PICK d \in Deliveries("pubkill") : toClient' = toClient \o d.sent
      BY <1>3 DEF KillPublish
    <2>2. d.sent \in Seq(NotCarrying)
      BY <1>t, <1>c, DeliveriesHarmless DEF Topics
    <2>3. toClient' \in Seq(NotCarrying)
      <3>1. toClient \o d.sent \in Seq(NotCarrying)
        BY <1>c, <2>2, SeqConcat, Zenon
      <3> QED  BY <2>1, <3>1, Zenon
    <2> QED  BY <1>c, <1>q, <1>3, <2>3 DEF KillPublish
  <1>4. CASE LinkDown
    <2>1. <<>> \in Seq(NotAsking) /\ <<>> \in Seq(NotCarrying)
      OBVIOUS
    <2>2. toBroker' \in Seq(NotAsking) /\ toClient' \in Seq(NotCarrying)
      BY <1>c, <1>4, <2>1, Zenon DEF LinkDown
    <2> QED  BY <1>4, <1>q, <2>2 DEF LinkDown
  <1> QED  BY <1>1, <1>2, <1>3, <1>4 DEF OutsideStep, EnvironmentStep

\* Steps of the background thread bring no data where there is none.
LEMMA NoDataRun ==
    ASSUME TypeOK, NoData, RunStep
    PROVE  NoData'
  <1>t. /\ BrokerTypeOK
        /\ messageQueue \in Seq(Topics)
        /\ inboundMsgs \subseteq [msgid : Nat, topic : Topics]
    BY DEF TypeOK
  <1>c. /\ "topic" \notin bsubs
        /\ toBroker \in Seq(NotAsking)
        /\ toClient \in Seq(NotCarrying)
        /\ \A m \in inboundMsgs : m.topic # "topic"
        /\ messageQueue \in Seq({"pubkill"})
        /\ runpc = "callback" => qe # "topic"
    BY DEF NoData
  <1>e. /\ <<>> \in Seq(NotAsking)
        /\ <<>> \in Seq(NotCarrying)
        /\ <<>> \in Seq({"pubkill"})
    OBVIOUS
  <1>b. bsubs' = bsubs
    BY DEF RunStep, HandlePublishes, HandlePubrels, HandleAcks, HandlePubrecs, ReturnPack,
           ReadError, RunStops, DispatchError, DispatchMessage, DispatchPack, AfterMessage
  <1>r. ASSUME NEW type, Reads(type)
        PROVE  /\ toClient' \in Seq(NotCarrying)
               /\ Incoming \in NotCarrying
               /\ Incoming.id \in Nat
               /\ Incoming.type = type
    <2>1. toClient' \in Seq(NotCarrying) /\ Incoming \in NotCarrying /\ Incoming.type = type
      BY <1>c, <1>r DEF Reads, Incoming
    <2> QED  BY <2>1 DEF NotCarrying, Packets
  <1>w. ASSUME NEW type \in ReplyTypes, NEW id \in Nat, Write(Reply(type, id))
        PROVE  toBroker' \in Seq(NotAsking)
    <2>1. Reply(type, id) \in NotAsking
      BY ReplyHarmless
    <2> QED  BY <1>c, <1>w, <2>1 DEF Write
  <1>q. ASSUME NEW topic, topic = "pubkill", ProcessPublication(topic)
        PROVE  messageQueue' \in Seq({"pubkill"})
    <2>1. messageQueue' = Append(messageQueue, "pubkill") /\ "pubkill" \in {"pubkill"}
      BY <1>q DEF ProcessPublication
    <2> QED  BY <1>c, <2>1
  <1>1. CASE HandlePublishes
    <2>0. Reads("PUBLISH") /\ runpc' = "dispatch"
      BY <1>1 DEF HandlePublishes
    <2>1. /\ toClient' \in Seq(NotCarrying)
          /\ Incoming.id \in Nat
          /\ Incoming.topic = "pubkill"
      <3>1. /\ toClient' \in Seq(NotCarrying) /\ Incoming \in NotCarrying
            /\ Incoming.id \in Nat /\ Incoming.type = "PUBLISH"
        BY <2>0, <1>r
      <3> QED  BY <3>1 DEF NotCarrying, Packets, Topics, ReplyTypes
    <2>2. messageQueue' \in Seq({"pubkill"})
      <3>1. messageQueue' = messageQueue \/ ProcessPublication(Incoming.topic)
        BY <1>1 DEF HandlePublishes
      <3> QED  BY <1>c, <1>q, <2>1, <3>1
    <2>3. toBroker' \in Seq(NotAsking)
      BY <1>1, <1>c, <1>w, <2>1 DEF HandlePublishes, ReplyTypes
    <2>4. \A m \in inboundMsgs' : m.topic # "topic"
      BY <1>1, <1>c, <2>1 DEF HandlePublishes
    <2> QED  BY <1>b, <1>c, <2>0, <2>1, <2>2, <2>3, <2>4 DEF NoData
  <1>2. CASE HandlePubrels
    <2>0. Reads("PUBREL") /\ runpc' = "dispatch"
      BY <1>2 DEF HandlePubrels
    <2>1. toClient' \in Seq(NotCarrying) /\ Incoming.id \in Nat
      BY <2>0, <1>r
    <2>2. messageQueue' \in Seq({"pubkill"})
      <3>1. \A m \in inboundMsgs : m.topic = "pubkill"
        BY <1>t, <1>c DEF Topics
      <3>2. \/ messageQueue' = messageQueue
            \/ \E m \in inboundMsgs : ProcessPublication(m.topic)
        BY <1>2 DEF HandlePubrels
      <3> QED  BY <1>c, <1>q, <3>1, <3>2
    <2>3. toBroker' \in Seq(NotAsking)
      BY <1>2, <1>w, <2>1 DEF HandlePubrels, ReplyTypes
    <2>4. inboundMsgs' \subseteq inboundMsgs
      BY <1>2 DEF HandlePubrels
    <2> QED  BY <1>b, <1>c, <2>0, <2>1, <2>2, <2>3, <2>4 DEF NoData
  <1>3. CASE HandleAcks
    <2>1. toClient' \in Seq(NotCarrying)
      BY <1>3, <1>r DEF HandleAcks
    <2>2. runpc' = "delivered" /\ UNCHANGED <<toBroker, inboundMsgs, messageQueue>>
      BY <1>3 DEF HandleAcks
    <2> QED  BY <1>b, <1>c, <2>1, <2>2 DEF NoData
  <1>4. CASE HandlePubrecs
    <2>1. toClient' \in Seq(NotCarrying) /\ Incoming.id \in Nat
      BY <1>4, <1>r DEF HandlePubrecs
    <2>2. toBroker' \in Seq(NotAsking)
      BY <1>4, <1>w, <2>1 DEF HandlePubrecs, ReplyTypes
    <2>3. runpc' = "dispatch" /\ UNCHANGED <<inboundMsgs, messageQueue>>
      BY <1>4 DEF HandlePubrecs
    <2> QED  BY <1>b, <1>c, <2>1, <2>2, <2>3 DEF NoData
  <1>5. CASE ReturnPack
    <2>1. toClient' \in Seq(NotCarrying)
      BY <1>5, <1>r DEF ReturnPack
    <2>2. runpc' = "dispatch" /\ UNCHANGED <<toBroker, inboundMsgs, messageQueue>>
      BY <1>5 DEF ReturnPack
    <2> QED  BY <1>b, <1>c, <2>1, <2>2 DEF NoData
  <1>6. CASE ReadError
    BY <1>b, <1>c, <1>6 DEF ReadError, NoData
  <1>7. CASE RunStops
    BY <1>b, <1>c, <1>7 DEF RunStops, RunExit, NoData
  <1>8. CASE DispatchError
    <2>1. /\ toBroker' \in Seq(NotAsking) /\ toClient' \in Seq(NotCarrying)
          /\ messageQueue' \in Seq({"pubkill"})
      BY <1>e, <1>8, Zenon DEF DispatchError, CloseSession
    <2>2. inboundMsgs' = {} /\ runpc' = "stopped"
      BY <1>8 DEF DispatchError, CloseSession, RunExit
    <2> QED  BY <1>b, <1>c, <2>1, <2>2 DEF NoData
  <1>9. CASE DispatchMessage
    <2>1. qe' = Head(messageQueue) /\ messageQueue # <<>>
      BY <1>9 DEF DispatchMessage
    <2>2. qe' = "pubkill"
      BY <1>c, <2>1
    <2> QED  BY <1>b, <1>c, <1>9, <2>2 DEF DispatchMessage, NoData
  <1>10. CASE DispatchPack
    BY <1>b, <1>c, <1>10 DEF DispatchPack, NoData
  <1>11. CASE AfterMessage
    <2>1. messageQueue' \in Seq({"pubkill"})
      <3>1. CASE messageQueue = <<>>
        BY <1>e, <1>11, <3>1, Zenon DEF AfterMessage
      <3>2. CASE messageQueue # <<>>
        <4>1. messageQueue' = Tail(messageQueue)
          BY <1>11, <3>2 DEF AfterMessage
        <4> QED  BY <1>c, <3>2, <4>1
      <3> QED  BY <3>1, <3>2
    <2>2. runpc' # "callback" /\ UNCHANGED <<toBroker, toClient, inboundMsgs>>
      BY <1>11 DEF AfterMessage, RunExit
    <2> QED  BY <1>b, <1>c, <2>1, <2>2 DEF NoData
  <1> QED  BY <1>1, <1>2, <1>3, <1>4, <1>5, <1>6, <1>7, <1>8, <1>9, <1>10, <1>11
           DEF RunStep

\* How a library call moves its thread: it never starts a subscriber, it ends one
\* only after an UNSUBACK call, and it keeps each thread in its own routine.
LEMMA LibraryCallMoves ==
    ASSUME TypeOK, ThreadInv, NEW t \in Threads, LibraryCall(t)
    PROVE  /\ pc[t] \notin {"idle", "start", "receiving", "post_stop", "exited"}
           /\ call' = call
           /\ \E label \in ThreadStates \ {"idle", "start", "post_stop"} :
                /\ pc' = [pc EXCEPT ![t] = label]
                /\ label = "exited" => call[t] = "UNSUBACK"
                /\ label = "receiving" => t \in Subs
                /\ label \in {"reset", "publish", "stop_spin", "spin", "sleep"} => t \notin Subs
  <1> DEFINE Move(label) ==
                /\ pc' = [pc EXCEPT ![t] = label]
                /\ label = "exited" => call[t] = "UNSUBACK"
                /\ label = "receiving" => t \in Subs
                /\ label \in {"reset", "publish", "stop_spin", "spin", "sleep"} => t \notin Subs
  <1>0. t \in Subs => pc[t] \notin {"publish", "stop_spin"}
    BY DEF ThreadInv
  <1>1. /\ pc[t] \in {"ask", "wait", "answered", "timedout", "publish", "stop_exit", "stop_spin"}
        /\ call' = call
    BY DEF LibraryCall, Ask, AskError, NotConnected, Wait, Timeout, Answered, Unanswered,
           Stopped, Publish, CanPublish, PublishError
  <1>2. \E label \in {"exit", "stop_exit", "wait", "answered", "timedout", "exited",
                       "receiving", "reset", "stop_spin", "spin", "sleep"} : Move(label)
    <2>1. CASE Ask(t, TopicOf(t))
      BY <2>1 DEF Ask
    <2>2. CASE AskError(t)
      BY <2>2 DEF AskError, DisconnectInternal
    <2>3. CASE NotConnected(t)
      BY <2>3 DEF NotConnected
    <2>4. CASE Wait(t)
      BY <2>4 DEF Wait
    <2>5. CASE Timeout(t)
      BY <2>5 DEF Timeout
    <2>6. CASE Answered(t, AfterCall(t))
      <3>1. pc' = [pc EXCEPT ![t] = IF pc[t] = "answered" /\ Usable(t)
                                  THEN AfterCall(t) ELSE "exit"]
        BY <2>6 DEF Answered
      <3>2. CASE pc[t] = "answered" /\ Usable(t)
        <4>1. pc' = [pc EXCEPT ![t] = AfterCall(t)]
          BY <3>1, <3>2
        <4>2. /\ AfterCall(t) \in {"exited", "receiving", "reset"}
              /\ AfterCall(t) = "exited" => call[t] = "UNSUBACK"
              /\ AfterCall(t) = "receiving" => t \in Subs
              /\ AfterCall(t) = "reset" => t \notin Subs
          BY DEF AfterCall
        <4> HIDE DEF AfterCall
        <4>3. Move(AfterCall(t))
          BY <4>1, <4>2
        <4> QED  BY <4>2, <4>3
      <3>3. CASE ~(pc[t] = "answered" /\ Usable(t))
        BY <3>1, <3>3
      <3> QED  BY <3>2, <3>3
    <2>7. CASE Unanswered(t)
      BY <2>7 DEF Unanswered, DisconnectInternal
    <2>8. CASE Stopped(t, "stop_exit", "exit")
      BY <2>8 DEF Stopped
    <2>9. CASE Publish(t)
      <3>1. pc[t] = "publish"
        BY <2>9 DEF Publish, CanPublish
      <3> QED  BY <1>0, <2>9, <3>1 DEF Publish
    <2>10. CASE PublishError(t)
      <3>1. pc[t] = "publish"
        BY <2>10 DEF PublishError, CanPublish
      <3> QED  BY <1>0, <2>10, <3>1 DEF PublishError, DisconnectInternal
    <2>11. CASE Stopped(t, "stop_spin", "spin")
      BY <1>0, <2>11 DEF Stopped
    <2> QED  BY <2>1, <2>2, <2>3, <2>4, <2>5, <2>6, <2>7, <2>8, <2>9, <2>10, <2>11
             DEF LibraryCall
  <1>3. {"exit", "stop_exit", "wait", "answered", "timedout", "exited", "receiving", "reset",
         "stop_spin", "spin", "sleep"} \subseteq ThreadStates \ {"idle", "start", "post_stop"}
    BY DEF ThreadStates
  <1> QED  BY <1>1, <1>2, <1>3

\* A publisher's library calls ask for no data.
LEMMA NoDataLibraryCall ==
    ASSUME TypeOK, NoData, NEW t \in Threads, t \notin Subs, LibraryCall(t)
    PROVE  NoData'
  <1>c. /\ "topic" \notin bsubs
        /\ toBroker \in Seq(NotAsking)
        /\ toClient \in Seq(NotCarrying)
        /\ \A m \in inboundMsgs : m.topic # "topic"
        /\ messageQueue \in Seq({"pubkill"})
        /\ runpc = "callback" => qe # "topic"
    BY DEF NoData
  <1>e. /\ <<>> \in Seq(NotAsking)
        /\ <<>> \in Seq(NotCarrying)
        /\ <<>> \in Seq({"pubkill"})
    OBVIOUS
  <1>b. UNCHANGED <<bsubs, runpc, qe>>
    BY DEF LibraryCall, Ask, AskError, NotConnected, Wait, Timeout, Answered, Unanswered,
           Stopped, Publish, PublishError, DisconnectInternal
  <1>1. CASE CloseSession
    <2>1. /\ toBroker' \in Seq(NotAsking) /\ toClient' \in Seq(NotCarrying)
          /\ messageQueue' \in Seq({"pubkill"})
      BY <1>e, <1>1, Zenon DEF CloseSession
    <2>2. inboundMsgs' = {}
      BY <1>1 DEF CloseSession
    <2> QED  BY <1>b, <1>c, <2>1, <2>2 DEF NoData
  <1>2. CASE UNCHANGED <<toBroker, toClient, inboundMsgs, messageQueue>>
    BY <1>b, <1>c, <1>2 DEF NoData
  <1>w. ASSUME NEW p \in NotAsking, Write(p), UNCHANGED <<toClient, inboundMsgs, messageQueue>>
        PROVE  NoData'
    <2>1. toBroker' \in Seq(NotAsking)
      BY <1>c, <1>w DEF Write
    <2> QED  BY <1>b, <1>c, <1>w, <2>1 DEF NoData
  <1>3. CASE Ask(t, TopicOf(t))
    <2>1. PICK id \in 1..MAX_MSG_ID :
              Write(Packet(IF call[t] = "SUBACK" THEN "SUBSCRIBE" ELSE "UNSUBSCRIBE",
                           TopicOf(t), id))
      BY <1>3 DEF Ask
    <2>2. PICK type \in {"SUBSCRIBE", "UNSUBSCRIBE"} : Write(Packet(type, "pubkill", id))
      BY <2>1 DEF TopicOf
    <2>3. Packet(type, "pubkill", id) \in Packets
      BY PacketType DEF RequestTypes, Topics
    <2>4. Packet(type, "pubkill", id) \in NotAsking
      BY <2>3 DEF NotAsking, Packet
    <2>5. UNCHANGED <<toClient, inboundMsgs, messageQueue>>
      BY <1>3 DEF Ask
    <2> QED  BY <1>w, <2>2, <2>4, <2>5
  <1>4. CASE Publish(t)
    <2>1. PICK id \in Nat : Write(Packet("PUBLISH", "topic", id))
      BY <1>4 DEF Publish, PublishMessage
    <2>2. Packet("PUBLISH", "topic", id) \in Packets
      BY PacketType DEF RequestTypes, Topics
    <2>3. Packet("PUBLISH", "topic", id) \in NotAsking
      BY <2>2 DEF NotAsking, Packet
    <2>4. UNCHANGED <<toClient, inboundMsgs, messageQueue>>
      BY <1>4 DEF Publish
    <2> QED  BY <1>w, <2>1, <2>3, <2>4
  <1>5. CASE AskError(t) \/ Unanswered(t) \/ PublishError(t)
    BY <1>1, <1>5 DEF AskError, Unanswered, PublishError, DisconnectInternal
  <1>6. CASE \/ NotConnected(t) \/ Wait(t) \/ Timeout(t) \/ Answered(t, AfterCall(t))
             \/ Stopped(t, "stop_exit", "exit") \/ Stopped(t, "stop_spin", "spin")
    BY <1>2, <1>6 DEF NotConnected, Wait, Timeout, Answered, Stopped
  <1> QED  BY <1>3, <1>4, <1>5, <1>6 DEF LibraryCall

\* Steps that move no thread and no counter: only NoData is at stake.
LEMMA SummaryFrame ==
    ASSUME StartInv, SampleInv, ThreadInv, NoData => NoData',
           UNCHANGED <<pc, call, it, recorded, done_receiving, allocated, mpc, sub_tid>>
    PROVE  StartInv' /\ SampleInv' /\ ThreadInv'
  <1>1. NotStarted' <=> NotStarted
    BY DEF NotStarted
  <1>2. StartInv'
    BY <1>1 DEF StartInv
  <1>3. SampleInv'
    BY DEF SampleInv
  <1>4. ThreadInv'
    BY DEF ThreadInv
  <1> QED  BY <1>2, <1>3, <1>4

\* The steps of the background thread, the callbacks included.
LEMMA SummaryBackground ==
    ASSUME SummaryInv, BackgroundStep
    PROVE  StartInv' /\ SampleInv' /\ ThreadInv'
  <1> USE DEF SummaryInv
  <1>1. CASE RunStep /\ UNCHANGED appVars
    <2>1. NoData => NoData'
      BY <1>1, NoDataRun
    <2>2. UNCHANGED <<pc, call>>
      BY <1>1 DEF RunStep, HandlePublishes, HandlePubrels, HandleAcks, HandlePubrecs,
                  ReturnPack, ReadError, RunStops, DispatchError, DispatchMessage,
                  DispatchPack, AfterMessage
    <2> QED  BY <1>1, <2>1, <2>2, SummaryFrame
  <1>2. CASE Delivered
    <2>1. NoData => NoData'
      BY <1>2 DEF Delivered, NoData
    <2> QED  BY <1>2, <2>1, SummaryFrame DEF Delivered
  <1>3. CASE MsgArrived
    <2>0. /\ UNCHANGED <<pc, call, allocated, mpc, sub_tid, toBroker, toClient, bsubs,
                         inboundMsgs, messageQueue, qe>>
          /\ runpc = "callback" /\ runpc' = "after"
      BY <1>3 DEF MsgArrived
    <2>1. NoData => NoData'
      BY <2>0 DEF NoData
    <2>2. CASE qe = "pubkill"
      <3>1. UNCHANGED <<it, recorded, done_receiving>>
        BY <1>3, <2>2 DEF MsgArrived, Pubkill
      <3> QED  BY <2>0, <2>1, <3>1, SummaryFrame
    <2>3. CASE qe # "pubkill"
      <3>0. Sample /\ it \in Nat /\ done_receiving \in Nat /\ qe = "topic"
        BY <1>3, <2>3 DEF MsgArrived, TypeOK, Topics
      <3>1. ~NotStarted /\ ~NotStarted'
        BY <2>0, <3>0 DEF NotStarted, StartInv, NoData
      <3>2. StartInv'
        BY <2>0, <3>1 DEF StartInv
      <3>3. it' >= it /\ (it = MAX_ITER => it' > MAX_ITER) /\ it' \in Nat
        BY <3>0 DEF Sample, Count
      <3>4. recorded' = {i \in 0..(MAX_ITER - 1) : i < it'}
        <4>1. CASE it < MAX_ITER
          <5>1. it' = it + 1 /\ recorded' = recorded \cup {it}
            BY <3>0, <4>1 DEF Sample, Count
          <5> QED  BY <3>0, <4>1, <5>1 DEF SampleInv
        <4>2. CASE ~(it < MAX_ITER)
          <5>1. recorded' = recorded
            BY <3>0, <4>2 DEF Sample
          <5> QED  BY <3>0, <3>3, <4>2, <5>1 DEF SampleInv
        <4> QED  BY <4>1, <4>2
      <3>5. done_receiving' > 0 => it' > MAX_ITER
        BY <3>0, <3>3 DEF Sample, SampleInv
      <3>6. SampleInv'
        <4>1. it > MAX_ITER => it' > MAX_ITER
          BY <3>0, <3>3
        <4> QED  BY <2>0, <3>4, <3>5, <4>1 DEF SampleInv
      <3>7. ThreadInv'
        BY <2>0 DEF ThreadInv
      <3> QED  BY <3>2, <3>6, <3>7
    <2> QED  BY <2>2, <2>3
  <1> QED  BY <1>1, <1>2, <1>3 DEF BackgroundStep

\* The steps of the application's threads.
LEMMA SummaryThread ==
    ASSUME OneSubscriber, SummaryInv, NEW t \in Threads, ThreadStep(t)
    PROVE  StartInv' /\ SampleInv' /\ ThreadInv'
  <1> USE DEF SummaryInv
  <1>p. pc \in [Threads -> ThreadStates] /\ call \in [Threads -> AckTypes]
    BY DEF TypeOK
  <1>s. Subs \subseteq Threads /\ Pubs \subseteq Threads /\ Subs \cap Pubs = {}
        /\ Threads = Subs \cup Pubs
    BY DEF Threads
  <1>1. CASE LibraryCall(t) /\ UNCHANGED appVars
    <2>1. PICK label \in ThreadStates \ {"idle", "start", "post_stop"} :
              /\ pc' = [pc EXCEPT ![t] = label]
              /\ label = "exited" => call[t] = "UNSUBACK"
              /\ label = "receiving" => t \in Subs
              /\ label \in {"reset", "publish", "stop_spin", "spin", "sleep"} => t \notin Subs
      BY <1>1, LibraryCallMoves
    <2>2. /\ pc[t] \notin {"idle", "start", "receiving", "post_stop", "exited"}
          /\ call' = call
      BY <1>1, LibraryCallMoves
    <2>3. UNCHANGED <<it, recorded, done_receiving, allocated, mpc, sub_tid>>
      BY <1>1
    <2>4. NotStarted' <=> NotStarted
      BY <1>p, <1>s, <2>1, <2>2 DEF NotStarted
    <2>5. NotStarted => t \notin Subs
      BY <2>2 DEF NotStarted
    <2>6. StartInv'
      <3>1. NotStarted => NoData'
        BY <1>1, <2>5, NoDataLibraryCall DEF StartInv
      <3> QED  BY <2>3, <2>4, <3>1 DEF StartInv
    <2>7. SampleInv'
      BY <1>p, <1>s, <2>1, <2>2, <2>3 DEF SampleInv
    <2>8. ThreadInv'
      BY <1>p, <1>s, <2>1, <2>2, <2>3 DEF ThreadInv
    <2> QED  BY <2>6, <2>7, <2>8
  <1>n. ASSUME LocalStep
        PROVE  (NoData => NoData') /\ UNCHANGED <<mpc, sub_tid>>
    BY <1>n DEF LocalStep, NoData
  <1>2. CASE Calloc(t)
    <2>1. t \in Subs /\ pc[t] = "start"
      BY <1>s, <1>2 DEF Calloc, ThreadInv
    <2>2. NotStarted /\ it = 0
      BY <2>1 DEF NotStarted, OneSubscriber, StartInv
    <2>3. /\ pc' = [pc EXCEPT ![t] = "ask"] /\ call' = [call EXCEPT ![t] = "SUBACK"]
          /\ allocated' = TRUE /\ recorded' = {} /\ it' = it
          /\ done_receiving' = done_receiving
          /\ UNCHANGED <<mpc, sub_tid>>
      BY <1>2, <1>n DEF Calloc, Calls
    <2>4. ~NotStarted'
      BY <1>p, <1>s, <2>1, <2>3 DEF NotStarted
    <2>5. StartInv'
      BY <2>3, <2>4 DEF StartInv
    <2>6. SampleInv'
      <3>1. recorded' = {i \in 0..(MAX_ITER - 1) : i < it'}
        BY <2>2, <2>3
      <3> QED  BY <1>p, <1>s, <2>1, <2>3, <3>1 DEF SampleInv
    <2>7. ThreadInv'
      BY <1>p, <1>s, <2>1, <2>3 DEF ThreadInv
    <2> QED  BY <2>5, <2>6, <2>7
  <1>3. CASE DoneReceiving(t)
    <2>1. t \in Subs /\ pc[t] = "receiving" /\ done_receiving > 0
      BY <1>s, <1>3 DEF DoneReceiving, ThreadInv
    <2>2. /\ pc' = [pc EXCEPT ![t] = "post_stop"] /\ call' = call
          /\ done_receiving' = done_receiving - 1
          /\ UNCHANGED <<it, recorded, allocated, mpc, sub_tid>>
      BY <1>3, <1>n DEF DoneReceiving, Goto
    <2>3. ~NotStarted /\ ~NotStarted'
      BY <1>p, <1>s, <2>1, <2>2 DEF NotStarted
    <2>4. StartInv'
      BY <2>2, <2>3 DEF StartInv
    <2>5. SampleInv'
      BY <1>p, <1>s, <2>1, <2>2 DEF SampleInv
    <2>6. ThreadInv'
      BY <1>p, <1>s, <2>1, <2>2 DEF ThreadInv
    <2> QED  BY <2>4, <2>5, <2>6
  <1>4. CASE PostStop(t)
    <2>1. t \in Subs /\ pc[t] = "post_stop"
      BY <1>s, <1>4 DEF PostStop, ThreadInv
    <2>2. /\ pc' = [pc EXCEPT ![t] = "ask"] /\ call' = [call EXCEPT ![t] = "UNSUBACK"]
          /\ UNCHANGED <<it, recorded, done_receiving, allocated, mpc, sub_tid>>
      BY <1>4, <1>n DEF PostStop, Calls
    <2>3. ~NotStarted /\ ~NotStarted'
      BY <1>p, <1>s, <2>1, <2>2 DEF NotStarted
    <2>4. StartInv'
      BY <2>2, <2>3 DEF StartInv
    <2>5. SampleInv'
      BY <1>p, <1>s, <2>1, <2>2 DEF SampleInv
    <2>6. ThreadInv'
      BY <1>p, <1>s, <2>1, <2>2 DEF ThreadInv
    <2> QED  BY <2>4, <2>5, <2>6
  \* The loop of publish_thread: no subscriber is there.
  <1>5. CASE ResetToken(t) \/ Acknowledge(t) \/ TryStop(t)
    <2>1. t \notin Subs /\ t \in Pubs
      BY <1>s, <1>5 DEF ResetToken, Acknowledge, TryStop, ThreadInv
    <2>2. PICK label \in {"publish", "sleep", "ask", "reset"}, ack \in AckTypes :
              /\ pc' = [pc EXCEPT ![t] = label]
              /\ call' = [call EXCEPT ![t] = ack]
      <3>1. \A label : Goto(t, label) => call' = [call EXCEPT ![t] = call[t]]
        BY <1>p DEF Goto
      <3>2. call[t] \in AckTypes /\ "UNSUBACK" \in AckTypes
        BY <1>p DEF AckTypes
      <3> QED  BY <1>5, <3>1, <3>2 DEF ResetToken, Acknowledge, TryStop, Goto, Calls
    <2>3. /\ NoData => NoData'
          /\ UNCHANGED <<it, recorded, done_receiving, allocated, mpc, sub_tid>>
      BY <1>5, <1>n DEF ResetToken, Acknowledge, TryStop
    <2>4. \A s \in Subs : pc'[s] = pc[s] /\ call'[s] = call[s]
      BY <1>p, <1>s, <2>1, <2>2
    <2>5. NotStarted' <=> NotStarted
      BY <2>4 DEF NotStarted
    <2>6. StartInv'
      BY <2>3, <2>5 DEF StartInv
    <2>7. SampleInv'
      BY <2>3, <2>4 DEF SampleInv
    <2>8. ThreadInv'
      BY <1>p, <1>s, <2>1, <2>2, <2>3, <2>4 DEF ThreadInv
    <2> QED  BY <2>6, <2>7, <2>8
  <1>6. CASE ExitFailure(t)
    <2>1. NoData => NoData'
      BY <1>6 DEF ExitFailure, NoData
    <2> QED  BY <1>6, <2>1, SummaryFrame DEF ExitFailure
  <1> QED  BY <1>1, <1>2, <1>3, <1>4, <1>5, <1>6 DEF ThreadStep

\* The steps of main: it starts the only subscriber before anything arrives, and
\* passes its join loop only when that subscriber has ended.
LEMMA SummaryMain ==
    ASSUME OneSubscriber, SummaryInv, MainStep
    PROVE  StartInv' /\ SampleInv' /\ ThreadInv'
  <1> USE DEF SummaryInv
  <1>p. pc \in [Threads -> ThreadStates] /\ call \in [Threads -> AckTypes]
    BY DEF TypeOK
  <1>s. Subs \subseteq Threads /\ Pubs \subseteq Threads /\ Subs \cap Pubs = {}
        /\ Threads = Subs \cup Pubs
    BY DEF Threads
  <1>1. ASSUME NEW t \in Subs, SpawnSub(t)
        PROVE  StartInv' /\ SampleInv' /\ ThreadInv'
    <2>1. /\ pc[t] = "idle" /\ mpc = "spawn_subs"
          /\ pc' = [pc EXCEPT ![t] = "start"] /\ call' = call /\ sub_tid' = t
          /\ UNCHANGED <<it, recorded, done_receiving, allocated, mpc>>
          /\ NoData => NoData'
      BY <1>1 DEF SpawnSub, Goto, NoData
    <2>2. \A s \in Subs : s = t
      BY DEF OneSubscriber
    <2>3. NotStarted
      BY <2>1, <2>2 DEF NotStarted
    <2>4. NotStarted'
      BY <1>p, <1>s, <2>1, <2>2 DEF NotStarted
    <2>5. StartInv'
      BY <2>1, <2>3, <2>4 DEF StartInv
    <2>6. SampleInv'
      BY <1>p, <1>s, <2>1, <2>2 DEF SampleInv
    <2>7. ThreadInv'
      BY <1>p, <1>s, <2>1, <2>2 DEF ThreadInv, Summarised
    <2> QED  BY <2>5, <2>6, <2>7
  <1>2. ASSUME NEW t \in Pubs, SpawnPub(t)
        PROVE  StartInv' /\ SampleInv' /\ ThreadInv'
    <2>1. /\ pc' = [pc EXCEPT ![t] = "ask"] /\ call' = [call EXCEPT ![t] = "SUBACK"]
          /\ UNCHANGED <<it, recorded, done_receiving, allocated, mpc, sub_tid>>
          /\ NoData => NoData'
      BY <1>2 DEF SpawnPub, Calls, NoData
    <2>2. \A s \in Subs : pc'[s] = pc[s] /\ call'[s] = call[s]
      BY <1>p, <1>s, <2>1
    <2>3. NotStarted' <=> NotStarted
      BY <2>2 DEF NotStarted
    <2>4. StartInv'
      BY <2>1, <2>3 DEF StartInv
    <2>5. SampleInv'
      BY <2>1, <2>2 DEF SampleInv
    <2>6. ThreadInv'
      BY <1>p, <1>s, <2>1, <2>2 DEF ThreadInv
    <2> QED  BY <2>4, <2>5, <2>6
  <1>a. ASSUME NEW from, NEW to, NEW done, Advance(from, to, done),
               to # "spawn_subs" => \A t \in Subs : pc[t] # "idle",
               to \in Summarised => \A t \in Subs : pc[t] = "exited"
        PROVE  StartInv' /\ SampleInv' /\ ThreadInv'
    <2>1. /\ mpc' = to
          /\ UNCHANGED <<pc, call, it, recorded, done_receiving, allocated, sub_tid>>
          /\ NoData => NoData'
      BY <1>a DEF Advance, NoData
    <2>2. NotStarted' <=> NotStarted
      BY <2>1 DEF NotStarted
    <2>3. StartInv'
      BY <2>1, <2>2 DEF StartInv
    <2>4. SampleInv'
      BY <2>1 DEF SampleInv
    <2>5. ThreadInv'
      BY <1>a, <2>1 DEF ThreadInv
    <2> QED  BY <2>3, <2>4, <2>5
  <1>3. CASE SubsSpawned
    BY <1>3, <1>a DEF SubsSpawned, Advance, Summarised
  <1>4. CASE PubsSpawned
    BY <1>4, <1>a DEF PubsSpawned, Advance, Summarised, ThreadInv
  <1>5. CASE JoinSubs
    <2>1. \A t \in Subs : pc[t] # "idle" /\ pc[t] = "exited"
      BY <1>5 DEF JoinSubs, Advance, ThreadInv
    <2> QED  BY <1>5, <1>a, <2>1 DEF JoinSubs
  <1>6. CASE SummaryStats \/ JoinPubs \/ BackgroundStopped
    <2>1. \A t \in Subs : pc[t] # "idle" /\ pc[t] = "exited"
      BY <1>6 DEF SummaryStats, JoinPubs, BackgroundStopped, Advance, ThreadInv, Summarised
    <2> QED  BY <1>6, <1>a, <2>1 DEF SummaryStats, JoinPubs, BackgroundStopped
  <1>7. CASE Disconnect
    <2>1. /\ mpc \in Summarised /\ mpc' \in Summarised /\ mpc' # "spawn_subs"
          /\ UNCHANGED <<pc, call, it, recorded, done_receiving, allocated, sub_tid, bsubs,
                         runpc, qe>>
      BY <1>7 DEF Disconnect, Summarised
    <2>2. /\ toBroker' \in Seq(NotAsking) /\ toClient' \in Seq(NotCarrying)
          /\ messageQueue' \in Seq({"pubkill"}) /\ inboundMsgs' = {}
      <3>1. <<>> \in Seq(NotAsking) /\ <<>> \in Seq(NotCarrying) /\ <<>> \in Seq({"pubkill"})
        OBVIOUS
      <3> QED  BY <1>7, <3>1, Zenon DEF Disconnect, CloseSession
    <2>3. NoData => NoData'
      BY <2>1, <2>2 DEF NoData
    <2>4. NotStarted' <=> NotStarted
      BY <2>1 DEF NotStarted
    <2>5. StartInv'
      BY <2>1, <2>3, <2>4 DEF StartInv
    <2>6. SampleInv'
      BY <2>1 DEF SampleInv
    <2>7. ThreadInv'
      BY <2>1 DEF ThreadInv
    <2> QED  BY <2>5, <2>6, <2>7
  <1>8. CASE Destroy
    <2>1. NoData => NoData'
      BY <1>8 DEF Destroy, NoData
    <2> QED  BY <1>8, <2>1, SummaryFrame DEF Destroy
  <1> QED  BY <1>1, <1>2, <1>3, <1>4, <1>5, <1>6, <1>7, <1>8 DEF MainStep

\* A new process satisfies the invariant.
LEMMA SummaryInit == Init => SummaryInv
  <1> SUFFICES ASSUME Init PROVE SummaryInv
    OBVIOUS
  <1>s. Subs \subseteq Threads /\ Pubs \subseteq Threads
    BY DEF Threads
  <1>1. NoData
    <2>1. toBroker \in Seq(NotAsking) /\ toClient \in Seq(NotCarrying)
          /\ messageQueue \in Seq({"pubkill"})
      BY DEF Init, BrokerInit, ClientInit
    <2> QED  BY <2>1 DEF NoData, Init, BrokerInit, ClientInit
  <1>2. StartInv
    BY <1>1, <1>s DEF StartInv, NotStarted, Init, ClientInit
  <1>3. SampleInv
    BY <1>s DEF SampleInv, Init, ClientInit
  <1>4. ThreadInv
    BY <1>s DEF ThreadInv, Init, ClientInit, Summarised
  <1> QED  BY <1>2, <1>3, <1>4, TypeInit DEF SummaryInv

\* Every step of a process with at most one subscriber preserves the invariant.
LEMMA SummaryNext ==
    ASSUME OneSubscriber
    PROVE  SummaryInv /\ [Next]_vars => SummaryInv'
  <1> SUFFICES ASSUME SummaryInv, [Next]_vars PROVE SummaryInv'
    OBVIOUS
  <1>0. TypeOK'
    BY TypeNext DEF SummaryInv
  <1>1. CASE MainStep
    BY <1>0, <1>1, SummaryMain DEF SummaryInv
  <1>2. CASE \E t \in Threads : ThreadStep(t)
    BY <1>0, <1>2, SummaryThread DEF SummaryInv
  <1>3. CASE BackgroundStep
    BY <1>0, <1>3, SummaryBackground DEF SummaryInv
  <1>4. CASE OutsideStep
    <2>1. NoData => NoData'
      BY <1>4, NoDataOutside DEF SummaryInv
    <2>2. UNCHANGED <<pc, call, it, recorded, done_receiving, allocated, mpc, sub_tid>>
      BY <1>4 DEF OutsideStep
    <2> QED  BY <1>0, <2>1, <2>2, SummaryFrame DEF SummaryInv
  <1>5. CASE UNCHANGED vars
    <2>1. NoData => NoData'
      BY <1>5 DEF vars, NoData
    <2> QED  BY <1>0, <1>5, <2>1, SummaryFrame DEF vars, SummaryInv
  <1> QED  BY <1>1, <1>2, <1>3, <1>4, <1>5 DEF Next, ProcessStep, Ended

\* Whatever the subscriber thread, main and msgarrvd share is consistent in every
\* state: no data before the buffers exist, only the samples below it recorded, and
\* done_receiving taken, or the subscriber ended, only after it passed MAX_ITER.
THEOREM SummaryInvariant ==
    ASSUME OneSubscriber
    PROVE  Spec => []SummaryInv
  BY SummaryInit, SummaryNext, PTL DEF Spec

\* When main computes its summary, all MAX_ITER samples of the run have been
\* recorded and msgarrvd changes none of them any more: true of every process with
\* at most one subscriber thread, whatever else runs and fails.
THEOREM SummaryCorrect ==
    ASSUME OneSubscriber
    PROVE  Spec => []SummaryComplete
  <1>1. SummaryInv => SummaryComplete
    <2> SUFFICES ASSUME SummaryInv, mpc \in Summarised, NEW t \in Subs
                 PROVE  allocated /\ recorded = 0..(MAX_ITER - 1) /\ it > MAX_ITER
      BY DEF SummaryComplete
    <2>1. pc[t] = "exited" /\ it > MAX_ITER
      BY DEF SummaryInv, ThreadInv, SampleInv
    <2>2. allocated
      BY <2>1 DEF SummaryInv, StartInv, NotStarted
    <2>3. it \in Nat /\ recorded = {i \in 0..(MAX_ITER - 1) : i < it}
      BY DEF SummaryInv, SampleInv, TypeOK
    <2> QED  BY <2>1, <2>2, <2>3
  <1> QED  BY <1>1, SummaryInit, SummaryNext, PTL DEF Spec

\* msgarrvd records samples only into the buffers its subscriber thread allocated.
THEOREM SampleBufferCorrect ==
    ASSUME OneSubscriber
    PROVE  Spec => []SampleHasBuffer
  <1>1. SummaryInv => SampleHasBuffer
    BY DEF SummaryInv, StartInv, NoData, SampleHasBuffer
  <1> QED  BY <1>1, SummaryInit, SummaryNext, PTL DEF Spec
=============================================================================
