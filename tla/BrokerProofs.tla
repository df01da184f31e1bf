---------------------------- MODULE BrokerProofs ----------------------------
(***************************************************************************)
(* Facts about the packets and the channels of Broker that the proofs      *)
(* about the client rest on.                                               *)
(***************************************************************************)
EXTENDS Broker, SequenceTheorems, TLAPS

USE BrokerAssumption DEF netVars, brokerVars

\* A request made by Packet is one of Packets.
LEMMA PacketType ==
    ASSUME NEW type \in RequestTypes, NEW topic \in Topics, NEW id \in Nat
    PROVE  Packet(type, topic, id) \in Packets
  BY DEF Packet, Packets

\* A reply made by Reply is one of Packets.
LEMMA ReplyType ==
    ASSUME NEW type \in ReplyTypes, NEW id \in Nat
    PROVE  Reply(type, id) \in Packets
  BY DEF Packet, Packets, Reply

\* Appending one or two sequences keeps the elements in the same set: what
\* the broker does to toClient when it sends an acknowledgement and a copy.
LEMMA SeqConcat ==
    ASSUME NEW S, NEW a \in Seq(S), NEW b \in Seq(S), NEW c \in Seq(S)
    PROVE  /\ a \o b \in Seq(S)
           /\ a \o b \o c \in Seq(S)
  <1>1. a \o b \in Seq(S)
    BY ConcatProperties
  <1> QED  BY <1>1, ConcatProperties

\* The empty sequence and a sequence of one element, as sequences over a set.
LEMMA SeqOfOne ==
    ASSUME NEW S, NEW e \in S
    PROVE  <<>> \in Seq(S) /\ <<e>> \in Seq(S)
  OBVIOUS

\* Whatever the broker sends for one publication is a sequence of packets, and
\* the ids it then has in flight are broker ids.
LEMMA DeliveriesType ==
    ASSUME BrokerTypeOK, NEW topic \in Topics, NEW d \in Deliveries(topic)
    PROVE  /\ d.sent \in Seq(Packets)
           /\ d.inflight \subseteq BrokerIds
  <1>1. CASE topic \notin bsubs
    <2>1. d = [sent |-> <<>>, inflight |-> binflight]
      BY <1>1 DEF Deliveries
    <2>2. d.sent = <<>> /\ d.inflight = binflight
      BY <2>1
    <2> QED  BY <2>2 DEF BrokerTypeOK
  <1>2. CASE topic \in bsubs /\ TopicQos(topic) = 0
    <2>1. Packet("PUBLISH", topic, 0) \in Packets
      BY PacketType DEF RequestTypes
    <2>2. \/ d = [sent |-> <<Packet("PUBLISH", topic, 0)>>, inflight |-> binflight]
          \/ d = [sent |-> <<>>, inflight |-> binflight]
      BY <1>2 DEF Deliveries
    <2>3. /\ d.sent = <<Packet("PUBLISH", topic, 0)>> \/ d.sent = <<>>
          /\ d.inflight = binflight
      BY <2>2
    <2>4. <<Packet("PUBLISH", topic, 0)>> \in Seq(Packets) /\ <<>> \in Seq(Packets)
      BY <2>1
    <2> QED  BY <2>3, <2>4 DEF BrokerTypeOK
  <1>3. CASE topic \in bsubs /\ TopicQos(topic) # 0
    <2>1. PICK id \in BrokerIds : d = [sent |-> <<Packet("PUBLISH", topic, id)>>,
                                       inflight |-> binflight \cup {id}]
      BY <1>3 DEF Deliveries
    <2>2. Packet("PUBLISH", topic, id) \in Packets
      BY PacketType DEF RequestTypes, BrokerIds
    <2> QED  BY <2>1, <2>2 DEF BrokerTypeOK
  <1> QED  BY <1>1, <1>2, <1>3

\* The packet the broker reads is a packet, and so are those behind it.
LEMMA ReceivedType ==
    ASSUME BrokerTypeOK, toBroker # <<>>
    PROVE  Received \in Packets /\ Tail(toBroker) \in Seq(Packets)
  BY DEF BrokerTypeOK, Received

\* Every answer of the broker keeps the channels and the broker's state typed.
LEMMA BrokerStepType ==
    ASSUME BrokerTypeOK, BrokerStep
    PROVE  BrokerTypeOK'
  <1>0. /\ toBroker # <<>>
        /\ Received \in Packets
        /\ Received.id \in Nat
        /\ toBroker' \in Seq(Packets)
    <2>1. toBroker # <<>> /\ toBroker' = Tail(toBroker)
      BY DEF BrokerStep, BrokerSubscribe, BrokerUnsubscribe, BrokerPublish, BrokerPubrel,
             BrokerAcknowledged, BrokerPubrec, Receives
    <2>2. Received \in Packets /\ Tail(toBroker) \in Seq(Packets)
      BY <2>1, ReceivedType
    <2> QED  BY <2>1, <2>2 DEF Packets
  <1>r. \A type \in ReplyTypes : Reply(type, Received.id) \in Packets
    BY <1>0, ReplyType
  <1>1. CASE BrokerSubscribe
    <2>1. Reply("SUBACK", Received.id) \in Packets
      BY <1>r DEF ReplyTypes
    <2>2. toClient' \in Seq(Packets)
      BY <1>1, <2>1 DEF BrokerSubscribe, BrokerTypeOK
    <2>3. bsubs' \subseteq Topics
      BY <1>0, <1>1 DEF BrokerSubscribe, Receives, BrokerTypeOK, Packets, ReplyTypes
    <2> QED  BY <1>0, <1>1, <2>2, <2>3 DEF BrokerSubscribe, BrokerTypeOK
  <1>2. CASE BrokerUnsubscribe
    <2>1. Reply("UNSUBACK", Received.id) \in Packets
      BY <1>r DEF ReplyTypes
    <2> QED  BY <1>0, <1>2, <2>1 DEF BrokerUnsubscribe, BrokerTypeOK
  <1>3. CASE BrokerPublish
    <2>1. CASE QOS = 2
      <3>1. Reply("PUBREC", Received.id) \in Packets
        BY <1>r DEF ReplyTypes
      <3>2. toClient' \in Seq(Packets)
        BY <1>3, <2>1, <3>1 DEF BrokerPublish, BrokerTypeOK
      <3>3. bpub' = bpub \cup {Received.id} /\ binflight' = binflight
        BY <1>3, <2>1 DEF BrokerPublish
      <3> QED  BY <1>0, <1>3, <3>2, <3>3 DEF BrokerPublish, BrokerTypeOK
    <2>2. CASE QOS # 2
      <3>1. PICK d \in Deliveries(Received.topic),
                 ack \in {<<>>, <<Reply("PUBACK", Received.id)>>} :
                /\ \/ toClient' = toClient \o ack \o d.sent
                   \/ toClient' = toClient \o d.sent \o ack
                /\ binflight' = d.inflight
        BY <1>3, <2>2 DEF BrokerPublish
      <3>2. Received.topic \in Topics
        BY <1>0, <1>3 DEF BrokerPublish, Receives, Packets, ReplyTypes
      <3>3. d.sent \in Seq(Packets) /\ d.inflight \subseteq BrokerIds
        BY <3>2, DeliveriesType
      <3>4. Reply("PUBACK", Received.id) \in Packets
        BY <1>r DEF ReplyTypes
      <3>5. ack \in Seq(Packets)
        BY <3>4, SeqOfOne
      <3>6. toClient' \in Seq(Packets)
        <4>1. toClient \in Seq(Packets)
          BY DEF BrokerTypeOK
        <4>2. /\ toClient \o ack \o d.sent \in Seq(Packets)
              /\ toClient \o d.sent \o ack \in Seq(Packets)
          BY <3>3, <3>5, <4>1, SeqConcat, Zenon
        <4> QED  BY <3>1, <4>2, Zenon
      <3>7. bpub' = bpub
        BY <1>3, <2>2 DEF BrokerPublish
      <3> QED  BY <1>0, <1>3, <3>1, <3>3, <3>6, <3>7 DEF BrokerPublish, BrokerTypeOK
    <2> QED  BY <2>1, <2>2
  <1>4. CASE BrokerPubrel
    <2>1. PICK d \in Deliveries("topic") \cup {[sent |-> <<>>, inflight |-> binflight]} :
              /\ \/ toClient' = toClient \o <<Reply("PUBCOMP", Received.id)>> \o d.sent
                 \/ toClient' = toClient \o d.sent \o <<Reply("PUBCOMP", Received.id)>>
              /\ binflight' = d.inflight
      BY <1>4 DEF BrokerPubrel
    <2>2. d.sent \in Seq(Packets) /\ d.inflight \subseteq BrokerIds
      <3>1. CASE d \in Deliveries("topic")
        BY <3>1, DeliveriesType DEF Topics
      <3>2. CASE d = [sent |-> <<>>, inflight |-> binflight]
        <4>1. d.sent = <<>> /\ d.inflight = binflight
          BY <3>2
        <4> QED  BY <4>1 DEF BrokerTypeOK
      <3> QED  BY <3>1, <3>2
    <2>3. Reply("PUBCOMP", Received.id) \in Packets
      BY <1>r DEF ReplyTypes
    <2>4. <<Reply("PUBCOMP", Received.id)>> \in Seq(Packets)
      BY <2>3, SeqOfOne
    <2>5. toClient' \in Seq(Packets)
      <3>1. toClient \in Seq(Packets)
        BY DEF BrokerTypeOK
      <3>2. /\ toClient \o <<Reply("PUBCOMP", Received.id)>> \o d.sent \in Seq(Packets)
            /\ toClient \o d.sent \o <<Reply("PUBCOMP", Received.id)>> \in Seq(Packets)
        BY <2>2, <2>4, <3>1, SeqConcat, Zenon
      <3> QED  BY <2>1, <3>2, Zenon
    <2> QED  BY <1>0, <1>4, <2>1, <2>2, <2>5 DEF BrokerPubrel, BrokerTypeOK
  <1>5. CASE BrokerAcknowledged
    BY <1>0, <1>5 DEF BrokerAcknowledged, BrokerTypeOK
  <1>6. CASE BrokerPubrec
    <2>1. Reply("PUBREL", Received.id) \in Packets
      BY <1>r DEF ReplyTypes
    <2> QED  BY <1>0, <1>6, <2>1 DEF BrokerPubrec, BrokerTypeOK
  <1> QED  BY <1>1, <1>2, <1>3, <1>4, <1>5, <1>6 DEF BrokerStep

\* So do the other nodes' publications, kill_pubs and a broken connection.
LEMMA EnvironmentStepType ==
    ASSUME BrokerTypeOK, EnvironmentStep
    PROVE  BrokerTypeOK'
  <1>1. CASE OtherPublish
    <2>1. PICK d \in Deliveries("topic") :
              toClient' = toClient \o d.sent /\ binflight' = d.inflight
      BY <1>1 DEF OtherPublish
    <2>2. d.sent \in Seq(Packets) /\ d.inflight \subseteq BrokerIds
      BY DeliveriesType DEF Topics
    <2> QED  BY <1>1, <2>1, <2>2 DEF OtherPublish, BrokerTypeOK
  <1>2. CASE KillPublish
    <2>1. PICK d \in Deliveries("pubkill") :
              toClient' = toClient \o d.sent /\ binflight' = d.inflight
      BY <1>2 DEF KillPublish
    <2>2. d.sent \in Seq(Packets) /\ d.inflight \subseteq BrokerIds
      BY DeliveriesType DEF Topics
    <2> QED  BY <1>2, <2>1, <2>2 DEF KillPublish, BrokerTypeOK
  <1>3. CASE LinkDown
    <2>1. <<>> \in Seq(Packets)
      OBVIOUS
    <2>2. toClient' \in Seq(Packets) /\ toBroker' \in Seq(Packets)
      BY <1>3, <2>1, Zenon DEF LinkDown, BrokerTypeOK
    <2> QED  BY <1>3, <2>2 DEF LinkDown, BrokerTypeOK
  <1> QED  BY <1>1, <1>2, <1>3 DEF EnvironmentStep

=============================================================================
