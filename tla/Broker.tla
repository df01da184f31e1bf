------------------------------- MODULE Broker -------------------------------
(***************************************************************************)
(* The MQTT broker and the TCP connection to it, as the client under       *)
(* src/include and src/mqtt.c sees them.  Neither is part of this          *)
(* repository: the module states the MQTT 3.1.1 behaviour the client code  *)
(* relies on (every packet answered once, in order) and the failures it    *)
(* handles (a broken connection, a lost QoS 0 publication).                *)
(*                                                                         *)
(* A packet is a record of its type, its topic ("none" if it has none) and *)
(* its message id (0 if it has none).  The payload is left out: the client *)
(* only copies it.                                                         *)
(***************************************************************************)
EXTENDS Integers, Sequences

CONSTANTS
    QOS,            \* the --qos argument: QoS of the data topic's publications
    MaxInTransit,   \* bound: nobody publishes while this many packets travel
    Others,         \* TRUE iff other nodes publish to the data topic
    MaxKills,       \* bound: how often kill_pubs publishes to "pubkill"
    Faults          \* the failures considered, a subset of FaultKinds

FaultKinds == {"link", "timeout", "drop"}

ASSUME BrokerAssumption ==
    /\ QOS \in 0..2
    /\ MaxInTransit \in Nat \ {0}
    /\ Others \in BOOLEAN
    /\ MaxKills \in Nat
    /\ Faults \subseteq FaultKinds

VARIABLES
    link,       \* FALSE once the TCP connection is broken
    toBroker,   \* packets written by the client, not yet read by the broker
    toClient,   \* packets written by the broker, not yet read by the client
    bsubs,      \* topics this client is subscribed to
    binflight,  \* ids of the broker's own unacknowledged publications
    bpub,       \* ids of the client's QoS 2 publications awaiting PUBREL
    kills       \* how many times "pubkill" was published

netVars == <<link, toBroker, toClient>>
brokerVars == <<bsubs, binflight, bpub, kills>>

\* The only two topics a process uses: SUBS[0] = PUBS[0] and pubkill.
Topics == {"topic", "pubkill"}

RequestTypes == {"SUBSCRIBE", "UNSUBSCRIBE", "PUBLISH"}
ReplyTypes == {"SUBACK", "UNSUBACK", "PUBACK", "PUBREC", "PUBREL", "PUBCOMP"}

Packets == [type : RequestTypes, topic : Topics, id : Nat]
           \cup [type : ReplyTypes, topic : {"none"}, id : Nat]

Packet(type, topic, id) == [type |-> type, topic |-> topic, id |-> id]
Reply(type, id) == Packet(type, "none", id)

\* pubkill is published and subscribed to with QoS 1, the data topic with QOS.
TopicQos(topic) == IF topic = "pubkill" THEN 1 ELSE QOS

BrokerIds == 1..MaxInTransit

\* Bound: keeps the channels finite.  The publishers sleep MSG_INTERVAL between
\* publications, so they do not run arbitrarily far ahead of the connection.
Room == Len(toBroker) + Len(toClient) < MaxInTransit

BrokerInit ==
    /\ link = TRUE
    /\ toBroker = <<>>
    /\ toClient = <<>>
    /\ bsubs = {}
    /\ binflight = {}
    /\ bpub = {}
    /\ kills = 0

BrokerTypeOK ==
    /\ link \in BOOLEAN
    /\ toBroker \in Seq(Packets)
    /\ toClient \in Seq(Packets)
    /\ bsubs \subseteq Topics
    /\ binflight \subseteq BrokerIds
    /\ bpub \subseteq Nat
    /\ kills \in 0..MaxKills

-----------------------------------------------------------------------------

\* What the broker may send for one publication on topic, and the ids then in
\* flight: nothing without a subscription, and a fresh id above QoS 0.
Deliveries(topic) ==
    LET nothing == [sent |-> <<>>, inflight |-> binflight]
    IN  IF topic \notin bsubs THEN {nothing}
        ELSE IF TopicQos(topic) = 0
        THEN {[sent |-> <<Packet("PUBLISH", topic, 0)>>, inflight |-> binflight]}
             \cup (IF "drop" \in Faults THEN {nothing} ELSE {})
        ELSE {[sent |-> <<Packet("PUBLISH", topic, id)>>,
               inflight |-> binflight \cup {id}] :
                 id \in {i \in BrokerIds \ binflight :
                             \A j \in BrokerIds \ binflight : i <= j}}

Received == Head(toBroker)

Receives(type) ==
    /\ link
    /\ toBroker # <<>>
    /\ Received.type = type
    /\ toBroker' = Tail(toBroker)

BrokerSubscribe ==
    /\ Receives("SUBSCRIBE")
    /\ bsubs' = bsubs \cup {Received.topic}
    /\ toClient' = Append(toClient, Reply("SUBACK", Received.id))
    /\ UNCHANGED <<link, binflight, bpub, kills>>

BrokerUnsubscribe ==
    /\ Receives("UNSUBSCRIBE")
    /\ bsubs' = bsubs \ {Received.topic}
    /\ toClient' = Append(toClient, Reply("UNSUBACK", Received.id))
    /\ UNCHANGED <<link, binflight, bpub, kills>>

\* The acknowledgement and the copy sent back to a subscribed publisher may
\* leave the broker in either order.
BrokerPublish ==
    /\ Receives("PUBLISH")
    /\ IF QOS = 2
       THEN /\ bpub' = bpub \cup {Received.id}
            /\ toClient' = Append(toClient, Reply("PUBREC", Received.id))
            /\ UNCHANGED binflight
       ELSE \E d \in Deliveries(Received.topic) :
                LET ack == IF QOS = 0 THEN <<>> ELSE <<Reply("PUBACK", Received.id)>>
                IN  /\ \/ toClient' = toClient \o ack \o d.sent
                       \/ toClient' = toClient \o d.sent \o ack
                    /\ binflight' = d.inflight
                    /\ UNCHANGED bpub
    /\ UNCHANGED <<link, bsubs, kills>>

\* A QoS 2 publication is distributed when its PUBREL arrives.
BrokerPubrel ==
    /\ Receives("PUBREL")
    /\ \E d \in IF Received.id \in bpub
                THEN Deliveries("topic")
                ELSE {[sent |-> <<>>, inflight |-> binflight]} :
            /\ \/ toClient' = toClient \o <<Reply("PUBCOMP", Received.id)>> \o d.sent
               \/ toClient' = toClient \o d.sent \o <<Reply("PUBCOMP", Received.id)>>
            /\ binflight' = d.inflight
    /\ bpub' = bpub \ {Received.id}
    /\ UNCHANGED <<link, bsubs, kills>>

BrokerAcknowledged ==
    /\ Receives("PUBACK") \/ Receives("PUBCOMP")
    /\ binflight' = binflight \ {Received.id}
    /\ UNCHANGED <<link, toClient, bsubs, bpub, kills>>

BrokerPubrec ==
    /\ Receives("PUBREC")
    /\ toClient' = Append(toClient, Reply("PUBREL", Received.id))
    /\ UNCHANGED <<link, bsubs, binflight, bpub, kills>>

\* Another node of the benchmark publishes to the data topic.
OtherPublish ==
    /\ Others
    /\ link
    /\ Room
    /\ "topic" \in bsubs
    /\ \E d \in Deliveries("topic") :
            /\ toClient' = toClient \o d.sent
            /\ binflight' = d.inflight
    /\ UNCHANGED <<link, toBroker, bsubs, bpub, kills>>

\* kill_pubs publishes to "pubkill": not retained, so a process that has not
\* subscribed yet never sees it.
KillPublish ==
    /\ kills < MaxKills
    /\ link
    /\ Room
    /\ \E d \in Deliveries("pubkill") :
            /\ toClient' = toClient \o d.sent
            /\ binflight' = d.inflight
    /\ kills' = kills + 1
    /\ UNCHANGED <<link, toBroker, bsubs, bpub>>

\* The connection breaks: what the client wrote is lost, what the broker wrote
\* is either still readable or discarded with it.
LinkDown ==
    /\ "link" \in Faults
    /\ link
    /\ link' = FALSE
    /\ toBroker' = <<>>
    /\ \/ toClient' = toClient
       \/ toClient' = <<>>
    /\ UNCHANGED brokerVars

BrokerStep ==
    \/ BrokerSubscribe
    \/ BrokerUnsubscribe
    \/ BrokerPublish
    \/ BrokerPubrel
    \/ BrokerAcknowledged
    \/ BrokerPubrec

EnvironmentStep ==
    \/ OtherPublish
    \/ KillPublish
    \/ LinkDown
=============================================================================
