----------------------------- MODULE TokenProofs -----------------------------
(***************************************************************************)
(* The hand-over of tokens between MQTTClient_publish, the callback        *)
(* delivered and the busy wait of publish_thread: AckNeverBlocks and       *)
(* ConfirmedWhenDelivered for every process with at most one publisher     *)
(* thread, at every QoS, whatever fails and however many subscribers run.  *)
(***************************************************************************)
EXTENDS BenchmarkProofs

USE BrokerAssumption, ClientAssumption, IterAssumption
USE DEF netVars, brokerVars, sessionVars, waitVars, runVars, threadVars, clientVars,
        semVars, sampleVars, mainVars, appVars

OnePublisher == \A p, q \in Pubs : p = q

-----------------------------------------------------------------------------
(* The inductive invariant.                                                 *)

\* The packets of the client that the broker answers on the way to a confirmation,
\* and the broker's answers.
Asking == {p \in Packets : p.type = "PUBREL" \/ (p.type = "PUBLISH" /\ QOS # 0)}
Confirming == {p \in Packets : p.type \in NextMessageTypes}

\* The broker's answer to p, a member of Asking.
AnswerTo(p) == IF p.type = "PUBREL" THEN "PUBCOMP" ELSE IF QOS = 1 THEN "PUBACK" ELSE "PUBREC"

\* No packet of s is in T; at most one is, and that one is in G.
Free(s, T) == s \in Seq(Packets \ T)
AtMostOne(s, T, G) ==
    /\ s \in Seq(Packets)
    /\ \A i \in 1..Len(s) : s[i] \in T =>
            s[i] \in G /\ \A j \in 1..Len(s) : s[j] \in T => i = j

\* No exchange is under way.
Quiet ==
    /\ Free(toBroker, Asking)
    /\ Free(toClient, Confirming)
    /\ outboundMsgs = {}
    /\ runpc # "delivered"

\* The message publisher t spins on is in flight, and the answer to come is next.
InFlight(t, next) ==
    /\ outboundMsgs = {[msgid |-> msgid[t], nextMessageType |-> next]}
    /\ next \in NextMessageTypes
    /\ runpc # "delivered"

\* The three stages of a step of its exchange: the broker has yet to read the
\* client's packet (or the packet is lost), the client the broker's answer, or
\* the callback is about to report the token.
Requested(t, next) ==
    /\ InFlight(t, next)
    /\ AtMostOne(toBroker, Asking, {p \in Packets : p.id = msgid[t] /\ AnswerTo(p) = next})
    /\ Free(toClient, Confirming)

Replied(t, next) ==
    /\ InFlight(t, next)
    /\ Free(toBroker, Asking)
    /\ AtMostOne(toClient, Confirming, {p \in Packets : p.id = msgid[t] /\ p.type = next})

Reported(t) ==
    /\ outboundMsgs = {}
    /\ Free(toBroker, Asking)
    /\ Free(toClient, Confirming)
    /\ runpc = "delivered"
    /\ dt = msgid[t]

Spinning(t) == pc[t] = "spin" /\ deliveredtoken = 0

ExchangeInv ==
    \/ Quiet
    \/ \E t \in Pubs :
            /\ Spinning(t)
            /\ Reported(t) \/ \E next \in NextMessageTypes : Requested(t, next) \/ Replied(t, next)

\* Each thread runs its own routine.
RoutineInv ==
    /\ \A t \in Subs : pc[t] \notin {"reset", "publish", "stop_spin", "spin", "sleep"}
    /\ \A t \in Pubs : pc[t] \notin {"start", "receiving", "post_stop"}

\* A publisher waits for an id, and finds deliveredtoken as it left it or equal to
\* that id; in the latter case, and only then, qos1_pubmutex is taken.
WaitInv ==
    /\ \A t \in Pubs :
            /\ pc[t] \in {"publish", "stop_spin"} => deliveredtoken = 0
            /\ pc[t] \in {"spin", "stop_spin"} => msgid[t] # 0
            /\ pc[t] = "spin" => deliveredtoken \in {0, msgid[t]}
    /\ qos1_pubmutex = 0 => \E t \in Pubs : pc[t] = "spin" /\ deliveredtoken = msgid[t]

TokenInv == TypeOK /\ RoutineInv /\ WaitInv /\ ExchangeInv

-----------------------------------------------------------------------------
(* Packets of interest in a channel.                                        *)

\* What a step that adds no packet of T does to a channel: what holds of its
\* packets in T goes on to hold.
Keeps(s, s2, T) ==
    /\ Free(s, T) => Free(s2, T)
    /\ \A G : AtMostOne(s, T, G) => AtMostOne(s2, T, G)

\* A sequence is a sequence over any set that holds its elements.
LEMMA SeqElements ==
    ASSUME NEW S, NEW R, NEW s \in Seq(S), \A i \in 1..Len(s) : s[i] \in R
    PROVE  s \in Seq(R)
  <1>1. Len(s) \in Nat /\ s \in [1..Len(s) -> S]
    BY LenProperties
  <1>2. s \in [1..Len(s) -> R]
    BY <1>1
  <1> QED  BY <1>1, <1>2, SeqDef

\* An unchanged or emptied channel.
LEMMA KeepsSame ==
    ASSUME NEW s, NEW T
    PROVE  Keeps(s, s, T) /\ Keeps(s, <<>>, T) /\ Free(<<>>, T)
  BY DEF Keeps, Free, AtMostOne

\* One packet is read.
LEMMA KeepsTail ==
    ASSUME NEW s \in Seq(Packets), s # <<>>, NEW T
    PROVE  Keeps(s, Tail(s), T)
  <1>1. Free(s, T) => Free(Tail(s), T)
    BY DEF Free
  <1>2. ASSUME NEW G, AtMostOne(s, T, G)
        PROVE  AtMostOne(Tail(s), T, G)
    <2>1. /\ Tail(s) \in Seq(Packets)
          /\ Len(Tail(s)) = Len(s) - 1
          /\ \A i \in 1..Len(Tail(s)) : i + 1 \in 1..Len(s) /\ Tail(s)[i] = s[i + 1]
      OBVIOUS
    <2>2. ASSUME NEW i \in 1..Len(Tail(s)), Tail(s)[i] \in T
          PROVE  /\ Tail(s)[i] \in G
                 /\ \A j \in 1..Len(Tail(s)) : Tail(s)[j] \in T => i = j
      <3>1. s[i + 1] \in G /\ \A j \in 1..Len(s) : s[j] \in T => i + 1 = j
        BY <1>2, <2>1, <2>2 DEF AtMostOne
      <3>2. ASSUME NEW j \in 1..Len(Tail(s)), Tail(s)[j] \in T
            PROVE  i = j
        <4>1. i + 1 = j + 1
          BY <2>1, <3>1, <3>2
        <4> QED  BY <4>1
      <3> QED  BY <2>1, <3>1, <3>2
    <2> QED  BY <2>1, <2>2 DEF AtMostOne
  <1> QED  BY <1>1, <1>2 DEF Keeps

\* Packets that are not in T are written.
LEMMA KeepsConcat ==
    ASSUME NEW s \in Seq(Packets), NEW T, NEW x, Free(x, T)
    PROVE  Keeps(s, s \o x, T)
  <1>0. x \in Seq(Packets \ T) /\ x \in Seq(Packets)
    BY DEF Free
  <1>1. Free(s, T) => Free(s \o x, T)
    BY <1>0, ConcatProperties DEF Free
  <1>2. ASSUME NEW G, AtMostOne(s, T, G)
        PROVE  AtMostOne(s \o x, T, G)
    <2>1. /\ s \o x \in Seq(Packets)
          /\ \A i \in 1..Len(s \o x) :
                (s \o x)[i] \in T => i \in 1..Len(s) /\ (s \o x)[i] = s[i]
      <3>1. s \o x \in Seq(Packets) /\ Len(s \o x) = Len(s) + Len(x)
        BY <1>0, ConcatProperties
      <3>2. ASSUME NEW i \in 1..Len(s \o x), (s \o x)[i] \in T
            PROVE  i \in 1..Len(s) /\ (s \o x)[i] = s[i]
        <4>1. CASE i <= Len(s)
          BY <4>1, <1>0
        <4>2. CASE i > Len(s)
          <5>1. i - Len(s) \in 1..Len(x) /\ (s \o x)[i] = x[i - Len(s)]
            BY <1>0, <3>1, <4>2
          <5> QED  BY <1>0, <3>2, <5>1
        <4> QED  BY <4>1, <4>2
      <3> QED  BY <3>1, <3>2
    <2> QED  BY <1>2, <2>1 DEF AtMostOne
  <1> QED  BY <1>1, <1>2 DEF Keeps

\* The only packet of T is read.
LEMMA LastRead ==
    ASSUME NEW s, s # <<>>, NEW T, NEW G, AtMostOne(s, T, G), Head(s) \in T
    PROVE  Head(s) \in G /\ Free(Tail(s), T)
  <1>1. /\ s \in Seq(Packets) /\ Len(s) \in Nat \ {0} /\ Head(s) = s[1] /\ 1 \in 1..Len(s)
        /\ Tail(s) \in Seq(Packets) /\ Len(Tail(s)) = Len(s) - 1
        /\ \A i \in 1..Len(Tail(s)) : i + 1 \in 1..Len(s) /\ Tail(s)[i] = s[i + 1]
    BY DEF AtMostOne
  <1>2. s[1] \in G /\ \A j \in 1..Len(s) : s[j] \in T => 1 = j
    BY <1>1 DEF AtMostOne
  <1>3. ASSUME NEW i \in 1..Len(Tail(s))
        PROVE  Tail(s)[i] \in Packets \ T
    <2>1. i + 1 # 1
      OBVIOUS
    <2> QED  BY <1>1, <1>2, <2>1
  <1>4. Tail(s) \in Seq(Packets \ T)
    BY <1>1, <1>3, SeqElements
  <1> QED  BY <1>1, <1>2, <1>4 DEF Free

\* A first packet of T is written.
LEMMA FirstWritten ==
    ASSUME NEW T, NEW G, NEW s, Free(s, T), NEW e \in Packets, e \in T => e \in G
    PROVE  AtMostOne(s \o <<e>>, T, G)
  <1>1. /\ s \in Seq(Packets) /\ s \o <<e>> \in Seq(Packets)
        /\ Len(s \o <<e>>) = Len(s) + 1
        /\ \A i \in 1..Len(s) : (s \o <<e>>)[i] \notin T
        /\ (s \o <<e>>)[Len(s) + 1] = e
    BY DEF Free
  <1>2. \A i \in 1..Len(s \o <<e>>) : i \in 1..Len(s) \/ i = Len(s) + 1
    BY <1>1
  <1> QED  BY <1>1, <1>2 DEF AtMostOne

\* A channel without packets of T holds at most one.
LEMMA FreeAtMostOne ==
    ASSUME NEW s, NEW T, NEW G, Free(s, T)
    PROVE  AtMostOne(s, T, G)
  BY DEF Free, AtMostOne

-----------------------------------------------------------------------------
(* What the exchange is made of.                                            *)

\* The packets that take part in no exchange: everything about subscriptions, and
\* what the client sends for the broker's own publications.
LEMMA Harmless ==
    ASSUME NEW id \in Nat, NEW topic \in Topics
    PROVE  /\ \A type \in {"PUBACK", "PUBREC", "PUBCOMP"} :
                  Free(<<Reply(type, id)>>, Asking)
           /\ \A type \in {"SUBACK", "UNSUBACK", "PUBREL"} :
                  Free(<<Reply(type, id)>>, Confirming)
           /\ \A type \in {"SUBSCRIBE", "UNSUBSCRIBE"} :
                  Free(<<Packet(type, topic, id)>>, Asking)
           /\ QOS = 0 => Free(<<Packet("PUBLISH", topic, id)>>, Asking)
           /\ Free(<<Packet("PUBLISH", topic, id)>>, Confirming)
  <1>1. ASSUME NEW type \in ReplyTypes
        PROVE  Reply(type, id) \in Packets /\ Reply(type, id).type = type
    BY ReplyType DEF Reply, Packet
  <1>2. ASSUME NEW type \in RequestTypes
        PROVE  Packet(type, topic, id) \in Packets /\ Packet(type, topic, id).type = type
    BY PacketType DEF Packet
  <1>f. ASSUME NEW e \in Packets, NEW T, e \notin T
        PROVE  Free(<<e>>, T)
    BY <1>f DEF Free
  <1>3. ASSUME NEW type \in {"PUBACK", "PUBREC", "PUBCOMP"}
        PROVE  Free(<<Reply(type, id)>>, Asking)
    <2>1. Reply(type, id) \in Packets /\ Reply(type, id).type = type
      BY <1>1 DEF ReplyTypes
    <2> QED  BY <1>f, <2>1 DEF Asking
  <1>4. ASSUME NEW type \in {"SUBACK", "UNSUBACK", "PUBREL"}
        PROVE  Free(<<Reply(type, id)>>, Confirming)
    <2>1. Reply(type, id) \in Packets /\ Reply(type, id).type = type
      BY <1>1 DEF ReplyTypes
    <2> QED  BY <1>f, <2>1 DEF Confirming, NextMessageTypes
  <1>5. ASSUME NEW type \in {"SUBSCRIBE", "UNSUBSCRIBE"}
        PROVE  Free(<<Packet(type, topic, id)>>, Asking)
    <2>1. Packet(type, topic, id) \in Packets /\ Packet(type, topic, id).type = type
      BY <1>2 DEF RequestTypes
    <2> QED  BY <1>f, <2>1 DEF Asking
  <1>6. /\ QOS = 0 => Free(<<Packet("PUBLISH", topic, id)>>, Asking)
        /\ Free(<<Packet("PUBLISH", topic, id)>>, Confirming)
    <2>1. Packet("PUBLISH", topic, id) \in Packets /\ Packet("PUBLISH", topic, id).type = "PUBLISH"
      BY <1>2 DEF RequestTypes
    <2> QED  BY <1>f, <2>1 DEF Asking, Confirming, NextMessageTypes
  <1> QED  BY <1>3, <1>4, <1>5, <1>6

\* A packet that is not in T is written to the broker, or lost.
LEMMA KeepsWrite ==
    ASSUME TypeOK, NEW e, Free(<<e>>, Asking), Write(e)
    PROVE  Keeps(toBroker, toBroker', Asking)
  <1>1. e \in Packets /\ toBroker \in Seq(Packets)
    BY DEF Free, TypeOK, BrokerTypeOK
  <1>2. Append(toBroker, e) = toBroker \o <<e>>
    BY <1>1
  <1> QED  BY <1>1, <1>2, KeepsSame, KeepsConcat DEF Write

\* A step that adds no packet of an exchange and leaves the entry, the callback and
\* the waiting publishers alone leaves the exchange where it is.
LEMMA ExchangeFrame ==
    ASSUME ExchangeInv,
           Keeps(toBroker, toBroker', Asking),
           Keeps(toClient, toClient', Confirming),
           (runpc' = "delivered") = (runpc = "delivered"),
           UNCHANGED <<outboundMsgs, dt, deliveredtoken>>,
           \A t \in Pubs : pc[t] = "spin" => pc'[t] = "spin" /\ msgid'[t] = msgid[t]
    PROVE  ExchangeInv'
  <1>1. CASE Quiet
    <2>1. Quiet'
      BY <1>1 DEF Quiet, Keeps
    <2> QED  BY <2>1 DEF ExchangeInv
  <1>2. ASSUME NEW t \in Pubs, Spinning(t), Reported(t)
        PROVE  ExchangeInv'
    <2>1. Spinning(t)'
      BY <1>2 DEF Spinning
    <2>2. Reported(t)'
      BY <1>2 DEF Spinning, Reported, Keeps
    <2> QED  BY <2>1, <2>2 DEF ExchangeInv
  <1>3. ASSUME NEW t \in Pubs, Spinning(t), NEW next \in NextMessageTypes,
               Requested(t, next) \/ Replied(t, next)
        PROVE  ExchangeInv'
    <2>1. Spinning(t)' /\ msgid'[t] = msgid[t]
      BY <1>3 DEF Spinning
    <2>2. InFlight(t, next)'
      BY <1>3, <2>1 DEF Requested, Replied, InFlight
    <2>3. Requested(t, next) => Requested(t, next)'
      BY <2>1, <2>2 DEF Requested, Keeps
    <2>4. Replied(t, next) => Replied(t, next)'
      BY <2>1, <2>2 DEF Replied, Keeps
    <2> QED  BY <1>3, <2>1, <2>3, <2>4 DEF ExchangeInv
  <1> QED  BY <1>1, <1>2, <1>3 DEF ExchangeInv

\* Closing the session ends every exchange.
LEMMA ExchangeClosed ==
    ASSUME CloseSession, runpc' # "delivered"
    PROVE  ExchangeInv'
  <1>1. Quiet'
    BY KeepsSame DEF CloseSession, Quiet
  <1> QED  BY <1>1 DEF ExchangeInv

\* With one publisher there is no exchange but its own, while it spins.
LEMMA QuietUnlessSpinning ==
    ASSUME OnePublisher, ExchangeInv, NEW t \in Pubs, ~Spinning(t)
    PROVE  Quiet
  BY DEF OnePublisher, ExchangeInv

-----------------------------------------------------------------------------
(* The background thread and its callbacks.                                 *)

\* PUBACK and PUBCOMP come only for the message in flight, and only as the answer
\* it waits for: the callback then reports its id, and no entry is left.
LEMMA AcksReport ==
    ASSUME TypeOK, ExchangeInv, HandleAcks, UNCHANGED appVars
    PROVE  ExchangeInv'
  <1>0. /\ toClient # <<>> /\ toClient' = Tail(toClient)
        /\ Incoming.type \in {"PUBACK", "PUBCOMP"}
        /\ outboundMsgs' = outboundMsgs \ Completed(Incoming)
        /\ dt' = Incoming.id /\ runpc' = "delivered" /\ runpc = "cycle"
        /\ UNCHANGED <<toBroker, pc, msgid, deliveredtoken>>
    BY DEF HandleAcks, Reads
  <1>1. Incoming \in Confirming
    BY <1>0, IncomingType DEF Confirming, NextMessageTypes, TypeOK
  <1>2. ~Free(toClient, Confirming)
    BY <1>0, <1>1 DEF Free, Incoming
  <1>3. PICK t \in Pubs, next \in NextMessageTypes : Spinning(t) /\ Replied(t, next)
    BY <1>0, <1>2 DEF ExchangeInv, Quiet, Reported, Requested
  <1>4. /\ Incoming.id = msgid[t] /\ Incoming.type = next
        /\ Free(Tail(toClient), Confirming)
    BY <1>0, <1>1, <1>3, LastRead DEF Replied, Incoming
  <1>5. outboundMsgs' = {}
    <2>1. outboundMsgs = {[msgid |-> msgid[t], nextMessageType |-> next]}
      BY <1>3 DEF Replied, InFlight
    <2>2. Completed(Incoming) = outboundMsgs
      BY <1>4, <2>1 DEF Completed
    <2> QED  BY <1>0, <2>2
  <1>6. Reported(t)'
    BY <1>0, <1>3, <1>4, <1>5 DEF Reported, Replied
  <1>7. Spinning(t)'
    BY <1>0, <1>3 DEF Spinning
  <1> QED  BY <1>6, <1>7 DEF ExchangeInv

\* PUBREC comes only for the message in flight, when it waits for it: the entry
\* then waits for PUBCOMP, and PUBREL is the only packet on its way.
LEMMA PubrecMovesOn ==
    ASSUME TypeOK, ExchangeInv, HandlePubrecs, UNCHANGED appVars
    PROVE  ExchangeInv'
  <1> DEFINE due == {m \in outboundMsgs :
                        m.msgid = Incoming.id /\ m.nextMessageType = "PUBREC"}
  <1>0. /\ toClient # <<>> /\ toClient' = Tail(toClient)
        /\ Incoming.type = "PUBREC"
        /\ outboundMsgs' = (outboundMsgs \ due) \cup
                {[msgid |-> m.msgid, nextMessageType |-> "PUBCOMP"] : m \in due}
        /\ Write(Reply("PUBREL", Incoming.id))
        /\ runpc' = "dispatch" /\ runpc = "cycle"
        /\ UNCHANGED <<dt, pc, msgid, deliveredtoken>>
    BY DEF HandlePubrecs, Reads
  <1>1. Incoming \in Confirming
    BY <1>0, IncomingType DEF Confirming, NextMessageTypes, TypeOK
  <1>2. ~Free(toClient, Confirming)
    BY <1>0, <1>1 DEF Free, Incoming
  <1>3. PICK t \in Pubs, next \in NextMessageTypes : Spinning(t) /\ Replied(t, next)
    BY <1>0, <1>2 DEF ExchangeInv, Quiet, Reported, Requested
  <1>4. /\ Incoming.id = msgid[t] /\ Incoming.type = next
        /\ Free(Tail(toClient), Confirming)
    BY <1>0, <1>1, <1>3, LastRead DEF Replied, Incoming
  <1>5. outboundMsgs' = {[msgid |-> msgid'[t], nextMessageType |-> "PUBCOMP"]}
    <2>1. outboundMsgs = {[msgid |-> msgid[t], nextMessageType |-> "PUBREC"]}
      BY <1>0, <1>3, <1>4 DEF Replied, InFlight
    <2>2. due = {[msgid |-> msgid[t], nextMessageType |-> "PUBREC"]}
      BY <1>0, <1>4, <2>1
    <2>3. {[msgid |-> m.msgid, nextMessageType |-> "PUBCOMP"] : m \in due}
              = {[msgid |-> msgid[t], nextMessageType |-> "PUBCOMP"]}
      <3> DEFINE o == [msgid |-> msgid[t], nextMessageType |-> "PUBREC"]
                 n == [msgid |-> msgid[t], nextMessageType |-> "PUBCOMP"]
      <3>1. \A m \in {o} : [msgid |-> m.msgid, nextMessageType |-> "PUBCOMP"] = n
        OBVIOUS
      <3>2. {[msgid |-> m.msgid, nextMessageType |-> "PUBCOMP"] : m \in {o}} = {n}
        <4> HIDE DEF n
        <4> QED  BY <3>1, Zenon
      <3> QED  BY <2>2, <3>2
    <2>4. outboundMsgs \ due = {}
      BY <2>1, <2>2
    <2> HIDE DEF due
    <2> QED  BY <1>0, <2>3, <2>4
  <1>6. AtMostOne(toBroker', Asking,
                  {p \in Packets : p.id = msgid'[t] /\ AnswerTo(p) = "PUBCOMP"})
    <2> DEFINE e == Reply("PUBREL", Incoming.id)
               G == {p \in Packets : p.id = msgid'[t] /\ AnswerTo(p) = "PUBCOMP"}
    <2>1. e \in Packets
      BY <1>1, ReplyType DEF Confirming, Packets, ReplyTypes
    <2>2. e.id = Incoming.id /\ e.type = "PUBREL"
      BY DEF Reply, Packet
    <2>3. e \in G
      BY <1>0, <1>4, <2>1, <2>2 DEF AnswerTo
    <2>4. Free(toBroker, Asking)
      BY <1>3 DEF Replied
    <2>5. Append(toBroker, e) = toBroker \o <<e>>
      BY <2>1 DEF TypeOK, BrokerTypeOK
    <2>6. AtMostOne(toBroker, Asking, G)
      BY <2>4, FreeAtMostOne
    <2>7. AtMostOne(toBroker \o <<e>>, Asking, G)
      BY <2>1, <2>3, <2>4, FirstWritten
    <2>8. toBroker' = IF link THEN Append(toBroker, e) ELSE toBroker
      BY <1>0 DEF Write
    <2> HIDE DEF e, G
    <2>9. AtMostOne(toBroker', Asking, G)
      BY <2>5, <2>6, <2>7, <2>8
    <2> QED  BY <2>9 DEF G
  <1>7. Requested(t, "PUBCOMP")'
    BY <1>0, <1>4, <1>5, <1>6 DEF Requested, InFlight, NextMessageTypes
  <1>8. Spinning(t)'
    BY <1>0, <1>3 DEF Spinning
  <1> QED  BY <1>7, <1>8 DEF ExchangeInv, NextMessageTypes

\* Every other critical section of MQTTClient_run adds no packet of an exchange.
LEMMA ExchangeRun ==
    ASSUME TypeOK, ExchangeInv, RunStep, UNCHANGED appVars
    PROVE  ExchangeInv'
  <1>s. Keeps(toBroker, toBroker, Asking) /\ Keeps(toClient, toClient, Confirming)
    BY KeepsSame
  <1>r. ASSUME NEW type, Reads(type)
        PROVE  /\ Incoming \in Packets /\ Incoming.id \in Nat
               /\ Keeps(toClient, toClient', Confirming)
    <2>1. Incoming \in Packets
      BY <1>r, IncomingType DEF Reads, TypeOK
    <2>2. Keeps(toClient, Tail(toClient), Confirming)
      BY <1>r, KeepsTail DEF Reads, TypeOK, BrokerTypeOK
    <2> QED  BY <1>r, <2>1, <2>2 DEF Reads, Packets
  <1>f. ASSUME Keeps(toBroker, toBroker', Asking), Keeps(toClient, toClient', Confirming),
               runpc # "delivered", runpc' # "delivered",
               UNCHANGED <<outboundMsgs, dt, pc, msgid>>
        PROVE  ExchangeInv'
    BY <1>f, ExchangeFrame
  <1>1. CASE HandlePublishes
    <2>1. Incoming.id \in Nat /\ Keeps(toClient, toClient', Confirming)
      BY <1>1, <1>r DEF HandlePublishes
    <2>2. \A type \in {"PUBACK", "PUBREC"} : Free(<<Reply(type, Incoming.id)>>, Asking)
      BY <2>1, Harmless DEF Topics
    <2>3. Keeps(toBroker, toBroker', Asking)
      BY <1>1, <1>s, <2>2, KeepsWrite DEF HandlePublishes
    <2> QED  BY <1>1, <1>f, <2>1, <2>3 DEF HandlePublishes, Reads
  <1>2. CASE HandlePubrels
    <2>1. Incoming.id \in Nat /\ Keeps(toClient, toClient', Confirming)
      BY <1>2, <1>r DEF HandlePubrels
    <2>2. Free(<<Reply("PUBCOMP", Incoming.id)>>, Asking)
      BY <2>1, Harmless DEF Topics
    <2>3. Keeps(toBroker, toBroker', Asking)
      BY <1>2, <2>2, KeepsWrite DEF HandlePubrels
    <2> QED  BY <1>2, <1>f, <2>1, <2>3 DEF HandlePubrels, Reads
  <1>3. CASE HandleAcks
    BY <1>3, AcksReport
  <1>4. CASE HandlePubrecs
    BY <1>4, PubrecMovesOn
  <1>5. CASE ReturnPack
    <2>1. Keeps(toClient, toClient', Confirming)
      BY <1>5, <1>r DEF ReturnPack
    <2> QED  BY <1>5, <1>f, <1>s, <2>1 DEF ReturnPack, Reads
  <1>6. CASE ReadError \/ RunStops \/ DispatchMessage \/ DispatchPack \/ AfterMessage
    BY <1>6, <1>f, <1>s DEF ReadError, RunStops, DispatchMessage, DispatchPack, AfterMessage,
                            RunExit
  <1>7. CASE DispatchError
    BY <1>7, ExchangeClosed DEF DispatchError, RunExit
  <1> QED  BY <1>1, <1>2, <1>3, <1>4, <1>5, <1>6, <1>7 DEF RunStep

\* The callback hands over the token of the message the publisher waits for, and
\* the exchange is over.
LEMMA ExchangeCallback ==
    ASSUME ExchangeInv, Delivered \/ MsgArrived
    PROVE  ExchangeInv'
  <1>1. CASE Delivered
    <2>1. PICK t \in Pubs : Reported(t)
      BY <1>1 DEF ExchangeInv, Quiet, Requested, Replied, InFlight, Delivered
    <2>2. Quiet'
      BY <1>1, <2>1 DEF Reported, Quiet, Delivered
    <2> QED  BY <2>2 DEF ExchangeInv
  <1>2. CASE MsgArrived
    BY <1>2, KeepsSame, ExchangeFrame DEF MsgArrived
  <1> QED  BY <1>1, <1>2

-----------------------------------------------------------------------------
(* The broker and the other nodes.                                          *)

\* Nothing is sent before, or after, an answer.
LEMMA EmptyBetween ==
    ASSUME NEW s \in Seq(Packets), NEW x \in Seq(Packets), NEW e \in Packets
    PROVE  /\ s \o <<e>> \o x = s \o <<>> \o <<e>> \o x
           /\ s \o x \o <<e>> = s \o x \o <<e>> \o <<>>
  <1>1. s \o <<>> = s
    BY ConcatEmptySeq
  <1>2. s \o x \o <<e>> \in Seq(Packets)
    BY SeqConcat, SeqOfOne
  <1>3. (s \o x \o <<e>>) \o <<>> = s \o x \o <<e>>
    BY <1>2, ConcatEmptySeq
  <1> QED  BY <1>1, <1>3, Zenon

\* What the broker sends for one publication confirms nothing.
LEMMA DeliveriesConfirmNothing ==
    ASSUME BrokerTypeOK, NEW topic \in Topics, NEW d \in Deliveries(topic)
    PROVE  Free(d.sent, Confirming)
  <1>1. PICK id \in Nat : d.sent = <<>> \/ d.sent = <<Packet("PUBLISH", topic, id)>>
    <2>1. CASE topic \notin bsubs \/ TopicQos(topic) = 0
      BY <2>1 DEF Deliveries
    <2>2. CASE topic \in bsubs /\ TopicQos(topic) # 0
      BY <2>2 DEF Deliveries, BrokerIds
    <2> QED  BY <2>1, <2>2
  <1> QED  BY <1>1, KeepsSame, Harmless

\* The broker's answer to the packet of the exchange takes it to its next stage.
LEMMA BrokerReplies ==
    ASSUME ExchangeInv, NEW t \in Pubs, Spinning(t), NEW next \in NextMessageTypes,
           Requested(t, next), BrokerTypeOK, toBroker # <<>>, Received \in Asking,
           toBroker' = Tail(toBroker),
           NEW a, NEW b, Free(a, Confirming), Free(b, Confirming),
           toClient' = toClient \o a \o <<Reply(AnswerTo(Received), Received.id)>> \o b,
           UNCHANGED <<clientVars, appVars>>
    PROVE  ExchangeInv'
  <1> DEFINE e == Reply(AnswerTo(Received), Received.id)
             G == {p \in Packets : p.id = msgid[t] /\ p.type = next}
  <1>1. /\ Received.id = msgid[t] /\ AnswerTo(Received) = next
        /\ Free(Tail(toBroker), Asking)
    BY LastRead DEF Requested, Received
  <1>2. e \in Packets /\ e \in G
    <2>1. e.id = msgid[t] /\ e.type = next
      BY <1>1 DEF Reply, Packet
    <2>2. next \in ReplyTypes /\ Received.id \in Nat
      BY DEF NextMessageTypes, ReplyTypes, Asking, Packets
    <2>3. e \in Packets
      BY <1>1, <2>2, ReplyType
    <2> QED  BY <2>1, <2>3
  <1> HIDE DEF e, G
  <1>3. Free(toClient \o a, Confirming)
    BY KeepsConcat DEF Requested, Keeps, BrokerTypeOK
  <1>4. AtMostOne(toClient \o a \o <<e>>, Confirming, G)
    BY <1>2, <1>3, FirstWritten
  <1>5. AtMostOne(toClient', Confirming, G)
    <2>1. toClient \o a \o <<e>> \in Seq(Packets)
      BY <1>4 DEF AtMostOne
    <2>2. AtMostOne((toClient \o a \o <<e>>) \o b, Confirming, G)
      BY <1>4, <2>1, KeepsConcat DEF Keeps
    <2> QED  BY <2>2 DEF e
  <1>6. Replied(t, next)'
    BY <1>1, <1>5 DEF Replied, Requested, InFlight, G
  <1>7. Spinning(t)'
    BY DEF Spinning
  <1> QED  BY <1>6, <1>7 DEF ExchangeInv

\* Steps of the broker and of the other nodes: only PUBLISH above QoS 0 and PUBREL
\* are answered with a packet the exchange is about.
LEMMA ExchangeOutside ==
    ASSUME TypeOK, ExchangeInv, OutsideStep
    PROVE  ExchangeInv'
  <1>t. BrokerTypeOK /\ toBroker \in Seq(Packets) /\ toClient \in Seq(Packets)
    BY DEF TypeOK, BrokerTypeOK
  <1>s. Keeps(toBroker, toBroker, Asking) /\ Keeps(toClient, toClient, Confirming)
    BY KeepsSame
  <1>0. UNCHANGED <<clientVars, appVars>>
    BY DEF OutsideStep
  <1>f. ASSUME Keeps(toBroker, toBroker', Asking), Keeps(toClient, toClient', Confirming)
        PROVE  ExchangeInv'
    BY <1>0, <1>f, ExchangeFrame
  <1>1. CASE BrokerStep
    <2>0. /\ toBroker # <<>>
          /\ toBroker' = Tail(toBroker)
      BY <1>1 DEF BrokerStep, BrokerSubscribe, BrokerUnsubscribe, BrokerPublish,
                  BrokerPubrel, BrokerAcknowledged, BrokerPubrec, Receives
    <2>1. /\ Received \in Packets /\ Received.id \in Nat
          /\ Received.type = "PUBLISH" => Received.topic \in Topics
          /\ Keeps(toBroker, toBroker', Asking)
      BY <1>t, <2>0, ReceivedType, KeepsTail DEF Packets, RequestTypes, ReplyTypes
    <2>a. ASSUME NEW type \in {"SUBACK", "UNSUBACK", "PUBREL"},
                 toClient' = Append(toClient, Reply(type, Received.id))
          PROVE  ExchangeInv'
      <3>1. Free(<<Reply(type, Received.id)>>, Confirming) /\ Reply(type, Received.id) \in Packets
        BY <2>1, Harmless, ReplyType DEF ReplyTypes, Topics
      <3>2. Append(toClient, Reply(type, Received.id)) = toClient \o <<Reply(type, Received.id)>>
        BY <1>t, <3>1
      <3>3. Keeps(toClient, toClient', Confirming)
        BY <1>t, <2>a, <3>1, <3>2, KeepsConcat
      <3> QED  BY <1>f, <2>1, <3>3
    <2>x. ASSUME Received \in Asking
          PROVE  \E t \in Pubs, next \in NextMessageTypes : Spinning(t) /\ Requested(t, next)
      <3>1. ~Free(toBroker, Asking)
        BY <2>0, <2>x DEF Free, Received
      <3> QED  BY <3>1 DEF ExchangeInv, Quiet, Reported, Replied
    <2>b. ASSUME Received \in Asking, NEW a, NEW b, Free(a, Confirming), Free(b, Confirming),
                 toClient' = toClient \o a \o <<Reply(AnswerTo(Received), Received.id)>> \o b
          PROVE  ExchangeInv'
      <3>1. PICK t \in Pubs, next \in NextMessageTypes : Spinning(t) /\ Requested(t, next)
        BY <2>b, <2>x
      <3> QED  BY <1>t, <1>0, <2>0, <2>b, <3>1, BrokerReplies
    <2>e. Free(<<>>, Confirming)
      BY KeepsSame
    <2>3. CASE BrokerSubscribe
      BY <2>3, <2>a DEF BrokerSubscribe
    <2>4. CASE BrokerUnsubscribe
      BY <2>4, <2>a DEF BrokerUnsubscribe
    <2>5. CASE BrokerPublish
      <3>0. Received.type = "PUBLISH" /\ Received.topic \in Topics
        BY <2>1, <2>5 DEF BrokerPublish, Receives
      <3>1. CASE QOS = 2
        <4>1. Received \in Asking /\ AnswerTo(Received) = "PUBREC"
          BY <2>1, <3>0, <3>1 DEF Asking, AnswerTo
        <4>2. Reply("PUBREC", Received.id) \in Packets
          BY <2>1, ReplyType DEF ReplyTypes
        <4>3. toClient' = toClient \o <<>> \o <<Reply("PUBREC", Received.id)>> \o <<>>
          <5>1. toClient' = Append(toClient, Reply("PUBREC", Received.id))
            BY <2>5, <3>1 DEF BrokerPublish
          <5> HIDE DEF Reply
          <5> QED  BY <1>t, <4>2, <5>1
        <4> QED  BY <2>b, <2>e, <4>1, <4>3
      <3>2. CASE QOS = 1
        <4>1. Received \in Asking /\ AnswerTo(Received) = "PUBACK"
          BY <2>1, <3>0, <3>2 DEF Asking, AnswerTo
        <4>2. Reply("PUBACK", Received.id) \in Packets
          BY <2>1, ReplyType DEF ReplyTypes
        <4>3. PICK d \in Deliveries(Received.topic) :
                  \/ toClient' = toClient \o <<Reply("PUBACK", Received.id)>> \o d.sent
                  \/ toClient' = toClient \o d.sent \o <<Reply("PUBACK", Received.id)>>
          <5>1. QOS # 2 /\ QOS # 0
            BY <3>2
          <5> QED  BY <2>5, <5>1, Zenon DEF BrokerPublish
        <4>4. Free(d.sent, Confirming) /\ d.sent \in Seq(Packets)
          BY <1>t, <3>0, DeliveriesConfirmNothing, DeliveriesType
        <4>5. \/ toClient' = toClient \o <<>> \o <<Reply("PUBACK", Received.id)>> \o d.sent
              \/ toClient' = toClient \o d.sent \o <<Reply("PUBACK", Received.id)>> \o <<>>
          BY <1>t, <4>2, <4>3, <4>4, EmptyBetween
        <4> QED  BY <2>b, <2>e, <4>1, <4>4, <4>5
      <3>3. CASE QOS = 0
        <4>3. PICK d \in Deliveries(Received.topic) :
                  \/ toClient' = toClient \o <<>> \o d.sent
                  \/ toClient' = toClient \o d.sent \o <<>>
          BY <2>5, <3>3 DEF BrokerPublish
        <4>4. Free(d.sent, Confirming) /\ d.sent \in Seq(Packets)
          BY <1>t, <3>0, DeliveriesConfirmNothing, DeliveriesType
        <4>5. toClient' = toClient \o d.sent
          BY <1>t, <4>3, <4>4
        <4> QED  BY <1>f, <1>t, <2>1, <4>4, <4>5, KeepsConcat
      <3> QED  BY <3>1, <3>2, <3>3
    <2>6. CASE BrokerPubrel
      <3>1. Received \in Asking /\ AnswerTo(Received) = "PUBCOMP"
        BY <2>1, <2>6 DEF BrokerPubrel, Receives, Asking, AnswerTo
      <3>2. Reply("PUBCOMP", Received.id) \in Packets
        BY <2>1, ReplyType DEF ReplyTypes
      <3>3. PICK d \in IF Received.id \in bpub THEN Deliveries("topic")
                       ELSE {[sent |-> <<>>, inflight |-> binflight]} :
                \/ toClient' = toClient \o <<Reply("PUBCOMP", Received.id)>> \o d.sent
                \/ toClient' = toClient \o d.sent \o <<Reply("PUBCOMP", Received.id)>>
        BY <2>6 DEF BrokerPubrel
      <3>4. Free(d.sent, Confirming) /\ d.sent \in Seq(Packets)
        <4>1. CASE Received.id \in bpub
          BY <1>t, <4>1, DeliveriesConfirmNothing, DeliveriesType DEF Topics
        <4>2. CASE Received.id \notin bpub
          <5>1. d = [sent |-> <<>>, inflight |-> binflight]
            BY <4>2
          <5>2. d.sent = <<>>
            BY <5>1
          <5> QED  BY <2>e, <5>2
        <4> QED  BY <4>1, <4>2
      <3>5. \/ toClient' = toClient \o <<>> \o <<Reply("PUBCOMP", Received.id)>> \o d.sent
            \/ toClient' = toClient \o d.sent \o <<Reply("PUBCOMP", Received.id)>> \o <<>>
        BY <1>t, <3>2, <3>3, <3>4, EmptyBetween
      <3> QED  BY <2>b, <2>e, <3>1, <3>4, <3>5
    <2>7. CASE BrokerAcknowledged
      BY <2>7, <1>f, <1>s, <2>1 DEF BrokerAcknowledged
    <2>8. CASE BrokerPubrec
      BY <2>8, <2>a DEF BrokerPubrec
    <2> QED  BY <1>1, <2>3, <2>4, <2>5, <2>6, <2>7, <2>8 DEF BrokerStep
  <1>2. CASE OtherPublish \/ KillPublish
    <2>1. PICK topic \in Topics : \E d \in Deliveries(topic) : toClient' = toClient \o d.sent
      BY <1>2 DEF OtherPublish, KillPublish, Topics
    <2>2. Keeps(toClient, toClient', Confirming)
      BY <1>t, <2>1, DeliveriesConfirmNothing, KeepsConcat
    <2> QED  BY <1>2, <1>f, <1>s, <2>2 DEF OtherPublish, KillPublish
  <1>3. CASE LinkDown
    BY <1>3, <1>f, <1>s, KeepsSame DEF LinkDown
  <1> QED  BY <1>1, <1>2, <1>3 DEF OutsideStep, EnvironmentStep

-----------------------------------------------------------------------------
(* The threads and main.                                                    *)

\* Where only the routine of a publisher, or of a subscriber, takes a thread.
PubLabels == {"reset", "publish", "stop_spin", "spin", "sleep"}
SubLabels == {"start", "receiving", "post_stop"}

\* A thread that moves to a label of its own routine, and neither to nor from the
\* part of it where a token is awaited, disturbs nobody's wait.
LEMMA Moves ==
    ASSUME TypeOK, RoutineInv, WaitInv, NEW t \in Threads,
           NEW label \in ThreadStates \ {"publish", "stop_spin", "spin"},
           pc' = [pc EXCEPT ![t] = label], pc[t] # "spin",
           t \in Subs => label \notin PubLabels,
           t \in Pubs => label \notin SubLabels,
           \A u \in Threads : u # t => msgid'[u] = msgid[u],
           UNCHANGED <<deliveredtoken, qos1_pubmutex>>
    PROVE  /\ RoutineInv' /\ WaitInv'
           /\ \A u \in Pubs : pc[u] = "spin" => pc'[u] = "spin" /\ msgid'[u] = msgid[u]
  <1>1. /\ \A u \in Threads : u # t => pc'[u] = pc[u] /\ msgid'[u] = msgid[u]
        /\ pc'[t] = label
    BY DEF TypeOK
  <1>2. Subs \subseteq Threads /\ Pubs \subseteq Threads
    BY DEF Threads
  <1>3. \A u \in Pubs : pc[u] = "spin" => pc'[u] = "spin" /\ msgid'[u] = msgid[u]
    BY <1>1, <1>2
  <1>4. RoutineInv'
    BY <1>1, <1>2 DEF RoutineInv, PubLabels, SubLabels
  <1>5. WaitInv'
    <2>1. \A u \in Pubs :
              /\ pc'[u] \in {"publish", "stop_spin"} => deliveredtoken' = 0
              /\ pc'[u] \in {"spin", "stop_spin"} => msgid'[u] # 0
              /\ pc'[u] = "spin" => deliveredtoken' \in {0, msgid'[u]}
      BY <1>1, <1>2 DEF WaitInv
    <2>2. qos1_pubmutex' = 0 =>
              \E u \in Pubs : pc'[u] = "spin" /\ deliveredtoken' = msgid'[u]
      BY <1>3 DEF WaitInv
    <2> QED  BY <2>1, <2>2 DEF WaitInv
  <1> QED  BY <1>3, <1>4, <1>5

\* The steps of subscribe_thread and publish_thread outside the wait for a token.
LEMMA TokenElsewhere ==
    ASSUME TokenInv, NEW t \in Threads,
           \/ /\ UNCHANGED appVars
              /\ \/ Ask(t, TopicOf(t)) \/ AskError(t) \/ NotConnected(t) \/ Wait(t) \/ Timeout(t)
                 \/ Answered(t, AfterCall(t)) \/ Unanswered(t) \/ Stopped(t, "stop_exit", "exit")
           \/ Calloc(t) \/ DoneReceiving(t) \/ PostStop(t) \/ TryStop(t)
    PROVE  RoutineInv' /\ WaitInv' /\ ExchangeInv'
  <1>i. TypeOK /\ RoutineInv /\ WaitInv /\ ExchangeInv
    BY DEF TokenInv
  <1>s. Keeps(toBroker, toBroker, Asking) /\ Keeps(toClient, toClient, Confirming)
    BY KeepsSame
  <1>k. t \in Subs => t \notin Pubs
    OBVIOUS
  <1>m. ASSUME NEW label \in ThreadStates \ {"publish", "stop_spin", "spin"},
               pc' = [pc EXCEPT ![t] = label], pc[t] # "spin",
               t \in Subs => label \notin PubLabels, t \in Pubs => label \notin SubLabels,
               \A u \in Threads : u # t => msgid'[u] = msgid[u],
               UNCHANGED <<deliveredtoken, qos1_pubmutex, outboundMsgs, dt, runpc, toClient>>,
               Keeps(toBroker, toBroker', Asking)
        PROVE  RoutineInv' /\ WaitInv' /\ ExchangeInv'
    <2>1. /\ RoutineInv' /\ WaitInv'
          /\ \A u \in Pubs : pc[u] = "spin" => pc'[u] = "spin" /\ msgid'[u] = msgid[u]
      BY <1>i, <1>m, Moves
    <2> QED  BY <1>i, <1>m, <1>s, <2>1, ExchangeFrame
  <1>c. ASSUME NEW label \in {"exit", "stop_exit"},
               pc' = [pc EXCEPT ![t] = label], pc[t] # "spin", CloseSession, MutexFree,
               UNCHANGED <<deliveredtoken, qos1_pubmutex, msgid, runpc>>
        PROVE  RoutineInv' /\ WaitInv' /\ ExchangeInv'
    <2>1. RoutineInv' /\ WaitInv'
      BY <1>i, <1>c, Moves DEF ThreadStates, PubLabels, SubLabels
    <2> QED  BY <1>c, <2>1, ExchangeClosed DEF MutexFree
  <1>1. CASE Ask(t, TopicOf(t)) /\ UNCHANGED appVars
    <2>1. PICK id \in 1..MAX_MSG_ID :
              /\ msgid' = [msgid EXCEPT ![t] = id]
              /\ Write(Packet(IF call[t] = "SUBACK" THEN "SUBSCRIBE" ELSE "UNSUBSCRIBE",
                              TopicOf(t), id))
      BY <1>1 DEF Ask
    <2>2. \A type \in {"SUBSCRIBE", "UNSUBSCRIBE"} :
              Free(<<Packet(type, TopicOf(t), id)>>, Asking)
      <3>1. TopicOf(t) \in Topics /\ id \in Nat
        BY DEF TopicOf, Topics
      <3> QED  BY <3>1, Harmless
    <2>3. Keeps(toBroker, toBroker', Asking)
      BY <1>i, <2>1, <2>2, KeepsWrite
    <2>4. \A u \in Threads : u # t => msgid'[u] = msgid[u]
      <3>1. msgid \in [Threads -> 0..MAX_MSG_ID]
        BY <1>i DEF TypeOK
      <3> QED  BY <2>1, <3>1
    <2> QED  BY <1>1, <1>m, <2>3, <2>4 DEF Ask, ThreadStates, PubLabels, SubLabels
  <1>2. CASE AskError(t) /\ UNCHANGED appVars
    BY <1>2, <1>c DEF AskError, DisconnectInternal
  <1>3. CASE NotConnected(t) /\ UNCHANGED appVars
    BY <1>3, <1>m, <1>s DEF NotConnected, ThreadStates, PubLabels, SubLabels
  <1>4. CASE Wait(t) /\ UNCHANGED appVars
    BY <1>4, <1>m, <1>s DEF Wait, ThreadStates, PubLabels, SubLabels
  <1>5. CASE Timeout(t) /\ UNCHANGED appVars
    BY <1>5, <1>m, <1>s DEF Timeout, ThreadStates, PubLabels, SubLabels
  <1>6. CASE Answered(t, AfterCall(t)) /\ UNCHANGED appVars
    <2>1. PICK label \in {"exit", AfterCall(t)} : pc' = [pc EXCEPT ![t] = label]
      BY <1>6 DEF Answered
    <2>2. /\ label \in ThreadStates \ {"publish", "stop_spin", "spin"}
          /\ t \in Subs => label \notin PubLabels
          /\ t \in Pubs => label \notin SubLabels
      BY <1>k DEF AfterCall, ThreadStates, PubLabels, SubLabels
    <2> QED  BY <1>6, <1>m, <1>s, <2>1, <2>2 DEF Answered
  <1>7. CASE Unanswered(t) /\ UNCHANGED appVars
    BY <1>7, <1>c DEF Unanswered, DisconnectInternal
  <1>8. CASE Stopped(t, "stop_exit", "exit") /\ UNCHANGED appVars
    BY <1>8, <1>m, <1>s DEF Stopped, ThreadStates, PubLabels, SubLabels
  <1>9. CASE Calloc(t) \/ PostStop(t)
    BY <1>9, <1>m, <1>s DEF Calloc, PostStop, Calls, LocalStep, ThreadStates, PubLabels, SubLabels
  <1>10. CASE DoneReceiving(t)
    <2>1. t \notin Pubs
      BY <1>i, <1>10 DEF DoneReceiving, RoutineInv
    <2> QED  BY <1>10, <1>m, <1>s, <2>1
             DEF DoneReceiving, Goto, LocalStep, ThreadStates, PubLabels
  <1>11. CASE TryStop(t)
    <2>1. t \notin Subs
      BY <1>i, <1>11 DEF TryStop, RoutineInv
    <2>2. PICK label \in {"ask", "reset"} : pc' = [pc EXCEPT ![t] = label]
      BY <1>11 DEF TryStop, Calls, Goto
    <2> QED  BY <1>11, <1>m, <1>s, <2>1, <2>2
             DEF TryStop, LocalStep, ThreadStates, SubLabels
  <1> QED  BY <1>1, <1>2, <1>3, <1>4, <1>5, <1>6, <1>7, <1>8, <1>9, <1>10, <1>11

\* The steps of publish_thread from the reset of deliveredtoken to the token's
\* arrival.  One publisher resets it only while no exchange is under way.
LEMMA TokenPublisher ==
    ASSUME OnePublisher, TokenInv, NEW t \in Threads,
           \/ /\ UNCHANGED appVars
              /\ Publish(t) \/ PublishError(t) \/ Stopped(t, "stop_spin", "spin")
           \/ ResetToken(t) \/ Acknowledge(t)
    PROVE  RoutineInv' /\ WaitInv' /\ ExchangeInv'
  <1>i. TypeOK /\ RoutineInv /\ WaitInv /\ ExchangeInv
    BY DEF TokenInv
  <1>s. Keeps(toBroker, toBroker, Asking) /\ Keeps(toClient, toClient, Confirming)
    BY KeepsSame
  <1>p. pc[t] \in {"publish", "stop_spin", "reset", "spin"}
    BY DEF Publish, PublishError, CanPublish, Stopped, ResetToken, Acknowledge
  <1>t. t \in Pubs /\ t \notin Subs /\ \A u \in Pubs : u = t
    BY <1>i, <1>p DEF RoutineInv, Threads, OnePublisher
  <1>w. /\ pc[t] \in {"publish", "stop_spin"} => deliveredtoken = 0
        /\ pc[t] \in {"spin", "stop_spin"} => msgid[t] # 0
        /\ qos1_pubmutex = 0 => pc[t] = "spin" /\ deliveredtoken = msgid[t]
    BY <1>i, <1>t DEF WaitInv
  <1>q. ~Spinning(t) => Quiet
    BY <1>i, <1>t, QuietUnlessSpinning
  <1>m. ASSUME NEW label \in {"publish", "stop_spin", "spin", "sleep", "stop_exit", "exit"},
               pc' = [pc EXCEPT ![t] = label],
               label \in {"publish", "stop_spin", "spin"} => deliveredtoken' = 0,
               label \in {"stop_spin", "spin"} => msgid'[t] # 0,
               qos1_pubmutex' # 0
        PROVE  RoutineInv' /\ WaitInv' /\ pc'[t] = label
    <2>1. pc'[t] = label /\ \A u \in Threads : u # t => pc'[u] = pc[u]
      BY <1>i, <1>m DEF TypeOK
    <2>2. RoutineInv'
      BY <1>i, <1>t, <2>1 DEF RoutineInv, Threads
    <2>3. WaitInv'
      BY <1>m, <1>t, <2>1 DEF WaitInv
    <2> QED  BY <2>1, <2>2, <2>3
  <1>1. CASE Publish(t) /\ UNCHANGED appVars
    <2>0. /\ pc[t] = "publish" /\ runpc # "delivered" /\ PublishMessage(t)
          /\ pc' = [pc EXCEPT ![t] = IF QOS = 0 THEN "sleep" ELSE "spin"]
          /\ UNCHANGED <<toClient, runpc, dt, deliveredtoken, qos1_pubmutex>>
      BY <1>1 DEF Publish, CanPublish, MutexFree
    <2>1. Quiet /\ deliveredtoken = 0 /\ qos1_pubmutex # 0
      BY <1>q, <1>w, <2>0 DEF Spinning
    <2>2. CASE QOS = 0
      <3>1. Write(Packet("PUBLISH", "topic", 0)) /\ UNCHANGED <<outboundMsgs, msgid>>
        BY <2>0, <2>2 DEF PublishMessage
      <3>2. Keeps(toBroker, toBroker', Asking)
        BY <1>i, <2>2, <3>1, Harmless, KeepsWrite DEF Topics
      <3>3. RoutineInv' /\ WaitInv'
        BY <1>m, <2>0, <2>1, <2>2
      <3>4. \A u \in Pubs : pc[u] # "spin"
        BY <1>t, <2>0
      <3> QED  BY <1>i, <1>s, <2>0, <3>1, <3>2, <3>3, <3>4, ExchangeFrame
    <2>3. CASE QOS # 0
      <3> DEFINE next == IF QOS = 1 THEN "PUBACK" ELSE "PUBREC"
      <3>1. PICK id \in 1..MAX_MSG_ID :
                /\ msgid' = [msgid EXCEPT ![t] = id]
                /\ outboundMsgs' = outboundMsgs \cup {[msgid |-> id, nextMessageType |-> next]}
                /\ Write(Packet("PUBLISH", "topic", id))
        BY <2>0, <2>3 DEF PublishMessage
      <3>2. msgid'[t] = id /\ id # 0 /\ id \in Nat
        <4>1. msgid \in [Threads -> 0..MAX_MSG_ID]
          BY <1>i DEF TypeOK
        <4> QED  BY <3>1, <4>1
      <3>3. RoutineInv' /\ WaitInv' /\ pc'[t] = "spin"
        BY <1>m, <2>0, <2>1, <2>3, <3>2
      <3>4. outboundMsgs' = {[msgid |-> msgid'[t], nextMessageType |-> next]}
        BY <2>1, <3>1, <3>2 DEF Quiet
      <3>5. next \in NextMessageTypes
        BY DEF NextMessageTypes
      <3>6. AtMostOne(toBroker', Asking, {p \in Packets : p.id = msgid'[t] /\ AnswerTo(p) = next})
        <4> DEFINE e == Packet("PUBLISH", "topic", id)
                   G == {p \in Packets : p.id = msgid'[t] /\ AnswerTo(p) = next}
        <4>1. e \in Packets
          BY <3>2, PacketType DEF RequestTypes, Topics
        <4>2. e.id = id /\ e.type = "PUBLISH"
          BY DEF Packet
        <4>3. e \in G
          BY <3>2, <4>1, <4>2 DEF AnswerTo
        <4>4. toBroker' = IF link THEN Append(toBroker, e) ELSE toBroker
          BY <3>1 DEF Write
        <4>5. Free(toBroker, Asking)
          BY <2>1 DEF Quiet
        <4>6. Append(toBroker, e) = toBroker \o <<e>>
          BY <1>i, <4>1 DEF TypeOK, BrokerTypeOK
        <4> HIDE DEF e, G
        <4>7. AtMostOne(toBroker', Asking, G)
          BY <4>1, <4>3, <4>4, <4>5, <4>6, FirstWritten, FreeAtMostOne
        <4> QED  BY <4>7 DEF G
      <3> HIDE DEF next
      <3>7. Requested(t, next)'
        BY <2>0, <2>1, <3>4, <3>5, <3>6 DEF Requested, InFlight, Quiet
      <3>8. Spinning(t)'
        BY <2>0, <2>1, <3>3 DEF Spinning
      <3> QED  BY <1>t, <3>3, <3>5, <3>7, <3>8 DEF ExchangeInv
    <2> QED  BY <2>2, <2>3
  <1>2. CASE PublishError(t) /\ UNCHANGED appVars
    <2>0. /\ pc[t] = "publish" /\ runpc # "delivered" /\ runpc' = runpc /\ CloseSession
          /\ UNCHANGED <<deliveredtoken, qos1_pubmutex>>
      BY <1>2 DEF PublishError, DisconnectInternal, CanPublish, MutexFree
    <2>1. ExchangeInv'
      BY <2>0, ExchangeClosed
    <2>2. deliveredtoken = 0 /\ qos1_pubmutex # 0
      BY <1>w, <2>0
    <2>3. CASE QOS = 0
      <3>1. PICK label \in {"stop_exit", "exit"} : pc' = [pc EXCEPT ![t] = label]
        BY <1>2, <2>3 DEF PublishError, DisconnectInternal
      <3> QED  BY <1>m, <2>0, <2>1, <2>2, <3>1
    <2>4. CASE QOS # 0
      <3>1. PICK label \in {"stop_spin", "spin"} : pc' = [pc EXCEPT ![t] = label]
        BY <1>2, <2>4 DEF PublishError, DisconnectInternal
      <3>2. PICK id \in 1..MAX_MSG_ID : msgid' = [msgid EXCEPT ![t] = id]
        BY <1>2, <2>4 DEF PublishError
      <3>3. msgid'[t] # 0
        <4>1. msgid \in [Threads -> 0..MAX_MSG_ID]
          BY <1>i DEF TypeOK
        <4> QED  BY <3>2, <4>1
      <3> QED  BY <1>m, <2>0, <2>1, <2>2, <3>1, <3>3
    <2> QED  BY <2>3, <2>4
  <1>3. CASE Stopped(t, "stop_spin", "spin") /\ UNCHANGED appVars
    <2>0. /\ pc[t] = "stop_spin" /\ pc' = [pc EXCEPT ![t] = "spin"]
          /\ UNCHANGED <<toBroker, toClient, outboundMsgs, runpc, dt, msgid, deliveredtoken,
                         qos1_pubmutex>>
      BY <1>3 DEF Stopped
    <2>1. Quiet
      BY <1>q, <2>0 DEF Spinning
    <2>2. Quiet'
      BY <2>0, <2>1 DEF Quiet
    <2> QED  BY <1>m, <1>w, <2>0, <2>2 DEF ExchangeInv
  <1>4. CASE ResetToken(t)
    <2>0. /\ pc[t] = "reset" /\ pc' = [pc EXCEPT ![t] = "publish"] /\ deliveredtoken' = 0
          /\ UNCHANGED <<toBroker, toClient, outboundMsgs, runpc, qos1_pubmutex>>
      BY <1>4 DEF ResetToken, Goto, LocalStep
    <2>1. Quiet
      BY <1>q, <2>0 DEF Spinning
    <2>2. Quiet'
      BY <2>0, <2>1 DEF Quiet
    <2> QED  BY <1>m, <1>w, <2>0, <2>2 DEF ExchangeInv
  <1>5. CASE Acknowledge(t)
    <2>0. /\ pc[t] = "spin" /\ pc' = [pc EXCEPT ![t] = "sleep"] /\ deliveredtoken = msgid[t]
          /\ qos1_pubmutex' = qos1_pubmutex + 1
          /\ UNCHANGED <<toBroker, toClient, outboundMsgs, runpc>>
      BY <1>5 DEF Acknowledge, Goto, LocalStep
    <2>1. Quiet
      BY <1>q, <1>w, <2>0 DEF Spinning
    <2>2. Quiet'
      BY <2>0, <2>1 DEF Quiet
    <2>3. qos1_pubmutex' # 0
      BY <1>i, <2>0 DEF TypeOK
    <2> QED  BY <1>m, <2>0, <2>2, <2>3 DEF ExchangeInv
  <1> QED  BY <1>1, <1>2, <1>3, <1>4, <1>5

\* main starts threads and closes the session; neither disturbs a wait.
LEMMA TokenMain ==
    ASSUME TokenInv, MainStep
    PROVE  RoutineInv' /\ WaitInv' /\ ExchangeInv'
  <1>i. TypeOK /\ RoutineInv /\ WaitInv /\ ExchangeInv
    BY DEF TokenInv
  <1>s. Keeps(toBroker, toBroker, Asking) /\ Keeps(toClient, toClient, Confirming)
    BY KeepsSame
  <1>m. ASSUME NEW t \in Threads, NEW label \in {"start", "ask"}, pc[t] = "idle",
               pc' = [pc EXCEPT ![t] = label], label = "start" => t \in Subs,
               UNCHANGED <<netVars, sessionVars, runVars, msgid, deliveredtoken, qos1_pubmutex>>
        PROVE  RoutineInv' /\ WaitInv' /\ ExchangeInv'
    <2>1. /\ RoutineInv' /\ WaitInv'
          /\ \A u \in Pubs : pc[u] = "spin" => pc'[u] = "spin" /\ msgid'[u] = msgid[u]
      BY <1>i, <1>m, Moves DEF ThreadStates, PubLabels, SubLabels
    <2> QED  BY <1>i, <1>m, <1>s, <2>1, ExchangeFrame
  <1>1. ASSUME NEW t \in Subs, SpawnSub(t)
        PROVE  RoutineInv' /\ WaitInv' /\ ExchangeInv'
    BY <1>1, <1>m DEF SpawnSub, Goto, Threads
  <1>2. ASSUME NEW t \in Pubs, SpawnPub(t)
        PROVE  RoutineInv' /\ WaitInv' /\ ExchangeInv'
    BY <1>2, <1>m DEF SpawnPub, Calls, Threads
  <1>f. ASSUME UNCHANGED <<pc, msgid, deliveredtoken, qos1_pubmutex>>
        PROVE  RoutineInv' /\ WaitInv'
    BY <1>f, <1>i DEF RoutineInv, WaitInv
  <1>3. CASE Disconnect
    <2>1. /\ CloseSession /\ runpc' # "delivered"
          /\ UNCHANGED <<pc, msgid, deliveredtoken, qos1_pubmutex>>
      BY <1>3 DEF Disconnect, MutexFree
    <2> QED  BY <1>f, <2>1, ExchangeClosed
  <1>4. CASE SubsSpawned \/ PubsSpawned \/ JoinSubs \/ SummaryStats \/ JoinPubs
             \/ BackgroundStopped \/ Destroy
    <2>1. UNCHANGED <<netVars, clientVars, deliveredtoken, qos1_pubmutex>>
      BY <1>4 DEF SubsSpawned, PubsSpawned, JoinSubs, SummaryStats, JoinPubs,
                  BackgroundStopped, Advance, Destroy
    <2> QED  BY <1>f, <1>i, <1>s, <2>1, ExchangeFrame
  <1> QED  BY <1>1, <1>2, <1>3, <1>4 DEF MainStep

-----------------------------------------------------------------------------
(* The theorems.                                                            *)

\* Nothing is published before the threads start.
LEMMA TokenInit == Init => TokenInv
  <1> SUFFICES ASSUME Init PROVE TokenInv
    OBVIOUS
  <1>1. Quiet
    BY KeepsSame DEF Init, BrokerInit, ClientInit, Quiet
  <1>2. \A t \in Subs \cup Pubs : pc[t] = "idle"
    BY DEF Init, ClientInit, Threads
  <1>3. RoutineInv /\ WaitInv
    BY <1>2 DEF RoutineInv, WaitInv, Init
  <1> QED  BY <1>1, <1>3, TypeInit DEF TokenInv, ExchangeInv

\* Every step of a process with at most one publisher preserves the invariant.
LEMMA TokenNext ==
    ASSUME OnePublisher
    PROVE  TokenInv /\ [Next]_vars => TokenInv'
  <1> SUFFICES ASSUME TokenInv, [Next]_vars PROVE TokenInv'
    OBVIOUS
  <1>i. TypeOK /\ RoutineInv /\ WaitInv /\ ExchangeInv
    BY DEF TokenInv
  <1>0. TypeOK'
    BY <1>i, TypeNext
  <1>s. Keeps(toBroker, toBroker, Asking) /\ Keeps(toClient, toClient, Confirming)
    BY KeepsSame
  <1>f. ASSUME UNCHANGED <<pc, msgid, deliveredtoken, qos1_pubmutex>>
        PROVE  RoutineInv' /\ WaitInv'
    BY <1>f, <1>i DEF RoutineInv, WaitInv
  <1>1. CASE MainStep
    BY <1>0, <1>1, TokenMain DEF TokenInv
  <1>2. ASSUME NEW t \in Threads, ThreadStep(t)
        PROVE  TokenInv'
    <2>1. CASE ExitFailure(t)
      BY <1>0, <1>f, <1>i, <1>s, <2>1, ExchangeFrame DEF ExitFailure, TokenInv
    <2>2. CASE ~ExitFailure(t)
      BY <1>0, <1>2, <2>2, TokenElsewhere, TokenPublisher DEF ThreadStep, LibraryCall, TokenInv
    <2> QED  BY <2>1, <2>2
  <1>3. CASE RunStep /\ UNCHANGED appVars
    <2>1. UNCHANGED <<pc, msgid, deliveredtoken, qos1_pubmutex>>
      BY <1>3 DEF RunStep, HandlePublishes, HandlePubrels, HandleAcks, HandlePubrecs, ReturnPack,
                  ReadError, RunStops, DispatchError, DispatchMessage, DispatchPack, AfterMessage
    <2> QED  BY <1>0, <1>3, <1>f, <1>i, <2>1, ExchangeRun DEF TokenInv
  <1>4. CASE Delivered
    <2>1. PICK t \in Pubs : Spinning(t) /\ Reported(t)
      BY <1>4, <1>i DEF ExchangeInv, Quiet, Requested, Replied, InFlight, Delivered
    <2>2. /\ \A u \in Pubs : u = t
          /\ pc[t] = "spin" /\ deliveredtoken' = msgid[t] /\ UNCHANGED <<pc, msgid>>
      BY <1>4, <2>1 DEF OnePublisher, Spinning, Reported, Delivered
    <2>3. RoutineInv' /\ WaitInv'
      BY <1>i, <2>2 DEF RoutineInv, WaitInv
    <2> QED  BY <1>0, <1>4, <1>i, <2>3, ExchangeCallback DEF TokenInv
  <1>5. CASE MsgArrived
    <2>1. RoutineInv' /\ WaitInv'
      BY <1>5, <1>f DEF MsgArrived
    <2> QED  BY <1>0, <1>5, <1>i, <2>1, ExchangeCallback DEF TokenInv
  <1>6. CASE OutsideStep
    <2>1. RoutineInv' /\ WaitInv'
      BY <1>6, <1>f DEF OutsideStep
    <2> QED  BY <1>0, <1>6, <1>i, <2>1, ExchangeOutside DEF TokenInv
  <1>7. CASE UNCHANGED vars
    BY <1>0, <1>7, <1>f, <1>i, <1>s, ExchangeFrame DEF vars, TokenInv
  <1> QED  BY <1>1, <1>2, <1>3, <1>4, <1>5, <1>6, <1>7
           DEF Next, ProcessStep, BackgroundStep, Ended

\* The callback delivered never waits for qos1_pubmutex while it holds the library's
\* mutex: true of every process with at most one publisher thread.
THEOREM CallbackNeverBlocks ==
    ASSUME OnePublisher
    PROVE  Spec => []AckNeverBlocks
  <1>1. TokenInv => AckNeverBlocks
    <2> SUFFICES ASSUME TokenInv, runpc = "delivered" PROVE qos1_pubmutex > 0
      BY DEF AckNeverBlocks
    <2>1. PICK t \in Pubs : Spinning(t)
      BY DEF TokenInv, ExchangeInv, Quiet
    <2>2. \A u \in Pubs : u = t
      BY <2>1 DEF OnePublisher
    <2>3. qos1_pubmutex # 0
      BY <2>1, <2>2 DEF TokenInv, WaitInv, Spinning
    <2> QED  BY <2>3 DEF TokenInv, TypeOK
  <1> QED  BY <1>1, TokenInit, TokenNext, PTL DEF Spec

\* The publisher of a process leaves its busy wait only when the message it waits
\* for has been confirmed end to end and is no longer in flight.
THEOREM WaitEndsConfirmed ==
    ASSUME OnePublisher
    PROVE  Spec => []ConfirmedWhenDelivered
  <1>1. TokenInv => ConfirmedWhenDelivered
    <2> SUFFICES ASSUME TokenInv, NEW t \in Pubs, pc[t] = "spin", deliveredtoken = msgid[t]
                 PROVE  msgid[t] \notin InUse
      BY DEF ConfirmedWhenDelivered
    <2>1. ~Spinning(t)
      BY DEF TokenInv, WaitInv, Spinning
    <2>2. Quiet
      BY <2>1, QuietUnlessSpinning DEF TokenInv
    <2> QED  BY <2>2 DEF Quiet, InUse
  <1> QED  BY <1>1, TokenInit, TokenNext, PTL DEF Spec
=============================================================================
