---------------------------- MODULE SessionProofs ----------------------------
(***************************************************************************)
(* A persistent session keeps the promise of Delivery, for every number of *)
(* messages and every QoS, whatever crashes, lost connections, partial     *)
(* writes and retries come in between: Session implements Delivery, and    *)
(* its type invariant holds.                                               *)
(***************************************************************************)
EXTENDS Session, FiniteSetTheorems, SequenceTheorems, TLAPS

USE DEF clientVars, brokerVars

\* The session is kept at both ends (cleansession = 0).
Persistent == CleanSession = FALSE

-----------------------------------------------------------------------------
(* The inductive invariant.                                                *)

Stages == {"PUBACK", "PUBREC", "PUBCOMP"}
Packets == [type : Sending \cup Answering, id : Ids, msg : Nat]
Entries == [id : Ids, msg : Messages, next : Stages]
BrokerEntries == [id : Ids, msg : Nat, next : Stages]
Seqnos == 0..(SeqnoLimit - 1)
Phases == {"new", "submitted", "accepted", "confirmed"}

\* A function from some of the keys in K to values in V.
Table(f, K, V) ==
    /\ f = [k \in DOMAIN f |-> f[k]]
    /\ DOMAIN f \subseteq K
    /\ \A k \in DOMAIN f : f[k] \in V

Fields == {"up", "connected", "partial", "msgID", "outbound", "inbound", "acks", "queue",
           "seqno", "csent", "ccount"}

MemoryType(m) ==
    /\ m = [f \in Fields |-> m[f]]
    /\ m.up \in BOOLEAN /\ m.connected \in BOOLEAN
    /\ m.partial \in Seq(Packets) /\ Len(m.partial) <= 1
    /\ m.msgID \in 0..MaxMsgId
    /\ m.outbound \in Seq(Entries)
    /\ DOMAIN m.inbound \subseteq Ids
    /\ m.acks \in Seq(Packets)
    /\ m.seqno \in Seqnos
    /\ ~m.up => m = Down

DiskFields == {"sent", "pubrel", "rcvd", "queue", "badSent", "badPubrel"}
DiskType(d) ==
    /\ d = [f \in DiskFields |-> d[f]]
    /\ Table(d.sent, Ids, Messages)
    /\ d.pubrel \subseteq Ids
    /\ d.badSent \subseteq Ids /\ d.badPubrel \subseteq Ids
    /\ DOMAIN d.rcvd \subseteq Ids
    /\ DOMAIN d.queue \subseteq Seqnos

NetworkType ==
    /\ toBroker \in Seq(Packets) /\ toClient \in Seq(Packets)
    /\ bout \in Seq(BrokerEntries)
    /\ Table(bpub, Ids, Messages)
    /\ sentIn \in Nat
    /\ phase \in [Messages -> Phases]
    /\ distributed \in [Messages -> Nat]
    /\ reused \in BOOLEAN

TypeInv == MemoryType(mem) /\ DiskType(disk) /\ NetworkType

\* What the client has written, or begun to write, to the connection.
Outgoing == toBroker \o mem.partial

Live(id) == id \in DOMAIN disk.sent
QosOf(id) == OutQos[disk.sent[id]]

\* The broker has distributed the message of a live id, or holds it until its
\* PUBREL comes.
Taken(id) == distributed[disk.sent[id]] > 0
Held(id) == id \in DOMAIN bpub \/ Taken(id)

\* The PUBLISH records on the disk are the messages in outboundMsgs, each under
\* an id of its own, and are messages the application waits for.  The packets
\* that carry a message carry one that was published.
Mirrored ==
    mem.up =>
        /\ \A i \in DOMAIN mem.outbound :
               Live(mem.outbound[i].id) /\ disk.sent[mem.outbound[i].id] = mem.outbound[i].msg
        /\ DOMAIN disk.sent \subseteq OutIds
        /\ \A i, j \in DOMAIN mem.outbound : mem.outbound[i].id = mem.outbound[j].id => i = j
RecordInv ==
    /\ Mirrored
    /\ mem.up => disk.badSent = {} /\ disk.badPubrel = {}
    /\ Cardinality(DOMAIN disk.sent) <= MaxInflight
    /\ \A i, j \in DOMAIN disk.sent : disk.sent[i] = disk.sent[j] => i = j
    /\ \A i \in DOMAIN disk.sent : phase[disk.sent[i]] \in {"submitted", "accepted"}
    /\ \A n \in Messages : phase[n] = "new" => distributed[n] = 0
    /\ \A p \in Range(Outgoing) : p.type = "PUBLISH" => p.msg \in Messages /\ phase[p.msg] # "new"
    /\ \A p \in Range(mem.acks) : p.type # "PUBLISH"
    /\ \A i \in DOMAIN bpub : phase[bpub[i]] # "new"

\* No QoS 2 PUBLISH follows a PUBREL of the same id in s.
InOrder(s) ==
    \A i, j \in DOMAIN s :
        (i < j /\ s[i].type = "PUBREL" /\ s[j].type = "PUBLISH" /\ s[i].id = s[j].id)
            => OutQos[s[j].msg] # 2

\* What is under way for an id belongs to the exchange of the message that has
\* the id now.  A QoS 2 PUBLISH is only about while the message has not been
\* distributed, a PUBREL only once the broker has taken it and the PUBREL record
\* is on the disk.
PublishesInv ==
    /\ \A p \in Range(Outgoing) : p.type = "PUBLISH" =>
           /\ Live(p.id) => disk.sent[p.id] = p.msg
           /\ OutQos[p.msg] = 2 => distributed[p.msg] = 0
    /\ InOrder(Outgoing)
PubrelsInv ==
    /\ \A p \in Range(Outgoing) : p.type = "PUBREL" /\ Live(p.id) => p.id \in disk.pubrel
    /\ \A p \in Range(mem.acks) : p.type = "PUBREL" =>
           \A i \in DOMAIN mem.outbound :
               mem.outbound[i].id = p.id => mem.outbound[i].next = "PUBCOMP"
    /\ \A id \in DOMAIN disk.sent \cap disk.pubrel : QosOf(id) = 2 /\ Held(id)
    /\ \A id \in DOMAIN disk.sent \ disk.pubrel : QosOf(id) = 2 => ~Taken(id)
    /\ \A id \in disk.badPubrel : Live(id) => QosOf(id) = 2 /\ Held(id)
StagesInv ==
    \A i \in DOMAIN mem.outbound :
        LET e == mem.outbound[i]
        IN  /\ e.next = "PUBACK" => QosOf(e.id) = 1
            /\ e.next = "PUBREC" => QosOf(e.id) = 2 /\ e.id \notin disk.pubrel
            /\ e.next = "PUBCOMP" => QosOf(e.id) = 2 /\ Held(e.id)
AnswersInv ==
    \A p \in Range(toClient) : Live(p.id) =>
        /\ p.type = "PUBREC" => QosOf(p.id) = 2 /\ Held(p.id)
        /\ p.type = "PUBCOMP" => QosOf(p.id) = 2 /\ Taken(p.id)
        /\ p.type = "PUBACK" => Taken(p.id)
BrokerInv ==
    \A id \in DOMAIN bpub :
        /\ Live(id) => bpub[id] = disk.sent[id]
        /\ OutQos[bpub[id]] = 2 /\ distributed[bpub[id]] = 0

\* A QoS 2 message has one id for good: its record on the disk may be lost in a
\* crash, but what is under way of it, or at the broker, does not meet it again
\* under another id.
Carries(id, n) ==
    \/ \E p \in Range(Outgoing) : p.type = "PUBLISH" /\ p.id = id /\ p.msg = n
    \/ id \in DOMAIN bpub /\ bpub[id] = n
    \/ Live(id) /\ disk.sent[id] = n
OneNameInv ==
    \A n \in Messages : OutQos[n] = 2 =>
        \A i, j \in Ids : Carries(i, n) /\ Carries(j, n) => i = j

ExchangeInv ==
    PublishesInv /\ PubrelsInv /\ StagesInv /\ AnswersInv /\ BrokerInv /\ OneNameInv

SessionInv == TypeInv /\ RecordInv /\ (~Confused => ExchangeInv)

-----------------------------------------------------------------------------
(* Sequences of packets.                                                   *)

\* What reading the head of a channel leaves.
LEMMA RangeTail ==
    ASSUME NEW S, NEW s \in Seq(S), s # <<>>
    PROVE  /\ Head(s) \in S /\ Tail(s) \in Seq(S)
           /\ Head(s) \in Range(s)
           /\ Range(Tail(s)) \subseteq Range(s)
  <1>1. /\ Len(s) \in Nat \ {0} /\ Head(s) = s[1] /\ 1 \in 1..Len(s)
        /\ Tail(s) \in Seq(S) /\ Len(Tail(s)) = Len(s) - 1
        /\ DOMAIN Tail(s) = 1..(Len(s) - 1) /\ DOMAIN s = 1..Len(s)
        /\ \A i \in 1..(Len(s) - 1) : i + 1 \in 1..Len(s) /\ Tail(s)[i] = s[i + 1]
    OBVIOUS
  <1>2. s[1] \in S
    BY <1>1
  <1> QED  BY <1>1, <1>2 DEF Range

\* What appending to a channel adds, and the shortest sequences.
LEMMA RangeAppend ==
    ASSUME NEW S, NEW s \in Seq(S), NEW e \in S
    PROVE  /\ Append(s, e) \in Seq(S) /\ Range(Append(s, e)) = Range(s) \cup {e}
           /\ s \o <<e>> = Append(s, e)
  <1>1. /\ Append(s, e) \in Seq(S) /\ DOMAIN Append(s, e) = 1..(Len(s) + 1)
        /\ Len(s) \in Nat /\ DOMAIN s = 1..Len(s)
        /\ \A i \in 1..Len(s) : Append(s, e)[i] = s[i]
        /\ Append(s, e)[Len(s) + 1] = e
    OBVIOUS
  <1>2. \A i \in 1..(Len(s) + 1) : i \in 1..Len(s) \/ i = Len(s) + 1
    BY <1>1
  <1>3. s \o <<e>> = Append(s, e)
    BY AppendIsConcat
  <1> QED  BY <1>1, <1>2, <1>3 DEF Range

LEMMA RangeShort ==
    /\ Range(<<>>) = {}
    /\ \A e : Range(<<e>>) = {e}
  BY DEF Range

\* The elements of a sequence.
LEMMA InRange ==
    ASSUME NEW S, NEW s \in Seq(S)
    PROVE  /\ Len(s) \in Nat /\ DOMAIN s = 1..Len(s)
           /\ Range(s) \subseteq S
           /\ \A i \in DOMAIN s : s[i] \in Range(s)
           /\ \A e \in Range(s) : \E i \in DOMAIN s : s[i] = e
  <1>1. Len(s) \in Nat /\ DOMAIN s = 1..Len(s) /\ s \in [1..Len(s) -> S]
    OBVIOUS
  <1> QED  BY <1>1 DEF Range

\* InOrder is kept when the head is read; after a PUBREL no QoS 2 PUBLISH with its
\* id follows.
LEMMA InOrderTail ==
    ASSUME NEW s \in Seq(Packets), s # <<>>, InOrder(s)
    PROVE  /\ InOrder(Tail(s))
           /\ Head(s).type = "PUBREL" =>
                  \A p \in Range(Tail(s)) :
                      p.type = "PUBLISH" /\ p.id = Head(s).id => OutQos[p.msg] # 2
  <1>1. /\ Len(s) \in Nat \ {0} /\ Head(s) = s[1] /\ 1 \in DOMAIN s
        /\ DOMAIN Tail(s) = 1..(Len(s) - 1) /\ DOMAIN s = 1..Len(s)
        /\ \A i \in DOMAIN Tail(s) : i + 1 \in DOMAIN s /\ Tail(s)[i] = s[i + 1] /\ i \in Nat /\ i > 0
    OBVIOUS
  <1>2. InOrder(Tail(s))
    <2> SUFFICES ASSUME NEW i \in DOMAIN Tail(s), NEW j \in DOMAIN Tail(s), i < j,
                        Tail(s)[i].type = "PUBREL", Tail(s)[j].type = "PUBLISH",
                        Tail(s)[i].id = Tail(s)[j].id
                 PROVE  OutQos[Tail(s)[j].msg] # 2
      BY DEF InOrder
    <2>1. /\ i + 1 \in DOMAIN s /\ j + 1 \in DOMAIN s /\ i + 1 < j + 1
          /\ Tail(s)[i] = s[i + 1] /\ Tail(s)[j] = s[j + 1]
      BY <1>1
    <2> QED  BY <2>1 DEF InOrder
  <1>3. ASSUME Head(s).type = "PUBREL", NEW i \in DOMAIN Tail(s),
               Tail(s)[i].type = "PUBLISH", Tail(s)[i].id = Head(s).id
        PROVE  OutQos[Tail(s)[i].msg] # 2
    <2>1. 1 < i + 1
      BY <1>1
    <2> QED  BY <1>1, <1>3, <2>1 DEF InOrder
  <1> QED  BY <1>2, <1>3 DEF Range

\* InOrder of a concatenation, and of its first part.
LEMMA InOrderConcat ==
    ASSUME NEW s \in Seq(Packets), NEW t \in Seq(Packets)
    PROVE  /\ InOrder(s \o t) => InOrder(s)
           /\ (/\ InOrder(s) /\ InOrder(t)
               /\ \A p \in Range(s), q \in Range(t) :
                      p.type = "PUBREL" /\ q.type = "PUBLISH" /\ p.id = q.id => OutQos[q.msg] # 2)
              => InOrder(s \o t)
  <1>1. /\ Len(s) \in Nat /\ Len(t) \in Nat
        /\ DOMAIN s = 1..Len(s) /\ DOMAIN t = 1..Len(t) /\ DOMAIN (s \o t) = 1..(Len(s) + Len(t))
        /\ \A i \in 1..Len(s) : (s \o t)[i] = s[i] /\ s[i] \in Range(s)
        /\ \A i \in 1..(Len(s) + Len(t)) : i > Len(s) =>
               (s \o t)[i] = t[i - Len(s)] /\ i - Len(s) \in 1..Len(t) /\ t[i - Len(s)] \in Range(t)
    <2>1. /\ s \o t \in Seq(Packets) /\ Len(s \o t) = Len(s) + Len(t)
          /\ \A i \in 1 .. Len(s) + Len(t) : (s \o t)[i] = IF i <= Len(s) THEN s[i] ELSE t[i - Len(s)]
      BY ConcatProperties
    <2>2. /\ Len(s) \in Nat /\ Len(t) \in Nat /\ DOMAIN s = 1..Len(s) /\ DOMAIN t = 1..Len(t)
          /\ DOMAIN (s \o t) = 1..(Len(s) + Len(t))
      BY <2>1
    <2>3. ASSUME NEW i \in 1..Len(s)
          PROVE  (s \o t)[i] = s[i] /\ s[i] \in Range(s)
      <3>1. i \in 1 .. Len(s) + Len(t) /\ i <= Len(s)
        BY <2>2
      <3> QED  BY <2>1, <2>2, <3>1 DEF Range
    <2>4. ASSUME NEW i \in 1..(Len(s) + Len(t)), i > Len(s)
          PROVE  (s \o t)[i] = t[i - Len(s)] /\ i - Len(s) \in 1..Len(t) /\ t[i - Len(s)] \in Range(t)
      <3>1. ~(i <= Len(s)) /\ i - Len(s) \in 1..Len(t)
        BY <2>2, <2>4
      <3> QED  BY <2>1, <2>2, <3>1 DEF Range
    <2> QED  BY <2>2, <2>3, <2>4
  <1>2. InOrder(s \o t) => InOrder(s)
    <2> SUFFICES ASSUME InOrder(s \o t), NEW i \in DOMAIN s, NEW j \in DOMAIN s, i < j,
                        s[i].type = "PUBREL", s[j].type = "PUBLISH", s[i].id = s[j].id
                 PROVE  OutQos[s[j].msg] # 2
      BY DEF InOrder
    <2>1. i \in DOMAIN (s \o t) /\ j \in DOMAIN (s \o t) /\ (s \o t)[i] = s[i] /\ (s \o t)[j] = s[j]
      BY <1>1
    <2> QED  BY <2>1 DEF InOrder
  <1>3. ASSUME InOrder(s), InOrder(t),
               \A p \in Range(s), q \in Range(t) :
                   p.type = "PUBREL" /\ q.type = "PUBLISH" /\ p.id = q.id => OutQos[q.msg] # 2
        PROVE  InOrder(s \o t)
    <2> SUFFICES ASSUME NEW i \in DOMAIN (s \o t), NEW j \in DOMAIN (s \o t), i < j,
                        (s \o t)[i].type = "PUBREL", (s \o t)[j].type = "PUBLISH",
                        (s \o t)[i].id = (s \o t)[j].id
                 PROVE  OutQos[(s \o t)[j].msg] # 2
      BY DEF InOrder
    <2>1. CASE j <= Len(s)
      <3>1. i \in DOMAIN s /\ j \in DOMAIN s /\ (s \o t)[i] = s[i] /\ (s \o t)[j] = s[j]
        BY <1>1, <2>1
      <3> QED  BY <1>3, <3>1 DEF InOrder
    <2>2. CASE j > Len(s) /\ i <= Len(s)
      <3>1. (s \o t)[i] \in Range(s) /\ (s \o t)[j] \in Range(t)
        BY <1>1, <2>2
      <3> QED  BY <1>3, <2>2, <3>1
    <2>3. CASE i > Len(s)
      <3>1. /\ i - Len(s) \in DOMAIN t /\ j - Len(s) \in DOMAIN t /\ i - Len(s) < j - Len(s)
            /\ (s \o t)[i] = t[i - Len(s)] /\ (s \o t)[j] = t[j - Len(s)]
        BY <1>1, <2>3
      <3> QED  BY <1>3, <3>1 DEF InOrder
    <2> QED  BY <1>1, <2>1, <2>2, <2>3
  <1> QED  BY <1>2, <1>3

-----------------------------------------------------------------------------
(* What the model's CHOOSE expressions choose.                             *)

\* A set of natural numbers has a least and, if bounded, a greatest element.
LEMMA LeastElement ==
    ASSUME NEW T, T \subseteq Nat, T # {}
    PROVE  \E x \in T : \A y \in T : x <= y
  <1>1. PICK x \in T : \A y \in T : <<y, x>> \notin OpToRel(<, Nat)
    BY NatLessThanWellFounded, WFMin
  <1>2. \A y \in T : ~(y < x)
    BY <1>1 DEF OpToRel
  <1> QED  BY <1>2

LEMMA GreatestElement ==
    ASSUME NEW M \in Nat, NEW T, T \subseteq 0..M, T # {}
    PROVE  /\ \E x \in T : \A y \in T : x >= y
           /\ Max(T) \in T
  <1> DEFINE U == {M - x : x \in T}
  <1>1. U \subseteq Nat /\ U # {}
    <2>1. PICK t \in T : TRUE
      OBVIOUS
    <2>2. M - t \in U
      OBVIOUS
    <2> QED  BY <2>2
  <1>2. PICK u \in U : \A v \in U : u <= v
    BY <1>1, LeastElement
  <1>3. PICK x \in T : u = M - x
    OBVIOUS
  <1>4. \A y \in T : M - x <= M - y
    BY <1>2, <1>3
  <1>5. \A y \in T : x >= y
    <2> SUFFICES ASSUME NEW y \in T PROVE x >= y
      OBVIOUS
    <2>1. M - x <= M - y
      BY <1>4
    <2> HIDE DEF U
    <2>2. \A z \in T : z \in Int
      OBVIOUS
    <2> QED  BY <2>1, <2>2
  <1> QED  BY <1>5 DEF Max

\* Ascending(S) lists S once, in order.
LEMMA AscendingProperties ==
    ASSUME NEW M \in Nat, NEW S, S \subseteq 0..M
    PROVE  /\ Cardinality(S) \in Nat
           /\ Ascending(S) \in [1..Cardinality(S) -> S]
           /\ \A i, j \in 1..Cardinality(S) : Ascending(S)[i] = Ascending(S)[j] => i = j
           /\ \A k \in S : \E i \in 1..Cardinality(S) : Ascending(S)[i] = k
  <1> DEFINE n == Cardinality(S)
             Upto(k) == {j \in S : j <= k}
             rank == [k \in S |-> Cardinality(Upto(k))]
             Sorts(f) == \A i, j \in 1..n : i < j => f[i] < f[j]
  <1>0. /\ \A a \in S : a \in Nat
        /\ \A a, b \in S : a < b \/ a = b \/ b < a
    <2>1. \A a \in S : a \in Nat
      OBVIOUS
    <2> QED  BY <2>1
  <1>1. IsFiniteSet(S) /\ n \in Nat
    <2>1. IsFiniteSet(0..M)
      BY FS_Interval
    <2>2. IsFiniteSet(S)
      BY <2>1, FS_Subset
    <2> QED  BY <2>2, FS_CardinalityType
  <1>2. IsFiniteSet(1..n) /\ Cardinality(1..n) = n
    BY <1>1, FS_Interval
  <1>3. ASSUME NEW k \in S
        PROVE  IsFiniteSet(Upto(k)) /\ rank[k] \in 1..n
    <2>1. /\ IsFiniteSet(Upto(k)) /\ Cardinality(Upto(k)) \in Nat
          /\ Cardinality(Upto(k)) <= n
      BY <1>1, FS_Subset, FS_CardinalityType
    <2>2. k \in Upto(k)
      OBVIOUS
    <2>3. Cardinality(Upto(k)) # 0
      BY <2>1, <2>2, FS_EmptySet
    <2> QED  BY <1>1, <2>1, <2>3
  <1>4. ASSUME NEW j \in S, NEW k \in S, j < k
        PROVE  rank[j] < rank[k]
    <2>1. j \in Nat /\ k \in Nat /\ \A a \in S : a \in Nat /\ (a <= j => a <= k)
      BY <1>0, <1>4
    <2>2. ~(k <= j) /\ k <= k
      BY <2>1, <1>4
    <2>3. Upto(j) \subseteq Upto(k) /\ k \in Upto(k) /\ k \notin Upto(j)
      BY <2>1, <2>2
    <2>4. Cardinality(Upto(j)) <= Cardinality(Upto(k)) /\ Cardinality(Upto(j)) # Cardinality(Upto(k))
      BY <1>3, <2>3, FS_Subset
    <2> QED  BY <1>3, <2>4
  <1>5. rank \in Injection(S, 1..n)
    <2>1. rank \in [S -> 1..n]
      BY <1>3
    <2>2. \A j, k \in S : rank[j] = rank[k] => j = k
      <3> SUFFICES ASSUME NEW j \in S, NEW k \in S, rank[j] = rank[k], j # k
                   PROVE  FALSE
        OBVIOUS
      <3>1. j < k \/ k < j
        OBVIOUS
      <3>2. rank[j] \in Int /\ rank[k] \in Int /\ ~(rank[j] < rank[k]) /\ ~(rank[k] < rank[j])
        BY <2>1
      <3> QED  BY <1>4, <3>1, <3>2
    <2> HIDE DEF rank, n
    <2> QED  BY <2>1, <2>2 DEF Injection, IsInjective
  <1>6. rank \in Surjection(S, 1..n)
    <2> HIDE DEF rank, n
    <2>1. Cardinality(S) = Cardinality(1..n)
      BY <1>2 DEF n
    <2> QED  BY <1>2, <1>5, <2>1, FS_Injection
  <1>7. \A i \in 1..n : \E k \in S : rank[k] = i
    <2> HIDE DEF rank, n
    <2> QED  BY <1>6 DEF Surjection
  <1> DEFINE g == [i \in 1..n |-> CHOOSE k \in S : rank[k] = i]
  <1>8. \A i \in 1..n : g[i] \in S /\ rank[g[i]] = i
    <2> HIDE DEF rank, n
    <2> QED  BY <1>7
  <1>9. g \in [1..n -> S]
    BY <1>8
  <1>10. Sorts(g)
    <2> SUFFICES ASSUME NEW i \in 1..n, NEW j \in 1..n, i < j, ~(g[i] < g[j])
                 PROVE  FALSE
      OBVIOUS
    <2> HIDE DEF g, rank, n
    <2>1. g[i] \in S /\ g[j] \in S /\ rank[g[i]] = i /\ rank[g[j]] = j
      BY <1>8
    <2>2. g[j] < g[i] \/ g[i] = g[j]
      BY <1>0, <2>1
    <2>3. i \in Int /\ j \in Int
      BY <1>1
    <2>4. CASE g[j] < g[i]
      <3>1. rank[g[j]] < rank[g[i]]
        BY <1>4, <2>1, <2>4
      <3> QED  BY <2>1, <2>3, <3>1
    <2>5. CASE g[i] = g[j]
      BY <2>1, <2>3, <2>5
    <2> QED  BY <2>2, <2>4, <2>5
  <1> DEFINE f == Ascending(S)
  <1>11. f \in [1..n -> S] /\ Sorts(f)
    <2> HIDE DEF g
    <2> QED  BY <1>9, <1>10 DEF Ascending
  <1> HIDE DEF f
  <1>12. \A i, j \in 1..n : f[i] = f[j] => i = j
    <2> SUFFICES ASSUME NEW i \in 1..n, NEW j \in 1..n, f[i] = f[j], i # j
                 PROVE  FALSE
      OBVIOUS
    <2>1. i < j \/ j < i
      BY <1>1
    <2>2. f[i] \in Nat /\ f[j] \in Nat
      BY <1>0, <1>11
    <2> QED  BY <1>11, <2>1, <2>2
  <1>13. f \in Injection(1..n, S)
    <2> HIDE DEF n
    <2> QED  BY <1>11, <1>12 DEF Injection, IsInjective
  <1>14. f \in Surjection(1..n, S)
    <2>1. Cardinality(1..n) = Cardinality(S)
      BY <1>2
    <2> HIDE DEF n
    <2> QED  BY <1>1, <1>13, <2>1, FS_Injection
  <1>15. \A k \in S : \E i \in 1..n : f[i] = k
    <2> HIDE DEF n
    <2> QED  BY <1>14 DEF Surjection
  <1> QED  BY <1>1, <1>11, <1>12, <1>15 DEF f

\* What % leaves is below the divisor.
LEMMA ModuloRange ==
    ASSUME NEW a \in Int, NEW b \in Nat \ {0}
    PROVE  a % b \in 0..(b - 1)
  OBVIOUS

\* MQTTProtocol_assignMsgId finds an id, and one that is not in outboundMsgs.
LEMMA AssignedIdIsFree ==
    ASSUME OutIds \subseteq Ids, Cardinality(OutIds) <= MaxInflight, mem.msgID \in Int
    PROVE  AssignMsgId \in Ids \ OutIds
  <1> DEFINE after(i) == (i - mem.msgID - 1) % MaxMsgId
             free == Ids \ OutIds
  <1>1. MaxMsgId \in Nat \ {0} /\ MaxInflight \in Nat /\ MaxInflight < MaxMsgId
    BY SessionAssumption
  <1>2. IsFiniteSet(Ids) /\ Cardinality(Ids) = MaxMsgId
    BY <1>1, FS_Interval DEF Ids
  <1>3. free # {}
    <2> SUFFICES ASSUME free = {} PROVE FALSE
      OBVIOUS
    <2>1. OutIds = Ids
      OBVIOUS
    <2> QED  BY <1>1, <1>2, <2>1
  <1>4. \A i \in Ids : after(i) \in Nat
    <2> SUFFICES ASSUME NEW i \in Ids PROVE after(i) \in Nat
      OBVIOUS
    <2>1. i - mem.msgID - 1 \in Int
      BY DEF Ids
    <2> QED  BY <1>1, <2>1, ModuloRange
  <1> DEFINE T == {after(i) : i \in free}
  <1>5. T \subseteq Nat /\ T # {}
    <2>1. T \subseteq Nat
      BY <1>4
    <2>2. PICK i \in free : TRUE
      BY <1>3
    <2>3. after(i) \in T
      OBVIOUS
    <2> QED  BY <2>1, <2>3
  <1>6. PICK x \in T : \A y \in T : x <= y
    <2> HIDE DEF T
    <2> QED  BY <1>5, LeastElement
  <1>7. PICK i \in free : x = after(i)
    OBVIOUS
  <1>8. \A j \in free : after(i) <= after(j)
    BY <1>6, <1>7
  <1> HIDE DEF after
  <1>9. AssignMsgId = CHOOSE k \in free : \A j \in free : after(k) <= after(j)
    BY DEF AssignMsgId, after
  <1> QED  BY <1>8, <1>9

\* WrapMsgID turns a list of entries round: it loses and repeats none.
LEMMA WrapKeepsEntries ==
    ASSUME NEW s \in Seq(Entries)
    PROVE  /\ WrapMsgID(s) \in Seq(Entries)
           /\ Len(WrapMsgID(s)) = Len(s)
           /\ Range(WrapMsgID(s)) = Range(s)
  <1>1. CASE s = <<>>
    BY <1>1 DEF WrapMsgID
  <1>2. CASE s # <<>>
    <2> DEFINE gap(i) == IF i = 1 THEN MaxMsgId - Last(s).id + s[1].id ELSE s[i].id - s[i - 1].id
               first == CHOOSE i \in DOMAIN s : \A j \in DOMAIN s :
                            gap(i) > gap(j) \/ (gap(i) = gap(j) /\ i <= j)
               n == Len(s)
    <2>1. MaxMsgId \in Nat \ {0}
      BY SessionAssumption
    <2>2. n \in Nat \ {0} /\ DOMAIN s = 1..n
      BY <1>2
    <2>3. \A i \in 1..n : s[i].id \in 1..MaxMsgId
      <3>1. \A i \in 1..n : s[i] \in Entries
        BY <2>2
      <3> QED  BY <3>1 DEF Entries, Ids
    <2>4. \A i \in 1..n : gap(i) \in Int /\ MaxMsgId + gap(i) \in 0..(3 * MaxMsgId)
      <3> SUFFICES ASSUME NEW i \in 1..n
                   PROVE  gap(i) \in Int /\ MaxMsgId + gap(i) \in 0..(3 * MaxMsgId)
        OBVIOUS
      <3>1. CASE i = 1
        <4>1. Last(s).id \in 1..MaxMsgId /\ s[1].id \in 1..MaxMsgId
          BY <2>2, <2>3 DEF Last
        <4>2. gap(i) = MaxMsgId - Last(s).id + s[1].id
          BY <3>1
        <4> HIDE DEF gap
        <4> QED  BY <2>1, <4>1, <4>2
      <3>2. CASE i # 1
        <4>1. s[i].id \in 1..MaxMsgId /\ s[i - 1].id \in 1..MaxMsgId
          BY <2>2, <2>3, <3>2
        <4>2. gap(i) = s[i].id - s[i - 1].id
          BY <3>2
        <4> HIDE DEF gap
        <4> QED  BY <2>1, <4>1, <4>2
      <3> QED  BY <3>1, <3>2
    <2> HIDE DEF gap
    <2> DEFINE T == {MaxMsgId + gap(i) : i \in 1..n}
    <2>5. PICK x \in T : \A y \in T : x >= y
      <3>1. T \subseteq 0..(3 * MaxMsgId) /\ 3 * MaxMsgId \in Nat
        BY <2>1, <2>4
      <3>2. T # {}
        <4>1. 1 \in 1..n
          BY <2>2
        <4>2. MaxMsgId + gap(1) \in T
          BY <4>1
        <4> QED  BY <4>2
      <3> HIDE DEF T
      <3> QED  BY <3>1, <3>2, GreatestElement
    <2> DEFINE I == {i \in 1..n : MaxMsgId + gap(i) = x}
    <2>6. PICK best \in I : \A j \in I : best <= j
      <3>1. I \subseteq Nat
        OBVIOUS
      <3>2. I # {}
        OBVIOUS
      <3> HIDE DEF I
      <3> QED  BY <3>1, <3>2, LeastElement
    <2>7. \A j \in 1..n : gap(best) > gap(j) \/ (gap(best) = gap(j) /\ best <= j)
      <3> SUFFICES ASSUME NEW j \in 1..n PROVE gap(best) > gap(j) \/ (gap(best) = gap(j) /\ best <= j)
        OBVIOUS
      <3>1. MaxMsgId + gap(j) \in T /\ MaxMsgId + gap(best) = x
        OBVIOUS
      <3>2. MaxMsgId + gap(best) >= MaxMsgId + gap(j)
        BY <2>5, <3>1
      <3>3. gap(best) \in Int /\ gap(j) \in Int
        BY <2>4
      <3>4. MaxMsgId + gap(best) = MaxMsgId + gap(j) => best <= j
        BY <2>6, <3>1
      <3>5. gap(best) > gap(j) \/ gap(best) = gap(j)
        <4> HIDE DEF gap
        <4> QED  BY <2>1, <3>2, <3>3
      <3>6. gap(best) = gap(j) => best <= j
        BY <3>4
      <3> QED  BY <3>5, <3>6
    <2>8. first \in 1..n
      <3>1. \E k \in DOMAIN s : \A j \in DOMAIN s :
                gap(k) > gap(j) \/ (gap(k) = gap(j) /\ k <= j)
        BY <2>2, <2>7
      <3> HIDE DEF gap
      <3>2. first \in DOMAIN s
        BY <3>1, Zenon
      <3> QED  BY <2>2, <3>2
    <2>9. WrapMsgID(s) = SubSeq(s, first, n) \o SubSeq(s, 1, first - 1)
      BY <1>2 DEF WrapMsgID, gap
    <2> HIDE DEF first, gap
    <2> DEFINE a == SubSeq(s, first, n)
               b == SubSeq(s, 1, first - 1)
    <2>10. /\ a \in Seq(Entries) /\ Len(a) = n - first + 1
           /\ \A i \in 1..(n - first + 1) : a[i] = s[first + i - 1]
      <3>1. first \in Int /\ n \in Int /\ first <= n /\ \A i \in first..n : s[i] \in Entries
        BY <2>2, <2>8
      <3> QED  BY <3>1, SubSeqProperties
    <2>11. /\ b \in Seq(Entries) /\ Len(b) = first - 1
           /\ \A i \in 1..(first - 1) : b[i] = s[i]
      <3>1. /\ 1 \in Int /\ first - 1 \in Int /\ \A i \in 1..(first - 1) : s[i] \in Entries
        BY <2>2, <2>8
      <3>2. /\ b \in Seq(Entries) /\ Len(b) = IF 1 <= first - 1 THEN (first - 1) - 1 + 1 ELSE 0
            /\ \A i \in 1 .. ((first - 1) - 1 + 1) : b[i] = s[1 + i - 1]
        BY <3>1, SubSeqProperties
      <3> QED  BY <2>2, <2>8, <3>2
    <2> HIDE DEF a, b
    <2>12. /\ WrapMsgID(s) \in Seq(Entries) /\ Len(WrapMsgID(s)) = n
           /\ Range(WrapMsgID(s)) = Range(a) \cup Range(b)
      <3>1. WrapMsgID(s) = a \o b
        BY <2>9 DEF a, b
      <3>2. a \o b \in Seq(Entries) /\ Len(a \o b) = Len(a) + Len(b)
        BY <2>10, <2>11, ConcatProperties
      <3>3. Range(a \o b) = Range(a) \cup Range(b)
        BY <2>10, <2>11, RangeConcatenation
      <3>4. (n - first + 1) + (first - 1) = n
        BY <2>2, <2>8
      <3> QED  BY <2>10, <2>11, <3>1, <3>2, <3>3, <3>4
    <2>13. Range(a) \cup Range(b) \subseteq Range(s)
      <3>1. DOMAIN a = 1..(n - first + 1) /\ DOMAIN b = 1..(first - 1)
        BY <2>10, <2>11
      <3>2. /\ \A i \in 1..(n - first + 1) : first + i - 1 \in 1..n
            /\ \A i \in 1..(first - 1) : i \in 1..n
        BY <2>2, <2>8
      <3> QED  BY <2>2, <2>10, <2>11, <3>1, <3>2 DEF Range
    <2>14. Range(s) \subseteq Range(a) \cup Range(b)
      <3> SUFFICES ASSUME NEW i \in 1..n PROVE s[i] \in Range(a) \cup Range(b)
        BY <2>2 DEF Range
      <3>1. DOMAIN a = 1..(n - first + 1) /\ DOMAIN b = 1..(first - 1)
        BY <2>10, <2>11
      <3>2. CASE i < first
        <4>1. i \in 1..(first - 1)
          BY <2>2, <2>8, <3>2
        <4> QED  BY <2>11, <3>1, <4>1 DEF Range
      <3>3. CASE i >= first
        <4>1. i - first + 1 \in 1..(n - first + 1) /\ first + (i - first + 1) - 1 = i
          BY <2>2, <2>8, <3>3
        <4> QED  BY <2>10, <3>1, <4>1 DEF Range
      <3> QED  BY <2>2, <2>8, <3>2, <3>3
    <2> QED  BY <2>12, <2>13, <2>14
  <1> QED  BY <1>1, <1>2

\* MQTTPersistence_restorePackets makes one entry of each PUBLISH record.
StoredEntry(d, id) ==
    [id |-> id, msg |-> d.sent[id],
     next |-> IF OutQos[d.sent[id]] = 1 THEN "PUBACK"
              ELSE IF id \in d.pubrel THEN "PUBCOMP" ELSE "PUBREC"]

LEMMA RestoredEntries ==
    ASSUME NEW d, DiskType(d)
    PROVE  /\ RestorePackets(d) \in Seq(Entries)
           /\ Range(RestorePackets(d)) = {StoredEntry(d, id) : id \in DOMAIN d.sent}
           /\ \A i, j \in DOMAIN RestorePackets(d) :
                  RestorePackets(d)[i].id = RestorePackets(d)[j].id => i = j
  <1> DEFINE D == DOMAIN d.sent
             ids == Ascending(D)
             n == Cardinality(D)
             s == [i \in DOMAIN ids |-> StoredEntry(d, ids[i])]
             R == {StoredEntry(d, id) : id \in D}
             w == WrapMsgID(s)
  <1>1. RestorePackets(d) = w
    BY DEF RestorePackets, StoredEntry
  <1>2. D \subseteq 0..MaxMsgId /\ MaxMsgId \in Nat
    <2>1. D \subseteq Ids
      BY DEF DiskType, Table
    <2> QED  BY <2>1, SessionAssumption DEF Ids
  <1>3. /\ n \in Nat /\ ids \in [1..n -> D]
        /\ \A i, j \in 1..n : ids[i] = ids[j] => i = j
        /\ \A k \in D : \E i \in 1..n : ids[i] = k
    BY <1>2, AscendingProperties
  <1>4. \A k \in D : StoredEntry(d, k) \in Entries /\ StoredEntry(d, k).id = k
    BY DEF StoredEntry, Entries, Stages, DiskType, Table
  <1> HIDE DEF ids, n
  <1>5. /\ s \in [1..n -> R] /\ s \in [1..n -> Entries]
        /\ \A i \in 1..n : s[i] = StoredEntry(d, ids[i])
    BY <1>3, <1>4
  <1> HIDE DEF s
  <1>6. s \in Seq(Entries) /\ Len(s) = n /\ DOMAIN s = 1..n
    BY <1>3, <1>5
  <1>7. Range(s) = R
    <2>1. \A r \in R : \E i \in 1..n : s[i] = r
      BY <1>3, <1>5
    <2>2. \A i \in 1..n : s[i] \in R
      BY <1>5
    <2> HIDE DEF R
    <2> QED  BY <1>6, <2>1, <2>2 DEF Range
  <1>8. \A i, j \in 1..n : s[i] = s[j] => i = j
    BY <1>3, <1>4, <1>5
  <1>9. Cardinality(R) = n
    <2>1. s \in Bijection(1..n, R)
      <3>1. \A r \in R : \E i \in 1..n : s[i] = r
        BY <1>6, <1>7 DEF Range
      <3> HIDE DEF R
      <3> QED  BY <1>5, <1>8, <3>1 DEF Bijection, Injection, Surjection, IsInjective
    <2>2. IsFiniteSet(1..n) /\ Cardinality(1..n) = n
      BY <1>3, FS_Interval
    <2> HIDE DEF R
    <2>3. ExistsBijection(1..n, R)
      BY <2>1 DEF ExistsBijection
    <2> QED  BY <2>2, <2>3, FS_Bijection
  <1>10. w \in Seq(Entries) /\ Len(w) = n /\ Range(w) = R
    BY <1>6, <1>7, WrapKeepsEntries
  <1> HIDE DEF w
  <1>11. /\ DOMAIN w = 1..n
         /\ \A i \in 1..n : w[i] \in R
         /\ \A r \in R : \E i \in 1..n : w[i] = r
    <2>1. DOMAIN w = 1..n
      BY <1>10
    <2> HIDE DEF R
    <2> QED  BY <1>10, <2>1 DEF Range
  <1>12. \A i, j \in 1..n : w[i] = w[j] => i = j
    <2>1. w \in [1..n -> R]
      <3>1. w = [i \in 1..n |-> w[i]]
        BY <1>10
      <3> HIDE DEF R
      <3> QED  BY <1>11, <3>1
    <2>2. IsFiniteSet(1..n) /\ Cardinality(1..n) = n
      BY <1>3, FS_Interval
    <2> HIDE DEF R
    <2>3. w \in Surjection(1..n, R)
      BY <1>11, <2>1 DEF Surjection
    <2>4. w \in Injection(1..n, R)
      BY <1>9, <2>2, <2>3, FS_Surjection
    <2> QED  BY <2>4 DEF Injection, IsInjective
  <1>13. \A i, j \in 1..n : w[i].id = w[j].id => i = j
    <2> SUFFICES ASSUME NEW i \in 1..n, NEW j \in 1..n, w[i].id = w[j].id PROVE i = j
      OBVIOUS
    <2>1. PICK k \in D : w[i] = StoredEntry(d, k)
      BY <1>11
    <2>2. PICK l \in D : w[j] = StoredEntry(d, l)
      BY <1>11
    <2>3. k = l
      BY <1>4, <2>1, <2>2
    <2> QED  BY <1>12, <2>1, <2>2, <2>3
  <1> QED  BY <1>1, <1>10, <1>11, <1>13

-----------------------------------------------------------------------------
(* Steps that leave the client's own exchanges alone.                      *)

\* What the memory is after a crash, and after it is given a field.
LEMMA DownType ==
    /\ MemoryType(Down)
    /\ Down.up = FALSE /\ Down.outbound = <<>> /\ Down.partial = <<>> /\ Down.acks = <<>>
  <1>1. /\ Down.up = FALSE /\ Down.connected = FALSE /\ Down.outbound = <<>>
        /\ Down.partial = <<>> /\ Down.acks = <<>> /\ Down.msgID = 0 /\ Down.inbound = <<>>
        /\ Down.seqno = 0
    BY DEF Down, Created
  <1>2. 0 \in 0..MaxMsgId /\ 0 \in Seqnos
    BY SessionAssumption DEF Seqnos
  <1>3. <<>> \in Seq(Packets) /\ <<>> \in Seq(Entries) /\ Len(<<>>) = 0 /\ DOMAIN <<>> \subseteq Ids
    OBVIOUS
  <1>4. Down = [f \in Fields |-> Down[f]]
    BY DEF Down, Created, Fields
  <1>5. /\ Down.partial \in Seq(Packets) /\ Len(Down.partial) <= 1 /\ Down.acks \in Seq(Packets)
        /\ Down.outbound \in Seq(Entries)
    BY <1>1, <1>3
  <1>6. DOMAIN Down.inbound \subseteq Ids
    BY <1>1, <1>3
  <1>7. Down.up \in BOOLEAN /\ Down.connected \in BOOLEAN /\ Down.msgID \in 0..MaxMsgId /\ Down.seqno \in Seqnos
    BY <1>1, <1>2
  <1>8. MemoryType(Down)
    BY <1>4, <1>5, <1>6, <1>7 DEF MemoryType
  <1> QED  BY <1>1, <1>8

\* The fields of a memory some of whose fields are changed.
Same(m, n, fields) == \A f \in fields : m[f] = n[f]

LEMMA MemoryFields ==
    ASSUME NEW m, MemoryType(m), m.up
    PROVE  /\ \A s \in Seq(Packets) :
                  /\ MemoryType([m EXCEPT !.acks = s]) /\ [m EXCEPT !.acks = s].acks = s
                  /\ Same([m EXCEPT !.acks = s], m, Fields \ {"acks"})
           /\ \A s \in Seq(Packets) : Len(s) <= 1 =>
                  /\ MemoryType([m EXCEPT !.partial = s]) /\ [m EXCEPT !.partial = s].partial = s
                  /\ Same([m EXCEPT !.partial = s], m, Fields \ {"partial"})
           /\ \A s \in Seq(Entries) :
                  /\ MemoryType([m EXCEPT !.outbound = s]) /\ [m EXCEPT !.outbound = s].outbound = s
                  /\ Same([m EXCEPT !.outbound = s], m, Fields \ {"outbound"})
           /\ \A q :
                  /\ MemoryType([m EXCEPT !.queue = q])
                  /\ Same([m EXCEPT !.queue = q], m, Fields \ {"queue"})
           /\ \A f : DOMAIN f \subseteq Ids =>
                  /\ MemoryType([m EXCEPT !.inbound = f])
                  /\ Same([m EXCEPT !.inbound = f], m, Fields \ {"inbound"})
  <1>1. ASSUME NEW s \in Seq(Packets)
        PROVE  /\ MemoryType([m EXCEPT !.acks = s]) /\ [m EXCEPT !.acks = s].acks = s
               /\ Same([m EXCEPT !.acks = s], m, Fields \ {"acks"})
    BY DEF MemoryType, Fields, Same
  <1>2. ASSUME NEW s \in Seq(Packets), Len(s) <= 1
        PROVE  /\ MemoryType([m EXCEPT !.partial = s]) /\ [m EXCEPT !.partial = s].partial = s
               /\ Same([m EXCEPT !.partial = s], m, Fields \ {"partial"})
    BY <1>2 DEF MemoryType, Fields, Same
  <1>3. ASSUME NEW q
        PROVE  /\ MemoryType([m EXCEPT !.queue = q])
               /\ Same([m EXCEPT !.queue = q], m, Fields \ {"queue"})
    BY DEF MemoryType, Fields, Same
  <1>4. ASSUME NEW s \in Seq(Entries)
        PROVE  /\ MemoryType([m EXCEPT !.outbound = s]) /\ [m EXCEPT !.outbound = s].outbound = s
               /\ Same([m EXCEPT !.outbound = s], m, Fields \ {"outbound"})
    BY DEF MemoryType, Fields, Same
  <1>5. ASSUME NEW f, DOMAIN f \subseteq Ids
        PROVE  /\ MemoryType([m EXCEPT !.inbound = f])
               /\ Same([m EXCEPT !.inbound = f], m, Fields \ {"inbound"})
    BY <1>5 DEF MemoryType, Fields, Same
  <1> QED  BY <1>1, <1>2, <1>3, <1>4, <1>5

\* Every packet of t that belongs to the client's own exchanges is in s as well.
Quieter(s, t) == \A p \in Range(t) : p.type \in Sending => p \in Range(s)

\* A crash leaves one of the disks the handler goes through, and on the
\* connection what was written whole.
LEMMA CrashOutcome ==
    ASSUME TypeInv, NEW disks, CrashIn(disks)
    PROVE  /\ mem' = Down /\ MemoryType(mem') /\ mem'.up = FALSE /\ mem'.outbound = <<>>
           /\ \E i \in DOMAIN disks : disk' = disks[i]
           /\ torn \subseteq torn'
           /\ disk.pubrel \cap disk'.badPubrel # {} => "pubrel" \in torn'
           /\ toBroker' = toBroker /\ Outgoing' = toBroker
           /\ Quieter(Outgoing, Outgoing') /\ mem'.acks = <<>>
           /\ InOrder(Outgoing) => InOrder(Outgoing')
  <1>1. /\ mem' = Down /\ toBroker' = toBroker /\ torn \subseteq torn'
        /\ disk.pubrel \cap disk'.badPubrel # {} => "pubrel" \in torn'
        /\ \E i \in DOMAIN disks : disk' = disks[i]
    <2>1. PICK i \in DOMAIN disks : CrashWith(disk, disks[i])
      BY DEF CrashIn
    <2>2. toBroker' = toBroker
      BY DEF CrashIn
    <2> QED  BY <2>1, <2>2 DEF CrashWith
  <1>2. toBroker \in Seq(Packets) /\ mem.partial \in Seq(Packets)
    BY DEF TypeInv, MemoryType, NetworkType
  <1>3. Outgoing' = toBroker
    <2>1. Outgoing' = toBroker \o <<>>
      BY <1>1, DownType DEF Outgoing
    <2> QED  BY <1>2, <2>1, ConcatEmptySeq
  <1>4. Range(toBroker) \subseteq Range(Outgoing)
    BY <1>2, RangeConcatenation DEF Outgoing
  <1>5. InOrder(Outgoing) => InOrder(toBroker)
    BY <1>2, InOrderConcat DEF Outgoing
  <1> QED  BY <1>1, <1>3, <1>4, <1>5, DownType DEF Quieter

\* What Send writes, whole or in part, joins Outgoing.
LEMMA SendOutcome ==
    ASSUME TypeInv, NEW m, MemoryType(m), m.up, m.partial = <<>>, mem.partial = <<>>,
           NEW disks, NEW p \in Packets, Send(disks, m, p)
    PROVE  \/ /\ disk' = Last(disks) /\ torn' = torn
              /\ MemoryType(mem') /\ toBroker' \in Seq(Packets)
              /\ Same(mem', m, Fields \ {"partial"})
              /\ Outgoing' = Append(Outgoing, p)
           \/ CrashIn(disks)
  <1>1. toBroker \in Seq(Packets)
    BY DEF TypeInv, NetworkType
  <1>2. <<p>> \in Seq(Packets) /\ Len(<<p>>) = 1 /\ <<>> \in Seq(Packets)
    OBVIOUS
  <1>3. Outgoing = toBroker
    BY <1>1, ConcatEmptySeq DEF Outgoing
  <1>4. toBroker \o <<p>> = Append(toBroker, p) /\ Append(toBroker, p) \in Seq(Packets)
    BY <1>1, RangeAppend
  <1>5. toBroker \o <<>> = toBroker
    BY <1>1, ConcatEmptySeq
  <1>6. CASE Perform(disks, m, <<p>>)
    <2>1. CASE disk' = Last(disks) /\ torn' = torn /\ mem' = m /\ toBroker' = toBroker \o <<p>>
      <3>1. Outgoing' = Append(toBroker, p) \o <<>>
        BY <1>4, <2>1 DEF Outgoing
      <3>2. Outgoing' = Append(toBroker, p)
        BY <1>4, <3>1, ConcatEmptySeq
      <3> QED  BY <1>3, <1>4, <2>1, <3>2 DEF Same
    <2> QED  BY <1>6, <2>1 DEF Perform
  <1>7. CASE Perform(disks, [m EXCEPT !.partial = <<p>>], <<>>)
    <2> DEFINE n == [m EXCEPT !.partial = <<p>>]
    <2>0. MemoryType(n) /\ n.partial = <<p>> /\ Same(n, m, Fields \ {"partial"})
      <3> DEFINE s == <<p>>
      <3>1. s \in Seq(Packets) /\ Len(s) <= 1
        BY <1>2
      <3> HIDE DEF s
      <3>2. /\ MemoryType([m EXCEPT !.partial = s]) /\ [m EXCEPT !.partial = s].partial = s
            /\ Same([m EXCEPT !.partial = s], m, Fields \ {"partial"})
        BY <3>1, MemoryFields
      <3> QED  BY <3>2 DEF s
    <2>1. CASE disk' = Last(disks) /\ torn' = torn /\ mem' = n /\ toBroker' = toBroker \o <<>>
      <3>1. Outgoing' = toBroker \o <<p>>
        BY <1>5, <2>0, <2>1 DEF Outgoing
      <3> QED  BY <1>1, <1>3, <1>4, <1>5, <2>0, <2>1, <3>1
    <2> QED  BY <1>7, <2>1 DEF Perform
  <1> QED  BY <1>6, <1>7 DEF Send

\* An acknowledgement is queued behind the packet partly written, or sent; a PUBREL
\* is then stored first.
AckDisks(disks, p) ==
    IF p.type = "PUBREL"
    THEN disks \o <<TearPubrel(Last(disks), p.id), PutPubrel(Last(disks), p.id)>>
    ELSE disks

LEMMA SendAckOutcome ==
    ASSUME TypeInv, NEW m, MemoryType(m), m.up, m.partial = mem.partial,
           NEW disks, NEW p \in Packets, SendAck(disks, m, p)
    PROVE  \/ /\ disk' = Last(disks) /\ torn' = torn
              /\ MemoryType(mem') /\ toBroker' \in Seq(Packets)
              /\ Same(mem', m, Fields \ {"acks"}) /\ mem'.acks = Append(m.acks, p)
              /\ Outgoing' = Outgoing
           \/ /\ disk' = Last(AckDisks(disks, p)) /\ torn' = torn
              /\ MemoryType(mem') /\ toBroker' \in Seq(Packets)
              /\ Same(mem', m, Fields \ {"partial"})
              /\ Outgoing' = Append(Outgoing, p)
           \/ CrashIn(disks)
           \/ CrashIn(AckDisks(disks, p))
  <1>1. toBroker \in Seq(Packets) /\ m.acks \in Seq(Packets) /\ toBroker \o <<>> = toBroker
    <2>1. toBroker \in Seq(Packets) /\ m.acks \in Seq(Packets)
      BY DEF TypeInv, NetworkType, MemoryType
    <2> QED  BY <2>1, ConcatEmptySeq
  <1>2. CASE m.partial # <<>>
    <2> DEFINE s == Append(m.acks, p)
               n == [m EXCEPT !.acks = s]
    <2>1. s \in Seq(Packets)
      BY <1>1
    <2>2. MemoryType(n) /\ n.acks = s /\ Same(n, m, Fields \ {"acks"})
      <3> HIDE DEF s
      <3> QED  BY <2>1, MemoryFields
    <2>3. Perform(disks, n, <<>>)
      BY <1>2 DEF SendAck
    <2>4. CASE disk' = Last(disks) /\ torn' = torn /\ mem' = n /\ toBroker' = toBroker \o <<>>
      <3>1. mem'.partial = mem.partial
        BY <2>2, <2>4 DEF Same, Fields
      <3> HIDE DEF n
      <3> QED  BY <1>1, <2>2, <2>4, <3>1 DEF Outgoing
    <2> HIDE DEF n
    <2> QED  BY <2>3, <2>4 DEF Perform
  <1>3. CASE m.partial = <<>>
    <2>1. Send(AckDisks(disks, p), m, p)
      BY <1>3 DEF SendAck, AckDisks
    <2> QED  BY <1>3, <2>1, SendOutcome
  <1> QED  BY <1>2, <1>3

\* What a step says that sends nothing of the client's own exchanges.
Unsent(m) ==
    /\ MemoryType(mem') /\ toBroker' \in Seq(Packets)
    /\ \/ mem'.up = m.up /\ mem'.outbound = m.outbound
       \/ mem'.up = FALSE /\ mem'.outbound = <<>>
    /\ Quieter(Outgoing, Outgoing') /\ Quieter(m.acks, mem'.acks)
    /\ InOrder(Outgoing) => InOrder(Outgoing')
    /\ torn \subseteq torn'

\* An answer to the broker's exchanges sends nothing of the client's own.
LEMMA AnswerOutcome ==
    ASSUME TypeInv, NEW m, MemoryType(m), m.up, m.partial = mem.partial,
           NEW disks, Len(disks) \in Nat \ {0}, DOMAIN disks = 1..Len(disks),
           NEW p \in Packets, p.type \notin Sending, SendAck(disks, m, p)
    PROVE  Unsent(m) /\ \E i \in DOMAIN disks : disk' = disks[i]
  <1>1. toBroker \in Seq(Packets) /\ m.acks \in Seq(Packets) /\ Outgoing \in Seq(Packets)
    <2>1. toBroker \in Seq(Packets) /\ m.acks \in Seq(Packets) /\ mem.partial \in Seq(Packets)
      BY DEF TypeInv, NetworkType, MemoryType
    <2> QED  BY <2>1, ConcatProperties DEF Outgoing
  <1>2. Last(disks) = disks[Len(disks)] /\ Len(disks) \in DOMAIN disks /\ AckDisks(disks, p) = disks
    <2>1. AckDisks(disks, p) = disks
      BY DEF AckDisks, Sending
    <2>2. Last(disks) = disks[Len(disks)]
      BY Zenon DEF Last
    <2> DEFINE n == Len(disks)
    <2>3. n \in DOMAIN disks
      <3>1. n \in Nat \ {0} /\ DOMAIN disks = 1..n
        BY SMTT(30)
      <3> HIDE DEF n
      <3> QED  BY <3>1
    <2> QED  BY <2>1, <2>2, <2>3
  <1>3. CASE /\ disk' = Last(disks) /\ torn' = torn
             /\ MemoryType(mem') /\ toBroker' \in Seq(Packets)
             /\ Same(mem', m, Fields \ {"acks"}) /\ mem'.acks = Append(m.acks, p)
             /\ Outgoing' = Outgoing
    <2>1. mem'.up = m.up /\ mem'.outbound = m.outbound
      BY <1>3 DEF Same, Fields
    <2>2. Range(mem'.acks) = Range(m.acks) \cup {p}
      BY <1>1, <1>3, RangeAppend
    <2> QED  BY <1>2, <1>3, <2>1, <2>2 DEF Unsent, Quieter
  <1>4. CASE /\ disk' = Last(disks) /\ torn' = torn
             /\ MemoryType(mem') /\ toBroker' \in Seq(Packets)
             /\ Same(mem', m, Fields \ {"partial"})
             /\ Outgoing' = Append(Outgoing, p)
    <2>1. mem'.up = m.up /\ mem'.outbound = m.outbound /\ mem'.acks = m.acks
      BY <1>4 DEF Same, Fields
    <2>2. Range(Outgoing') = Range(Outgoing) \cup {p} /\ Outgoing' = Outgoing \o <<p>>
      BY <1>1, <1>4, RangeAppend
    <2>3. InOrder(Outgoing) => InOrder(Outgoing')
      <3>1. <<p>> \in Seq(Packets) /\ Range(<<p>>) = {p}
        BY RangeShort
      <3>2. InOrder(<<p>>)
        BY DEF InOrder
      <3>3. p.type # "PUBLISH"
        BY DEF Sending
      <3> QED  BY <1>1, <2>2, <3>1, <3>2, <3>3, InOrderConcat
    <2> QED  BY <1>2, <1>4, <2>1, <2>2, <2>3 DEF Unsent, Quieter
  <1>5. CASE CrashIn(disks)
    <2>1. /\ MemoryType(mem') /\ mem'.up = FALSE /\ mem'.outbound = <<>> /\ mem'.acks = <<>>
          /\ \E i \in DOMAIN disks : disk' = disks[i]
          /\ toBroker' = toBroker /\ torn \subseteq torn'
          /\ Quieter(Outgoing, Outgoing') /\ (InOrder(Outgoing) => InOrder(Outgoing'))
      BY <1>5, CrashOutcome
    <2>2. Quieter(m.acks, mem'.acks)
      BY <2>1, RangeShort DEF Quieter
    <2> QED  BY <1>1, <2>1, <2>2 DEF Unsent
  <1> QED  BY <1>2, <1>3, <1>4, <1>5, SendAckOutcome

\* Such a step leaves the records and the broker's part alone, and reads or brings
\* no answer; the application may submit a message.
Quiet ==
    /\ Unsent(mem)
    /\ disk'.sent = disk.sent /\ disk'.pubrel = disk.pubrel
    /\ disk'.badPubrel = disk.badPubrel /\ (mem'.up => disk'.badSent = disk.badSent)
    /\ Quieter(mem.acks, mem'.acks)
    /\ \A p \in Range(toClient') : p.type \in Answering => p \in Range(toClient)
    /\ \A n \in Messages : phase'[n] = phase[n] \/ (phase[n] = "new" /\ phase'[n] = "submitted")
    /\ UNCHANGED <<bpub, distributed>>
    /\ reused => reused'

\* A step after which nothing carries a message that did not before.
LEMMA NamesKept ==
    ASSUME OneNameInv, \A id, n : Carries(id, n)' => Carries(id, n)
    PROVE  OneNameInv'
  BY DEF OneNameInv

LEMMA QuietStep ==
    ASSUME SessionInv, TypeInv', Quiet
    PROVE  SessionInv'
  <1>1. RecordInv /\ (~Confused => ExchangeInv)
    BY DEF SessionInv
  <1>a. Confused => Confused'
    BY DEF Quiet, Unsent, Confused
  <1>2. /\ disk'.sent = disk.sent /\ disk'.pubrel = disk.pubrel /\ disk'.badPubrel = disk.badPubrel
        /\ mem'.up => disk'.badSent = disk.badSent
        /\ bpub' = bpub /\ distributed' = distributed
        /\ \/ mem'.up = mem.up /\ mem'.outbound = mem.outbound
           \/ mem'.up = FALSE /\ mem'.outbound = <<>>
        /\ \A n \in Messages : /\ phase'[n] = "new" <=> phase[n] = "new" /\ phase'[n] # "submitted"
                               /\ phase[n] # "new" => phase'[n] = phase[n]
    BY DEF Quiet, Unsent
  <1>3. /\ \A p \in Range(Outgoing') : p.type \in Sending => p \in Range(Outgoing)
        /\ \A p \in Range(mem'.acks) : p.type \in Sending => p \in Range(mem.acks)
        /\ \A p \in Range(toClient') : p.type \in Answering => p \in Range(toClient)
        /\ InOrder(Outgoing) => InOrder(Outgoing')
    BY DEF Quiet, Unsent, Quieter
  <1>4. RecordInv'
    <2>1. Mirrored'
      <3>1. CASE mem'.up = FALSE
        BY <3>1 DEF Mirrored
      <3>2. CASE mem'.up = mem.up /\ mem'.outbound = mem.outbound
        <4>1. Mirrored /\ OutIds' = OutIds
          BY <1>1, <3>2 DEF RecordInv, OutIds
        <4> QED  BY <1>2, <3>2, <4>1 DEF Mirrored, Live
      <3> QED  BY <1>2, <3>1, <3>2
    <2>2. /\ \A p \in Range(Outgoing') : p.type = "PUBLISH" => p.msg \in Messages /\ phase'[p.msg] # "new"
          /\ \A p \in Range(mem'.acks) : p.type # "PUBLISH"
      BY <1>1, <1>2, <1>3 DEF RecordInv, Sending
    <2>3. \A i \in DOMAIN disk'.sent : phase'[disk'.sent[i]] \in {"submitted", "accepted"}
      <3> SUFFICES ASSUME NEW i \in DOMAIN disk.sent
                   PROVE  phase'[disk.sent[i]] \in {"submitted", "accepted"}
        BY <1>2
      <3>1. disk.sent[i] \in Messages /\ phase[disk.sent[i]] \in {"submitted", "accepted"}
        BY <1>1 DEF RecordInv, SessionInv, TypeInv, DiskType, Table
      <3> QED  BY <1>2, <3>1
    <2>4. \A i \in DOMAIN bpub : phase'[bpub[i]] # "new"
      <3>1. \A i \in DOMAIN bpub : bpub[i] \in Messages /\ phase[bpub[i]] # "new"
        BY <1>1 DEF RecordInv, SessionInv, TypeInv, NetworkType, Table
      <3> QED  BY <1>2, <3>1
    <2> QED  BY <1>1, <1>2, <2>1, <2>2, <2>3, <2>4 DEF RecordInv
  <1>5. ASSUME ~Confused PROVE ExchangeInv'
    <2>1. PublishesInv'
      BY <1>1, <1>2, <1>3, <1>5 DEF ExchangeInv, PublishesInv, Live, Sending
    <2>2. PubrelsInv'
      BY <1>1, <1>2, <1>3, <1>5 DEF ExchangeInv, PubrelsInv, Live, QosOf, Held, Taken, Sending
    <2>3. StagesInv'
      BY <1>1, <1>2, <1>5 DEF ExchangeInv, StagesInv, QosOf, Held, Taken
    <2>4. AnswersInv'
      BY <1>1, <1>2, <1>3, <1>5 DEF ExchangeInv, AnswersInv, Live, QosOf, Held, Taken, Answering
    <2>5. BrokerInv'
      BY <1>1, <1>2, <1>5 DEF ExchangeInv, BrokerInv, Live
    <2>6. OneNameInv'
      <3>1. \A id, n : Carries(id, n)' => Carries(id, n)
        BY <1>2, <1>3 DEF Carries, Live, Sending
      <3> QED  BY <1>1, <1>5, <3>1, NamesKept DEF ExchangeInv
    <2> QED  BY <2>1, <2>2, <2>3, <2>4, <2>5, <2>6 DEF ExchangeInv
  <1> QED  BY <1>a, <1>4, <1>5 DEF SessionInv

\* What Reads leaves unchanged, and the packet read.
LEMMA ReadsOutcome ==
    ASSUME TypeInv, NEW type, Reads(type)
    PROVE  /\ mem.up /\ mem.connected
           /\ Received \in Packets /\ Received \in Range(toClient) /\ Received.type = type
           /\ toClient' \in Seq(Packets) /\ Range(toClient') \subseteq Range(toClient)
           /\ UNCHANGED <<bpub, bout, sentIn, distributed, arrived, breaks, retries, reused>>
  <1>1. toClient \in Seq(Packets) /\ toClient # <<>> /\ toClient' = Tail(toClient)
    BY DEF TypeInv, NetworkType, Reads
  <1> QED  BY <1>1, RangeTail DEF Reads, Connected, Received

\* The updates of the disk keep its type, most of them the records of what the
\* client publishes.
SameRecords(d, e) ==
    /\ e.sent = d.sent /\ e.pubrel = d.pubrel
    /\ e.badSent = d.badSent /\ e.badPubrel = d.badPubrel

LEMMA DiskUpdates ==
    ASSUME NEW d, DiskType(d), NEW id \in Ids
    PROVE  /\ \A n : DiskType(PutReceived(d, id, n)) /\ SameRecords(d, PutReceived(d, id, n))
           /\ DiskType(RemoveReceived(d, id)) /\ SameRecords(d, RemoveReceived(d, id))
           /\ DiskType(TearReceived(d, id)) /\ SameRecords(d, TearReceived(d, id))
           /\ DiskType(PutPubrel(d, id)) /\ PutPubrel(d, id).sent = d.sent
           /\ PutPubrel(d, id).pubrel = d.pubrel \cup {id}
           /\ PutPubrel(d, id).badSent = d.badSent /\ PutPubrel(d, id).badPubrel = d.badPubrel
           /\ DiskType(TearPubrel(d, id)) /\ TearPubrel(d, id).sent = d.sent
           /\ TearPubrel(d, id).pubrel = d.pubrel \ {id}
           /\ TearPubrel(d, id).badSent = d.badSent
           /\ TearPubrel(d, id).badPubrel = d.badPubrel \cup {id}
  <1>1. ASSUME NEW n
        PROVE  DiskType(PutReceived(d, id, n)) /\ SameRecords(d, PutReceived(d, id, n))
    BY DEF DiskType, DiskFields, PutReceived, Put, SameRecords
  <1>2. /\ DiskType(RemoveReceived(d, id)) /\ SameRecords(d, RemoveReceived(d, id))
        /\ DiskType(TearReceived(d, id)) /\ SameRecords(d, TearReceived(d, id))
    BY DEF DiskType, DiskFields, RemoveReceived, TearReceived, Without, SameRecords
  <1>3. /\ DiskType(PutPubrel(d, id)) /\ PutPubrel(d, id).sent = d.sent
        /\ PutPubrel(d, id).pubrel = d.pubrel \cup {id}
        /\ PutPubrel(d, id).badSent = d.badSent /\ PutPubrel(d, id).badPubrel = d.badPubrel
    BY DEF DiskType, DiskFields, PutPubrel
  <1>4. /\ DiskType(TearPubrel(d, id)) /\ TearPubrel(d, id).sent = d.sent
        /\ TearPubrel(d, id).pubrel = d.pubrel \ {id}
        /\ TearPubrel(d, id).badSent = d.badSent
        /\ TearPubrel(d, id).badPubrel = d.badPubrel \cup {id}
    BY DEF DiskType, DiskFields, TearPubrel
  <1> QED  BY <1>1, <1>2, <1>3, <1>4

LEMMA QueueUpdates ==
    ASSUME NEW d, DiskType(d), NEW n
    PROVE  /\ n \in Seqnos => \A k : /\ DiskType(PersistQueueEntry(d, n, k))
                                     /\ SameRecords(d, PersistQueueEntry(d, n, k))
           /\ n \in Seqnos => /\ DiskType(TearQueueEntry(d, n))
                              /\ SameRecords(d, TearQueueEntry(d, n))
           /\ DiskType(UnpersistQueueEntry(d, n))
           /\ SameRecords(d, UnpersistQueueEntry(d, n))
  <1>1. ASSUME n \in Seqnos, NEW k
        PROVE  DiskType(PersistQueueEntry(d, n, k)) /\ SameRecords(d, PersistQueueEntry(d, n, k))
    BY <1>1 DEF DiskType, DiskFields, PersistQueueEntry, Put, SameRecords
  <1>2. ASSUME n \in Seqnos
        PROVE  DiskType(TearQueueEntry(d, n)) /\ SameRecords(d, TearQueueEntry(d, n))
    BY <1>2 DEF DiskType, DiskFields, TearQueueEntry, Put, SameRecords
  <1>3. DiskType(UnpersistQueueEntry(d, n)) /\ SameRecords(d, UnpersistQueueEntry(d, n))
    BY DEF DiskType, DiskFields, UnpersistQueueEntry, Without, SameRecords
  <1> QED  BY <1>1, <1>2, <1>3

\* The memory with one more entry in the queue for the application.
LEMMA EnqueueType ==
    ASSUME NEW m, MemoryType(m), m.up, NEW msg
    PROVE  /\ MemoryType(Enqueue(m, msg))
           /\ Same(Enqueue(m, msg), m, Fields \ {"queue", "seqno"})
           /\ Enqueue(m, msg).seqno \in Seqnos
  <1>1. NextSeqno(m.seqno) \in Seqnos
    <2>1. m.seqno \in 0..(SeqnoLimit - 1) /\ SeqnoLimit \in Nat \ {0}
      BY SessionAssumption DEF Seqnos, MemoryType
    <2> QED  BY <2>1 DEF NextSeqno, Seqnos
  <1> QED  BY <1>1 DEF Enqueue, MemoryType, Fields, Same

\* The client's handlers of the broker's own messages.
LEMMA AckType ==
    ASSUME NEW type \in Sending \cup Answering, NEW id \in Ids
    PROVE  Ack(type, id) \in Packets /\ Ack(type, id).type = type /\ Ack(type, id).id = id
  BY DEF Ack, Packet, Packets

\* From what AnswerOutcome says to the invariant.
LEMMA AnsweredStep ==
    ASSUME SessionInv, NEW type, Reads(type), NEW m, mem.acks = m.acks, mem.up = m.up,
           mem.outbound = m.outbound, Unsent(m),
           DiskType(disk'), SameRecords(disk, disk'), UNCHANGED phase
    PROVE  SessionInv'
  <1>1. TypeInv
    BY DEF SessionInv
  <1>2. /\ toClient' \in Seq(Packets) /\ Range(toClient') \subseteq Range(toClient)
        /\ UNCHANGED <<bpub, bout, sentIn, distributed, arrived, breaks, retries, reused>>
    BY <1>1, ReadsOutcome
  <1>3. Quiet
    BY <1>2 DEF Quiet, Unsent, SameRecords
  <1>4. TypeInv'
    BY <1>1, <1>2 DEF TypeInv, NetworkType, Unsent
  <1> QED  BY <1>3, <1>4, QuietStep

LEMMA HandlePublishesStep ==
    ASSUME SessionInv, HandlePublishes
    PROVE  SessionInv'
  <1>1. TypeInv /\ MemoryType(mem) /\ DiskType(disk) /\ Reads("PUBLISH") /\ phase' = phase
    BY DEF SessionInv, TypeInv, HandlePublishes
  <1>2. mem.up /\ Received.id \in Ids
    BY <1>1, ReadsOutcome DEF Packets
  <1> DEFINE id == Received.id
             msg == Received.msg
  <1>3. CASE InQos[msg] = 1
    <2> DEFINE m == Enqueue(mem, msg)
               d == PersistQueueEntry(disk, m.seqno, msg)
               t == TearQueueEntry(disk, m.seqno)
               disks == <<disk, t, d>>
    <2>1. /\ MemoryType(m) /\ m.seqno \in Seqnos
          /\ m.up = mem.up /\ m.partial = mem.partial /\ m.acks = mem.acks /\ m.outbound = mem.outbound
      BY <1>1, <1>2, EnqueueType, ZenonT(60) DEF Same, Fields
    <2>2. /\ DiskType(d) /\ SameRecords(disk, d) /\ DiskType(t) /\ SameRecords(disk, t)
          /\ SameRecords(disk, disk)
      BY <1>1, <2>1, QueueUpdates DEF SameRecords
    <2>3. Ack("PUBACK", id) \in Packets /\ Ack("PUBACK", id).type \notin Sending
      BY <1>2, AckType DEF Sending, Answering
    <2>4. SendAck(disks, m, Ack("PUBACK", id))
      BY <1>3 DEF HandlePublishes
    <2>5. Len(disks) \in Nat \ {0} /\ DOMAIN disks = 1..Len(disks) /\ \A i \in DOMAIN disks : disks[i] \in {disk, t, d}
      OBVIOUS
    <2> HIDE DEF disks, m, d, t
    <2>6. Unsent(m) /\ \E i \in DOMAIN disks : disk' = disks[i]
      BY <1>1, <1>2, <2>1, <2>3, <2>4, <2>5, AnswerOutcome
    <2> QED  BY <1>1, <2>1, <2>2, <2>5, <2>6, AnsweredStep
  <1>4. CASE InQos[msg] # 1
    <2> DEFINE m == [mem EXCEPT !.inbound = Put(@, id, msg)]
               d == PutReceived(disk, id, msg)
               t == TearReceived(disk, id)
               disks == <<disk, t, d>>
    <2>1. /\ MemoryType(m)
          /\ m.up = mem.up /\ m.partial = mem.partial /\ m.acks = mem.acks /\ m.outbound = mem.outbound
      <3>1. DOMAIN Put(mem.inbound, id, msg) \subseteq Ids
        BY <1>1, <1>2 DEF MemoryType, Put
      <3>2. MemoryType(m) /\ Same(m, mem, Fields \ {"inbound"})
        <4> HIDE DEF id, msg
        <4> QED  BY <1>1, <1>2, <3>1, MemoryFields
      <3> HIDE DEF m
      <3> QED  BY <3>2 DEF Same, Fields
    <2>2. /\ DiskType(d) /\ SameRecords(disk, d) /\ DiskType(t) /\ SameRecords(disk, t)
          /\ SameRecords(disk, disk)
      <3>1. SameRecords(disk, disk)
        BY DEF SameRecords
      <3> QED  BY <1>1, <1>2, <3>1, DiskUpdates
    <2>3. Ack("PUBREC", id) \in Packets /\ Ack("PUBREC", id).type \notin Sending
      BY <1>2, AckType DEF Sending, Answering
    <2>4. SendAck(disks, m, Ack("PUBREC", id))
      BY <1>4 DEF HandlePublishes
    <2>5. Len(disks) \in Nat \ {0} /\ DOMAIN disks = 1..Len(disks) /\ \A i \in DOMAIN disks : disks[i] \in {disk, t, d}
      OBVIOUS
    <2> HIDE DEF disks, m, d, t
    <2>6. Unsent(m) /\ \E i \in DOMAIN disks : disk' = disks[i]
      BY <1>1, <1>2, <2>1, <2>3, <2>4, <2>5, AnswerOutcome
    <2> QED  BY <1>1, <2>1, <2>2, <2>5, <2>6, AnsweredStep
  <1> QED  BY <1>3, <1>4

LEMMA HandlePubrelsStep ==
    ASSUME SessionInv, HandlePubrels
    PROVE  SessionInv'
  <1>1. TypeInv /\ MemoryType(mem) /\ DiskType(disk) /\ Reads("PUBREL") /\ phase' = phase
    BY DEF SessionInv, TypeInv, HandlePubrels
  <1>2. mem.up /\ Received.id \in Ids
    BY <1>1, ReadsOutcome DEF Packets
  <1> DEFINE id == Received.id
             p == Ack("PUBCOMP", id)
  <1>3. p \in Packets /\ p.type \notin Sending
    BY <1>2, AckType DEF Sending, Answering
  <1>4. CASE id \in DOMAIN mem.inbound
    <2> DEFINE msg == mem.inbound[id]
               n == [mem EXCEPT !.inbound = Without(@, id)]
               m == Enqueue(n, msg)
               d == PersistQueueEntry(disk, m.seqno, msg)
               e == RemoveReceived(d, id)
               t == TearQueueEntry(disk, m.seqno)
               disks == <<disk, t, d, e>>
    <2>1. /\ MemoryType(n)
          /\ n.up = mem.up /\ n.partial = mem.partial /\ n.acks = mem.acks /\ n.outbound = mem.outbound
      <3>1. DOMAIN Without(mem.inbound, id) \subseteq Ids
        BY <1>1 DEF MemoryType, Without
      <3>2. MemoryType(n) /\ Same(n, mem, Fields \ {"inbound"})
        <4> HIDE DEF id
        <4> QED  BY <1>1, <1>2, <3>1, MemoryFields
      <3> HIDE DEF n
      <3> QED  BY <3>2 DEF Same, Fields
    <2>2. /\ MemoryType(m) /\ m.seqno \in Seqnos
          /\ m.up = mem.up /\ m.partial = mem.partial /\ m.acks = mem.acks /\ m.outbound = mem.outbound
      <3> HIDE DEF n, msg
      <3>1. MemoryType(m) /\ m.seqno \in Seqnos /\ Same(m, n, Fields \ {"queue", "seqno"})
        BY <1>2, <2>1, EnqueueType
      <3> QED  BY <2>1, <3>1 DEF Same, Fields
    <2>3. /\ DiskType(d) /\ SameRecords(disk, d) /\ DiskType(t) /\ SameRecords(disk, t)
          /\ SameRecords(disk, disk)
      BY <1>1, <2>2, QueueUpdates DEF SameRecords
    <2>4. DiskType(e) /\ SameRecords(disk, e)
      <3> HIDE DEF d
      <3> QED  BY <1>2, <2>3, DiskUpdates DEF SameRecords
    <2>5. SendAck(disks, m, p)
      BY <1>4 DEF HandlePubrels
    <2>6. Len(disks) \in Nat \ {0} /\ DOMAIN disks = 1..Len(disks) /\ \A i \in DOMAIN disks : disks[i] \in {disk, t, d, e}
      OBVIOUS
    <2> HIDE DEF disks, m, d, e, t
    <2>7. Unsent(m) /\ \E i \in DOMAIN disks : disk' = disks[i]
      BY <1>1, <1>2, <1>3, <2>2, <2>5, <2>6, AnswerOutcome
    <2> QED  BY <1>1, <2>2, <2>3, <2>4, <2>6, <2>7, AnsweredStep
  <1>5. CASE id \notin DOMAIN mem.inbound
    <2> DEFINE disks == <<disk>>
    <2>1. SendAck(disks, mem, p)
      BY <1>5 DEF HandlePubrels
    <2>2. Len(disks) \in Nat \ {0} /\ DOMAIN disks = 1..Len(disks) /\ \A i \in DOMAIN disks : disks[i] = disk
      OBVIOUS
    <2> HIDE DEF disks
    <2>3. Unsent(mem) /\ \E i \in DOMAIN disks : disk' = disks[i]
      BY <1>1, <1>2, <1>3, <2>1, <2>2, AnswerOutcome
    <2>4. SameRecords(disk, disk)
      BY DEF SameRecords
    <2> QED  BY <1>1, <2>2, <2>3, <2>4, AnsweredStep
  <1> QED  BY <1>4, <1>5

\* A handler that writes nothing.
LEMMA PerformOutcome ==
    ASSUME TypeInv, NEW m, NEW disks, Perform(disks, m, <<>>)
    PROVE  \/ disk' = Last(disks) /\ mem' = m /\ toBroker' = toBroker /\ torn' = torn
           \/ CrashIn(disks)
  <1>1. toBroker \o <<>> = toBroker
    BY ConcatEmptySeq DEF TypeInv, NetworkType
  <1> QED  BY <1>1 DEF Perform

\* A step that changes of the memory neither outboundMsgs nor the packets waiting.
LEMMA UnsentSame ==
    ASSUME TypeInv, MemoryType(mem'), toBroker' = toBroker, torn' = torn, mem'.up = mem.up,
           mem'.outbound = mem.outbound, mem'.acks = mem.acks,
           mem'.partial = mem.partial \/ mem'.partial = <<>>
    PROVE  Unsent(mem)
  <1>1. toBroker \in Seq(Packets) /\ mem.partial \in Seq(Packets)
    BY DEF TypeInv, NetworkType, MemoryType
  <1>2. Outgoing' = Outgoing \/ Outgoing' = toBroker
    BY <1>1, ConcatEmptySeq DEF Outgoing
  <1>3. Range(toBroker) \subseteq Range(Outgoing) /\ (InOrder(Outgoing) => InOrder(toBroker))
    BY <1>1, RangeConcatenation, InOrderConcat DEF Outgoing
  <1> QED  BY <1>1, <1>2, <1>3 DEF Unsent, Quieter

LEMMA UnsentCrash ==
    ASSUME TypeInv, NEW disks, CrashIn(disks)
    PROVE  Unsent(mem)
  <1>1. toBroker \in Seq(Packets)
    BY DEF TypeInv, NetworkType
  <1>2. /\ MemoryType(mem') /\ mem'.up = FALSE /\ mem'.outbound = <<>> /\ mem'.acks = <<>>
        /\ toBroker' = toBroker /\ torn \subseteq torn'
        /\ Quieter(Outgoing, Outgoing') /\ (InOrder(Outgoing) => InOrder(Outgoing'))
    BY CrashOutcome
  <1> QED  BY <1>1, <1>2, RangeShort DEF Unsent, Quieter

\* A quiet step with everything but the client and its connection unchanged.
LEMMA LocalStep ==
    ASSUME SessionInv, Unsent(mem), DiskType(disk'), SameRecords(disk, disk'),
           UNCHANGED <<toClient, brokerVars, phase, reused>>
    PROVE  SessionInv'
  <1>1. TypeInv'
    BY DEF SessionInv, TypeInv, NetworkType, Unsent
  <1>2. Quiet
    BY DEF Quiet, Unsent, SameRecords
  <1> QED  BY <1>1, <1>2, QuietStep

LEMMA DeliverStep ==
    ASSUME SessionInv, Deliver
    PROVE  SessionInv'
  <1> DEFINE n == Head(mem.queue).seqno
             d == UnpersistQueueEntry(disk, n)
             m == [mem EXCEPT !.queue = Tail(@)]
             disks == <<disk, d>>
  <1>1. TypeInv /\ MemoryType(mem) /\ DiskType(disk) /\ mem.up
    BY DEF SessionInv, TypeInv, Deliver, Connected
  <1>2. DiskType(d) /\ SameRecords(disk, d) /\ SameRecords(disk, disk)
    BY <1>1, QueueUpdates DEF SameRecords
  <1>3. /\ MemoryType(m) /\ m.up = mem.up /\ m.outbound = mem.outbound /\ m.acks = mem.acks
        /\ m.partial = mem.partial
    <2>1. MemoryType(m) /\ Same(m, mem, Fields \ {"queue"})
      BY <1>1, MemoryFields
    <2> HIDE DEF m
    <2> QED  BY <2>1 DEF Same, Fields
  <1>4. Perform(disks, m, <<>>) /\ UNCHANGED <<toClient, brokerVars, phase, reused>>
    BY DEF Deliver
  <1>5. Last(disks) = d /\ \A i \in DOMAIN disks : disks[i] \in {disk, d}
    BY DEF Last
  <1> HIDE DEF disks, m, d
  <1>6. CASE disk' = Last(disks) /\ mem' = m /\ toBroker' = toBroker /\ torn' = torn
    <2>1. Unsent(mem)
      BY <1>1, <1>3, <1>6, UnsentSame
    <2> QED  BY <1>2, <1>4, <1>5, <1>6, <2>1, LocalStep
  <1>7. CASE CrashIn(disks)
    <2>1. Unsent(mem) /\ \E i \in DOMAIN disks : disk' = disks[i]
      BY <1>1, <1>7, UnsentCrash, CrashOutcome
    <2> QED  BY <1>1, <1>2, <1>4, <1>5, <2>1, LocalStep
  <1> QED  BY <1>1, <1>4, <1>6, <1>7, PerformOutcome

LEMMA CrashStep ==
    ASSUME SessionInv, Crash
    PROVE  SessionInv'
  <1>1. TypeInv /\ DiskType(disk) /\ CrashIn(<<disk>>)
    BY DEF SessionInv, TypeInv, Crash
  <1>2. Unsent(mem) /\ disk' = disk
    BY <1>1, UnsentCrash DEF CrashIn, CrashWith
  <1>3. SameRecords(disk, disk')
    BY <1>2 DEF SameRecords
  <1> QED  BY <1>1, <1>2, <1>3, LocalStep DEF Crash

\* The connection breaks; with CleanSession the session would go as well.
LEMMA LinkDownStep ==
    ASSUME SessionInv, Persistent, LinkDown
    PROVE  SessionInv'
  <1> DEFINE m == [mem EXCEPT !.connected = FALSE, !.partial = <<>>]
  <1>1. TypeInv /\ MemoryType(mem) /\ DiskType(disk) /\ mem.up
    BY DEF SessionInv, TypeInv, LinkDown, Connected
  <1>2. mem' = m /\ disk' = disk /\ phase' = phase /\ toBroker' = toBroker
        /\ UNCHANGED <<toClient, brokerVars, reused, torn>>
    BY DEF LinkDown, Persistent
  <1>3. /\ MemoryType(m) /\ m.up = mem.up /\ m.outbound = mem.outbound /\ m.acks = mem.acks
        /\ m.partial = <<>>
    <2>1. <<>> \in Seq(Packets) /\ Len(<<>>) <= 1
      OBVIOUS
    <2>2. /\ m = [f \in Fields |-> m[f]] /\ m.partial = <<>> /\ m.connected = FALSE
          /\ Same(m, mem, Fields \ {"connected", "partial"})
      BY <1>1 DEF MemoryType, Fields, Same
    <2> HIDE DEF m
    <2> QED  BY <1>1, <2>1, <2>2 DEF MemoryType, Same, Fields
  <1>4. Unsent(mem) /\ SameRecords(disk, disk')
    BY <1>1, <1>2, <1>3, UnsentSame DEF SameRecords
  <1> QED  BY <1>1, <1>2, <1>4, LocalStep

-----------------------------------------------------------------------------
(* The broker's side.                                                      *)

\* Reading a packet from the connection takes the head of Outgoing.
LEMMA BrokerReadsOutcome ==
    ASSUME SessionInv, NEW type, BrokerReads(type)
    PROVE  LET p == Head(toBroker)
           IN  /\ p \in Packets /\ p.type = type /\ p \in Range(Outgoing)
               /\ toBroker' \in Seq(Packets) /\ Range(Outgoing') \subseteq Range(Outgoing)
               /\ InOrder(Outgoing) =>
                      /\ InOrder(Outgoing')
                      /\ p.type = "PUBREL" =>
                             \A q \in Range(Outgoing') :
                                 q.type = "PUBLISH" /\ q.id = p.id => OutQos[q.msg] # 2
               /\ UNCHANGED <<mem, disk, phase, sentIn, reused, torn>>
  <1>1. /\ toBroker \in Seq(Packets) /\ toBroker # <<>> /\ mem.partial \in Seq(Packets)
        /\ toBroker' = Tail(toBroker) /\ Head(toBroker).type = type /\ mem' = mem
        /\ UNCHANGED <<mem, disk, phase, sentIn, reused, torn>>
    BY DEF SessionInv, TypeInv, NetworkType, MemoryType, BrokerReads
  <1>2. /\ Outgoing \in Seq(Packets) /\ Outgoing # <<>>
        /\ Head(Outgoing) = Head(toBroker) /\ Tail(Outgoing) = Tail(toBroker) \o mem.partial
    <2> DEFINE a == toBroker
               b == mem.partial
    <2>1. /\ a \o b \in Seq(Packets) /\ Len(a \o b) = Len(a) + Len(b)
          /\ \A i \in 1 .. Len(a) + Len(b) : (a \o b)[i] = IF i <= Len(a) THEN a[i] ELSE b[i - Len(a)]
      BY <1>1, ConcatProperties
    <2>2. Len(a) \in Nat \ {0} /\ Len(b) \in Nat /\ Head(a) = a[1]
      BY <1>1, EmptySeq
    <2>3. a \o b # <<>> /\ Head(a \o b) = (a \o b)[1]
      BY <2>1, <2>2, EmptySeq
    <2>4. Head(a \o b) = Head(a)
      BY <2>1, <2>2, <2>3
    <2>5. /\ Tail(a) \in Seq(Packets) /\ Len(Tail(a)) = Len(a) - 1
          /\ \A i \in 1 .. Len(Tail(a)) : Tail(a)[i] = a[i + 1]
      BY <1>1, HeadTailProperties
    <2>6. /\ Tail(a \o b) \in Seq(Packets) /\ Len(Tail(a \o b)) = Len(a) + Len(b) - 1
          /\ \A i \in 1 .. Len(Tail(a \o b)) : Tail(a \o b)[i] = (a \o b)[i + 1]
      BY <2>1, <2>3, HeadTailProperties
    <2>7. /\ Tail(a) \o b \in Seq(Packets) /\ Len(Tail(a) \o b) = Len(a) - 1 + Len(b)
          /\ \A i \in 1 .. Len(Tail(a)) + Len(b) :
                 (Tail(a) \o b)[i] = IF i <= Len(Tail(a)) THEN Tail(a)[i] ELSE b[i - Len(Tail(a))]
      BY <1>1, <2>5, ConcatProperties
    <2>8. ASSUME NEW i \in 1 .. Len(Tail(a \o b))
          PROVE  Tail(a \o b)[i] = (Tail(a) \o b)[i]
      <3>1. /\ i \in 1 .. Len(Tail(a)) + Len(b) /\ i + 1 \in 1 .. Len(a) + Len(b)
            /\ (i <= Len(Tail(a)) <=> i + 1 <= Len(a)) /\ i - Len(Tail(a)) = i + 1 - Len(a)
        BY <2>2, <2>5, <2>6
      <3>2. (i <= Len(Tail(a))) => Tail(a)[i] = a[i + 1]
        BY <2>5, <3>1
      <3> QED  BY <2>1, <2>6, <2>7, <3>1, <3>2
    <2>9. Tail(a \o b) = Tail(a) \o b
      BY <2>2, <2>6, <2>7, <2>8, SeqEqual
    <2> QED  BY <2>1, <2>3, <2>4, <2>9 DEF Outgoing
  <1>3. Outgoing' = Tail(Outgoing)
    BY <1>1, <1>2 DEF Outgoing
  <1>4. toBroker' \in Seq(Packets)
    BY <1>1, RangeTail
  <1>5. /\ Head(Outgoing) \in Packets /\ Head(Outgoing) \in Range(Outgoing)
        /\ Range(Tail(Outgoing)) \subseteq Range(Outgoing)
    BY <1>2, RangeTail
  <1>6. InOrder(Outgoing) =>
            /\ InOrder(Tail(Outgoing))
            /\ Head(Outgoing).type = "PUBREL" =>
                   \A q \in Range(Tail(Outgoing)) :
                       q.type = "PUBLISH" /\ q.id = Head(Outgoing).id => OutQos[q.msg] # 2
    BY <1>2, InOrderTail
  <1> QED  BY <1>1, <1>2, <1>3, <1>4, <1>5, <1>6

\* An answer of the broker joins toClient.
LEMMA AnswerType ==
    ASSUME SessionInv, NEW type, BrokerReads(type), NEW t \in Sending \cup Answering, Answer(t)
    PROVE  /\ toClient' \in Seq(Packets)
           /\ Range(toClient') = Range(toClient) \cup {Ack(t, Head(toBroker).id)}
           /\ Ack(t, Head(toBroker).id).type = t
           /\ Ack(t, Head(toBroker).id).id = Head(toBroker).id
  <1>1. toClient \in Seq(Packets) /\ Head(toBroker).id \in Ids
    BY BrokerReadsOutcome DEF SessionInv, TypeInv, NetworkType, Packets
  <1> QED  BY <1>1, AckType, RangeAppend DEF Answer

\* A step of the broker about its own messages.
LEMMA BrokerQuiet ==
    ASSUME SessionInv, NEW type, BrokerReads(type), toClient' \in Seq(Packets),
           \A p \in Range(toClient') : p.type \in Answering => p \in Range(toClient),
           bout' \in Seq(BrokerEntries), UNCHANGED <<bpub, distributed>>
    PROVE  SessionInv'
  <1>1. /\ toBroker' \in Seq(Packets) /\ Range(Outgoing') \subseteq Range(Outgoing)
        /\ InOrder(Outgoing) => InOrder(Outgoing')
        /\ UNCHANGED <<mem, disk, phase, sentIn, reused, torn>>
    BY BrokerReadsOutcome
  <1>2. TypeInv'
    BY <1>1 DEF SessionInv, TypeInv, NetworkType
  <1>3. MemoryType(mem)
    BY DEF SessionInv, TypeInv
  <1>4. Quiet
    BY <1>1, <1>3 DEF Quiet, Unsent, Quieter
  <1> QED  BY <1>2, <1>4, QuietStep

\* Removing an element leaves a sequence of the others.
LEMMA RemoveAtProperties ==
    ASSUME NEW S, NEW s \in Seq(S), NEW i \in DOMAIN s
    PROVE  /\ RemoveAt(s, i) \in Seq(S)
           /\ Len(RemoveAt(s, i)) = Len(s) - 1
           /\ \A j \in 1..(Len(s) - 1) : RemoveAt(s, i)[j] = IF j < i THEN s[j] ELSE s[j + 1]
  <1> DEFINE a == SubSeq(s, 1, i - 1)
             b == SubSeq(s, i + 1, Len(s))
  <1>1. Len(s) \in Nat /\ i \in 1..Len(s) /\ \A j \in 1..Len(s) : s[j] \in S
    OBVIOUS
  <1>2. a \in Seq(S) /\ Len(a) = i - 1 /\ \A j \in 1..(i - 1) : a[j] = s[j]
    <2>1. 1 \in Int /\ i - 1 \in Int /\ \A j \in 1..(i - 1) : s[j] \in S
      BY <1>1
    <2>2. /\ a \in Seq(S) /\ Len(a) = IF 1 <= i - 1 THEN (i - 1) - 1 + 1 ELSE 0
          /\ \A j \in 1 .. ((i - 1) - 1 + 1) : a[j] = s[1 + j - 1]
      BY <2>1, SubSeqProperties
    <2> QED  BY <1>1, <2>2
  <1>3. b \in Seq(S) /\ Len(b) = Len(s) - i /\ \A j \in 1..(Len(s) - i) : b[j] = s[i + j]
    <2>1. i + 1 \in Int /\ Len(s) \in Int /\ \A j \in (i + 1)..Len(s) : s[j] \in S
      BY <1>1
    <2>2. /\ b \in Seq(S) /\ Len(b) = IF i + 1 <= Len(s) THEN Len(s) - (i + 1) + 1 ELSE 0
          /\ \A j \in 1 .. (Len(s) - (i + 1) + 1) : b[j] = s[(i + 1) + j - 1]
      BY <2>1, SubSeqProperties
    <2> QED  BY <1>1, <2>2
  <1>4. RemoveAt(s, i) = a \o b
    BY DEF RemoveAt
  <1> HIDE DEF a, b
  <1>5. /\ a \o b \in Seq(S) /\ Len(a \o b) = Len(a) + Len(b)
        /\ \A j \in 1 .. Len(a) + Len(b) : (a \o b)[j] = IF j <= Len(a) THEN a[j] ELSE b[j - Len(a)]
    BY <1>2, <1>3, ConcatProperties
  <1>6. ASSUME NEW j \in 1..(Len(s) - 1)
        PROVE  (a \o b)[j] = IF j < i THEN s[j] ELSE s[j + 1]
    <2>1. j \in 1 .. Len(a) + Len(b)
      BY <1>1, <1>2, <1>3
    <2>2. CASE j < i
      <3>1. j <= Len(a) /\ j \in 1..(i - 1)
        BY <1>1, <1>2, <2>2
      <3> QED  BY <1>2, <1>5, <2>1, <2>2, <3>1
    <2>3. CASE ~(j < i)
      <3>1. ~(j <= Len(a)) /\ j - Len(a) \in 1..(Len(s) - i) /\ i + (j - Len(a)) = j + 1
        BY <1>1, <1>2, <2>3
      <3> QED  BY <1>3, <1>5, <2>1, <2>3, <3>1
    <2> QED  BY <2>2, <2>3
  <1>7. Len(a \o b) = Len(s) - 1
    BY <1>1, <1>2, <1>3, <1>5
  <1> QED  BY <1>4, <1>5, <1>6, <1>7

LEMMA BrokerCompletionStep ==
    ASSUME SessionInv, NEW type, BrokerCompletion(type)
    PROVE  SessionInv'
  <1>1. bout \in Seq(BrokerEntries) /\ toClient \in Seq(Packets)
    BY DEF SessionInv, TypeInv, NetworkType
  <1>2. bout' \in Seq(BrokerEntries)
    BY <1>1, RemoveAtProperties DEF BrokerCompletion
  <1> QED  BY <1>1, <1>2, BrokerQuiet DEF BrokerCompletion

LEMMA BrokerPubrecStep ==
    ASSUME SessionInv, BrokerPubrec
    PROVE  SessionInv'
  <1>1. bout \in Seq(BrokerEntries)
    BY DEF SessionInv, TypeInv, NetworkType
  <1>2. bout' \in Seq(BrokerEntries)
    <2> DEFINE e(i) == IF bout[i].id = Head(toBroker).id /\ bout[i].next = "PUBREC"
                       THEN [bout[i] EXCEPT !.next = "PUBCOMP"] ELSE bout[i]
    <2>1. Len(bout) \in Nat /\ DOMAIN bout = 1..Len(bout) /\ \A i \in 1..Len(bout) : bout[i] \in BrokerEntries
      BY <1>1
    <2>2. \A i \in 1..Len(bout) : e(i) \in BrokerEntries
      BY <2>1 DEF BrokerEntries, Stages
    <2>3. bout' = [i \in 1..Len(bout) |-> e(i)]
      BY <2>1 DEF BrokerPubrec
    <2> HIDE DEF e
    <2> QED  BY <2>1, <2>2, <2>3
  <1>3. /\ toClient' \in Seq(Packets)
        /\ \A p \in Range(toClient') : p.type \in Answering => p \in Range(toClient)
    <2>1. /\ toClient' \in Seq(Packets)
          /\ Range(toClient') = Range(toClient) \cup {Ack("PUBREL", Head(toBroker).id)}
          /\ Ack("PUBREL", Head(toBroker).id).type = "PUBREL"
      BY AnswerType DEF BrokerPubrec, Sending
    <2> QED  BY <2>1 DEF Answering
  <1> QED  BY <1>2, <1>3, BrokerQuiet DEF BrokerPubrec

\* The least free id is an id, and free.
LEMMA FreeId ==
    ASSUME NEW s \in Seq(BrokerEntries), Len(s) < MaxMsgId
    PROVE  Min(Ids \ {s[i].id : i \in DOMAIN s}) \in Ids \ {s[i].id : i \in DOMAIN s}
  <1> DEFINE used == {s[i].id : i \in DOMAIN s}
  <1>1. Len(s) \in Nat /\ DOMAIN s = 1..Len(s) /\ \A i \in 1..Len(s) : s[i] \in BrokerEntries
    OBVIOUS
  <1>2. used \subseteq Ids
    <2>1. \A i \in DOMAIN s : s[i].id \in Ids
      BY <1>1 DEF BrokerEntries
    <2> QED  BY <2>1
  <1>3. Cardinality(used) <= Len(s)
    <2> DEFINE f == [i \in 1..Len(s) |-> s[i].id]
    <2>1. f \in [1..Len(s) -> used] /\ \A u \in used : \E i \in 1..Len(s) : f[i] = u
      BY <1>1
    <2> HIDE DEF f, used
    <2>2. f \in Surjection(1..Len(s), used)
      BY <2>1 DEF Surjection
    <2> QED  BY <1>1, <2>2, FS_Surjection, FS_Interval
  <1>4. MaxMsgId \in Nat /\ Cardinality(Ids) = MaxMsgId
    BY SessionAssumption, FS_Interval DEF Ids
  <1>5. Ids \ used # {}
    <2> SUFFICES ASSUME Ids \ used = {} PROVE FALSE
      OBVIOUS
    <2>1. used = Ids
      BY <1>2
    <2> HIDE DEF used
    <2> QED  BY <1>1, <1>3, <1>4, <2>1
  <1> DEFINE free == Ids \ used
  <1>6. free \subseteq Nat
    BY DEF Ids
  <1>7. \E x \in free : \A y \in free : x <= y
    <2> HIDE DEF free
    <2> QED  BY <1>5, <1>6, LeastElement DEF free
  <1> HIDE DEF free, used
  <1>8. Min(free) \in free
    BY <1>7 DEF Min
  <1> QED  BY <1>8 DEF free, used

LEMMA BrokerSendStep ==
    ASSUME SessionInv, BrokerSend
    PROVE  SessionInv'
  <1> DEFINE used == {bout[i].id : i \in DOMAIN bout}
             id == Min(Ids \ used)
             next == IF InQos[sentIn'] = 2 THEN "PUBREC" ELSE "PUBACK"
             p == Packet("PUBLISH", id, sentIn')
  <1>1. /\ TypeInv /\ bout \in Seq(BrokerEntries) /\ toClient \in Seq(Packets) /\ sentIn \in Nat
        /\ sentIn' = sentIn + 1 /\ Len(bout) < MaxMsgId
        /\ MemoryType(mem)
    BY DEF SessionInv, TypeInv, NetworkType, BrokerSend
  <1>2. id \in Ids
    BY <1>1, FreeId
  <1> HIDE DEF id
  <1>3. p \in Packets /\ p.type = "PUBLISH"
    BY <1>1, <1>2 DEF Packet, Packets, Sending
  <1>4. [id |-> id, msg |-> sentIn', next |-> next] \in BrokerEntries
    BY <1>1, <1>2 DEF BrokerEntries, Stages
  <1>5. /\ bout' = Append(bout, [id |-> id, msg |-> sentIn', next |-> next])
        /\ toClient' = Append(toClient, p)
        /\ UNCHANGED <<mem, disk, phase, toBroker, bpub, distributed, reused, torn>>
    BY DEF BrokerSend, id
  <1> HIDE DEF p, next
  <1>6. /\ bout' \in Seq(BrokerEntries) /\ toClient' \in Seq(Packets) /\ sentIn' \in Nat
        /\ Range(toClient') = Range(toClient) \cup {p}
    BY <1>1, <1>3, <1>4, <1>5, RangeAppend
  <1>7. TypeInv'
    BY <1>1, <1>5, <1>6 DEF TypeInv, NetworkType
  <1>8. Unsent(mem)
    BY <1>1, <1>5, UnsentSame
  <1>9. Quiet
    BY <1>3, <1>5, <1>6, <1>8 DEF Quiet, Unsent, Answering
  <1> QED  BY <1>7, <1>9, QuietStep

\* A PUBLISH is answered: QoS 1 is distributed at once, QoS 2 held for its PUBREL.
LEMMA BrokerPublishStep ==
    ASSUME SessionInv, BrokerPublish
    PROVE  SessionInv'
  <1>1. /\ TypeInv /\ RecordInv /\ (~Confused => ExchangeInv) /\ BrokerReads("PUBLISH")
        /\ MemoryType(mem) /\ DiskType(disk) /\ NetworkType
    BY DEF SessionInv, TypeInv, BrokerPublish
  <1>2. PICK p \in Packets :
        /\ p = Head(toBroker) /\ p.type = "PUBLISH" /\ p \in Range(Outgoing)
        /\ toBroker' \in Seq(Packets) /\ Range(Outgoing') \subseteq Range(Outgoing)
        /\ InOrder(Outgoing) => InOrder(Outgoing')
        /\ mem' = mem /\ disk' = disk /\ phase' = phase /\ sentIn' = sentIn
        /\ reused' = reused /\ Confused' = Confused
    BY <1>1, BrokerReadsOutcome DEF Confused
  <1>3. bout' = bout
    BY DEF BrokerPublish
  <1>4. p.msg \in Messages /\ phase[p.msg] # "new" /\ p.id \in Ids
    BY <1>1, <1>2 DEF RecordInv, Packets
  <1>5. OutIds' = OutIds /\ (mem.acks)' = mem.acks
    BY <1>2 DEF OutIds
  <1>6. CASE OutQos[p.msg] = 1
    <2>1. /\ bpub' = bpub /\ distributed' = [distributed EXCEPT ![p.msg] = @ + 1]
          /\ Answer("PUBACK")
      BY <1>2, <1>6 DEF BrokerPublish, Distribute
    <2>2. /\ toClient' \in Seq(Packets)
          /\ Range(toClient') = Range(toClient) \cup {Ack("PUBACK", p.id)}
          /\ Ack("PUBACK", p.id).type = "PUBACK" /\ Ack("PUBACK", p.id).id = p.id
      BY <1>1, <1>2, <2>1, AnswerType DEF Answering
    <2>3. /\ distributed \in [Messages -> Nat] /\ distributed' \in [Messages -> Nat]
          /\ distributed'[p.msg] > 0
          /\ \A n \in Messages : n # p.msg => distributed'[n] = distributed[n]
          /\ \A n \in Messages : distributed[n] > 0 => distributed'[n] > 0
      BY <1>1, <1>4, <2>1 DEF NetworkType
    <2>4. TypeInv'
      BY <1>1, <1>2, <1>3, <2>1, <2>2, <2>3 DEF TypeInv, NetworkType
    <2>5. RecordInv'
      <3>1. Mirrored'
        BY <1>1, <1>2, <1>5 DEF RecordInv, Mirrored, Live
      <3>2. \A n \in Messages : phase'[n] = "new" => distributed'[n] = 0
        BY <1>1, <1>2, <1>4, <2>3 DEF RecordInv
      <3> QED  BY <1>1, <1>2, <1>5, <2>1, <3>1, <3>2 DEF RecordInv
    <2>6. ASSUME ~Confused PROVE ExchangeInv'
      <3>0. ExchangeInv /\ p.type = "PUBLISH"
        BY <1>1, <1>2, <2>6
      <3>1. \A id \in DOMAIN disk.sent : disk.sent[id] \in Messages
        BY <1>1 DEF DiskType, Table
      <3>2. \A id \in DOMAIN disk.sent : /\ QosOf(id)' = QosOf(id)
                                         /\ Taken(id) => Taken(id)'
                                         /\ QosOf(id) = 2 => (Taken(id) <=> Taken(id)')
        <4> SUFFICES ASSUME NEW id \in DOMAIN disk.sent
                     PROVE  /\ QosOf(id)' = QosOf(id)
                            /\ Taken(id) => Taken(id)'
                            /\ QosOf(id) = 2 => (Taken(id) <=> Taken(id)')
          OBVIOUS
        <4> DEFINE n == disk.sent[id]
        <4>1. /\ QosOf(id) = OutQos[n] /\ QosOf(id)' = OutQos[n] /\ n \in Messages
              /\ Taken(id) <=> distributed[n] > 0
              /\ Taken(id)' <=> distributed'[n] > 0
          BY <1>2, <3>1 DEF QosOf, Taken
        <4>2. OutQos[n] = 2 => n # p.msg
          BY <1>6
        <4> HIDE DEF n
        <4> QED  BY <2>3, <4>1, <4>2
      <3>3. \A id : Live(id)' = Live(id)
        BY <1>2 DEF Live
      <3>4. PublishesInv'
        <4>1. ASSUME NEW q \in Range(Outgoing'), q.type = "PUBLISH", OutQos[q.msg] = 2
              PROVE  distributed'[q.msg] = 0
          <5>1. q.msg # p.msg /\ q.msg \in Messages /\ distributed[q.msg] = 0
            BY <1>1, <1>2, <1>6, <3>0, <4>1 DEF RecordInv, ExchangeInv, PublishesInv
          <5> QED  BY <2>3, <5>1
        <4> QED  BY <1>2, <3>0, <3>3, <4>1 DEF ExchangeInv, PublishesInv
      <3>5. PubrelsInv'
        BY <1>2, <2>1, <3>0, <3>2, <3>3 DEF ExchangeInv, PubrelsInv, Held, Live
      <3>6. StagesInv'
        <4>1. mem.up => \A i \in DOMAIN mem.outbound : Live(mem.outbound[i].id)
          BY <1>1 DEF RecordInv, Mirrored
        <4>2. ~mem.up => DOMAIN mem.outbound = {}
          BY <1>1, DownType DEF MemoryType
        <4> QED  BY <1>2, <2>1, <3>0, <3>2, <4>1, <4>2 DEF ExchangeInv, StagesInv, Held, Live
      <3>7. AnswersInv'
        <4>1. Live(p.id) => disk.sent[p.id] = p.msg
          BY <1>2, <3>0 DEF ExchangeInv, PublishesInv
        <4>2. Live(p.id) => Taken(p.id)'
          BY <1>2, <2>3, <4>1 DEF Taken
        <4> QED  BY <2>1, <2>2, <3>0, <3>2, <3>3, <4>2 DEF ExchangeInv, AnswersInv, Held, Live
      <3>8. BrokerInv'
        <4>1. \A id \in DOMAIN bpub : bpub[id] \in Messages
          BY <1>1 DEF NetworkType, Table
        <4>2. ASSUME NEW id \in DOMAIN bpub
              PROVE  OutQos[bpub[id]] = 2 /\ distributed'[bpub[id]] = 0
          <5>1. OutQos[bpub[id]] = 2 /\ distributed[bpub[id]] = 0
            BY <3>0 DEF ExchangeInv, BrokerInv
          <5>2. bpub[id] # p.msg
            BY <1>6, <5>1
          <5> QED  BY <2>3, <4>1, <5>1, <5>2
        <4> QED  BY <1>2, <2>1, <3>0, <4>2 DEF ExchangeInv, BrokerInv, Live
      <3>9. OneNameInv'
        <4>1. \A id, n : Carries(id, n)' => Carries(id, n)
          BY <1>2, <2>1 DEF Carries, Live
        <4> QED  BY <3>0, <4>1, NamesKept DEF ExchangeInv
      <3> QED  BY <3>4, <3>5, <3>6, <3>7, <3>8, <3>9 DEF ExchangeInv
    <2> QED  BY <1>2, <2>4, <2>5, <2>6 DEF SessionInv
  <1>7. CASE OutQos[p.msg] # 1
    <2>0. OutQos[p.msg] = 2
      BY <1>4, <1>7, SessionAssumption DEF Messages
    <2>1. /\ bpub' = (IF p.id \in DOMAIN bpub THEN bpub ELSE Put(bpub, p.id, p.msg))
          /\ distributed' = distributed /\ Answer("PUBREC")
      BY <1>2, <1>7 DEF BrokerPublish
    <2>2. /\ toClient' \in Seq(Packets)
          /\ Range(toClient') = Range(toClient) \cup {Ack("PUBREC", p.id)}
          /\ Ack("PUBREC", p.id).type = "PUBREC" /\ Ack("PUBREC", p.id).id = p.id
      BY <1>1, <1>2, <2>1, AnswerType DEF Answering
    <2>3. /\ bpub' = [k \in DOMAIN bpub' |-> bpub'[k]]
          /\ DOMAIN bpub' = DOMAIN bpub \cup {p.id}
          /\ \A k \in DOMAIN bpub : bpub'[k] = bpub[k]
          /\ p.id \notin DOMAIN bpub => bpub'[p.id] = p.msg
      <3>1. bpub = [k \in DOMAIN bpub |-> bpub[k]]
        BY <1>1 DEF NetworkType, Table
      <3>2. CASE p.id \in DOMAIN bpub
        BY <2>1, <3>1, <3>2
      <3>3. CASE p.id \notin DOMAIN bpub
        <4>1. bpub' = [x \in DOMAIN bpub \cup {p.id} |-> IF x = p.id THEN p.msg ELSE bpub[x]]
          BY <2>1, <3>3 DEF Put
        <4> QED  BY <3>3, <4>1
      <3> QED  BY <3>2, <3>3
    <2>4. TypeInv'
      <3>1. Table(bpub', Ids, Messages)
        <4>1. DOMAIN bpub \subseteq Ids /\ \A k \in DOMAIN bpub : bpub[k] \in Messages
          BY <1>1 DEF NetworkType, Table
        <4> QED  BY <1>4, <2>3, <4>1 DEF Table
      <3> QED  BY <1>1, <1>2, <1>3, <2>1, <2>2, <3>1 DEF TypeInv, NetworkType
    <2>5. RecordInv'
      <3>1. Mirrored'
        BY <1>1, <1>2, <1>5 DEF RecordInv, Mirrored, Live
      <3>2. \A k \in DOMAIN bpub' : phase'[bpub'[k]] # "new"
        BY <1>1, <1>2, <1>4, <2>3 DEF RecordInv
      <3> QED  BY <1>1, <1>2, <1>5, <2>1, <3>1, <3>2 DEF RecordInv
    <2>6. ASSUME ~Confused PROVE ExchangeInv'
      <3>0. ExchangeInv
        BY <1>1, <2>6
      <3>1. (Live(p.id) => disk.sent[p.id] = p.msg) /\ distributed[p.msg] = 0
        BY <1>2, <2>0, <3>0 DEF ExchangeInv, PublishesInv
      <3>2. \A id : /\ QosOf(id)' = QosOf(id) /\ Taken(id)' = Taken(id) /\ Live(id)' = Live(id)
                    /\ Held(id) => Held(id)'
        BY <1>2, <2>1, <2>3 DEF QosOf, Taken, Live, Held
      <3>3. Live(p.id) => QosOf(p.id) = 2 /\ Held(p.id)'
        BY <2>0, <2>3, <3>1 DEF QosOf, Held
      <3>4. PublishesInv'
        BY <1>2, <2>1, <3>0, <3>2 DEF ExchangeInv, PublishesInv
      <3>5. PubrelsInv'
        BY <1>2, <2>1, <3>0, <3>2 DEF ExchangeInv, PubrelsInv
      <3>6. StagesInv'
        BY <1>2, <3>0, <3>2 DEF ExchangeInv, StagesInv
      <3>7. AnswersInv'
        BY <2>2, <3>0, <3>2, <3>3 DEF ExchangeInv, AnswersInv
      <3>8. BrokerInv'
        <4> SUFFICES ASSUME NEW k \in DOMAIN bpub'
                     PROVE  /\ Live(k) => bpub'[k] = disk.sent[k]
                            /\ OutQos[bpub'[k]] = 2 /\ distributed[bpub'[k]] = 0
          BY <1>2, <2>1, <3>2 DEF BrokerInv
        <4>1. CASE k \in DOMAIN bpub
          BY <2>3, <3>0, <4>1 DEF ExchangeInv, BrokerInv
        <4>2. CASE k \notin DOMAIN bpub
          BY <2>0, <2>3, <3>1, <4>2
        <4> QED  BY <4>1, <4>2
      <3>9. OneNameInv'
        <4>1. ASSUME NEW id, NEW n, Carries(id, n)' PROVE Carries(id, n)
          <5>1. CASE id \in DOMAIN bpub' /\ bpub'[id] = n
            <6>1. CASE id \in DOMAIN bpub
              BY <2>3, <5>1, <6>1 DEF Carries
            <6>2. CASE id \notin DOMAIN bpub
              BY <1>2, <2>3, <5>1, <6>2 DEF Carries
            <6> QED  BY <6>1, <6>2
          <5>2. CASE ~(id \in DOMAIN bpub' /\ bpub'[id] = n)
            BY <1>2, <4>1, <5>2 DEF Carries, Live
          <5> QED  BY <5>1, <5>2
        <4> QED  BY <3>0, <4>1, NamesKept DEF ExchangeInv
      <3> QED  BY <3>4, <3>5, <3>6, <3>7, <3>8, <3>9 DEF ExchangeInv
    <2> QED  BY <1>2, <2>4, <2>5, <2>6 DEF SessionInv
  <1> QED  BY <1>6, <1>7

\* A PUBREL releases the message held under its id, if any.
LEMMA BrokerPubrelStep ==
    ASSUME SessionInv, BrokerPubrel
    PROVE  SessionInv'
  <1>1. /\ TypeInv /\ RecordInv /\ (~Confused => ExchangeInv) /\ BrokerReads("PUBREL")
        /\ MemoryType(mem) /\ DiskType(disk) /\ NetworkType
    BY DEF SessionInv, TypeInv, BrokerPubrel
  <1>2. PICK p \in Packets :
        /\ p = Head(toBroker) /\ p.type = "PUBREL" /\ p \in Range(Outgoing)
        /\ toBroker' \in Seq(Packets) /\ Range(Outgoing') \subseteq Range(Outgoing)
        /\ InOrder(Outgoing) =>
               /\ InOrder(Outgoing')
               /\ \A q \in Range(Outgoing') : q.type = "PUBLISH" /\ q.id = p.id => OutQos[q.msg] # 2
        /\ mem' = mem /\ disk' = disk /\ phase' = phase /\ sentIn' = sentIn
        /\ reused' = reused /\ Confused' = Confused
    BY <1>1, BrokerReadsOutcome DEF Confused
  <1>3. bout' = bout /\ Answer("PUBCOMP")
    BY DEF BrokerPubrel
  <1>4. /\ toClient' \in Seq(Packets)
        /\ Range(toClient') = Range(toClient) \cup {Ack("PUBCOMP", p.id)}
        /\ Ack("PUBCOMP", p.id).type = "PUBCOMP" /\ Ack("PUBCOMP", p.id).id = p.id
    BY <1>1, <1>2, <1>3, AnswerType DEF Answering
  <1>5. OutIds' = OutIds /\ (mem.acks)' = mem.acks
    BY <1>2 DEF OutIds
  <1>6. Mirrored'
    BY <1>1, <1>2, <1>5 DEF RecordInv, Mirrored, Live
  <1>7. CASE p.id \in DOMAIN bpub
    <2> DEFINE n == bpub[p.id]
    <2>1. /\ bpub' = Without(bpub, p.id)
          /\ distributed' = [distributed EXCEPT ![n] = @ + 1]
      BY <1>2, <1>7 DEF BrokerPubrel, Distribute
    <2>2. n \in Messages /\ phase[n] # "new"
      BY <1>1, <1>7 DEF NetworkType, Table, RecordInv
    <2>3. /\ bpub' = [k \in DOMAIN bpub' |-> bpub'[k]]
          /\ DOMAIN bpub' = DOMAIN bpub \ {p.id}
          /\ \A k \in DOMAIN bpub' : bpub'[k] = bpub[k]
      BY <2>1 DEF Without
    <2> HIDE DEF n
    <2>4. /\ distributed \in [Messages -> Nat] /\ distributed' \in [Messages -> Nat]
          /\ distributed'[n] > 0
          /\ \A k \in Messages : k # n => distributed'[k] = distributed[k]
      BY <1>1, <2>1, <2>2 DEF NetworkType
    <2>5. TypeInv'
      <3>1. Table(bpub', Ids, Messages)
        <4>1. DOMAIN bpub \subseteq Ids /\ \A k \in DOMAIN bpub : bpub[k] \in Messages
          BY <1>1 DEF NetworkType, Table
        <4> QED  BY <2>3, <4>1 DEF Table
      <3> QED  BY <1>1, <1>2, <1>3, <1>4, <2>4, <3>1 DEF TypeInv, NetworkType
    <2>6. RecordInv'
      <3>1. \A k \in Messages : phase'[k] = "new" => distributed'[k] = 0
        BY <1>1, <1>2, <2>2, <2>4 DEF RecordInv
      <3>2. \A k \in DOMAIN bpub' : phase'[bpub'[k]] # "new"
        BY <1>1, <1>2, <2>3 DEF RecordInv
      <3> QED  BY <1>1, <1>2, <1>5, <1>6, <3>1, <3>2 DEF RecordInv
    <2>7. ASSUME ~Confused PROVE ExchangeInv'
      <3>0. ExchangeInv
        BY <1>1, <2>7
      <3>1. /\ OutQos[n] = 2 /\ distributed[n] = 0
            /\ Live(p.id) => n = disk.sent[p.id] /\ QosOf(p.id) = 2 /\ p.id \in disk.pubrel
        <4>1. /\ Live(p.id) => n = disk.sent[p.id]
              /\ OutQos[n] = 2 /\ distributed[n] = 0
          BY <1>7, <3>0 DEF ExchangeInv, BrokerInv, n
        <4>2. Live(p.id) => QosOf(p.id) = 2
          BY <4>1 DEF QosOf
        <4> QED  BY <1>2, <3>0, <4>1, <4>2 DEF ExchangeInv, PubrelsInv
      <3>a. \A id \in Ids : Carries(id, n) => id = p.id
        <4>1. Carries(p.id, n) /\ p.id \in Ids
          BY <1>2, <1>7 DEF Carries, n, Packets
        <4> QED  BY <2>2, <3>0, <3>1, <4>1 DEF ExchangeInv, OneNameInv
      <3>2. \A id \in DOMAIN disk.sent : id # p.id =>
                disk.sent[id] \in Messages /\ disk.sent[id] # n
        <4>1. DOMAIN disk.sent \subseteq Ids /\ \A id \in DOMAIN disk.sent : disk.sent[id] \in Messages
          BY <1>1 DEF DiskType, Table
        <4>2. \A id \in DOMAIN disk.sent : Carries(id, disk.sent[id])
          BY DEF Carries, Live
        <4> QED  BY <3>a, <4>1, <4>2
      <3>3. /\ Live(p.id) => Taken(p.id)'
            /\ \A id \in DOMAIN disk.sent : id # p.id =>
                   (Taken(id)' <=> Taken(id)) /\ (Held(id)' <=> Held(id))
        <4>1. Live(p.id) => Taken(p.id)'
          BY <1>2, <2>4, <3>1 DEF Taken
        <4>2. ASSUME NEW id \in DOMAIN disk.sent, id # p.id
              PROVE  (Taken(id)' <=> Taken(id)) /\ (Held(id)' <=> Held(id))
          <5>1. distributed'[disk.sent[id]] = distributed[disk.sent[id]]
            BY <2>4, <3>2, <4>2
          <5>2. Taken(id)' <=> Taken(id)
            BY <1>2, <5>1 DEF Taken
          <5> QED  BY <2>3, <4>2, <5>2 DEF Held
        <4> QED  BY <4>1, <4>2
      <3>4. \A id : Live(id)' = Live(id) /\ QosOf(id)' = QosOf(id)
        BY <1>2 DEF Live, QosOf
      <3>5. PublishesInv'
        <4>1. ASSUME NEW q \in Range(Outgoing'), q.type = "PUBLISH", OutQos[q.msg] = 2
              PROVE  distributed'[q.msg] = 0
          <5>1. q \in Range(Outgoing) /\ distributed[q.msg] = 0
            BY <1>2, <3>0, <4>1 DEF ExchangeInv, PublishesInv
          <5>2. q.id # p.id
            BY <1>2, <3>0, <4>1 DEF ExchangeInv, PublishesInv
          <5>3. q.id \in Ids /\ q.msg \in Messages /\ Carries(q.id, q.msg)
            <6>1. Outgoing \in Seq(Packets)
              BY <1>1, ConcatProperties DEF NetworkType, MemoryType, Outgoing
            <6>2. q \in Packets
              BY <5>1, <6>1 DEF Range
            <6>3. q.msg \in Messages
              BY <1>1, <4>1, <5>1 DEF RecordInv
            <6> QED  BY <4>1, <5>1, <6>2, <6>3 DEF Carries, Packets
          <5>4. q.msg # n
            BY <3>a, <5>2, <5>3
          <5> QED  BY <2>4, <5>1, <5>3, <5>4
        <4> QED  BY <1>2, <3>0, <3>4, <4>1 DEF ExchangeInv, PublishesInv
      <3>6. PubrelsInv'
        <4>1. /\ \A id \in DOMAIN disk.sent \cap disk.pubrel : QosOf(id) = 2 /\ Held(id)'
              /\ \A id \in DOMAIN disk.sent \ disk.pubrel : QosOf(id) = 2 => ~Taken(id)'
              /\ \A id \in disk.badPubrel : Live(id) => QosOf(id) = 2 /\ Held(id)'
          BY <3>0, <3>1, <3>3 DEF ExchangeInv, PubrelsInv, Held, Live
        <4> QED  BY <1>2, <3>0, <3>4, <4>1 DEF ExchangeInv, PubrelsInv
      <3>7. StagesInv'
        <4>1. mem.up => \A i \in DOMAIN mem.outbound : Live(mem.outbound[i].id)
          BY <1>1 DEF RecordInv, Mirrored
        <4>2. ~mem.up => DOMAIN mem.outbound = {}
          BY <1>1, DownType DEF MemoryType
        <4>3. \A id \in DOMAIN disk.sent : Held(id) => Held(id)'
          BY <3>3 DEF Held, Live
        <4> QED  BY <1>2, <3>0, <3>4, <4>1, <4>2, <4>3 DEF ExchangeInv, StagesInv, Live
      <3>8. AnswersInv'
        BY <1>4, <3>0, <3>1, <3>3, <3>4 DEF ExchangeInv, AnswersInv, Held, Live
      <3>9. BrokerInv'
        <4> SUFFICES ASSUME NEW k \in DOMAIN bpub, k # p.id
                     PROVE  /\ Live(k) => bpub[k] = disk.sent[k]
                            /\ OutQos[bpub[k]] = 2 /\ distributed'[bpub[k]] = 0
          BY <1>2, <2>3, <3>4 DEF BrokerInv
        <4>1. k \in Ids /\ bpub[k] \in Messages /\ Carries(k, bpub[k])
          BY <1>1 DEF NetworkType, Table, Carries
        <4>2. bpub[k] # n
          BY <3>a, <4>1
        <4> QED  BY <2>4, <3>0, <4>1, <4>2 DEF ExchangeInv, BrokerInv
      <3>10. OneNameInv'
        <4>1. \A id, k : Carries(id, k)' => Carries(id, k)
          BY <1>2, <2>3 DEF Carries, Live
        <4> QED  BY <3>0, <4>1, NamesKept DEF ExchangeInv
      <3> QED  BY <3>5, <3>6, <3>7, <3>8, <3>9, <3>10 DEF ExchangeInv
    <2> QED  BY <1>2, <2>5, <2>6, <2>7 DEF SessionInv
  <1>8. CASE p.id \notin DOMAIN bpub
    <2>1. bpub' = bpub /\ distributed' = distributed
      BY <1>2, <1>8 DEF BrokerPubrel
    <2>2. TypeInv'
      BY <1>1, <1>2, <1>3, <1>4, <2>1 DEF TypeInv, NetworkType
    <2>3. RecordInv'
      BY <1>1, <1>2, <1>5, <1>6, <2>1 DEF RecordInv
    <2>4. ASSUME ~Confused PROVE ExchangeInv'
      <3>0. ExchangeInv
        BY <1>1, <2>4
      <3>1. Live(p.id) => QosOf(p.id) = 2 /\ Taken(p.id)
        BY <1>2, <1>8, <3>0 DEF ExchangeInv, PubrelsInv, Live, Held
      <3>2. \A id : /\ QosOf(id)' = QosOf(id) /\ Taken(id)' = Taken(id) /\ Live(id)' = Live(id)
                    /\ Held(id)' = Held(id)
        BY <1>2, <2>1 DEF QosOf, Taken, Live, Held
      <3>3. PublishesInv'
        BY <1>2, <2>1, <3>0, <3>2 DEF ExchangeInv, PublishesInv
      <3>4. PubrelsInv'
        BY <1>2, <2>1, <3>0, <3>2 DEF ExchangeInv, PubrelsInv
      <3>5. StagesInv'
        BY <1>2, <3>0, <3>2 DEF ExchangeInv, StagesInv
      <3>6. AnswersInv'
        BY <1>4, <3>0, <3>1, <3>2 DEF ExchangeInv, AnswersInv
      <3>7. BrokerInv'
        BY <1>2, <2>1, <3>0, <3>2 DEF ExchangeInv, BrokerInv
      <3>8. OneNameInv'
        <4>1. \A id, k : Carries(id, k)' => Carries(id, k)
          BY <1>2, <2>1 DEF Carries, Live
        <4> QED  BY <3>0, <4>1, NamesKept DEF ExchangeInv
      <3> QED  BY <3>3, <3>4, <3>5, <3>6, <3>7, <3>8 DEF ExchangeInv
    <2> QED  BY <1>2, <2>2, <2>3, <2>4 DEF SessionInv
  <1> QED  BY <1>7, <1>8

-----------------------------------------------------------------------------
(* The client's own exchanges.                                             *)

\* The record of an exchange that is complete is removed, or lost in a crash.
Forgets(d, e, id) ==
    /\ DiskType(e) /\ DOMAIN e.sent = DOMAIN d.sent \ {id}
    /\ \A k \in DOMAIN e.sent : e.sent[k] = d.sent[k]
    /\ e.pubrel \subseteq d.pubrel /\ d.pubrel \subseteq e.pubrel \cup {id}
    /\ e.badPubrel = d.badPubrel

LEMMA ForgetStep ==
    ASSUME SessionInv, mem.up, NEW id \in DOMAIN disk.sent,
           Forgets(disk, disk', id), mem'.up => disk'.badSent = disk.badSent,
           Confused => Confused',
           MemoryType(mem'), toBroker' \in Seq(Packets), Mirrored',
           Quieter(Outgoing, Outgoing'), Quieter(mem.acks, mem'.acks),
           InOrder(Outgoing) => InOrder(Outgoing'),
           \A i \in DOMAIN mem'.outbound : \E j \in DOMAIN mem.outbound :
               mem'.outbound[i] = mem.outbound[j] /\ mem.outbound[j].id # id,
           toClient' \in Seq(Packets), Range(toClient') \subseteq Range(toClient),
           UNCHANGED <<bpub, bout, sentIn, distributed>>, reused' \in BOOLEAN,
           phase' \in [Messages -> Phases], phase'[disk.sent[id]] # "new",
           \A n \in Messages : n # disk.sent[id] => phase'[n] = phase[n]
    PROVE  SessionInv'
  <1>1. TypeInv /\ RecordInv /\ (~Confused => ExchangeInv) /\ DiskType(disk)
    BY DEF SessionInv, TypeInv
  <1>a. /\ DiskType(disk') /\ DOMAIN disk'.sent = DOMAIN disk.sent \ {id}
        /\ \A k \in DOMAIN disk'.sent : disk'.sent[k] = disk.sent[k]
        /\ disk'.pubrel \subseteq disk.pubrel /\ disk.pubrel \subseteq disk'.pubrel \cup {id}
        /\ disk'.badPubrel = {} /\ (mem'.up => disk'.badSent = {})
    BY <1>1 DEF Forgets, RecordInv
  <1>2. TypeInv'
    BY <1>1, <1>a DEF TypeInv, NetworkType
  <1>3. /\ \A p \in Range(Outgoing') : p.type \in Sending => p \in Range(Outgoing)
        /\ \A p \in Range(mem'.acks) : p.type \in Sending => p \in Range(mem.acks)
    BY DEF Quieter
  <1>4. /\ \A k \in DOMAIN disk.sent : disk.sent[k] \in Messages
        /\ \A k \in DOMAIN disk'.sent : k \in DOMAIN disk.sent /\ disk.sent[k] # disk.sent[id]
        /\ \A n \in Messages : phase'[n] = "new" => phase[n] = "new"
    BY <1>1, <1>a DEF DiskType, Table, RecordInv
  <1>5. RecordInv'
    <2>1. Cardinality(DOMAIN disk'.sent) <= MaxInflight
      <3>1. IsFiniteSet(DOMAIN disk.sent)
        <4>1. DOMAIN disk.sent \subseteq Ids
          BY <1>1 DEF DiskType, Table
        <4>2. IsFiniteSet(Ids)
          BY SessionAssumption, FS_Interval DEF Ids
        <4> QED  BY <4>1, <4>2, FS_Subset
      <3>2. /\ Cardinality(DOMAIN disk'.sent) <= Cardinality(DOMAIN disk.sent)
            /\ Cardinality(DOMAIN disk'.sent) \in Nat /\ Cardinality(DOMAIN disk.sent) \in Nat
        <4>1. DOMAIN disk'.sent \subseteq DOMAIN disk.sent
          BY <1>a
        <4> QED  BY <3>1, <4>1, FS_Subset, FS_CardinalityType
      <3> QED  BY <1>1, <3>2, SessionAssumption DEF RecordInv
    <2>2. \A i, j \in DOMAIN disk'.sent : disk'.sent[i] = disk'.sent[j] => i = j
      BY <1>1, <1>a DEF RecordInv
    <2>3. \A i \in DOMAIN disk'.sent : phase'[disk'.sent[i]] \in {"submitted", "accepted"}
      BY <1>1, <1>a, <1>4 DEF RecordInv
    <2>4. \A n \in Messages : phase'[n] = "new" => distributed'[n] = 0
      BY <1>1, <1>4 DEF RecordInv
    <2>5. /\ \A p \in Range(Outgoing') : p.type = "PUBLISH" => p.msg \in Messages /\ phase'[p.msg] # "new"
          /\ \A p \in Range(mem'.acks) : p.type # "PUBLISH"
      BY <1>1, <1>3, <1>4 DEF RecordInv, Sending
    <2>6. \A i \in DOMAIN bpub' : phase'[bpub'[i]] # "new"
      <3>1. \A i \in DOMAIN bpub : bpub[i] \in Messages
        BY <1>1 DEF TypeInv, NetworkType, Table
      <3> QED  BY <1>1, <1>4, <3>1 DEF RecordInv
    <2> QED  BY <1>a, <2>1, <2>2, <2>3, <2>4, <2>5, <2>6 DEF RecordInv
  <1>6. ASSUME ~Confused PROVE ExchangeInv'
    <2>0. ExchangeInv /\ Live(id)
      BY <1>1, <1>6 DEF Live
    <2>1. \A k : Live(k)' => /\ Live(k) /\ k # id
                             /\ QosOf(k)' = QosOf(k)
                             /\ (Taken(k)' <=> Taken(k)) /\ (Held(k)' <=> Held(k))
                             /\ (k \in disk'.pubrel <=> k \in disk.pubrel)
      BY <1>a DEF Live, QosOf, Taken, Held
    <2>2. PublishesInv'
      BY <1>3, <1>a, <2>0, <2>1 DEF ExchangeInv, PublishesInv, Live, Sending
    <2>3. PubrelsInv'
      <3>1. \A p \in Range(Outgoing') : p.type = "PUBREL" /\ Live(p.id)' => p.id \in disk'.pubrel
        BY <1>3, <2>0, <2>1 DEF ExchangeInv, PubrelsInv, Sending
      <3>2. \A p \in Range(mem'.acks) : p.type = "PUBREL" =>
               \A i \in DOMAIN mem'.outbound :
                   mem'.outbound[i].id = p.id => mem'.outbound[i].next = "PUBCOMP"
        BY <1>3, <2>0 DEF ExchangeInv, PubrelsInv, Sending
      <3>3. \A k \in DOMAIN disk'.sent : Live(k)' /\ k \in DOMAIN disk.sent
        BY <1>a DEF Live
      <3> QED  BY <1>a, <2>0, <2>1, <3>1, <3>2, <3>3 DEF ExchangeInv, PubrelsInv
    <2>4. StagesInv'
      <3>1. ASSUME NEW j \in DOMAIN mem.outbound, NEW e, e = mem.outbound[j], e.id # id
            PROVE  /\ e.next = "PUBACK" => QosOf(e.id)' = 1
                   /\ e.next = "PUBREC" => QosOf(e.id)' = 2 /\ e.id \notin disk'.pubrel
                   /\ e.next = "PUBCOMP" => QosOf(e.id)' = 2 /\ Held(e.id)'
        <4>1. Live(e.id)'
          BY <1>1, <1>a, <3>1 DEF RecordInv, Mirrored, Live
        <4> QED  BY <2>0, <2>1, <3>1, <4>1 DEF ExchangeInv, StagesInv
      <3> QED  BY <3>1 DEF StagesInv, QosOf, Held, Taken
    <2>5. AnswersInv'
      BY <2>0, <2>1 DEF ExchangeInv, AnswersInv
    <2>6. BrokerInv'
      BY <1>a, <2>0, <2>1 DEF ExchangeInv, BrokerInv, Live
    <2>7. OneNameInv'
      <3>1. \A k, n : Carries(k, n)' => Carries(k, n)
        BY <1>3, <1>a DEF Carries, Live, Sending
      <3> QED  BY <2>0, <3>1, NamesKept DEF ExchangeInv
    <2> QED  BY <2>2, <2>3, <2>4, <2>5, <2>6, <2>7 DEF ExchangeInv
  <1> QED  BY <1>2, <1>5, <1>6 DEF SessionInv

\* PUBACK and PUBCOMP end the exchange they match, and are ignored otherwise.
LEMMA RemoveSentDisks ==
    ASSUME NEW d, DiskType(d), NEW id \in Ids,
           NEW e, e = RemoveSent(d, id)[1] \/ e = RemoveSent(d, id)[2]
    PROVE  Forgets(d, e, id) /\ e.badSent = d.badSent
  <1> DEFINE d1 == [d EXCEPT !.sent = Without(@, id)]
             d2 == [d1 EXCEPT !.pubrel = @ \ {id}]
  <1>1. e = d1 \/ e = d2
    BY DEF RemoveSent
  <1>2. /\ Table(Without(d.sent, id), Ids, Messages)
        /\ DOMAIN Without(d.sent, id) = DOMAIN d.sent \ {id}
        /\ \A k \in DOMAIN Without(d.sent, id) : Without(d.sent, id)[k] = d.sent[k]
    BY DEF DiskType, Table, Without
  <1>3. /\ DiskType(d1) /\ d1.sent = Without(d.sent, id) /\ d1.pubrel = d.pubrel
        /\ d1.badSent = d.badSent /\ d1.badPubrel = d.badPubrel
    BY <1>2 DEF DiskType, DiskFields
  <1>4. /\ DiskType(d2) /\ d2.sent = Without(d.sent, id) /\ d2.pubrel = d.pubrel \ {id}
        /\ d2.badSent = d.badSent /\ d2.badPubrel = d.badPubrel
    <2> HIDE DEF d1
    <2> QED  BY <1>3 DEF DiskType, DiskFields
  <1> HIDE DEF d1, d2
  <1> QED  BY <1>1, <1>2, <1>3, <1>4 DEF Forgets

LEMMA HandleCompletionStep ==
    ASSUME SessionInv, NEW type \in {"PUBACK", "PUBCOMP"}, HandleCompletion(type)
    PROVE  SessionInv'
  <1>1. /\ TypeInv /\ RecordInv /\ (~Confused => ExchangeInv) /\ Reads(type)
        /\ MemoryType(mem) /\ DiskType(disk)
    BY DEF SessionInv, TypeInv, HandleCompletion
  <1>2. /\ mem.up /\ Received \in Range(toClient) /\ Received.type = type
        /\ toClient' \in Seq(Packets) /\ Range(toClient') \subseteq Range(toClient)
        /\ UNCHANGED <<bpub, bout, sentIn, distributed, reused>>
    BY <1>1, ReadsOutcome
  <1>3. CASE Matching(Received.id, type) = {}
    <2>1. Perform(<<disk>>, mem, <<>>) /\ phase' = phase
      BY <1>3 DEF HandleCompletion
    <2>2. disk' = disk /\ Unsent(mem)
      <3>1. CASE disk' = Last(<<disk>>) /\ mem' = mem /\ toBroker' = toBroker /\ torn' = torn
        BY <1>1, <3>1, UnsentSame DEF Last
      <3>2. CASE CrashIn(<<disk>>)
        BY <1>1, <3>2, UnsentCrash DEF CrashIn, CrashWith
      <3> QED  BY <1>1, <2>1, <3>1, <3>2, PerformOutcome
    <2>3. SameRecords(disk, disk')
      BY <2>2 DEF SameRecords
    <2> QED  BY <1>1, <2>1, <2>2, <2>3, AnsweredStep
  <1>4. CASE Matching(Received.id, type) # {}
    <2>1. PICK i \in DOMAIN mem.outbound :
              /\ mem.outbound[i].id = Received.id /\ mem.outbound[i].next = type
              /\ Perform(<<disk>> \o RemoveSent(disk, Received.id),
                         [mem EXCEPT !.outbound = RemoveAt(@, i)], <<>>)
              /\ phase' = [phase EXCEPT ![mem.outbound[i].msg] = IF mem'.up THEN "confirmed" ELSE @]
      BY <1>4 DEF HandleCompletion, Matching
    <2> DEFINE id == mem.outbound[i].id
               n == disk.sent[id]
               s == RemoveAt(mem.outbound, i)
               m == [mem EXCEPT !.outbound = s]
               disks == <<disk>> \o RemoveSent(disk, id)
    <2>2. /\ id \in DOMAIN disk.sent /\ id \in Ids /\ mem.outbound[i].msg = n /\ n \in Messages
          /\ phase[n] \in {"submitted", "accepted"} /\ phase \in [Messages -> Phases]
      BY <1>1, <1>2 DEF RecordInv, Mirrored, Live, DiskType, Table, TypeInv, NetworkType
    <2>3. \A j \in DOMAIN mem.outbound : mem.outbound[j].id = id => j = i
      BY <1>1, <1>2 DEF RecordInv, Mirrored
    <2>5. /\ phase' \in [Messages -> Phases] /\ phase'[n] # "new"
          /\ \A k \in Messages : k # n => phase'[k] = phase[k]
          /\ ~mem'.up => phase' = phase
      BY <2>1, <2>2 DEF Phases
    <2>6. /\ Last(disks) = RemoveSent(disk, id)[2]
          /\ \A j \in DOMAIN disks :
                 disks[j] \in {disk, RemoveSent(disk, id)[1], RemoveSent(disk, id)[2]}
      BY DEF RemoveSent, Last
    <2>7. /\ s \in Seq(Entries) /\ DOMAIN s = 1..(Len(mem.outbound) - 1)
          /\ DOMAIN mem.outbound = 1..Len(mem.outbound) /\ Len(mem.outbound) \in Nat
          /\ \A j \in DOMAIN s : s[j] = IF j < i THEN mem.outbound[j] ELSE mem.outbound[j + 1]
      <3>1. mem.outbound \in Seq(Entries)
        BY <1>1 DEF MemoryType
      <3>2. /\ s \in Seq(Entries) /\ Len(s) = Len(mem.outbound) - 1
            /\ \A j \in 1..(Len(mem.outbound) - 1) :
                   s[j] = IF j < i THEN mem.outbound[j] ELSE mem.outbound[j + 1]
        BY <3>1, RemoveAtProperties
      <3> HIDE DEF s
      <3>3. /\ DOMAIN s = 1..Len(s) /\ DOMAIN mem.outbound = 1..Len(mem.outbound)
            /\ Len(mem.outbound) \in Nat
        BY <3>1, <3>2, InRange
      <3>4. DOMAIN s = 1..(Len(mem.outbound) - 1)
        BY <3>2, <3>3
      <3> QED  BY <3>2, <3>3, <3>4
    <2> HIDE DEF s
    <2>8. /\ MemoryType(m) /\ m.up /\ m.outbound = s /\ m.acks = mem.acks
          /\ m.partial = mem.partial
      <3>1. MemoryType(m) /\ m.outbound = s /\ Same(m, mem, Fields \ {"outbound"})
        BY <1>1, <1>2, <2>7, MemoryFields
      <3> HIDE DEF m
      <3> QED  BY <1>2, <3>1 DEF Same, Fields
    <2>9. /\ \A j \in DOMAIN s : \E k \in DOMAIN mem.outbound :
                 /\ k # i /\ s[j] = mem.outbound[k]
                 /\ k = IF j < i THEN j ELSE j + 1
          /\ \A k \in DOMAIN mem.outbound : k # i => \E j \in DOMAIN s : s[j] = mem.outbound[k]
      <3>1. ASSUME NEW j \in DOMAIN s
            PROVE  \E k \in DOMAIN mem.outbound :
                       /\ k # i /\ s[j] = mem.outbound[k] /\ k = IF j < i THEN j ELSE j + 1
        <4>1. CASE j < i
          BY <2>7, <4>1
        <4>2. CASE ~(j < i)
          <5>1. j + 1 \in DOMAIN mem.outbound /\ j + 1 # i
            BY <2>7, <4>2
          <5> QED  BY <2>7, <4>2, <5>1
        <4> QED  BY <4>1, <4>2
      <3>2. ASSUME NEW k \in DOMAIN mem.outbound, k # i
            PROVE  \E j \in DOMAIN s : s[j] = mem.outbound[k]
        <4>1. CASE k < i
          <5>1. k \in DOMAIN s
            BY <2>7, <4>1
          <5> QED  BY <2>7, <4>1, <5>1
        <4>2. CASE ~(k < i)
          <5>1. k - 1 \in DOMAIN s /\ ~(k - 1 < i) /\ (k - 1) + 1 = k
            BY <2>7, <3>2, <4>2
          <5> QED  BY <2>7, <5>1
        <4> QED  BY <4>1, <4>2
      <3> QED  BY <3>1, <3>2
    <2>10. \A j \in DOMAIN s : \E k \in DOMAIN mem.outbound :
               s[j] = mem.outbound[k] /\ mem.outbound[k].id # id
      BY <2>3, <2>9
    <2>11. CASE disk' = Last(disks) /\ mem' = m /\ toBroker' = toBroker /\ torn' = torn
      <3>1. Forgets(disk, disk', id) /\ disk'.badSent = disk.badSent
        <4> DEFINE d == disk'
        <4>1. d = RemoveSent(disk, id)[2]
          BY <2>6, <2>11
        <4> HIDE DEF d, id
        <4>2. Forgets(disk, d, id) /\ d.badSent = disk.badSent
          BY <1>1, <2>2, <4>1, RemoveSentDisks
        <4> QED  BY <4>2 DEF d
      <3>a. /\ DiskType(disk') /\ DOMAIN disk'.sent = DOMAIN disk.sent \ {id}
            /\ \A k \in DOMAIN disk'.sent : disk'.sent[k] = disk.sent[k]
        BY <3>1 DEF Forgets
      <3>b. (Confused => Confused') /\ reused' \in BOOLEAN
        BY <1>1, <1>2, <2>11 DEF Confused, TypeInv, NetworkType
      <3> HIDE DEF m, disks
      <3>2. MemoryType(mem') /\ mem'.outbound = s /\ toBroker' \in Seq(Packets)
        BY <1>1, <2>8, <2>11 DEF TypeInv, NetworkType
      <3>3. Mirrored'
        <4>1. \A j, k \in DOMAIN s : s[j].id = s[k].id => j = k
          <5> SUFFICES ASSUME NEW j \in DOMAIN s, NEW k \in DOMAIN s, s[j].id = s[k].id
                       PROVE  j = k
            OBVIOUS
          <5>1. PICK a \in DOMAIN mem.outbound :
                    a # i /\ s[j] = mem.outbound[a] /\ a = IF j < i THEN j ELSE j + 1
            BY <2>9
          <5>2. PICK b \in DOMAIN mem.outbound :
                    b # i /\ s[k] = mem.outbound[b] /\ b = IF k < i THEN k ELSE k + 1
            BY <2>9
          <5>3. a = b
            BY <1>1, <1>2, <5>1, <5>2 DEF RecordInv, Mirrored
          <5>4. i \in Int /\ j \in Int /\ k \in Int
            BY <2>7
          <5>5. (IF j < i THEN j ELSE j + 1) = (IF k < i THEN k ELSE k + 1)
            BY <5>1, <5>2, <5>3
          <5> QED  BY <5>4, <5>5
        <4>2. \A j \in DOMAIN s : s[j].id \in DOMAIN disk'.sent /\ disk'.sent[s[j].id] = s[j].msg
          BY <1>1, <1>2, <2>10, <3>a DEF RecordInv, Mirrored, Live
        <4>3. \A k \in DOMAIN disk'.sent : \E j \in DOMAIN s : s[j].id = k
          <5> SUFFICES ASSUME NEW k \in DOMAIN disk'.sent PROVE \E j \in DOMAIN s : s[j].id = k
            OBVIOUS
          <5>1. k \in OutIds /\ k # id
            BY <1>1, <1>2, <3>a DEF RecordInv, Mirrored
          <5>2. PICK j \in DOMAIN mem.outbound : mem.outbound[j].id = k
            BY <5>1 DEF OutIds
          <5>3. j # i
            BY <5>1, <5>2
          <5> QED  BY <2>9, <5>2, <5>3
        <4>4. DOMAIN disk'.sent \subseteq {s[j].id : j \in DOMAIN s}
          BY <4>3
        <4> QED  BY <3>2, <4>1, <4>2, <4>4 DEF Mirrored, Live, OutIds
      <3>4. /\ Quieter(Outgoing, Outgoing') /\ Quieter(mem.acks, mem'.acks)
            /\ InOrder(Outgoing) => InOrder(Outgoing')
        <4>1. Outgoing' = Outgoing /\ mem'.acks = mem.acks
          BY <2>8, <2>11 DEF Outgoing
        <4> QED  BY <4>1 DEF Quieter
      <3>5. \A j \in DOMAIN mem'.outbound : \E k \in DOMAIN mem.outbound :
                mem'.outbound[j] = mem.outbound[k] /\ mem.outbound[k].id # id
        BY <2>10, <3>2
      <3> HIDE DEF id
      <3> QED  BY <1>2, <2>2, <2>5, <3>1, <3>b, <3>2, <3>3, <3>4, <3>5, ForgetStep
    <2>12. CASE CrashIn(disks)
      <3>1. /\ MemoryType(mem') /\ mem'.up = FALSE /\ mem'.outbound = <<>> /\ mem'.acks = <<>>
            /\ \E j \in DOMAIN disks : disk' = disks[j]
            /\ toBroker' = toBroker /\ torn \subseteq torn'
            /\ Quieter(Outgoing, Outgoing') /\ (InOrder(Outgoing) => InOrder(Outgoing'))
        BY <1>1, <2>12, CrashOutcome
      <3>2. phase' = phase /\ toBroker' \in Seq(Packets) /\ Mirrored' /\ Quieter(mem.acks, mem'.acks)
        BY <1>1, <2>5, <3>1, RangeShort DEF TypeInv, NetworkType, Mirrored, Quieter
      <3>3. CASE disk' = disk
        <4>1. Unsent(mem) /\ SameRecords(disk, disk')
          BY <1>1, <2>12, <3>3, UnsentCrash DEF SameRecords
        <4> QED  BY <1>1, <3>2, <3>3, <4>1, AnsweredStep
      <3>4. CASE disk' # disk
        <4>1. disk' = RemoveSent(disk, id)[1] \/ disk' = RemoveSent(disk, id)[2]
          BY <2>6, <3>1, <3>4
        <4>2. Forgets(disk, disk', id)
          <5> DEFINE d == disk'
          <5> HIDE DEF d, id
          <5>1. Forgets(disk, d, id)
            BY <1>1, <2>2, <4>1, RemoveSentDisks DEF d
          <5> QED  BY <5>1 DEF d
        <4>4. (Confused => Confused') /\ reused' \in BOOLEAN
          BY <1>1, <1>2, <3>1 DEF Confused, TypeInv, NetworkType
        <4>3. \A j \in DOMAIN mem'.outbound : \E k \in DOMAIN mem.outbound :
                  mem'.outbound[j] = mem.outbound[k] /\ mem.outbound[k].id # id
          BY <3>1
        <4> HIDE DEF id
        <4> QED  BY <1>2, <2>2, <2>5, <3>1, <3>2, <4>2, <4>3, <4>4, ForgetStep
      <3> QED  BY <3>3, <3>4
    <2>13. Perform(disks, m, <<>>)
      BY <2>1 DEF s
    <2> HIDE DEF disks, m
    <2> QED  BY <1>1, <2>11, <2>12, <2>13, PerformOutcome
  <1> QED  BY <1>3, <1>4

\* The disk after PUBRELs with the ids in R are stored; or after a crash, which may
\* lose a record of a message in flight, or one of a PUBREL.
DiskChanged(R) ==
    /\ DiskType(disk') /\ DOMAIN disk'.sent \subseteq DOMAIN disk.sent
    /\ \A k \in DOMAIN disk'.sent : disk'.sent[k] = disk.sent[k]
    /\ Confused => Confused'
    /\ ~Confused' => disk'.pubrel = disk.pubrel \cup R
    /\ mem'.up => disk'.badSent = {} /\ disk'.badPubrel = {}
    /\ ~Confused => \A id \in R \cup disk'.badPubrel : Live(id) => QosOf(id) = 2 /\ Held(id)

LEMMA PubrelsStored ==
    ASSUME SessionInv, mem.up, NEW R, DiskType(disk'), disk'.sent = disk.sent,
           disk'.pubrel = disk.pubrel \cup R,
           disk'.badSent = disk.badSent, disk'.badPubrel = disk.badPubrel,
           torn \subseteq torn', reused' = reused,
           ~Confused => \A id \in R : Live(id) => QosOf(id) = 2 /\ Held(id)
    PROVE  DiskChanged(R)
  <1>1. disk'.badSent = {} /\ disk'.badPubrel = {} /\ (Confused => Confused')
    BY DEF SessionInv, RecordInv, Confused
  <1> QED  BY <1>1 DEF DiskChanged

\* A step that stores PUBRELs with the ids in R, sends some of them, and sends
\* messages in flight again.
LEMMA SendingStep ==
    ASSUME SessionInv, mem.up, NEW R, R \subseteq Ids, DiskChanged(R),
           MemoryType(mem'), toBroker' \in Seq(Packets), toClient' \in Seq(Packets), Mirrored',
           \A p \in Range(Outgoing') : p.type \in Sending =>
               \/ p \in Range(Outgoing)
               \/ p.type = "PUBREL" /\ p.id \in R
               \/ /\ p.type = "PUBLISH"
                  /\ \E i \in DOMAIN mem.outbound :
                         /\ mem.outbound[i].id = p.id /\ mem.outbound[i].msg = p.msg
                         /\ mem.outbound[i].next # "PUBCOMP",
           \A p \in Range(mem'.acks) : p.type # "PUBLISH",
           ~Confused' =>
               /\ InOrder(Outgoing')
               /\ \A p \in Range(mem'.acks) : p.type = "PUBREL" =>
                      \A i \in DOMAIN mem'.outbound :
                          mem'.outbound[i].id = p.id => mem'.outbound[i].next = "PUBCOMP"
               /\ StagesInv',
           \A p \in Range(toClient') : p.type \in Answering => p \in Range(toClient),
           bout' \in Seq(BrokerEntries), UNCHANGED <<bpub, sentIn, phase, distributed>>,
           reused' = reused
    PROVE  SessionInv'
  <1>1. TypeInv /\ RecordInv /\ (~Confused => ExchangeInv) /\ DiskType(disk) /\ MemoryType(mem)
    BY DEF SessionInv, TypeInv
  <1>a. /\ DiskType(disk') /\ DOMAIN disk'.sent \subseteq DOMAIN disk.sent
        /\ \A k \in DOMAIN disk'.sent : disk'.sent[k] = disk.sent[k]
        /\ Confused => Confused'
        /\ ~Confused' => disk'.pubrel = disk.pubrel \cup R
        /\ mem'.up => disk'.badSent = {} /\ disk'.badPubrel = {}
        /\ ~Confused => \A id \in R \cup disk'.badPubrel : Live(id) => QosOf(id) = 2 /\ Held(id)
    BY DEF DiskChanged
  <1>2. TypeInv'
    BY <1>1, <1>a DEF TypeInv, NetworkType
  <1>3. ASSUME NEW p \in Range(Outgoing'), p.type = "PUBLISH"
        PROVE  \/ p \in Range(Outgoing)
               \/ \E i \in DOMAIN mem.outbound :
                      /\ mem.outbound[i].id = p.id /\ mem.outbound[i].msg = p.msg
                      /\ mem.outbound[i].next # "PUBCOMP"
                      /\ Live(p.id) /\ disk.sent[p.id] = p.msg
    <2>1. p.type # "PUBREL" /\ p.type \in Sending
      BY <1>3 DEF Sending
    <2> QED  BY <1>1, <2>1 DEF RecordInv, Mirrored
  <1>4. RecordInv'
    <2>1. \A p \in Range(Outgoing') : p.type = "PUBLISH" => p.msg \in Messages /\ phase[p.msg] # "new"
      <3> SUFFICES ASSUME NEW p \in Range(Outgoing'), p.type = "PUBLISH"
                   PROVE  p.msg \in Messages /\ phase[p.msg] # "new"
        OBVIOUS
      <3>1. CASE p \in Range(Outgoing)
        BY <1>1, <3>1 DEF RecordInv
      <3>2. CASE Live(p.id) /\ disk.sent[p.id] = p.msg
        <4>1. phase[p.msg] \in {"submitted", "accepted"} /\ p.msg \in Messages
          BY <1>1, <3>2 DEF RecordInv, Live, DiskType, Table
        <4> QED  BY <4>1
      <3> QED  BY <1>3, <3>1, <3>2
    <2>2. Cardinality(DOMAIN disk'.sent) <= MaxInflight
      <3>1. IsFiniteSet(DOMAIN disk.sent)
        <4>1. DOMAIN disk.sent \subseteq Ids
          BY <1>1 DEF DiskType, Table
        <4>2. IsFiniteSet(Ids)
          BY SessionAssumption, FS_Interval DEF Ids
        <4> QED  BY <4>1, <4>2, FS_Subset
      <3>2. /\ Cardinality(DOMAIN disk'.sent) <= Cardinality(DOMAIN disk.sent)
            /\ Cardinality(DOMAIN disk'.sent) \in Nat /\ Cardinality(DOMAIN disk.sent) \in Nat
        BY <1>a, <3>1, FS_Subset, FS_CardinalityType
      <3> QED  BY <1>1, <3>2, SessionAssumption DEF RecordInv
    <2>3. /\ \A i, j \in DOMAIN disk'.sent : disk'.sent[i] = disk'.sent[j] => i = j
          /\ \A i \in DOMAIN disk'.sent : phase'[disk'.sent[i]] \in {"submitted", "accepted"}
      BY <1>1, <1>a DEF RecordInv
    <2> QED  BY <1>1, <1>a, <2>1, <2>2, <2>3 DEF RecordInv
  <1>5. ASSUME ~Confused' PROVE ExchangeInv'
    <2>0. ExchangeInv /\ ~Confused /\ disk'.pubrel = disk.pubrel \cup R
      BY <1>1, <1>a, <1>5
    <2>1. \A k : Live(k)' => /\ Live(k) /\ QosOf(k)' = QosOf(k)
                             /\ (Taken(k)' <=> Taken(k)) /\ (Held(k)' <=> Held(k))
      BY <1>a DEF Live, QosOf, Taken, Held
    <2>2. PublishesInv'
      <3>1. ASSUME NEW p \in Range(Outgoing'), p.type = "PUBLISH"
            PROVE  /\ Live(p.id)' => disk'.sent[p.id] = p.msg
                   /\ OutQos[p.msg] = 2 => distributed'[p.msg] = 0
        <4>1. CASE p \in Range(Outgoing)
          BY <1>a, <2>0, <2>1, <3>1, <4>1 DEF ExchangeInv, PublishesInv, Live
        <4>2. CASE \E i \in DOMAIN mem.outbound :
                      /\ mem.outbound[i].id = p.id /\ mem.outbound[i].msg = p.msg
                      /\ mem.outbound[i].next # "PUBCOMP"
                      /\ Live(p.id) /\ disk.sent[p.id] = p.msg
          <5>1. PICK i \in DOMAIN mem.outbound :
                      /\ mem.outbound[i].id = p.id /\ mem.outbound[i].msg = p.msg
                      /\ mem.outbound[i].next # "PUBCOMP"
            BY <4>2
          <5>2. OutQos[p.msg] = 2 => p.id \notin disk.pubrel
            <6>1. mem.outbound[i].next \in {"PUBACK", "PUBREC"}
              <7>1. mem.outbound[i] \in Entries
                <8>1. mem.outbound \in Seq(Entries)
                  BY <1>1 DEF MemoryType
                <8> QED  BY <8>1
              <7> QED  BY <5>1, <7>1 DEF Entries, Stages
            <6>2. QosOf(p.id) = OutQos[p.msg] /\ 1 # 2
              BY <4>2 DEF QosOf
            <6> QED  BY <2>0, <5>1, <6>1, <6>2 DEF ExchangeInv, StagesInv
          <5>3. OutQos[p.msg] = 2 => ~Taken(p.id)
            BY <2>0, <4>2, <5>2 DEF ExchangeInv, PubrelsInv, QosOf, Live
          <5>4. distributed[p.msg] \in Nat
            <6>1. p.msg \in Messages /\ distributed \in [Messages -> Nat]
              BY <1>1, <4>2 DEF DiskType, Table, Live, TypeInv, NetworkType
            <6> QED  BY <6>1
          <5>5. OutQos[p.msg] = 2 => distributed[p.msg] = 0
            BY <4>2, <5>3, <5>4 DEF Taken
          <5> QED  BY <1>a, <4>2, <5>5 DEF Live
        <4> QED  BY <1>3, <3>1, <4>1, <4>2
      <3> QED  BY <1>5, <3>1 DEF PublishesInv, Live
    <2>3. PubrelsInv'
      <3>1. \A p \in Range(Outgoing') : p.type = "PUBREL" /\ Live(p.id)' => p.id \in disk'.pubrel
        <4> SUFFICES ASSUME NEW p \in Range(Outgoing'), p.type = "PUBREL", Live(p.id)'
                     PROVE  p.id \in disk'.pubrel
          OBVIOUS
        <4>1. p \in Range(Outgoing) \/ p.id \in R
          <5>1. p.type \in Sending /\ p.type # "PUBLISH"
            BY DEF Sending
          <5> QED  BY <5>1
        <4>2. p \in Range(Outgoing) => p.id \in disk.pubrel
          BY <2>0, <2>1 DEF ExchangeInv, PubrelsInv
        <4> QED  BY <2>0, <4>1, <4>2
      <3>0. \A k \in DOMAIN disk'.sent : Live(k)' /\ k \in DOMAIN disk.sent
        BY <1>a DEF Live
      <3>2. \A k \in DOMAIN disk'.sent \cap disk'.pubrel : QosOf(k)' = 2 /\ Held(k)'
        BY <1>a, <2>0, <2>1, <3>0 DEF ExchangeInv, PubrelsInv
      <3>3. \A k \in DOMAIN disk'.sent \ disk'.pubrel : QosOf(k)' = 2 => ~Taken(k)'
        BY <2>0, <2>1, <3>0 DEF ExchangeInv, PubrelsInv
      <3>4. \A k \in disk'.badPubrel : Live(k)' => QosOf(k)' = 2 /\ Held(k)'
        BY <1>a, <2>0, <2>1
      <3> QED  BY <1>5, <3>1, <3>2, <3>3, <3>4 DEF PubrelsInv
    <2>4. AnswersInv'
      BY <2>0, <2>1 DEF ExchangeInv, AnswersInv, Answering
    <2>5. BrokerInv'
      BY <1>a, <2>0, <2>1 DEF ExchangeInv, BrokerInv, Live
    <2>6. OneNameInv'
      <3>1. ASSUME NEW id, NEW n, Carries(id, n)' PROVE Carries(id, n)
        <4>1. CASE \E p \in Range(Outgoing') : p.type = "PUBLISH" /\ p.id = id /\ p.msg = n
          BY <1>3, <4>1 DEF Carries
        <4>2. CASE ~\E p \in Range(Outgoing') : p.type = "PUBLISH" /\ p.id = id /\ p.msg = n
          BY <1>a, <3>1, <4>2 DEF Carries, Live
        <4> QED  BY <4>1, <4>2
      <3> QED  BY <2>0, <3>1, NamesKept DEF ExchangeInv
    <2> QED  BY <1>5, <2>2, <2>3, <2>4, <2>5, <2>6 DEF ExchangeInv
  <1> QED  BY <1>2, <1>4, <1>5 DEF SessionInv

\* A disk that is written to passes through two more states.
LEMMA TwoMoreDisks ==
    ASSUME NEW x, NEW y, NEW z
    PROVE  /\ Last(<<x>> \o <<y, z>>) = z
           /\ \A i \in DOMAIN (<<x>> \o <<y, z>>) : (<<x>> \o <<y, z>>)[i] \in {x, y, z}
  <1> DEFINE S == {x, y, z}
             a == <<x>>
             b == <<y, z>>
  <1>1. a \in Seq(S) /\ b \in Seq(S) /\ Len(a) = 1 /\ Len(b) = 2 /\ b[2] = z
    <2>1. x \in S /\ y \in S /\ z \in S
      OBVIOUS
    <2> HIDE DEF S
    <2>2. a \in Seq(S) /\ b \in Seq(S)
      BY <2>1
    <2>3. Len(a) = 1 /\ Len(b) = 2 /\ b[2] = z
      OBVIOUS
    <2> QED  BY <2>2, <2>3
  <1> HIDE DEF S, a, b
  <1>2. /\ a \o b \in Seq(S) /\ Len(a \o b) = 3 /\ (a \o b)[3] = b[2]
    <2>1. /\ a \o b \in Seq(S) /\ Len(a \o b) = Len(a) + Len(b)
          /\ \A i \in 1..(Len(a) + Len(b)) :
                 (a \o b)[i] = IF i <= Len(a) THEN a[i] ELSE b[i - Len(a)]
      BY <1>1, ConcatProperties
    <2>2. 1 + 2 = 3 /\ 3 \in 1..3 /\ ~(3 <= 1) /\ 3 - 1 = 2
      OBVIOUS
    <2> QED  BY <1>1, <2>1, <2>2
  <1>3. Last(a \o b) = z /\ \A i \in DOMAIN (a \o b) : (a \o b)[i] \in S
    BY <1>1, <1>2 DEF Last
  <1> QED  BY <1>3 DEF S, a, b

\* PUBREC is answered with PUBREL; the message is then known to be taken.
LEMMA HandlePubrecsStep ==
    ASSUME SessionInv, HandlePubrecs
    PROVE  SessionInv'
  <1>1. /\ TypeInv /\ RecordInv /\ (~Confused => ExchangeInv) /\ Reads("PUBREC") /\ phase' = phase
        /\ MemoryType(mem) /\ DiskType(disk)
    BY DEF SessionInv, TypeInv, HandlePubrecs
  <1>2. /\ mem.up /\ Received \in Range(toClient) /\ Received.type = "PUBREC" /\ Received.id \in Ids
        /\ toClient' \in Seq(Packets) /\ Range(toClient') \subseteq Range(toClient)
        /\ UNCHANGED <<bpub, bout, sentIn, distributed, reused>>
    BY <1>1, ReadsOutcome DEF Packets
  <1> DEFINE id == Received.id
             hit == Matching(id, "PUBREC")
             s == [i \in DOMAIN mem.outbound |->
                      IF i \in hit THEN [mem.outbound[i] EXCEPT !.next = "PUBCOMP"]
                      ELSE mem.outbound[i]]
             m == [mem EXCEPT !.outbound = s]
             p == Ack("PUBREL", id)
  <1>3. SendAck(<<disk>>, m, p)
    BY DEF HandlePubrecs
  <1>4. p \in Packets /\ p.type = "PUBREL" /\ p.id = id
    BY <1>2, AckType DEF Sending
  <1>5. mem.outbound \in Seq(Entries) /\ DOMAIN mem.outbound = 1..Len(mem.outbound)
        /\ Len(mem.outbound) \in Nat /\ \A i \in DOMAIN mem.outbound : mem.outbound[i] \in Entries
    <2>1. mem.outbound \in Seq(Entries)
      BY <1>1 DEF MemoryType
    <2> QED  BY <2>1
  <1>6. \A i \in DOMAIN mem.outbound :
            /\ s[i] \in Entries /\ s[i].id = mem.outbound[i].id /\ s[i].msg = mem.outbound[i].msg
            /\ s[i].next = IF mem.outbound[i].id = id /\ mem.outbound[i].next = "PUBREC"
                           THEN "PUBCOMP" ELSE mem.outbound[i].next
    BY <1>5 DEF Matching, Entries, Stages
  <1>7. s \in Seq(Entries) /\ DOMAIN s = DOMAIN mem.outbound
    <2>1. s \in [1..Len(mem.outbound) -> Entries]
      BY <1>5, <1>6
    <2> HIDE DEF s
    <2>2. DOMAIN s = 1..Len(mem.outbound) /\ s \in Seq(Entries)
      BY <1>5, <2>1, IsASeq
    <2> QED  BY <1>5, <2>2
  <1> HIDE DEF s
  <1>8. /\ MemoryType(m) /\ m.up /\ m.outbound = s /\ m.acks = mem.acks /\ m.partial = mem.partial
    <2>1. MemoryType(m) /\ m.outbound = s /\ Same(m, mem, Fields \ {"outbound"})
      BY <1>1, <1>2, <1>7, MemoryFields
    <2> HIDE DEF m
    <2> QED  BY <1>2, <2>1 DEF Same, Fields
  <1> HIDE DEF m
  <1>9. ~Confused => (Live(id) => QosOf(id) = 2 /\ Held(id))
    BY <1>1, <1>2 DEF ExchangeInv, AnswersInv
  <1>10. \A i \in DOMAIN mem.outbound :
             Live(mem.outbound[i].id) /\ disk.sent[mem.outbound[i].id] = mem.outbound[i].msg
    BY <1>1, <1>2 DEF RecordInv, Mirrored
  <1>11. ~Confused => \A i \in DOMAIN s : s[i].id = id => s[i].next = "PUBCOMP"
    <2> SUFFICES ASSUME ~Confused, NEW i \in DOMAIN s, s[i].id = id
                 PROVE  s[i].next = "PUBCOMP"
      OBVIOUS
    <2>1. mem.outbound[i].id = id /\ QosOf(id) = 2 /\ 1 # 2
      BY <1>6, <1>7, <1>9, <1>10
    <2>2. mem.outbound[i].next # "PUBACK"
      BY <1>1, <1>7, <2>1 DEF ExchangeInv, StagesInv
    <2>3. mem.outbound[i].next \in Stages
      BY <1>5, <1>7 DEF Entries
    <2> QED  BY <1>6, <1>7, <2>1, <2>2, <2>3 DEF Stages
  <1>12. ASSUME mem'.outbound = s, disk'.sent = disk.sent
         PROVE  Mirrored'
    <2>1. {s[i].id : i \in DOMAIN s} = OutIds
      BY <1>6, <1>7 DEF OutIds
    <2>2. \A i \in DOMAIN s : s[i].id \in DOMAIN disk.sent /\ disk.sent[s[i].id] = s[i].msg
      BY <1>6, <1>7, <1>10 DEF Live
    <2>3. \A i, j \in DOMAIN s : s[i].id = s[j].id => i = j
      <3>1. \A i, j \in DOMAIN mem.outbound : mem.outbound[i].id = mem.outbound[j].id => i = j
        BY <1>1, <1>2 DEF RecordInv, Mirrored
      <3> QED  BY <1>6, <1>7, <3>1
    <2>4. DOMAIN disk.sent \subseteq {s[i].id : i \in DOMAIN s}
      BY <1>1, <1>2, <2>1 DEF RecordInv, Mirrored
    <2> QED  BY <1>12, <2>2, <2>3, <2>4 DEF Mirrored, Live, OutIds
  <1>13. ASSUME ~Confused, mem'.outbound = s, disk'.sent = disk.sent,
                disk'.pubrel \subseteq disk.pubrel \cup {id}
         PROVE  StagesInv'
    <2>1. ASSUME NEW i \in DOMAIN s, NEW e, e = s[i]
          PROVE  /\ e.next = "PUBACK" => QosOf(e.id)' = 1
                 /\ e.next = "PUBREC" => QosOf(e.id)' = 2 /\ e.id \notin disk'.pubrel
                 /\ e.next = "PUBCOMP" => QosOf(e.id)' = 2 /\ Held(e.id)'
      <3>1. /\ QosOf(e.id)' = QosOf(e.id) /\ (Held(e.id)' <=> Held(e.id))
            /\ e.id = mem.outbound[i].id /\ Live(e.id) /\ ExchangeInv /\ i \in DOMAIN mem.outbound
        BY <1>1, <1>2, <1>6, <1>7, <1>10, <1>13, <2>1 DEF QosOf, Held, Taken
      <3>2. CASE e.id = id
        BY <1>9, <1>11, <1>13, <2>1, <3>1, <3>2
      <3>3. CASE e.id # id
        <4>1. e.next = mem.outbound[i].next
          BY <1>6, <2>1, <3>1, <3>3
        <4> QED  BY <1>13, <3>1, <3>3, <4>1 DEF ExchangeInv, StagesInv
      <3> QED  BY <3>2, <3>3
    <2> QED  BY <1>13, <2>1 DEF StagesInv, QosOf, Held, Taken
  <1> HIDE DEF id
  <1>14. /\ DiskType(PutPubrel(disk, id)) /\ PutPubrel(disk, id).sent = disk.sent
         /\ PutPubrel(disk, id).pubrel = disk.pubrel \cup {id}
         /\ PutPubrel(disk, id).badSent = disk.badSent /\ PutPubrel(disk, id).badPubrel = disk.badPubrel
         /\ DiskType(TearPubrel(disk, id)) /\ TearPubrel(disk, id).sent = disk.sent
         /\ TearPubrel(disk, id).pubrel = disk.pubrel \ {id}
         /\ TearPubrel(disk, id).badSent = disk.badSent
         /\ TearPubrel(disk, id).badPubrel = disk.badPubrel \cup {id}
    BY <1>1, <1>2, DiskUpdates DEF id
  <1>15. /\ Last(<<disk>>) = disk /\ Last(AckDisks(<<disk>>, p)) = PutPubrel(disk, id)
         /\ \A d : (\E i \in DOMAIN <<disk>> : d = <<disk>>[i]) => d = disk
         /\ \A d : (\E i \in DOMAIN AckDisks(<<disk>>, p) : d = AckDisks(<<disk>>, p)[i])
                       => d \in {disk, TearPubrel(disk, id), PutPubrel(disk, id)}
    <2>1. Last(<<disk>>) = disk
      BY DEF Last
    <2> DEFINE e == PutPubrel(disk, id)
               t == TearPubrel(disk, id)
    <2>2. AckDisks(<<disk>>, p) = <<disk>> \o <<t, e>>
      BY <1>4, <2>1, Zenon DEF AckDisks
    <2> HIDE DEF e, t
    <2>3. /\ Last(<<disk>> \o <<t, e>>) = e
          /\ \A i \in DOMAIN (<<disk>> \o <<t, e>>) : (<<disk>> \o <<t, e>>)[i] \in {disk, t, e}
      BY TwoMoreDisks
    <2>4. \A d : (\E i \in DOMAIN <<disk>> : d = <<disk>>[i]) => d = disk
      OBVIOUS
    <2> QED  BY <2>1, <2>2, <2>3, <2>4 DEF e, t
  <1> HIDE DEF p
  <1>16. Outgoing \in Seq(Packets) /\ mem.acks \in Seq(Packets)
    BY <1>1, ConcatProperties DEF Outgoing, TypeInv, NetworkType, MemoryType
  <1>17. bout' \in Seq(BrokerEntries) /\ id \in Ids
    BY <1>1, <1>2 DEF TypeInv, NetworkType, id
  <1>18. CASE /\ disk' = Last(<<disk>>) /\ torn' = torn
              /\ MemoryType(mem') /\ toBroker' \in Seq(Packets)
              /\ Same(mem', m, Fields \ {"acks"}) /\ mem'.acks = Append(m.acks, p)
              /\ Outgoing' = Outgoing
    <2>1. /\ mem'.outbound = s /\ Range(mem'.acks) = Range(mem.acks) \cup {p}
          /\ disk' = disk /\ disk'.pubrel = disk.pubrel \cup {}
      <3>1. mem'.outbound = s
        BY <1>8, <1>18 DEF Same, Fields
      <3>2. Range(mem'.acks) = Range(mem.acks) \cup {p}
        BY <1>4, <1>8, <1>16, <1>18, RangeAppend
      <3> QED  BY <1>15, <1>18, <3>1, <3>2
    <2>2. \A q \in Range(mem'.acks) : q.type # "PUBLISH"
      BY <1>1, <1>4, <2>1 DEF RecordInv
    <2>a. Confused' = Confused
      BY <1>2, <1>18 DEF Confused
    <2>3. ASSUME ~Confused
          PROVE  /\ InOrder(Outgoing')
                 /\ \A q \in Range(mem'.acks) : q.type = "PUBREL" =>
                        \A i \in DOMAIN mem'.outbound :
                            mem'.outbound[i].id = q.id => mem'.outbound[i].next = "PUBCOMP"
                 /\ StagesInv'
      <3>1. ASSUME NEW q \in Range(mem.acks), q.type = "PUBREL", NEW i \in DOMAIN s, s[i].id = q.id
            PROVE  s[i].next = "PUBCOMP"
        <4>1. mem.outbound[i].next = "PUBCOMP"
          BY <1>1, <1>6, <1>7, <2>3, <3>1 DEF ExchangeInv, PubrelsInv
        <4> QED  BY <1>6, <1>7, <4>1
      <3>2. StagesInv'
        BY <1>13, <2>1, <2>3
      <3> QED  BY <1>1, <1>4, <1>11, <1>18, <2>1, <2>3, <3>1, <3>2 DEF ExchangeInv, PublishesInv
    <2>4. Mirrored'
      BY <1>12, <2>1
    <2> DEFINE R == {}
    <2>5. R \subseteq Ids /\ disk'.pubrel = disk.pubrel \cup R /\ \A k \in R : FALSE
      BY <2>1
    <2> HIDE DEF R
    <2>6. DiskChanged(R)
      BY <1>1, <1>2, <1>18, <2>1, <2>5, PubrelsStored
    <2>7. UNCHANGED <<bpub, sentIn, phase, distributed>> /\ reused' = reused
      BY <1>1, <1>2
    <2> QED  BY <1>2, <1>17, <1>18, <2>a, <2>1, <2>2, <2>3, <2>4, <2>5, <2>6, <2>7, SendingStep
  <1>19. CASE /\ disk' = Last(AckDisks(<<disk>>, p)) /\ torn' = torn
              /\ MemoryType(mem') /\ toBroker' \in Seq(Packets)
              /\ Same(mem', m, Fields \ {"partial"})
              /\ Outgoing' = Append(Outgoing, p)
    <2>1. /\ mem'.outbound = s /\ mem'.acks = mem.acks
          /\ Range(Outgoing') = Range(Outgoing) \cup {p} /\ Outgoing' = Outgoing \o <<p>>
          /\ DiskType(disk') /\ disk'.sent = disk.sent /\ disk'.pubrel = disk.pubrel \cup {id}
          /\ disk'.badSent = disk.badSent /\ disk'.badPubrel = disk.badPubrel
      <3>1. mem'.outbound = s /\ mem'.acks = mem.acks
        BY <1>8, <1>19 DEF Same, Fields
      <3>2. Range(Outgoing') = Range(Outgoing) \cup {p} /\ Outgoing' = Outgoing \o <<p>>
        BY <1>4, <1>16, <1>19, RangeAppend
      <3> QED  BY <1>14, <1>15, <1>19, <3>1, <3>2
    <2>a. Confused' = Confused
      BY <1>2, <1>19 DEF Confused
    <2>2. ASSUME ~Confused
          PROVE  /\ InOrder(Outgoing')
                 /\ \A q \in Range(mem'.acks) : q.type = "PUBREL" =>
                        \A i \in DOMAIN mem'.outbound :
                            mem'.outbound[i].id = q.id => mem'.outbound[i].next = "PUBCOMP"
                 /\ StagesInv'
      <3>1. InOrder(Outgoing')
        <4>1. <<p>> \in Seq(Packets) /\ Range(<<p>>) = {p}
          BY <1>4, RangeShort
        <4>2. InOrder(<<p>>)
          BY DEF InOrder
        <4>3. p.type # "PUBLISH" /\ InOrder(Outgoing)
          BY <1>1, <1>4, <2>2 DEF ExchangeInv, PublishesInv
        <4> QED  BY <1>16, <2>1, <4>1, <4>2, <4>3, InOrderConcat
      <3>2. ASSUME NEW q \in Range(mem.acks), q.type = "PUBREL", NEW i \in DOMAIN s, s[i].id = q.id
            PROVE  s[i].next = "PUBCOMP"
        <4>1. mem.outbound[i].next = "PUBCOMP"
          BY <1>1, <1>6, <1>7, <2>2, <3>2 DEF ExchangeInv, PubrelsInv
        <4> QED  BY <1>6, <1>7, <4>1
      <3>3. StagesInv'
        BY <1>13, <2>1, <2>2
      <3> QED  BY <2>1, <3>1, <3>2, <3>3
    <2>3. Mirrored'
      BY <1>12, <2>1
    <2> DEFINE R == {id}
    <2>4. R \subseteq Ids /\ disk'.pubrel = disk.pubrel \cup R /\ \A k \in R : k = id
      BY <1>17, <2>1
    <2>5. /\ \A q \in Range(Outgoing') : q \in Range(Outgoing) \/ (q.type = "PUBREL" /\ q.id \in R)
          /\ \A q \in Range(mem'.acks) : q.type # "PUBLISH"
      BY <1>1, <1>4, <2>1 DEF RecordInv
    <2> HIDE DEF R
    <2>6. DiskChanged(R)
      BY <1>1, <1>2, <1>9, <1>19, <2>1, <2>4, PubrelsStored
    <2>7. UNCHANGED <<bpub, sentIn, phase, distributed>> /\ reused' = reused
      BY <1>1, <1>2
    <2> QED  BY <1>2, <1>17, <1>19, <2>a, <2>1, <2>2, <2>3, <2>4, <2>5, <2>6, <2>7, SendingStep
  <1>20. CASE CrashIn(<<disk>>)
    <2>1. Unsent(mem) /\ disk' = disk
      BY <1>1, <1>15, <1>20, UnsentCrash, CrashOutcome
    <2>2. SameRecords(disk, disk')
      BY <2>1 DEF SameRecords
    <2> QED  BY <1>1, <2>1, <2>2, AnsweredStep
  <1>21. CASE CrashIn(AckDisks(<<disk>>, p))
    <2>1. /\ MemoryType(mem') /\ mem'.up = FALSE /\ mem'.outbound = <<>> /\ mem'.acks = <<>>
          /\ disk' \in {disk, TearPubrel(disk, id), PutPubrel(disk, id)} /\ toBroker' = toBroker
          /\ torn \subseteq torn' /\ (disk.pubrel \cap disk'.badPubrel # {} => "pubrel" \in torn')
          /\ Quieter(Outgoing, Outgoing') /\ (InOrder(Outgoing) => InOrder(Outgoing'))
      BY <1>1, <1>15, <1>21, CrashOutcome
    <2>2. CASE disk' = disk
      <3>1. Unsent(mem) /\ SameRecords(disk, disk')
        BY <1>1, <1>21, <2>2, UnsentCrash DEF SameRecords
      <3> QED  BY <1>1, <2>2, <3>1, AnsweredStep
    <2>3. CASE disk' = PutPubrel(disk, id) \/ disk' = TearPubrel(disk, id)
      <3>1. toBroker' \in Seq(Packets) /\ Range(mem'.acks) = {} /\ Mirrored'
        BY <1>1, <2>1, RangeShort DEF TypeInv, NetworkType, Mirrored
      <3>2. StagesInv'
        BY <2>1 DEF StagesInv
      <3>3. Confused => Confused'
        BY <1>2, <2>1 DEF Confused
      <3>4. ~Confused' => InOrder(Outgoing')
        BY <1>1, <2>1, <3>3 DEF ExchangeInv, PublishesInv
      <3>5. \A q \in Range(Outgoing') : q.type \in Sending => q \in Range(Outgoing)
        BY <2>1 DEF Quieter
      <3>6. \E R : R \subseteq Ids /\ DiskChanged(R)
        <4>1. CASE disk' = PutPubrel(disk, id)
          <5> DEFINE R == {id}
          <5>1. R \subseteq Ids /\ disk'.pubrel = disk.pubrel \cup R /\ \A k \in R : k = id
            BY <1>14, <1>17, <4>1
          <5> HIDE DEF R
          <5>2. DiskChanged(R)
            BY <1>1, <1>2, <1>9, <1>14, <2>1, <4>1, <5>1, PubrelsStored
          <5> QED  BY <5>1, <5>2
        <4>2. CASE disk' = TearPubrel(disk, id)
          <5>1. disk.badPubrel = {}
            BY <1>1, <1>2 DEF RecordInv
          <5>2. /\ disk'.badPubrel = {id} /\ disk'.pubrel = disk.pubrel \ {id}
                /\ DiskType(disk') /\ disk'.sent = disk.sent
            BY <1>14, <4>2, <5>1
          <5>3. ~Confused' => disk'.pubrel = disk.pubrel \cup {}
            <6>1. ~Confused' => id \notin disk.pubrel
              BY <2>1, <5>2 DEF Confused
            <6> QED  BY <5>2, <6>1
          <5>4. DiskChanged({})
            BY <1>9, <2>1, <3>3, <5>2, <5>3 DEF DiskChanged
          <5> QED  BY <5>4
        <4> QED  BY <2>3, <4>1, <4>2
      <3>7. PICK R : R \subseteq Ids /\ DiskChanged(R)
        BY <3>6
      <3>8. UNCHANGED <<bpub, sentIn, phase, distributed>> /\ reused' = reused
        BY <1>1, <1>2
      <3> QED  BY <1>2, <1>17, <2>1, <3>1, <3>2, <3>4, <3>5, <3>7, <3>8, SendingStep
    <2> QED  BY <2>1, <2>2, <2>3
  <1> QED  BY <1>1, <1>3, <1>4, <1>8, <1>18, <1>19, <1>20, <1>21, SendAckOutcome

\* Acknowledgements do not disturb the order of the packets.
LEMMA AcksInOrder ==
    ASSUME NEW s \in Seq(Packets), NEW t \in Seq(Packets), \A p \in Range(t) : p.type # "PUBLISH"
    PROVE  /\ s \o t \in Seq(Packets) /\ Range(s \o t) = Range(s) \cup Range(t)
           /\ InOrder(s) => InOrder(s \o t)
  <1>1. \A i \in DOMAIN t : t[i] \in Range(t)
    BY InRange
  <1>2. InOrder(t)
    BY <1>1 DEF InOrder
  <1> QED  BY <1>2, ConcatProperties, RangeConcatenation, InOrderConcat

\* The disk with some PUBRELs more.
LEMMA PubrelUpdate ==
    ASSUME NEW d, DiskType(d), NEW R, R \subseteq Ids
    PROVE  /\ DiskType([d EXCEPT !.pubrel = d.pubrel \cup R])
           /\ [d EXCEPT !.pubrel = d.pubrel \cup R].sent = d.sent
           /\ [d EXCEPT !.pubrel = d.pubrel \cup R].pubrel = d.pubrel \cup R
           /\ [d EXCEPT !.pubrel = d.pubrel \cup R].badSent = d.badSent
           /\ [d EXCEPT !.pubrel = d.pubrel \cup R].badPubrel = d.badPubrel
  BY DEF DiskType, DiskFields

\* The ids of the PUBRELs among the first k packets.
PubrelIds(packets, k) == {packets[i].id : i \in {j \in 1..k : packets[j].type = "PUBREL"}}

LEMMA StoredDisk ==
    ASSUME NEW d, DiskType(d), NEW packets \in Seq(Packets), NEW k \in 0..Len(packets)
    PROVE  /\ PubrelIds(packets, k) \subseteq Ids
           /\ DiskType(Stored(d, packets, k)) /\ Stored(d, packets, k).sent = d.sent
           /\ Stored(d, packets, k).pubrel = d.pubrel \cup PubrelIds(packets, k)
           /\ Stored(d, packets, k).badSent = d.badSent
           /\ Stored(d, packets, k).badPubrel = d.badPubrel
  <1> DEFINE R == PubrelIds(packets, k)
  <1>1. Stored(d, packets, k) = [d EXCEPT !.pubrel = d.pubrel \cup R]
    BY DEF Stored, PubrelIds
  <1>2. R \subseteq Ids
    <2>1. \A i \in 1..k : packets[i] \in Packets
      OBVIOUS
    <2> QED  BY <2>1 DEF PubrelIds, Packets
  <1> HIDE DEF R
  <1>3. /\ DiskType([d EXCEPT !.pubrel = d.pubrel \cup R])
        /\ [d EXCEPT !.pubrel = d.pubrel \cup R].sent = d.sent
        /\ [d EXCEPT !.pubrel = d.pubrel \cup R].pubrel = d.pubrel \cup R
        /\ [d EXCEPT !.pubrel = d.pubrel \cup R].badSent = d.badSent
        /\ [d EXCEPT !.pubrel = d.pubrel \cup R].badPubrel = d.badPubrel
    BY <1>2, PubrelUpdate
  <1> QED  BY <1>1, <1>2, <1>3 DEF R

\* The first k packets are some of them.
LEMMA FirstPackets ==
    ASSUME NEW packets \in Seq(Packets), NEW k \in 0..Len(packets)
    PROVE  /\ SubSeq(packets, 1, k) \in Seq(Packets)
           /\ Range(SubSeq(packets, 1, k)) \subseteq Range(packets)
           /\ \A p \in Range(SubSeq(packets, 1, k)) :
                  p.type = "PUBREL" => p.id \in PubrelIds(packets, k)
  <1> DEFINE w == SubSeq(packets, 1, k)
  <1>1. k \in Nat /\ k <= Len(packets) /\ \A i \in 1..k : packets[i] \in Packets
    OBVIOUS
  <1>2. /\ w \in Seq(Packets) /\ Len(w) = (IF 1 <= k THEN k - 1 + 1 ELSE 0)
        /\ \A i \in 1 .. (k - 1 + 1) : w[i] = packets[1 + i - 1]
    <2>1. 1 \in Int /\ k \in Int /\ \A i \in 1..k : packets[i] \in Packets
      BY <1>1
    <2> QED  BY <2>1, SubSeqProperties
  <1> HIDE DEF w
  <1>3. DOMAIN w = 1..k
    <2>1. Len(w) = k /\ DOMAIN w = 1..Len(w)
      BY <1>1, <1>2
    <2> QED  BY <2>1
  <1>4. ASSUME NEW i \in 1..k PROVE w[i] = packets[i] /\ i \in DOMAIN packets
    <2>1. i \in 1 .. (k - 1 + 1) /\ 1 + i - 1 = i
      BY <1>1
    <2> QED  BY <1>1, <1>2, <2>1
  <1>5. Range(w) \subseteq Range(packets)
    BY <1>3, <1>4 DEF Range
  <1>6. \A i \in 1..k : packets[i].type = "PUBREL" => packets[i].id \in PubrelIds(packets, k)
    BY DEF PubrelIds
  <1>7. \A p \in Range(w) : p.type = "PUBREL" => p.id \in PubrelIds(packets, k)
    BY <1>3, <1>4, <1>6 DEF Range
  <1> QED  BY <1>2, <1>5, <1>7 DEF w

LEMMA TearSentUpdate ==
    ASSUME NEW d, DiskType(d), NEW id \in Ids
    PROVE  /\ DiskType(TearSent(d, id)) /\ TearSent(d, id).sent = Without(d.sent, id)
           /\ DOMAIN TearSent(d, id).sent = DOMAIN d.sent \ {id}
           /\ \A k \in DOMAIN d.sent \ {id} : TearSent(d, id).sent[k] = d.sent[k]
           /\ TearSent(d, id).pubrel = d.pubrel /\ TearSent(d, id).badPubrel = d.badPubrel
  <1> DEFINE e == TearSent(d, id)
  <1>1. /\ e = [f \in DiskFields |-> e[f]] /\ e.sent = Without(d.sent, id)
        /\ e.pubrel = d.pubrel /\ e.badPubrel = d.badPubrel /\ e.badSent = d.badSent \cup {id}
        /\ e.rcvd = d.rcvd /\ e.queue = d.queue
    BY DEF TearSent, DiskType, DiskFields
  <1>2. /\ DOMAIN Without(d.sent, id) = DOMAIN d.sent \ {id}
        /\ \A k \in DOMAIN d.sent \ {id} : Without(d.sent, id)[k] = d.sent[k]
        /\ Table(Without(d.sent, id), Ids, Messages)
    BY DEF Without, DiskType, Table
  <1> HIDE DEF e
  <1>3. DiskType(e)
    BY <1>1, <1>2 DEF DiskType
  <1> QED  BY <1>1, <1>2, <1>3 DEF e

\* A crash in pstput: the record written is gone, the PUBRELs before it are stored
\* and the packets before it written.
LEMMA CrashInPutOutcome ==
    ASSUME SessionInv, mem.up, NEW packets \in Seq(Packets), NEW earlier,
           CrashInPut(disk, earlier, packets), reused' = reused,
           ~Confused => \A p \in Range(packets) :
               p.type = "PUBREL" /\ Live(p.id) => QosOf(p.id) = 2 /\ Held(p.id)
    PROVE  /\ mem' = Down /\ (Confused => Confused')
           /\ \E R, w : /\ R \subseteq Ids /\ DiskChanged(R)
                        /\ w \in Seq(Packets) /\ Range(w) \subseteq Range(packets)
                        /\ toBroker' = earlier \o w
                        /\ \A p \in Range(w) : p.type = "PUBREL" => p.id \in R
  <1>1. DiskType(disk) /\ disk.badSent = {} /\ disk.badPubrel = {}
    BY DEF SessionInv, TypeInv, RecordInv
  <1>2. PICK k \in DOMAIN packets :
            LET before == Stored(disk, packets, k - 1)
            IN  /\ CrashWith(before, IF packets[k].type = "PUBREL"
                                     THEN TearPubrel(before, packets[k].id)
                                     ELSE TearSent(before, packets[k].id))
                /\ toBroker' = earlier \o SubSeq(packets, 1, k - 1)
    BY DEF CrashInPut
  <1> DEFINE before == Stored(disk, packets, k - 1)
             id == packets[k].id
             R == PubrelIds(packets, k - 1)
             w == SubSeq(packets, 1, k - 1)
             d == IF packets[k].type = "PUBREL" THEN TearPubrel(before, id)
                  ELSE TearSent(before, id)
  <1>3. k - 1 \in 0..Len(packets) /\ packets[k] \in Packets /\ packets[k] \in Range(packets)
    <2>1. DOMAIN packets = 1..Len(packets) /\ Len(packets) \in Nat /\ k \in 1..Len(packets)
      OBVIOUS
    <2>2. k - 1 \in 0..Len(packets)
      BY <2>1
    <2>3. packets[k] \in Range(packets)
      BY InRange
    <2> QED  BY <2>2, <2>3
  <1>4. id \in Ids
    BY <1>3 DEF Packets
  <1>5. CrashWith(before, d) /\ toBroker' = earlier \o w
    BY <1>2
  <1>6. /\ R \subseteq Ids /\ DiskType(before) /\ before.sent = disk.sent
        /\ before.pubrel = disk.pubrel \cup R
        /\ before.badSent = {} /\ before.badPubrel = {}
    BY <1>1, <1>3, StoredDisk
  <1>7. /\ w \in Seq(Packets) /\ Range(w) \subseteq Range(packets)
        /\ \A p \in Range(w) : p.type = "PUBREL" => p.id \in R
    BY <1>3, FirstPackets
  <1>8. \A i \in R : \E p \in Range(packets) : p.type = "PUBREL" /\ p.id = i
    <2> SUFFICES ASSUME NEW i \in R PROVE \E p \in Range(packets) : p.type = "PUBREL" /\ p.id = i
      OBVIOUS
    <2>1. PICK j \in 1..(k - 1) : packets[j].type = "PUBREL" /\ packets[j].id = i
      BY DEF PubrelIds
    <2>2. j \in DOMAIN packets
      BY <1>3
    <2> QED  BY <2>1, <2>2, InRange
  <1> HIDE DEF before, R, w, d
  <1>9. /\ mem' = Down /\ disk' = d /\ torn \subseteq torn'
        /\ before.pubrel \cap d.badPubrel # {} => "pubrel" \in torn'
    BY <1>5 DEF CrashWith
  <1>10. Confused => Confused'
    BY <1>9 DEF Confused
  <1>11. /\ DiskType(disk') /\ DOMAIN disk'.sent \subseteq DOMAIN disk.sent
         /\ \A i \in DOMAIN disk'.sent : disk'.sent[i] = disk.sent[i]
         /\ ~Confused' => disk'.pubrel = disk.pubrel \cup R
         /\ \A i \in disk'.badPubrel : packets[k].type = "PUBREL" /\ i = id
    <2>1. CASE packets[k].type = "PUBREL"
      <3>1. d = TearPubrel(before, id)
        BY <2>1 DEF d
      <3> HIDE DEF id
      <3>2. /\ DiskType(d) /\ d.sent = disk.sent /\ d.pubrel = before.pubrel \ {id}
            /\ d.badPubrel = {id}
        <4>1. /\ DiskType(TearPubrel(before, id)) /\ TearPubrel(before, id).sent = before.sent
              /\ TearPubrel(before, id).pubrel = before.pubrel \ {id}
              /\ TearPubrel(before, id).badPubrel = before.badPubrel \cup {id}
          <5>1. DiskType(before) /\ id \in Ids
            BY <1>4, <1>6
          <5> QED  BY ONLY <5>1, DiskUpdates
        <4> QED  BY <1>6, <3>1, <4>1
      <3>3. ~Confused' => id \notin before.pubrel
        BY <1>9, <3>2 DEF Confused
      <3> QED  BY <1>6, <1>9, <2>1, <3>2, <3>3
    <2>2. CASE packets[k].type # "PUBREL"
      <3>1. d = TearSent(before, id)
        BY <2>2 DEF d
      <3> HIDE DEF id
      <3>2. /\ DiskType(d) /\ DOMAIN d.sent = DOMAIN disk.sent \ {id}
            /\ \A i \in DOMAIN disk.sent \ {id} : d.sent[i] = disk.sent[i]
            /\ d.pubrel = before.pubrel /\ d.badPubrel = {}
        BY <1>4, <1>6, <3>1, TearSentUpdate
      <3> QED  BY <1>6, <1>9, <3>2
    <2> QED  BY <2>1, <2>2
  <1>12. ~mem'.up
    BY <1>9, DownType
  <1>13. ~Confused => \A i \in R \cup disk'.badPubrel : Live(i) => QosOf(i) = 2 /\ Held(i)
    BY <1>3, <1>8, <1>11
  <1>14. DiskChanged(R)
    BY <1>10, <1>11, <1>12, <1>13 DEF DiskChanged
  <1> QED  BY <1>5, <1>6, <1>7, <1>9, <1>10, <1>14

LEMMA CrashInPutStep ==
    ASSUME SessionInv, mem.up, NEW packets \in Seq(Packets), NEW earlier \in Seq(Packets),
           CrashInPut(disk, earlier, packets), Range(earlier) \subseteq Range(Outgoing),
           \A p \in Range(packets) : p.type \in Sending =>
               \/ p.type = "PUBREL"
               \/ /\ p.type = "PUBLISH"
                  /\ \E i \in DOMAIN mem.outbound :
                         /\ mem.outbound[i].id = p.id /\ mem.outbound[i].msg = p.msg
                         /\ mem.outbound[i].next # "PUBCOMP",
           ~Confused => \A p \in Range(packets) :
               p.type = "PUBREL" /\ Live(p.id) => QosOf(p.id) = 2 /\ Held(p.id),
           ~Confused => \A w \in Seq(Packets) :
               Range(w) \subseteq Range(packets) => InOrder(earlier \o w),
           toClient' \in Seq(Packets),
           \A p \in Range(toClient') : p.type \in Answering => p \in Range(toClient),
           bout' \in Seq(BrokerEntries), UNCHANGED <<bpub, sentIn, phase, distributed>>,
           reused' = reused
    PROVE  SessionInv'
  <1>1. /\ mem' = Down /\ (Confused => Confused')
        /\ \E R, w : /\ R \subseteq Ids /\ DiskChanged(R)
                     /\ w \in Seq(Packets) /\ Range(w) \subseteq Range(packets)
                     /\ toBroker' = earlier \o w
                     /\ \A p \in Range(w) : p.type = "PUBREL" => p.id \in R
    <2>1. ~Confused => \A p \in Range(packets) :
              p.type = "PUBREL" /\ Live(p.id) => QosOf(p.id) = 2 /\ Held(p.id)
      OBVIOUS
    <2> QED  BY ONLY SessionInv, mem.up, packets \in Seq(Packets), CrashInPut(disk, earlier, packets),
                     reused' = reused, <2>1, CrashInPutOutcome
  <1>2. PICK R, w : /\ R \subseteq Ids /\ DiskChanged(R)
                    /\ w \in Seq(Packets) /\ Range(w) \subseteq Range(packets)
                    /\ toBroker' = earlier \o w
                    /\ \A p \in Range(w) : p.type = "PUBREL" => p.id \in R
    BY <1>1
  <1>3. /\ MemoryType(mem') /\ ~mem'.up /\ mem'.outbound = <<>> /\ mem'.partial = <<>>
        /\ mem'.acks = <<>> /\ Range(mem'.acks) = {} /\ DOMAIN mem'.outbound = {}
    BY <1>1, DownType, RangeShort
  <1>4. /\ toBroker' \in Seq(Packets) /\ Outgoing' = toBroker'
        /\ Range(toBroker') = Range(earlier) \cup Range(w)
    <2>1. toBroker' \in Seq(Packets) /\ Range(toBroker') = Range(earlier) \cup Range(w)
      BY <1>2, ConcatProperties, RangeConcatenation
    <2>2. toBroker' \o <<>> = toBroker'
      BY <2>1, ConcatEmptySeq
    <2> QED  BY <1>3, <2>1, <2>2 DEF Outgoing
  <1>5. \A p \in Range(Outgoing') : p.type \in Sending =>
            \/ p \in Range(Outgoing)
            \/ p.type = "PUBREL" /\ p.id \in R
            \/ /\ p.type = "PUBLISH"
               /\ \E i \in DOMAIN mem.outbound :
                      /\ mem.outbound[i].id = p.id /\ mem.outbound[i].msg = p.msg
                      /\ mem.outbound[i].next # "PUBCOMP"
    BY <1>2, <1>4
  <1>6. Mirrored' /\ StagesInv'
    BY <1>3 DEF Mirrored, StagesInv
  <1>7. ~Confused' => InOrder(Outgoing')
    BY <1>1, <1>2, <1>4
  <1> QED  BY <1>2, <1>3, <1>4, <1>5, <1>6, <1>7, SendingStep

\* Queued acknowledgements are written, and the PUBRELs among them are stored.
LEMMA WriteAvailableStep ==
    ASSUME SessionInv, WriteAvailable
    PROVE  SessionInv'
  <1>1. /\ TypeInv /\ RecordInv /\ (~Confused => ExchangeInv) /\ MemoryType(mem) /\ DiskType(disk)
        /\ mem.up /\ UNCHANGED <<toClient, brokerVars, phase, reused>>
    BY DEF SessionInv, TypeInv, WriteAvailable, Connected
  <1> DEFINE a == mem.acks
             n == Len(a)
             Writes(k) ==
               LET stuck == IF k < n THEN <<a[k + 1]>> ELSE <<>>
               IN  /\ toBroker' = toBroker \o mem.partial \o SubSeq(a, 1, k)
                   /\ mem' = [mem EXCEPT !.partial = stuck, !.acks = <<>>]
                   /\ disk' = Stored(disk, a, k + Len(stuck))
                   /\ torn' = torn
  <1>2. (\E k \in 0..n : Writes(k)) \/ CrashInPut(disk, Outgoing, a)
    <2>1. n \in Nat
      <3>1. a \in Seq(Packets)
        BY <1>1 DEF MemoryType
      <3> QED  BY <3>1
    <2>2. \/ \E k \in IF MoreDelays THEN 0..n ELSE {n} : Writes(k)
          \/ CrashInPut(disk, Outgoing, a)
      BY Zenon DEF WriteAvailable, Outgoing
    <2> HIDE DEF Writes, n
    <2>3. (IF MoreDelays THEN 0..n ELSE {n}) \subseteq 0..n
      BY <2>1
    <2> QED  BY <2>2, <2>3
  <1>3. /\ a \in Seq(Packets) /\ n \in Nat /\ DOMAIN a = 1..n
        /\ \A i \in 1..n : a[i] \in Packets /\ a[i] \in Range(a)
    <2>1. a \in Seq(Packets)
      BY <1>1 DEF MemoryType
    <2> HIDE DEF a
    <2>2. \A i \in DOMAIN a : a[i] \in Packets
      BY <2>1
    <2> QED  BY <2>1, <2>2, InRange
  <1>4. toBroker \in Seq(Packets) /\ mem.partial \in Seq(Packets) /\ Outgoing \in Seq(Packets)
    <2>1. toBroker \in Seq(Packets) /\ mem.partial \in Seq(Packets)
      BY <1>1 DEF TypeInv, NetworkType, MemoryType
    <2> QED  BY <2>1, ConcatProperties DEF Outgoing
  <1>5. /\ \A i \in DOMAIN mem.outbound :
               Live(mem.outbound[i].id) /\ disk.sent[mem.outbound[i].id] = mem.outbound[i].msg
        /\ \A id : Live(id) => \E i \in DOMAIN mem.outbound : mem.outbound[i].id = id
    BY <1>1 DEF RecordInv, Mirrored, OutIds, Live
  <1>6. \A p \in Range(a) : p.type # "PUBLISH"
    BY <1>1 DEF RecordInv
  <1>7. ~Confused => \A p \in Range(a) : p.type = "PUBREL" =>
            \A i \in DOMAIN mem.outbound :
                mem.outbound[i].id = p.id => mem.outbound[i].next = "PUBCOMP"
    BY <1>1 DEF ExchangeInv, PubrelsInv
  <1>8. ~Confused => \A p \in Range(a) :
            p.type = "PUBREL" /\ Live(p.id) => QosOf(p.id) = 2 /\ Held(p.id)
    BY <1>1, <1>5, <1>7 DEF ExchangeInv, StagesInv
  <1>9. /\ bout' \in Seq(BrokerEntries) /\ toClient' \in Seq(Packets) /\ toClient' = toClient
        /\ UNCHANGED <<bpub, sentIn, phase, distributed>> /\ reused' = reused
    BY <1>1 DEF TypeInv, NetworkType
  <1> HIDE DEF a, n
  <1>10. CASE CrashInPut(disk, Outgoing, a)
    <2>1. \A p \in Range(a) : p.type \in Sending => p.type = "PUBREL"
      BY <1>6 DEF Sending
    <2>2. ~Confused => InOrder(Outgoing)
      BY <1>1 DEF ExchangeInv, PublishesInv
    <2>3. ~Confused => \A w \in Seq(Packets) : Range(w) \subseteq Range(a) => InOrder(Outgoing \o w)
      <3> SUFFICES ASSUME ~Confused, NEW w \in Seq(Packets), Range(w) \subseteq Range(a)
                   PROVE  InOrder(Outgoing \o w)
        OBVIOUS
      <3>1. \A p \in Range(w) : p.type # "PUBLISH"
        BY <1>6
      <3> QED  BY <1>4, <2>2, <3>1, AcksInOrder
    <2> QED  BY <1>1, <1>3, <1>4, <1>8, <1>9, <1>10, <2>1, <2>3, CrashInPutStep
  <1>11. ASSUME NEW k \in 0..n, Writes(k) PROVE SessionInv'
    <2> DEFINE stuck == IF k < n THEN <<a[k + 1]>> ELSE <<>>
               l == k + Len(stuck)
               b == SubSeq(a, 1, k)
               R == PubrelIds(a, l)
    <2>1. /\ stuck \in Seq(Packets) /\ Len(stuck) <= 1 /\ l \in 0..n /\ k <= l
          /\ \A p \in Range(stuck) : \E i \in 1..l : p = a[i]
      <3>1. CASE k < n
        <4>1. k + 1 \in 1..n /\ stuck = <<a[k + 1]>>
          BY <1>3, <3>1
        <4>2. stuck \in Seq(Packets) /\ Len(stuck) = 1 /\ Range(stuck) = {a[k + 1]}
          BY <1>3, <4>1, RangeShort
        <4>3. l = k + 1
          BY <4>2
        <4> HIDE DEF stuck, l
        <4>4. k + 1 \in 1..l /\ l \in 0..n
          BY <1>3, <4>1, <4>3
        <4> QED  BY <4>2, <4>4
      <3>2. CASE ~(k < n)
        <4>1. stuck = <<>> /\ stuck \in Seq(Packets) /\ Len(stuck) = 0 /\ Range(stuck) = {}
          BY <3>2, RangeShort
        <4>2. l = k
          BY <4>1
        <4> HIDE DEF stuck, l
        <4> QED  BY <1>3, <4>1, <4>2
      <3> QED  BY <3>1, <3>2
    <2>2. /\ disk' = Stored(disk, a, l) /\ toBroker' = Outgoing \o b /\ torn' = torn
          /\ mem' = [mem EXCEPT !.partial = stuck, !.acks = <<>>]
      BY <1>11, Zenon DEF Outgoing
    <2> HIDE DEF stuck, l, Writes
    <2>3. /\ b \in Seq(Packets) /\ Range(b) \subseteq Range(a)
          /\ \A p \in Range(b) : p.type = "PUBREL" => p.id \in PubrelIds(a, k)
      BY <1>3, FirstPackets DEF n
    <2>4. PubrelIds(a, k) \subseteq R
      BY <1>3, <2>1 DEF PubrelIds
    <2>5. \A p \in Range(stuck) : p \in Range(a) /\ (p.type = "PUBREL" => p.id \in R)
      BY <1>3, <2>1 DEF PubrelIds
    <2>6. \A id \in R : \E p \in Range(a) : p.type = "PUBREL" /\ p.id = id
      BY <1>3, <2>1 DEF PubrelIds
    <2>7. /\ R \subseteq Ids /\ DiskType(disk') /\ disk'.sent = disk.sent
          /\ disk'.pubrel = disk.pubrel \cup R
          /\ disk'.badSent = disk.badSent /\ disk'.badPubrel = disk.badPubrel
      BY <1>1, <1>3, <2>1, <2>2, StoredDisk DEF n
    <2> HIDE DEF R, b
    <2>8. /\ MemoryType(mem') /\ mem'.partial = stuck /\ mem'.acks = <<>>
          /\ mem'.outbound = mem.outbound /\ mem'.up = mem.up
      <3> DEFINE e == [mem EXCEPT !.partial = stuck]
                 f == [e EXCEPT !.acks = <<>>]
      <3>1. MemoryType(e) /\ e.partial = stuck /\ Same(e, mem, Fields \ {"partial"})
        <4>1. Len(stuck) <= 1 /\ stuck \in Seq(Packets)
          BY <2>1
        <4> QED  BY <1>1, <4>1, MemoryFields
      <3>2. e.up
        BY <1>1, <3>1 DEF Same, Fields
      <3> HIDE DEF e
      <3>3. <<>> \in Seq(Packets)
        OBVIOUS
      <3>4. MemoryType(f) /\ f.acks = <<>> /\ Same(f, e, Fields \ {"acks"})
        BY <3>1, <3>2, <3>3, MemoryFields
      <3> HIDE DEF f
      <3>5. mem' = f
        BY <2>2 DEF e, f
      <3> QED  BY <3>1, <3>4, <3>5 DEF Same, Fields
    <2>9. /\ \A p \in Range(b) : p.type # "PUBLISH"
          /\ \A p \in Range(stuck) : p.type # "PUBLISH"
      BY <1>6, <2>3, <2>5
    <2>10. /\ toBroker' \in Seq(Packets)
           /\ Range(Outgoing') = Range(Outgoing) \cup Range(b) \cup Range(stuck)
           /\ InOrder(Outgoing) => InOrder(Outgoing')
      <3>1. /\ toBroker' \in Seq(Packets) /\ Range(toBroker') = Range(Outgoing) \cup Range(b)
            /\ InOrder(Outgoing) => InOrder(toBroker')
        BY <1>4, <2>2, <2>3, <2>9, AcksInOrder
      <3>2. Outgoing' = toBroker' \o stuck
        BY <2>8 DEF Outgoing
      <3>3. /\ Range(toBroker' \o stuck) = Range(toBroker') \cup Range(stuck)
            /\ InOrder(toBroker') => InOrder(toBroker' \o stuck)
        BY <2>1, <2>9, <3>1, AcksInOrder
      <3> QED  BY <3>1, <3>2, <3>3
    <2>11. \A p \in Range(Outgoing') : p.type \in Sending =>
               p \in Range(Outgoing) \/ (p.type = "PUBREL" /\ p.id \in R)
      BY <2>3, <2>4, <2>5, <2>9, <2>10 DEF Sending
    <2>12. ~Confused => \A id \in R : Live(id) => QosOf(id) = 2 /\ Held(id)
      BY <1>8, <2>6
    <2>13. torn \subseteq torn' /\ Confused' = Confused
      BY <1>1, <2>2 DEF Confused
    <2>14. DiskChanged(R)
      BY <1>1, <1>9, <2>7, <2>12, <2>13, PubrelsStored
    <2>15. Mirrored'
      <3>1. OutIds' = OutIds
        BY <2>8 DEF OutIds
      <3> QED  BY <1>1, <2>7, <2>8, <3>1 DEF RecordInv, Mirrored, Live
    <2>16. ~Confused => InOrder(Outgoing') /\ StagesInv'
      <3> SUFFICES ASSUME ~Confused PROVE InOrder(Outgoing') /\ StagesInv'
        OBVIOUS
      <3>0. ExchangeInv
        BY <1>1
      <3>1. \A id : QosOf(id)' = QosOf(id) /\ (Held(id)' <=> Held(id))
        BY <1>9, <2>7 DEF QosOf, Held, Taken
      <3>2. ASSUME NEW i \in DOMAIN mem.outbound, mem.outbound[i].next = "PUBREC"
            PROVE  mem.outbound[i].id \notin disk'.pubrel
        <4>1. mem.outbound[i].id \notin R
          BY <1>7, <2>6, <3>2
        <4> QED  BY <2>7, <3>0, <3>2, <4>1 DEF ExchangeInv, StagesInv
      <3>3. StagesInv'
        BY <2>8, <3>0, <3>1, <3>2 DEF ExchangeInv, StagesInv
      <3> QED  BY <2>10, <3>0, <3>3 DEF ExchangeInv, PublishesInv
    <2>17. Range(mem'.acks) = {}
      BY <2>8, RangeShort
    <2> QED  BY <1>1, <1>9, <2>7, <2>8, <2>10, <2>11, <2>13, <2>14, <2>15, <2>16, <2>17, SendingStep
  <1> QED  BY <1>2, <1>10, <1>11

-----------------------------------------------------------------------------
(* Messages sent again: on a connect and by MQTTClient_retry.              *)

\* The memory after MQTTProtocol_retries.
Retried(m, x, s, c) == [m EXCEPT !.csent = x, !.partial = s, !.connected = c]

LEMMA RetryFields ==
    ASSUME NEW m, MemoryType(m)
    PROVE  \A x, s, c : s \in Seq(Packets) /\ Len(s) <= 1 /\ c \in BOOLEAN /\ m.up =>
               /\ MemoryType(Retried(m, x, s, c)) /\ Retried(m, x, s, c).partial = s
               /\ Same(Retried(m, x, s, c), m, Fields \ {"csent", "partial", "connected"})
  <1> SUFFICES ASSUME NEW x, NEW s, NEW c, s \in Seq(Packets), Len(s) <= 1, c \in BOOLEAN, m.up
               PROVE  /\ MemoryType(Retried(m, x, s, c)) /\ Retried(m, x, s, c).partial = s
                      /\ Same(Retried(m, x, s, c), m, Fields \ {"csent", "partial", "connected"})
    OBVIOUS
  <1> DEFINE a == Retried(m, x, s, c)
  <1>1. /\ a = [f \in Fields |-> a[f]] /\ a.partial = s /\ a.connected = c
        /\ Same(a, m, Fields \ {"csent", "partial", "connected"})
    BY DEF MemoryType, Fields, Same, Retried
  <1> HIDE DEF a
  <1>2. /\ a.up = m.up /\ a.msgID = m.msgID /\ a.outbound = m.outbound /\ a.inbound = m.inbound
        /\ a.acks = m.acks /\ a.seqno = m.seqno
    BY <1>1 DEF Same, Fields
  <1>3. MemoryType(a)
    BY <1>1, <1>2 DEF MemoryType
  <1> QED  BY <1>1, <1>3 DEF a

\* What MQTTProtocol_retries has written, or begun to write, are PUBLISH packets
\* of entries not yet released, and PUBRELs of the others, which it has stored.
Resent(m, w) == \A p \in Range(w) : \E i \in DOMAIN m.outbound : p = Resend(m.outbound[i])

LEMMA ResendsType ==
    ASSUME NEW m, MemoryType(m), NEW indexes \in Seq(DOMAIN m.outbound)
    PROVE  /\ Resends(m, indexes) \in Seq(Packets) /\ Len(Resends(m, indexes)) = Len(indexes)
           /\ Resent(m, Resends(m, indexes))
           /\ \A i \in 1..Len(indexes) :
                  Resends(m, indexes)[i].type = "PUBREL" => \E j \in DOMAIN m.outbound :
                      /\ m.outbound[j].id = Resends(m, indexes)[i].id
                      /\ m.outbound[j].next = "PUBCOMP"
  <1> DEFINE n == Len(indexes)
             packets == Resends(m, indexes)
  <1>1. /\ n \in Nat /\ \A i \in 1..n : indexes[i] \in DOMAIN m.outbound
        /\ m.outbound \in Seq(Entries)
    <2> DEFINE D == DOMAIN m.outbound
    <2>1. m.outbound \in Seq(Entries)
      BY DEF MemoryType
    <2>2. indexes \in Seq(D)
      OBVIOUS
    <2> HIDE DEF D
    <2>3. Len(indexes) \in Nat /\ \A i \in 1..Len(indexes) : indexes[i] \in D
      BY <2>2
    <2> QED  BY <2>1, <2>3 DEF D
  <1>0. /\ DOMAIN packets = 1..n /\ packets = [i \in 1..n |-> packets[i]]
        /\ \A i \in 1..n : packets[i] = Resend(m.outbound[indexes[i]])
    <2>1. DOMAIN indexes = 1..n
      OBVIOUS
    <2> HIDE DEF n
    <2> QED  BY <2>1 DEF Resends
  <1> HIDE DEF n
  <1>3. \A i \in 1..n :
            /\ packets[i] \in Packets
            /\ \E j \in DOMAIN m.outbound : packets[i] = Resend(m.outbound[j])
            /\ packets[i].type = "PUBREL" => \E j \in DOMAIN m.outbound :
                   m.outbound[j].id = packets[i].id /\ m.outbound[j].next = "PUBCOMP"
    <2> SUFFICES ASSUME NEW i \in 1..n
                 PROVE  /\ packets[i] \in Packets
                        /\ \E j \in DOMAIN m.outbound : packets[i] = Resend(m.outbound[j])
                        /\ packets[i].type = "PUBREL" => \E j \in DOMAIN m.outbound :
                               m.outbound[j].id = packets[i].id /\ m.outbound[j].next = "PUBCOMP"
      OBVIOUS
    <2>1. PICK j \in DOMAIN m.outbound : packets[i] = Resend(m.outbound[j])
      BY <1>0, <1>1
    <2>2. m.outbound[j] \in Entries
      BY <1>1
    <2>3. PICK e \in Entries : e = m.outbound[j]
      BY <2>2
    <2>4. e.id \in Ids /\ e.msg \in Nat
      BY <2>3 DEF Entries, Messages
    <2> HIDE DEF packets
    <2>5. CASE e.next = "PUBCOMP"
      <3>1. packets[i] = [type |-> "PUBREL", id |-> e.id, msg |-> 0]
        BY <2>1, <2>3, <2>5 DEF Resend, Ack, Packet
      <3>2. packets[i] \in Packets /\ packets[i].id = e.id
        BY <2>4, <3>1 DEF Packets, Sending
      <3> QED  BY <2>1, <2>3, <2>5, <3>2
    <2>6. CASE e.next # "PUBCOMP"
      <3>1. packets[i] = [type |-> "PUBLISH", id |-> e.id, msg |-> e.msg]
        BY <2>1, <2>3, <2>6 DEF Resend, Packet
      <3>2. packets[i] \in Packets /\ packets[i].type # "PUBREL"
        BY <2>4, <3>1 DEF Packets, Sending
      <3> QED  BY <2>1, <3>2
    <2> QED  BY <2>5, <2>6
  <1>a. packets \in Seq(Packets) /\ Len(packets) = n /\ Resent(m, packets)
    <2>1. packets \in [1..n -> Packets]
      BY <1>0, <1>3
    <2>2. packets \in Seq(Packets) /\ Len(packets) = n
      BY <1>0, <1>1, <2>1, IsASeq
    <2>3. Range(packets) = {packets[i] : i \in 1..n}
      BY <1>0 DEF Range
    <2>4. Resent(m, packets)
      BY <1>3, <2>3 DEF Resent
    <2> QED  BY <2>2, <2>4
  <1> HIDE DEF packets
  <1>b. \A i \in 1..n : packets[i].type = "PUBREL" => \E j \in DOMAIN m.outbound :
            m.outbound[j].id = packets[i].id /\ m.outbound[j].next = "PUBCOMP"
    BY <1>3
  <1> QED  BY <1>a, <1>b DEF packets, n
RetryFacts(m, indexes, r) ==
    /\ r.written \in Seq(Packets) /\ MemoryType(r.m) /\ r.m.partial \in Seq(Packets)
    /\ Same(r.m, m, Fields \ {"csent", "partial", "connected"})
    /\ Resent(m, r.written) /\ Resent(m, r.m.partial)
    /\ Resends(m, indexes) \in Seq(Packets) /\ Resent(m, Resends(m, indexes))
    /\ r.stored \in 0..Len(Resends(m, indexes))
    /\ \A p \in Range(r.written) \cup Range(r.m.partial) :
           p.type = "PUBREL" => p.id \in PubrelIds(Resends(m, indexes), r.stored)
    /\ \A id \in PubrelIds(Resends(m, indexes), r.stored) : \E i \in DOMAIN m.outbound :
           m.outbound[i].id = id /\ m.outbound[i].next = "PUBCOMP"

LEMMA RetryOutcome ==
    ASSUME NEW m, MemoryType(m), m.up, NEW indexes \in Seq(DOMAIN m.outbound),
           NEW counted, NEW r \in RetryOutcomes(m, indexes, counted)
    PROVE  RetryFacts(m, indexes, r)
  <1> USE DEF RetryFacts
  <1> DEFINE n == Len(indexes)
             packets == Resends(m, indexes)
             after(k, stuck) ==
                 [m |-> [m EXCEPT !.csent = IF counted THEN @ + k ELSE @,
                                  !.partial = IF stuck THEN <<packets[k]>> ELSE <<>>,
                                  !.connected = ~(stuck /\ packets[k].type = "PUBREL")],
                  partials |-> partials + (IF stuck THEN 1 ELSE 0),
                  written |-> SubSeq(packets, 1, IF stuck THEN k - 1 ELSE k),
                  stored |-> k]
             R(k) == PubrelIds(packets, k)
  <1>a. packets \in Seq(Packets) /\ Len(packets) = n /\ Resent(m, packets)
    BY ResendsType
  <1>3. /\ n \in Nat
        /\ \A i \in 1..n :
               /\ packets[i] \in Packets
               /\ \E j \in DOMAIN m.outbound : packets[i] = Resend(m.outbound[j])
               /\ packets[i].type = "PUBREL" => \E j \in DOMAIN m.outbound :
                      m.outbound[j].id = packets[i].id /\ m.outbound[j].next = "PUBCOMP"
    <2>1. \A i \in 1..n : packets[i].type = "PUBREL" => \E j \in DOMAIN m.outbound :
              m.outbound[j].id = packets[i].id /\ m.outbound[j].next = "PUBCOMP"
      BY ResendsType
    <2> HIDE DEF packets, n
    <2>2. n \in Nat /\ \A i \in 1..n : packets[i] \in Packets /\ packets[i] \in Range(packets)
      <3>1. DOMAIN packets = 1..n /\ n \in Nat /\ \A i \in DOMAIN packets : packets[i] \in Packets
        BY <1>a
      <3> QED  BY <1>a, <3>1, InRange
    <2> QED  BY <1>a, <2>1, <2>2 DEF Resent
  <1>2. PICK k \in 0..n, stuck \in BOOLEAN : r = after(k, stuck) /\ (stuck => k \in 1..n)
    <2> HIDE DEF after, n
    <2>1. RetryOutcomes(m, indexes, counted) =
              {after(n, FALSE)} \cup {after(k, TRUE) : k \in IF MoreDelays THEN 1..n ELSE {}}
      BY Zenon DEF RetryOutcomes, after, n
    <2>2. r = after(n, FALSE) \/ \E k \in 1..n : r = after(k, TRUE)
      BY <2>1
    <2>3. n \in 0..n /\ 1..n \subseteq 0..n
      BY <1>3
    <2> QED  BY <2>2, <2>3
  <1> HIDE DEF n
  <1> HIDE DEF packets
  <1> DEFINE l == IF stuck THEN k - 1 ELSE k
             w == SubSeq(packets, 1, l)
             t == IF stuck THEN <<packets[k]>> ELSE <<>>
  <1>4. l \in 0..n /\ l <= k
    BY <1>3, <1>2
  <1>5. w \in Seq(Packets) /\ \A p \in Range(w) : \E i \in 1..k : p = packets[i]
    <2> HIDE DEF l
    <2>1. /\ 1 \in Int /\ l \in Int /\ \A i \in 1..l : packets[i] \in Packets
      BY <1>3, <1>4
    <2>2. /\ w \in Seq(Packets) /\ Len(w) = IF 1 <= l THEN l - 1 + 1 ELSE 0
          /\ \A i \in 1 .. (l - 1 + 1) : w[i] = packets[1 + i - 1]
      BY <2>1, SubSeqProperties
    <2> HIDE DEF w
    <2>3. DOMAIN w = 1..l
      <3>1. Len(w) = l /\ DOMAIN w = 1..Len(w)
        BY <1>3, <1>4, <2>2
      <3> QED  BY <3>1
    <2>4. ASSUME NEW i \in 1..l
          PROVE  w[i] = packets[i] /\ i \in 1..k
      <3>1. i \in 1 .. (l - 1 + 1) /\ 1 + i - 1 = i /\ i \in 1..k
        BY <1>3, <1>4
      <3> QED  BY <2>2, <3>1
    <2> QED  BY <2>2, <2>3, <2>4 DEF Range
  <1>6. t \in Seq(Packets) /\ Len(t) <= 1 /\ \A p \in Range(t) : \E i \in 1..k : p = packets[i]
    <2>1. CASE stuck
      <3>1. k \in 1..n /\ k \in 1..k /\ packets[k] \in Packets
        BY <1>2, <1>3, <2>1
      <3> QED  BY <2>1, <3>1, RangeShort
    <2>2. CASE ~stuck
      BY <2>2, RangeShort
    <2> QED  BY <2>1, <2>2
  <1>7. r.written = w /\ r.stored = k
    BY <1>2
  <1>8. /\ MemoryType(r.m) /\ r.m.partial = t
        /\ Same(r.m, m, Fields \ {"csent", "partial", "connected"})
    <2> DEFINE x == IF counted THEN m.csent + k ELSE m.csent
               c == ~(stuck /\ packets[k].type = "PUBREL")
    <2>1. r.m = Retried(m, x, t, c)
      BY <1>2 DEF Retried
    <2>2. c \in BOOLEAN
      OBVIOUS
    <2>3. t \in Seq(Packets) /\ Len(t) <= 1
      BY <1>6
    <2> HIDE DEF x, c, t
    <2>4. \E a, b, d : r.m = Retried(m, a, b, d) /\ b = t /\ d \in BOOLEAN
      BY <2>1, <2>2
    <2>5. PICK a, b, d : r.m = Retried(m, a, b, d) /\ b = t /\ d \in BOOLEAN
      BY <2>4
    <2>6. /\ MemoryType(Retried(m, a, b, d)) /\ Retried(m, a, b, d).partial = b
          /\ Same(Retried(m, a, b, d), m, Fields \ {"csent", "partial", "connected"})
      <3>1. \A x1, s, c1 : s \in Seq(Packets) /\ Len(s) <= 1 /\ c1 \in BOOLEAN /\ m.up =>
               /\ MemoryType(Retried(m, x1, s, c1)) /\ Retried(m, x1, s, c1).partial = s
               /\ Same(Retried(m, x1, s, c1), m, Fields \ {"csent", "partial", "connected"})
        BY RetryFields
      <3>2. b \in Seq(Packets) /\ Len(b) <= 1 /\ d \in BOOLEAN /\ m.up
        BY <2>3, <2>5
      <3> QED  BY <3>1, <3>2
    <2> QED  BY <2>5, <2>6
  <1> HIDE DEF w, t, after, l
  <1>9. \A i \in 1..k : i \in 1..n
    BY <1>3
  <1>10. /\ Resent(m, w) /\ Resent(m, t)
         /\ \A p \in Range(w) \cup Range(t) : p.type = "PUBREL" => p.id \in R(k)
    <2>1. Resent(m, w) /\ Resent(m, t)
      BY <1>3, <1>5, <1>6, <1>9 DEF Resent
    <2>2. \A i \in 1..k : packets[i].type = "PUBREL" => packets[i].id \in R(k)
      BY DEF PubrelIds
    <2> HIDE DEF R
    <2> QED  BY <1>5, <1>6, <2>1, <2>2
  <1>11. \A id \in R(k) : \E i \in DOMAIN m.outbound :
             m.outbound[i].id = id /\ m.outbound[i].next = "PUBCOMP"
    BY <1>3, <1>9 DEF PubrelIds
  <1>12. r.stored \in 0..Len(packets)
    <2>1. r.stored \in 0..n
      BY <1>3, <1>2, <1>7
    <2> QED  BY <1>a, <2>1
  <1> HIDE DEF R
  <1>13. r.written = w /\ r.m.partial = t /\ R(r.stored) = R(k)
    BY <1>7, <1>8
  <1>14. /\ \A p \in Range(r.written) \cup Range(r.m.partial) :
                p.type = "PUBREL" => p.id \in R(r.stored)
         /\ \A id \in R(r.stored) : \E i \in DOMAIN m.outbound :
                m.outbound[i].id = id /\ m.outbound[i].next = "PUBCOMP"
    BY <1>10, <1>11, <1>13
  <1>15. /\ r.written \in Seq(Packets) /\ MemoryType(r.m) /\ r.m.partial \in Seq(Packets)
         /\ Same(r.m, m, Fields \ {"csent", "partial", "connected"})
         /\ Resent(m, r.written) /\ Resent(m, r.m.partial)
    BY <1>5, <1>6, <1>8, <1>10, <1>13
  <1> QED  BY <1>a, <1>12, <1>14, <1>15 DEF R, packets

\* A resent packet is the PUBREL of a message already released, or the PUBLISH of
\* another; no id has both.
LEMMA ResentPackets ==
    ASSUME NEW m
    PROVE  \A w : Resent(m, w) => \A p \in Range(w) : \E i \in DOMAIN m.outbound :
               /\ p.id = m.outbound[i].id
               /\ \/ p.type = "PUBREL" /\ m.outbound[i].next = "PUBCOMP"
                  \/ /\ p.type = "PUBLISH" /\ p.msg = m.outbound[i].msg
                     /\ m.outbound[i].next # "PUBCOMP"
  <1> SUFFICES ASSUME NEW w, Resent(m, w), NEW p \in Range(w)
               PROVE  \E i \in DOMAIN m.outbound :
                          /\ p.id = m.outbound[i].id
                          /\ \/ p.type = "PUBREL" /\ m.outbound[i].next = "PUBCOMP"
                             \/ /\ p.type = "PUBLISH" /\ p.msg = m.outbound[i].msg
                                /\ m.outbound[i].next # "PUBCOMP"
    OBVIOUS
  <1>1. PICK i \in DOMAIN m.outbound : p = Resend(m.outbound[i])
    BY DEF Resent
  <1>2. PICK e : e = m.outbound[i]
    OBVIOUS
  <1>3. CASE e.next = "PUBCOMP"
    <2>1. p = [type |-> "PUBREL", id |-> e.id, msg |-> 0]
      BY <1>1, <1>2, <1>3 DEF Resend, Ack, Packet
    <2>2. p.type = "PUBREL" /\ p.id = e.id
      BY <2>1
    <2> QED  BY <1>2, <1>3, <2>2
  <1>4. CASE e.next # "PUBCOMP"
    <2>1. p = [type |-> "PUBLISH", id |-> e.id, msg |-> e.msg]
      BY <1>1, <1>2, <1>4 DEF Resend, Packet
    <2>2. p.type = "PUBLISH" /\ p.id = e.id /\ p.msg = e.msg
      BY <2>1
    <2> QED  BY <1>2, <1>4, <2>2
  <1> QED  BY <1>3, <1>4

\* The packets in o stay on the connection, those in w are resent, the one in t,
\* if any, only in part, and the PUBRELs with ids in R are stored.
Resending(o, w, t, R) ==
    /\ o \in Seq(Packets) /\ Range(o) \subseteq Range(Outgoing)
    /\ InOrder(Outgoing) => InOrder(o)
    /\ w \in Seq(Packets) /\ t \in Seq(Packets) /\ Resent(mem, w) /\ Resent(mem, t)
    /\ R \subseteq Ids
    /\ \A p \in Range(w) \cup Range(t) : p.type = "PUBREL" => p.id \in R
    /\ \A id \in R : \E i \in DOMAIN mem.outbound :
           mem.outbound[i].id = id /\ mem.outbound[i].next = "PUBCOMP"
    /\ DiskType(disk') /\ disk'.sent = disk.sent /\ disk'.pubrel = disk.pubrel \cup R
    /\ disk'.badSent = disk.badSent /\ disk'.badPubrel = disk.badPubrel /\ torn' = torn
    /\ toBroker' = o \o w /\ mem'.partial = t
    /\ MemoryType(mem') /\ mem'.outbound = mem.outbound /\ mem'.acks = mem.acks /\ mem'.up
    /\ toClient' \in Seq(Packets) /\ bout' \in Seq(BrokerEntries)
    /\ \A p \in Range(toClient') : p.type \in Answering => p \in Range(toClient)
    /\ UNCHANGED <<bpub, sentIn, phase, distributed, reused>>

\* No PUBLISH resent follows a PUBREL of its id.
LEMMA ResentOrder ==
    ASSUME SessionInv, mem.up, ~Confused, NEW o \in Seq(Packets), Range(o) \subseteq Range(Outgoing),
           InOrder(o), NEW w \in Seq(Packets), Resent(mem, w)
    PROVE  InOrder(o \o w)
  <1>1. RecordInv /\ ExchangeInv /\ MemoryType(mem)
    BY DEF SessionInv, TypeInv
  <1>2. /\ \A i \in DOMAIN mem.outbound :
               Live(mem.outbound[i].id) /\ disk.sent[mem.outbound[i].id] = mem.outbound[i].msg
        /\ \A i, j \in DOMAIN mem.outbound : mem.outbound[i].id = mem.outbound[j].id => i = j
    BY <1>1 DEF RecordInv, Mirrored
  <1>3. \A p \in Range(w) : \E i \in DOMAIN mem.outbound :
            /\ p.id = mem.outbound[i].id
            /\ \/ p.type = "PUBREL" /\ mem.outbound[i].next = "PUBCOMP"
               \/ /\ p.type = "PUBLISH" /\ p.msg = mem.outbound[i].msg
                  /\ mem.outbound[i].next # "PUBCOMP"
    BY ResentPackets
  <1>4. ASSUME NEW p \in Range(o) \cup Range(w), NEW q \in Range(w),
               p.type = "PUBREL", q.type = "PUBLISH", p.id = q.id
        PROVE  OutQos[q.msg] # 2
    <2>1. PICK i \in DOMAIN mem.outbound :
              /\ q.id = mem.outbound[i].id /\ q.msg = mem.outbound[i].msg
              /\ mem.outbound[i].next # "PUBCOMP"
      <3>1. q.type # "PUBREL"
        BY <1>4
      <3> QED  BY <1>3, <3>1
    <2>2. p \in Range(Outgoing)
      <3> SUFFICES ASSUME p \in Range(w)
                   PROVE  FALSE
        BY <1>4
      <3>1. PICK j \in DOMAIN mem.outbound :
                p.id = mem.outbound[j].id /\ mem.outbound[j].next = "PUBCOMP"
        <4>1. p.type # "PUBLISH"
          BY <1>4
        <4> QED  BY <1>3, <4>1
      <3> QED  BY <1>2, <1>4, <2>1, <3>1
    <2>3. p.id \in disk.pubrel
      BY <1>1, <1>2, <1>4, <2>1, <2>2 DEF ExchangeInv, PubrelsInv
    <2>4. mem.outbound[i].next = "PUBACK"
      <3>1. mem.outbound[i] \in Entries
        <4>1. mem.outbound \in Seq(Entries)
          BY <1>1 DEF MemoryType
        <4> QED  BY <4>1
      <3>2. mem.outbound[i].next \in Stages
        BY <3>1 DEF Entries
      <3>3. mem.outbound[i].next # "PUBREC"
        BY <1>1, <1>4, <2>1, <2>3 DEF ExchangeInv, StagesInv
      <3> QED  BY <2>1, <3>2, <3>3 DEF Stages
    <2>5. QosOf(q.id) = 1
      BY <1>1, <2>1, <2>4 DEF ExchangeInv, StagesInv
    <2> QED  BY <1>2, <2>1, <2>5 DEF QosOf
  <1>5. InOrder(w)
    <2>1. \A i \in DOMAIN w : w[i] \in Range(w)
      BY InRange
    <2> QED  BY <1>4, <2>1 DEF InOrder
  <1> QED  BY <1>4, <1>5, InOrderConcat

LEMMA ResendStep ==
    ASSUME SessionInv, mem.up, NEW o, NEW w, NEW t, NEW R, Resending(o, w, t, R)
    PROVE  SessionInv'
  <1> USE DEF Resending
  <1>1. TypeInv /\ RecordInv /\ (~Confused => ExchangeInv) /\ MemoryType(mem) /\ DiskType(disk)
    BY DEF SessionInv, TypeInv
  <1>2. DiskType(disk') /\ disk'.sent = disk.sent /\ disk'.pubrel = disk.pubrel \cup R
    OBVIOUS
  <1>3. /\ \A i \in DOMAIN mem.outbound :
               Live(mem.outbound[i].id) /\ disk.sent[mem.outbound[i].id] = mem.outbound[i].msg
        /\ \A i, j \in DOMAIN mem.outbound : mem.outbound[i].id = mem.outbound[j].id => i = j
    BY <1>1 DEF RecordInv, Mirrored
  <1>4. Mirrored'
    <2>1. OutIds' = OutIds
      BY DEF OutIds
    <2> QED  BY <1>1, <1>2, <2>1 DEF RecordInv, Mirrored, Live
  <1> DEFINE v == w \o t
  <1>5. /\ toBroker' \in Seq(Packets) /\ Outgoing' = o \o v
        /\ v \in Seq(Packets) /\ Resent(mem, v)
        /\ Range(v) = Range(w) \cup Range(t)
        /\ Range(Outgoing') = Range(o) \cup Range(v)
    <2>1. /\ o \o w \in Seq(Packets) /\ v \in Seq(Packets) /\ Range(v) = Range(w) \cup Range(t)
      BY ConcatProperties, RangeConcatenation
    <2>2. Outgoing' = (o \o w) \o t
      BY DEF Outgoing
    <2>3. Outgoing' = o \o v
      BY <2>2, ConcatAssociative
    <2>4. Resent(mem, v)
      BY <2>1 DEF Resent
    <2> HIDE DEF v
    <2>5. Range(o \o v) = Range(o) \cup Range(v)
      BY <2>1, RangeConcatenation
    <2> QED  BY <2>1, <2>3, <2>4, <2>5
  <1> HIDE DEF v
  <1>6. \A p \in Range(v) : \E i \in DOMAIN mem.outbound :
            /\ p.id = mem.outbound[i].id
            /\ \/ p.type = "PUBREL" /\ mem.outbound[i].next = "PUBCOMP"
               \/ /\ p.type = "PUBLISH" /\ p.msg = mem.outbound[i].msg
                  /\ mem.outbound[i].next # "PUBCOMP"
    BY <1>5, ResentPackets
  <1>7. \A p \in Range(Outgoing') : p.type \in Sending =>
            \/ p \in Range(Outgoing)
            \/ p.type = "PUBREL" /\ p.id \in R
            \/ /\ p.type = "PUBLISH"
               /\ \E i \in DOMAIN mem.outbound :
                      /\ mem.outbound[i].id = p.id /\ mem.outbound[i].msg = p.msg
                      /\ mem.outbound[i].next # "PUBCOMP"
    <2> SUFFICES ASSUME NEW p \in Range(v)
                 PROVE  \/ p.type = "PUBREL" /\ p.id \in R
                        \/ /\ p.type = "PUBLISH"
                           /\ \E i \in DOMAIN mem.outbound :
                                  /\ mem.outbound[i].id = p.id /\ mem.outbound[i].msg = p.msg
                                  /\ mem.outbound[i].next # "PUBCOMP"
      BY <1>5
    <2> QED  BY <1>5, <1>6
  <1>8. ASSUME ~Confused
        PROVE  /\ \A id \in R : Live(id) => QosOf(id) = 2 /\ Held(id)
               /\ InOrder(Outgoing') /\ StagesInv'
    <2>1. ExchangeInv
      BY <1>1, <1>8
    <2>2. \A id \in R : QosOf(id) = 2 /\ Held(id)
      <3> SUFFICES ASSUME NEW id \in R PROVE QosOf(id) = 2 /\ Held(id)
        OBVIOUS
      <3>1. PICK i \in DOMAIN mem.outbound :
                mem.outbound[i].id = id /\ mem.outbound[i].next = "PUBCOMP"
        OBVIOUS
      <3>2. QosOf(mem.outbound[i].id) = 2 /\ Held(mem.outbound[i].id)
        BY <2>1, <3>1 DEF ExchangeInv, StagesInv
      <3> QED  BY <3>1, <3>2
    <2>3. InOrder(o)
      BY <2>1 DEF ExchangeInv, PublishesInv
    <2>4. InOrder(Outgoing')
      BY <1>5, <1>8, <2>3, ResentOrder
    <2>5. StagesInv'
      <3>1. \A id : QosOf(id)' = QosOf(id) /\ (Held(id)' <=> Held(id))
        BY <1>2 DEF QosOf, Held, Taken
      <3>2. \A i \in DOMAIN mem.outbound :
                mem.outbound[i].next = "PUBREC" => mem.outbound[i].id \notin disk'.pubrel
        <4> SUFFICES ASSUME NEW i \in DOMAIN mem.outbound, mem.outbound[i].next = "PUBREC",
                            mem.outbound[i].id \in R
                     PROVE  FALSE
          BY <1>2, <2>1 DEF ExchangeInv, StagesInv
        <4>1. PICK j \in DOMAIN mem.outbound :
                  mem.outbound[j].id = mem.outbound[i].id /\ mem.outbound[j].next = "PUBCOMP"
          OBVIOUS
        <4> QED  BY <1>3, <4>1
      <3>3. StagesInv
        BY <2>1 DEF ExchangeInv
      <3> QED  BY <3>1, <3>2, <3>3 DEF StagesInv
    <2> QED  BY <2>2, <2>4, <2>5
  <1>9. /\ \A p \in Range(mem'.acks) : p.type # "PUBLISH"
        /\ ~Confused => \A p \in Range(mem'.acks) : p.type = "PUBREL" =>
               \A i \in DOMAIN mem'.outbound :
                   mem'.outbound[i].id = p.id => mem'.outbound[i].next = "PUBCOMP"
    BY <1>1 DEF RecordInv, ExchangeInv, PubrelsInv
  <1>a. Confused' = Confused
    BY DEF Confused
  <1>10. /\ \A p \in Range(mem'.acks) : p.type # "PUBLISH"
         /\ ~Confused' =>
               /\ InOrder(Outgoing')
               /\ \A p \in Range(mem'.acks) : p.type = "PUBREL" =>
                      \A i \in DOMAIN mem'.outbound :
                          mem'.outbound[i].id = p.id => mem'.outbound[i].next = "PUBCOMP"
               /\ StagesInv'
    BY <1>8, <1>9, <1>a
  <1>11. DiskChanged(R)
    BY <1>8, PubrelsStored
  <1> QED  BY <1>4, <1>5, <1>7, <1>10, <1>11, SendingStep

\* A crash while the record of a message that is sent again is written anew.
LEMMA ResendCrash ==
    ASSUME SessionInv, mem.up, NEW packets \in Seq(Packets), Resent(mem, packets),
           NEW o \in Seq(Packets), Range(o) \subseteq Range(Outgoing), InOrder(Outgoing) => InOrder(o),
           CrashInPut(disk, o, packets),
           toClient' \in Seq(Packets), bout' \in Seq(BrokerEntries),
           \A p \in Range(toClient') : p.type \in Answering => p \in Range(toClient),
           UNCHANGED <<bpub, sentIn, phase, distributed, reused>>
    PROVE  SessionInv'
  <1>1. ~Confused => ExchangeInv
    BY DEF SessionInv
  <1>2. \A p \in Range(packets) : \E i \in DOMAIN mem.outbound :
            /\ p.id = mem.outbound[i].id
            /\ \/ p.type = "PUBREL" /\ mem.outbound[i].next = "PUBCOMP"
               \/ /\ p.type = "PUBLISH" /\ p.msg = mem.outbound[i].msg
                  /\ mem.outbound[i].next # "PUBCOMP"
    BY ResentPackets
  <1>3. \A p \in Range(packets) : p.type \in Sending =>
            \/ p.type = "PUBREL"
            \/ /\ p.type = "PUBLISH"
               /\ \E i \in DOMAIN mem.outbound :
                      /\ mem.outbound[i].id = p.id /\ mem.outbound[i].msg = p.msg
                      /\ mem.outbound[i].next # "PUBCOMP"
    BY <1>2
  <1>4. ~Confused => \A p \in Range(packets) :
            p.type = "PUBREL" /\ Live(p.id) => QosOf(p.id) = 2 /\ Held(p.id)
    <2> SUFFICES ASSUME ~Confused, NEW p \in Range(packets), p.type = "PUBREL"
                 PROVE  QosOf(p.id) = 2 /\ Held(p.id)
      OBVIOUS
    <2>1. p.type # "PUBLISH"
      OBVIOUS
    <2>2. PICK i \in DOMAIN mem.outbound :
              p.id = mem.outbound[i].id /\ mem.outbound[i].next = "PUBCOMP"
      BY <1>2, <2>1
    <2>3. QosOf(mem.outbound[i].id) = 2 /\ Held(mem.outbound[i].id)
      BY <1>1, <2>2 DEF ExchangeInv, StagesInv
    <2> QED  BY <2>2, <2>3
  <1>5. ~Confused => \A w \in Seq(Packets) : Range(w) \subseteq Range(packets) => InOrder(o \o w)
    <2> SUFFICES ASSUME ~Confused, NEW w \in Seq(Packets), Range(w) \subseteq Range(packets)
                 PROVE  InOrder(o \o w)
      OBVIOUS
    <2>1. InOrder(o)
      BY <1>1 DEF ExchangeInv, PublishesInv
    <2>2. Resent(mem, w)
      BY DEF Resent
    <2> QED  BY <2>1, <2>2, ResentOrder
  <1> QED  BY <1>3, <1>4, <1>5, CrashInPutStep

\* On a connect every message in flight is sent again; what was on the old
\* connection is gone.
LEMMA ConnectStep ==
    ASSUME SessionInv, Persistent, Connect
    PROVE  SessionInv'
  <1> DEFINE m == [mem EXCEPT !.connected = TRUE, !.partial = <<>>]
             n == [m EXCEPT !.ccount = Len(m.outbound)]
             m2 == IF m.outbound = <<>> THEN m ELSE n
  <1>1. /\ TypeInv /\ MemoryType(mem) /\ DiskType(disk) /\ NetworkType /\ mem.up
        /\ bout \in Seq(BrokerEntries)
    BY DEF SessionInv, TypeInv, NetworkType, Connect
  <1>2. /\ MemoryType(m2) /\ m2.up /\ m2.outbound = mem.outbound /\ m2.acks = mem.acks
    <2>1. /\ MemoryType(m) /\ m.up /\ m.outbound = mem.outbound /\ m.acks = mem.acks
      <3>1. <<>> \in Seq(Packets) /\ Len(<<>>) <= 1
        OBVIOUS
      <3>2. /\ m = [f \in Fields |-> m[f]] /\ m.partial = <<>> /\ m.connected = TRUE
            /\ Same(m, mem, Fields \ {"connected", "partial"})
        BY <1>1 DEF MemoryType, Fields, Same
      <3> HIDE DEF m
      <3> QED  BY <1>1, <3>1, <3>2 DEF MemoryType, Same, Fields
    <2> HIDE DEF m
    <2>2. MemoryType(n) /\ n.up /\ n.outbound = m.outbound /\ n.acks = m.acks
      <3>1. /\ n = [f \in Fields |-> n[f]]
            /\ Same(n, m, Fields \ {"ccount"})
        BY <2>1 DEF MemoryType, Fields, Same
      <3> HIDE DEF n
      <3> QED  BY <2>1, <3>1 DEF MemoryType, Same, Fields
    <2> HIDE DEF n
    <2> QED  BY <2>1, <2>2
  <1> DEFINE packets == Resends(m2, AllIndexes(m2))
  <1>3. \/ \E r \in RetryOutcomes(m2, AllIndexes(m2), TRUE) :
              /\ mem' = r.m
              /\ toBroker' = r.written
              /\ disk' = Stored(disk, packets, r.stored)
              /\ torn' = torn
        \/ CrashInPut(disk, <<>>, packets)
    <2> DEFINE m1 == IF CleanSession THEN CleanedMemory(m) ELSE m
               m3 == IF m1.outbound = <<>> THEN m1 ELSE [m1 EXCEPT !.ccount = Len(m1.outbound)]
               d == IF CleanSession THEN PersistenceClear(disk) ELSE disk
    <2>1. \/ \E r \in RetryOutcomes(m3, AllIndexes(m3), TRUE) :
                /\ mem' = r.m
                /\ toBroker' = r.written
                /\ disk' = Stored(d, Resends(m3, AllIndexes(m3)), r.stored)
                /\ torn' = torn
          \/ CrashInPut(d, <<>>, Resends(m3, AllIndexes(m3)))
      BY Zenon DEF Connect
    <2>2. m3 = m2 /\ d = disk
      BY DEF Persistent
    <2> HIDE DEF m3, m2, d
    <2> QED  BY <2>1, <2>2
  <1>4. /\ UNCHANGED <<bpub, sentIn, phase, distributed, reused>> /\ bout' = bout
        /\ toClient' = [i \in DOMAIN bout |-> IF bout[i].next = "PUBCOMP"
                                              THEN Ack("PUBREL", bout[i].id)
                                              ELSE Packet("PUBLISH", bout[i].id, bout[i].msg)]
    BY DEF Connect, Persistent
  <1>5. toClient' \in Seq(Packets) /\ \A p \in Range(toClient') : p.type \notin Answering
    <2> DEFINE f(i) == IF bout[i].next = "PUBCOMP" THEN Ack("PUBREL", bout[i].id)
                       ELSE Packet("PUBLISH", bout[i].id, bout[i].msg)
    <2>1. Len(bout) \in Nat /\ DOMAIN bout = 1..Len(bout) /\ \A i \in 1..Len(bout) : bout[i] \in BrokerEntries
      BY <1>1
    <2>2. ASSUME NEW i \in 1..Len(bout)
          PROVE  f(i) \in Packets /\ f(i).type \notin Answering
      <3>1. PICK e \in BrokerEntries : e = bout[i]
        BY <2>1
      <3>2. e.id \in Ids /\ e.msg \in Nat
        BY DEF BrokerEntries
      <3>3. f(i) = IF e.next = "PUBCOMP" THEN [type |-> "PUBREL", id |-> e.id, msg |-> 0]
                   ELSE [type |-> "PUBLISH", id |-> e.id, msg |-> e.msg]
        BY <3>1 DEF Ack, Packet
      <3> HIDE DEF f
      <3>4. CASE e.next = "PUBCOMP"
        <4>1. f(i) = [type |-> "PUBREL", id |-> e.id, msg |-> 0]
          BY <3>3, <3>4
        <4> QED  BY <3>2, <4>1 DEF Packets, Sending, Answering
      <3>5. CASE e.next # "PUBCOMP"
        <4>1. f(i) = [type |-> "PUBLISH", id |-> e.id, msg |-> e.msg]
          BY <3>3, <3>5
        <4> QED  BY <3>2, <4>1 DEF Packets, Sending, Answering
      <3> QED  BY <3>4, <3>5
    <2>3. toClient' = [i \in 1..Len(bout) |-> f(i)]
      BY <1>4, <2>1
    <2> HIDE DEF f
    <2>4. toClient' \in Seq(Packets)
      BY <2>1, <2>2, <2>3
    <2>5. Range(toClient') = {f(i) : i \in 1..Len(bout)}
      BY <2>3 DEF Range
    <2> QED  BY <2>2, <2>4, <2>5
  <1>6. AllIndexes(m2) \in Seq(DOMAIN m2.outbound)
    <2> DEFINE D == DOMAIN m2.outbound
    <2> HIDE DEF m2
    <2>1. AllIndexes(m2) = [i \in D |-> i]
      BY DEF AllIndexes
    <2>2. PICK k \in Nat : D = 1..k
      <3>1. m2.outbound \in Seq(Entries)
        BY <1>2 DEF MemoryType
      <3> QED  BY <3>1
    <2> HIDE DEF D
    <2>3. [i \in 1..k |-> i] \in Seq(1..k)
      OBVIOUS
    <2> QED  BY <2>1, <2>2, <2>3 DEF D
  <1> HIDE DEF m2
  <1>a. packets \in Seq(Packets) /\ Resent(mem, packets)
    BY <1>2, <1>6, ResendsType DEF Resent
  <1> DEFINE o == <<>>
  <1>10. /\ o \in Seq(Packets) /\ Range(o) \subseteq Range(Outgoing)
         /\ InOrder(Outgoing) => InOrder(o)
    BY RangeShort DEF InOrder
  <1>13. /\ toClient' \in Seq(Packets) /\ bout' \in Seq(BrokerEntries)
         /\ \A p \in Range(toClient') : p.type \in Answering => p \in Range(toClient)
         /\ UNCHANGED <<bpub, sentIn, phase, distributed, reused>>
    BY <1>1, <1>4, <1>5
  <1>b. CASE CrashInPut(disk, <<>>, packets)
    <2> HIDE DEF packets
    <2>1. CrashInPut(disk, o, packets)
      BY <1>b
    <2> HIDE DEF o
    <2> QED  BY <1>1, <1>a, <1>10, <1>13, <2>1, ResendCrash
  <1> SUFFICES ASSUME NEW r \in RetryOutcomes(m2, AllIndexes(m2), TRUE),
                      /\ mem' = r.m
                      /\ toBroker' = r.written
                      /\ disk' = Stored(disk, packets, r.stored)
                      /\ torn' = torn
               PROVE  SessionInv'
    BY <1>3, <1>b
  <1>7. /\ r.written \in Seq(Packets) /\ MemoryType(r.m) /\ r.m.partial \in Seq(Packets)
        /\ Same(r.m, m2, Fields \ {"csent", "partial", "connected"})
        /\ Resent(m2, r.written) /\ Resent(m2, r.m.partial)
        /\ r.stored \in 0..Len(packets)
        /\ \A p \in Range(r.written) \cup Range(r.m.partial) :
               p.type = "PUBREL" => p.id \in PubrelIds(packets, r.stored)
        /\ \A id \in PubrelIds(packets, r.stored) : \E i \in DOMAIN m2.outbound :
               m2.outbound[i].id = id /\ m2.outbound[i].next = "PUBCOMP"
    <2>1. /\ MemoryType(m2) /\ m2.up /\ AllIndexes(m2) \in Seq(DOMAIN m2.outbound)
          /\ r \in RetryOutcomes(m2, AllIndexes(m2), TRUE)
      BY <1>2, <1>6
    <2>2. RetryFacts(m2, AllIndexes(m2), r)
      BY ONLY <2>1, RetryOutcome
    <2> QED  BY <2>2 DEF RetryFacts
  <1> HIDE DEF packets
  <1>8. /\ mem'.outbound = mem.outbound /\ mem'.acks = mem.acks /\ mem'.up
        /\ MemoryType(mem')
    BY <1>2, <1>7 DEF Same, Fields
  <1>9. Resent(mem, r.written) /\ Resent(mem, r.m.partial)
    BY <1>2, <1>7 DEF Resent
  <1> DEFINE w == r.written
             t == r.m.partial
             R == PubrelIds(packets, r.stored)
  <1>11. toBroker' = o \o w /\ mem'.partial = t
    <2>1. <<>> \o r.written = r.written
      BY <1>7, ConcatEmptySeq
    <2> QED  BY <2>1
  <1>c. /\ R \subseteq Ids /\ DiskType(disk') /\ disk'.sent = disk.sent
        /\ disk'.pubrel = disk.pubrel \cup R
        /\ disk'.badSent = disk.badSent /\ disk'.badPubrel = disk.badPubrel
    BY <1>1, <1>7, <1>a, StoredDisk
  <1>12. /\ w \in Seq(Packets) /\ t \in Seq(Packets)
         /\ Resent(mem, w) /\ Resent(mem, t)
         /\ \A p \in Range(w) \cup Range(t) : p.type = "PUBREL" => p.id \in R
         /\ \A id \in R : \E i \in DOMAIN mem.outbound :
                mem.outbound[i].id = id /\ mem.outbound[i].next = "PUBCOMP"
    BY <1>2, <1>7, <1>9
  <1> HIDE DEF o, w, t, R
  <1>14. Resending(o, w, t, R)
    BY <1>8, <1>c, <1>10, <1>11, <1>12, <1>13 DEF Resending
  <1> QED  BY <1>1, <1>14, ResendStep

\* MQTTClient_retry sends some of the messages in flight again.
LEMMA PeriodicRetryStep ==
    ASSUME SessionInv, PeriodicRetry
    PROVE  SessionInv'
  <1> DEFINE D == DOMAIN mem.outbound
             Went(S, counted) ==
                 \/ \E r \in RetryOutcomes(mem, Ascending(S), counted) :
                        /\ mem' = r.m
                        /\ toBroker' = toBroker \o r.written
                        /\ disk' = Stored(disk, Resends(mem, Ascending(S)), r.stored)
                        /\ torn' = torn
                 \/ CrashInPut(disk, toBroker, Resends(mem, Ascending(S)))
  <1>1. /\ TypeInv /\ MemoryType(mem) /\ DiskType(disk) /\ NetworkType /\ mem.up
        /\ bout \in Seq(BrokerEntries) /\ toClient \in Seq(Packets) /\ toBroker \in Seq(Packets)
        /\ mem.partial = <<>>
    BY DEF SessionInv, TypeInv, NetworkType, PeriodicRetry, Connected
  <1>2. PICK counted \in BOOLEAN, S \in SUBSET D : Went(S, counted)
    <2> DEFINE continues == mem.csent < mem.ccount
               T == IF continues THEN {D} ELSE (SUBSET D) \ {{}}
    <2>1. \E S \in T : Went(S, continues)
      BY Zenon DEF PeriodicRetry
    <2>2. T \subseteq SUBSET D
      OBVIOUS
    <2> HIDE DEF T, continues, Went
    <2>3. PICK S \in T : Went(S, continues)
      BY <2>1
    <2>4. S \in SUBSET D
      BY <2>2
    <2>5. continues \in BOOLEAN
      BY DEF continues
    <2> QED  BY <2>3, <2>4, <2>5
  <1>4. Ascending(S) \in Seq(DOMAIN mem.outbound)
    <2>1. PICK k \in Nat : D = 1..k
      <3>1. mem.outbound \in Seq(Entries)
        BY <1>1 DEF MemoryType
      <3> QED  BY <3>1
    <2>2. S \subseteq 0..k
      BY <2>1
    <2>3. Cardinality(S) \in Nat /\ Ascending(S) \in [1..Cardinality(S) -> S]
      BY <2>2, AscendingProperties
    <2> HIDE DEF D
    <2>4. Ascending(S) \in [1..Cardinality(S) -> D]
      BY <1>2, <2>3
    <2>5. Ascending(S) \in Seq(D)
      BY <2>3, <2>4
    <2> QED  BY <2>5 DEF D
  <1> DEFINE packets == Resends(mem, Ascending(S))
  <1>a. packets \in Seq(Packets) /\ Resent(mem, packets)
    BY <1>1, <1>4, ResendsType
  <1>7. Outgoing = toBroker
    BY <1>1, ConcatEmptySeq DEF Outgoing
  <1>8. /\ toClient' \in Seq(Packets) /\ bout' \in Seq(BrokerEntries)
        /\ \A p \in Range(toClient') : p.type \in Answering => p \in Range(toClient)
        /\ UNCHANGED <<bpub, sentIn, phase, distributed, reused>>
    BY <1>1 DEF PeriodicRetry
  <1>b. CASE CrashInPut(disk, toBroker, packets)
    <2> HIDE DEF packets
    <2> QED  BY <1>1, <1>a, <1>7, <1>8, <1>b, ResendCrash
  <1> SUFFICES ASSUME NEW r \in RetryOutcomes(mem, Ascending(S), counted),
                      /\ mem' = r.m
                      /\ toBroker' = toBroker \o r.written
                      /\ disk' = Stored(disk, packets, r.stored)
                      /\ torn' = torn
               PROVE  SessionInv'
    BY <1>2, <1>b
  <1>5. /\ r.written \in Seq(Packets) /\ MemoryType(r.m) /\ r.m.partial \in Seq(Packets)
        /\ Same(r.m, mem, Fields \ {"csent", "partial", "connected"})
        /\ Resent(mem, r.written) /\ Resent(mem, r.m.partial)
        /\ r.stored \in 0..Len(packets)
        /\ \A p \in Range(r.written) \cup Range(r.m.partial) :
               p.type = "PUBREL" => p.id \in PubrelIds(packets, r.stored)
        /\ \A id \in PubrelIds(packets, r.stored) : \E i \in DOMAIN mem.outbound :
               mem.outbound[i].id = id /\ mem.outbound[i].next = "PUBCOMP"
    <2>1. /\ MemoryType(mem) /\ mem.up /\ Ascending(S) \in Seq(DOMAIN mem.outbound)
          /\ r \in RetryOutcomes(mem, Ascending(S), counted)
      BY <1>1, <1>4
    <2>2. RetryFacts(mem, Ascending(S), r)
      BY ONLY <2>1, RetryOutcome
    <2> QED  BY <2>2 DEF RetryFacts
  <1>6. /\ mem'.outbound = mem.outbound /\ mem'.acks = mem.acks /\ mem'.up
        /\ MemoryType(mem')
    BY <1>1, <1>5 DEF Same, Fields
  <1> DEFINE R == PubrelIds(packets, r.stored)
  <1>c. /\ R \subseteq Ids /\ DiskType(disk') /\ disk'.sent = disk.sent
        /\ disk'.pubrel = disk.pubrel \cup R
        /\ disk'.badSent = disk.badSent /\ disk'.badPubrel = disk.badPubrel
    BY <1>1, <1>5, <1>a, StoredDisk
  <1> HIDE DEF packets
  <1>9. /\ \A p \in Range(r.written) \cup Range(r.m.partial) : p.type = "PUBREL" => p.id \in R
        /\ \A id \in R : \E i \in DOMAIN mem.outbound :
               mem.outbound[i].id = id /\ mem.outbound[i].next = "PUBCOMP"
    BY <1>5
  <1> HIDE DEF R
  <1>10. Resending(toBroker, r.written, r.m.partial, R)
    BY <1>1, <1>5, <1>6, <1>7, <1>8, <1>9, <1>c DEF Resending
  <1> QED  BY <1>1, <1>10, ResendStep

-----------------------------------------------------------------------------
(* A message is published.                                                 *)

\* The PUBLISH record is on the disk, and the packet may be written.  The id is
\* new to the session unless it was reused.
LEMMA StoreStep ==
    ASSUME SessionInv, NEW n \in Messages, phase[n] = "new", NEW id \in Ids,
           id \notin DOMAIN disk.sent, Cardinality(DOMAIN disk.sent) < MaxInflight,
           ~Confused' => id \notin IdsInTransit, Confused => Confused', reused' \in BOOLEAN,
           disk' = PutSent(disk, id, n),
           NEW x \in {"submitted", "accepted"}, phase' = [phase EXCEPT ![n] = x],
           MemoryType(mem'), toBroker' \in Seq(Packets), Mirrored',
           \A p \in Range(Outgoing') : p.type \in Sending =>
               p \in Range(Outgoing) \/ (p.type = "PUBLISH" /\ p.id = id /\ p.msg = n),
           Quieter(mem.acks, mem'.acks),
           ~Confused' => (InOrder(Outgoing) => InOrder(Outgoing')),
           \A i \in DOMAIN mem'.outbound :
               \/ \E j \in DOMAIN mem.outbound : mem'.outbound[i] = mem.outbound[j]
               \/ /\ mem'.outbound[i].id = id
                  /\ mem'.outbound[i].next = IF OutQos[n] = 2 THEN "PUBREC" ELSE "PUBACK",
           mem.up,
           UNCHANGED <<toClient, bpub, bout, sentIn, distributed>>
    PROVE  SessionInv'
  <1>1. /\ TypeInv /\ RecordInv /\ (~Confused => ExchangeInv) /\ DiskType(disk) /\ MemoryType(mem)
        /\ NetworkType
    BY DEF SessionInv, TypeInv
  <1>2. /\ DiskType(disk') /\ disk'.pubrel = disk.pubrel
        /\ disk'.badSent = disk.badSent /\ disk'.badPubrel = disk.badPubrel
        /\ DOMAIN disk'.sent = DOMAIN disk.sent \cup {id} /\ disk'.sent[id] = n
        /\ \A k \in DOMAIN disk.sent : disk'.sent[k] = disk.sent[k]
    <2>1. /\ disk' = [f \in DiskFields |-> disk'[f]] /\ disk'.sent = Put(disk.sent, id, n)
          /\ disk'.pubrel = disk.pubrel /\ disk'.rcvd = disk.rcvd /\ disk'.queue = disk.queue
          /\ disk'.badSent = disk.badSent /\ disk'.badPubrel = disk.badPubrel
      BY <1>1 DEF DiskType, DiskFields, PutSent
    <2>2. /\ Table(Put(disk.sent, id, n), Ids, Messages)
          /\ DOMAIN Put(disk.sent, id, n) = DOMAIN disk.sent \cup {id}
          /\ Put(disk.sent, id, n)[id] = n
          /\ \A k \in DOMAIN disk.sent : Put(disk.sent, id, n)[k] = disk.sent[k]
      BY <1>1 DEF Put, Table, DiskType
    <2>3. DiskType(disk')
      <3>1. Table(disk'.sent, Ids, Messages)
        BY <2>1, <2>2
      <3>2. /\ disk'.pubrel \subseteq Ids /\ disk'.badSent \subseteq Ids /\ disk'.badPubrel \subseteq Ids
            /\ DOMAIN disk'.rcvd \subseteq Ids /\ DOMAIN disk'.queue \subseteq Seqnos
        BY <1>1, <2>1 DEF DiskType
      <3> QED  BY <2>1, <3>1, <3>2 DEF DiskType
    <2> QED  BY <2>1, <2>2, <2>3
  <1>3. /\ phase' \in [Messages -> Phases] /\ phase'[n] = x
        /\ \A k \in Messages : k # n => phase'[k] = phase[k]
    BY <1>1 DEF NetworkType, Phases
  <1>4. TypeInv'
    BY <1>1, <1>2, <1>3 DEF TypeInv, NetworkType
  <1>5. /\ \A p \in Range(Outgoing') : p.type = "PUBREL" => p \in Range(Outgoing)
        /\ \A p \in Range(Outgoing') : p.type = "PUBLISH" =>
               p \in Range(Outgoing) \/ (p.id = id /\ p.msg = n)
        /\ \A p \in Range(mem'.acks) : p.type \in Sending => p \in Range(mem.acks)
    BY DEF Sending, Quieter
  <1>6. /\ \A k \in DOMAIN disk.sent : disk.sent[k] \in Messages /\ disk.sent[k] # n
        /\ distributed[n] = 0 /\ distributed[n] \in Nat
    BY <1>1 DEF DiskType, Table, RecordInv, NetworkType
  <1>7. RecordInv'
    <2>1. Cardinality(DOMAIN disk'.sent) <= MaxInflight
      <3>1. IsFiniteSet(DOMAIN disk.sent)
        <4>1. DOMAIN disk.sent \subseteq Ids
          BY <1>1 DEF DiskType, Table
        <4>2. IsFiniteSet(Ids)
          BY SessionAssumption, FS_Interval DEF Ids
        <4> QED  BY <4>1, <4>2, FS_Subset
      <3>2. Cardinality(DOMAIN disk'.sent) = Cardinality(DOMAIN disk.sent) + 1
        <4> DEFINE D == DOMAIN disk.sent
        <4>1. D \cup {id} = DOMAIN disk'.sent /\ id \notin D /\ IsFiniteSet(D)
          BY <1>2, <3>1
        <4> HIDE DEF D
        <4>2. Cardinality(D \cup {id}) = Cardinality(D) + 1
          BY <4>1, FS_AddElement
        <4> QED  BY <4>1, <4>2 DEF D
      <3>3. Cardinality(DOMAIN disk.sent) \in Nat
        BY <3>1, FS_CardinalityType
      <3> QED  BY <3>2, <3>3, SessionAssumption
    <2>2. \A i, j \in DOMAIN disk'.sent : disk'.sent[i] = disk'.sent[j] => i = j
      BY <1>1, <1>2, <1>6 DEF RecordInv
    <2>3. \A i \in DOMAIN disk'.sent : phase'[disk'.sent[i]] \in {"submitted", "accepted"}
      BY <1>1, <1>2, <1>3, <1>6 DEF RecordInv
    <2>4. \A k \in Messages : phase'[k] = "new" => distributed'[k] = 0
      BY <1>1, <1>3 DEF RecordInv
    <2>5. /\ \A p \in Range(Outgoing') : p.type = "PUBLISH" => p.msg \in Messages /\ phase'[p.msg] # "new"
          /\ \A p \in Range(mem'.acks) : p.type # "PUBLISH"
      BY <1>1, <1>3, <1>5 DEF RecordInv, Sending
    <2>6. \A i \in DOMAIN bpub' : phase'[bpub'[i]] # "new"
      <3>1. \A i \in DOMAIN bpub : bpub[i] \in Messages /\ phase[bpub[i]] # "new"
        BY <1>1 DEF RecordInv, NetworkType, Table
      <3> QED  BY <1>3, <3>1
    <2>7. disk'.badSent = {} /\ disk'.badPubrel = {}
      BY <1>1, <1>2 DEF RecordInv
    <2> QED  BY <2>1, <2>2, <2>3, <2>4, <2>5, <2>6, <2>7 DEF RecordInv
  <1>8. ASSUME ~Confused' PROVE ExchangeInv'
    <2>1. ExchangeInv
      BY <1>1, <1>8
    <2>2. /\ \A p \in Range(Outgoing) \cup Range(mem.acks) : p.type \in Sending => p.id # id
          /\ \A p \in Range(toClient) : p.type \in Answering => p.id # id
          /\ id \notin disk.pubrel /\ id \notin DOMAIN bpub
      <3>1. Range(toBroker \o mem.partial \o mem.acks) = Range(Outgoing) \cup Range(mem.acks)
        <4>1. toBroker \in Seq(Packets) /\ mem.partial \in Seq(Packets) /\ mem.acks \in Seq(Packets)
          BY <1>1 DEF NetworkType, MemoryType
        <4>2. Outgoing \in Seq(Packets)
          BY <4>1, ConcatProperties DEF Outgoing
        <4>3. Range(Outgoing \o mem.acks) = Range(Outgoing) \cup Range(mem.acks)
          BY <4>1, <4>2, RangeConcatenation
        <4> QED  BY <4>3 DEF Outgoing
      <3> QED  BY <1>8, <3>1 DEF IdsInTransit
    <2>3. \A k : /\ Live(k)' <=> Live(k) \/ k = id
                 /\ Live(k) => /\ k # id /\ QosOf(k)' = QosOf(k)
                               /\ (Taken(k)' <=> Taken(k)) /\ (Held(k)' <=> Held(k))
      BY <1>2 DEF Live, QosOf, Taken, Held
    <2>4. PublishesInv'
      <3>1. ASSUME NEW p \in Range(Outgoing'), p.type = "PUBLISH"
            PROVE  /\ Live(p.id)' => disk'.sent[p.id] = p.msg
                   /\ OutQos[p.msg] = 2 => distributed'[p.msg] = 0
        <4>1. CASE p \in Range(Outgoing)
          <5>1. p.id # id
            BY <2>2, <3>1, <4>1 DEF Sending
          <5>2. /\ Live(p.id) => disk.sent[p.id] = p.msg
                /\ OutQos[p.msg] = 2 => distributed[p.msg] = 0
            BY <2>1, <3>1, <4>1 DEF ExchangeInv, PublishesInv
          <5>3. Live(p.id)' <=> Live(p.id)
            BY <2>3, <5>1
          <5> QED  BY <1>2, <5>2, <5>3 DEF Live
        <4>2. CASE p.id = id /\ p.msg = n
          BY <1>2, <1>6, <2>3, <4>2
        <4> QED  BY <1>5, <3>1, <4>1, <4>2
      <3>2. InOrder(Outgoing')
        BY <1>8, <2>1 DEF ExchangeInv, PublishesInv
      <3> QED  BY <3>1, <3>2 DEF PublishesInv, Live
    <2>5. PubrelsInv'
      <3>1. \A p \in Range(Outgoing') : p.type = "PUBREL" /\ Live(p.id)' => p.id \in disk'.pubrel
        <4> SUFFICES ASSUME NEW p \in Range(Outgoing'), p.type = "PUBREL", Live(p.id)'
                     PROVE  p.id \in disk'.pubrel
          OBVIOUS
        <4>1. p \in Range(Outgoing) /\ p.id # id
          BY <1>5, <2>2 DEF Sending
        <4> QED  BY <1>2, <2>1, <2>3, <4>1 DEF ExchangeInv, PubrelsInv
      <3>2. \A p \in Range(mem'.acks) : p.type = "PUBREL" =>
                \A i \in DOMAIN mem'.outbound :
                    mem'.outbound[i].id = p.id => mem'.outbound[i].next = "PUBCOMP"
        <4> SUFFICES ASSUME NEW p \in Range(mem'.acks), p.type = "PUBREL",
                            NEW i \in DOMAIN mem'.outbound, mem'.outbound[i].id = p.id
                     PROVE  mem'.outbound[i].next = "PUBCOMP"
          OBVIOUS
        <4>1. p \in Range(mem.acks) /\ p.id # id
          BY <1>5, <2>2 DEF Sending
        <4>2. PICK j \in DOMAIN mem.outbound : mem'.outbound[i] = mem.outbound[j]
          BY <4>1
        <4> QED  BY <2>1, <4>1, <4>2 DEF ExchangeInv, PubrelsInv
      <3>3. \A k \in DOMAIN disk'.sent \cap disk'.pubrel : QosOf(k)' = 2 /\ Held(k)'
        <4> SUFFICES ASSUME NEW k \in DOMAIN disk'.sent \cap disk'.pubrel
                     PROVE  QosOf(k)' = 2 /\ Held(k)'
          OBVIOUS
        <4>1. k \in DOMAIN disk.sent \cap disk.pubrel
          BY <1>2, <2>2
        <4>2. QosOf(k) = 2 /\ Held(k)
          BY <2>1, <4>1 DEF ExchangeInv, PubrelsInv
        <4> QED  BY <2>3, <4>1, <4>2 DEF Live
      <3>4. \A k \in DOMAIN disk'.sent \ disk'.pubrel : QosOf(k)' = 2 => ~Taken(k)'
        <4> SUFFICES ASSUME NEW k \in DOMAIN disk'.sent \ disk'.pubrel, QosOf(k)' = 2
                     PROVE  ~Taken(k)'
          OBVIOUS
        <4>1. CASE k = id
          BY <1>2, <1>6, <4>1 DEF Taken
        <4>2. CASE k \in DOMAIN disk.sent \ disk.pubrel
          <5>1. QosOf(k) = 2
            BY <2>3, <4>2 DEF Live
          <5>2. ~Taken(k)
            BY <2>1, <4>2, <5>1 DEF ExchangeInv, PubrelsInv
          <5> QED  BY <2>3, <4>2, <5>2 DEF Live
        <4> QED  BY <1>2, <4>1, <4>2
      <3>5. disk'.badPubrel = {}
        BY <1>1, <1>2 DEF RecordInv
      <3> QED  BY <3>1, <3>2, <3>3, <3>4, <3>5 DEF PubrelsInv
    <2>6. StagesInv'
      <3> DEFINE q(k) == OutQos[disk'.sent[k]]
                 h(k) == k \in DOMAIN bpub \/ distributed[disk'.sent[k]] > 0
                 Fits(e) == /\ e.next = "PUBACK" => q(e.id) = 1
                            /\ e.next = "PUBREC" => q(e.id) = 2 /\ e.id \notin disk'.pubrel
                            /\ e.next = "PUBCOMP" => q(e.id) = 2 /\ h(e.id)
      <3>1. ASSUME NEW i \in DOMAIN mem'.outbound
            PROVE  Fits(mem'.outbound[i])
        <4>1. PICK e : e = mem'.outbound[i]
          OBVIOUS
        <4>2. CASE \E j \in DOMAIN mem.outbound : e = mem.outbound[j]
          <5>1. PICK j \in DOMAIN mem.outbound : e = mem.outbound[j]
            BY <4>2
          <5>2. Live(e.id)
            BY <1>1, <5>1 DEF RecordInv, Mirrored
          <5>3. /\ e.next = "PUBACK" => QosOf(e.id) = 1
                /\ e.next = "PUBREC" => QosOf(e.id) = 2 /\ e.id \notin disk.pubrel
                /\ e.next = "PUBCOMP" => QosOf(e.id) = 2 /\ Held(e.id)
            BY <2>1, <5>1 DEF ExchangeInv, StagesInv
          <5>4. q(e.id) = QosOf(e.id) /\ (h(e.id) <=> Held(e.id))
            BY <1>2, <5>2 DEF QosOf, Held, Taken, Live
          <5>5. Fits(e)
            BY <1>2, <5>3, <5>4
          <5> QED  BY <4>1, <5>5
        <4>3. CASE e.id = id /\ e.next = IF OutQos[n] = 2 THEN "PUBREC" ELSE "PUBACK"
          <5>1. q(id) = OutQos[n]
            BY <1>2
          <5>2. OutQos[n] \in {1, 2}
            BY SessionAssumption DEF Messages
          <5>3. Fits(e)
            <6>1. e.next = "PUBACK" => OutQos[n] = 1
              BY <4>3, <5>2
            <6>2. e.next = "PUBREC" => OutQos[n] = 2
              BY <4>3
            <6>3. e.next # "PUBCOMP" /\ e.id = id /\ id \notin disk'.pubrel
              BY <1>2, <2>2, <4>3
            <6> HIDE DEF q, h
            <6> QED  BY <5>1, <6>1, <6>2, <6>3
          <5> QED  BY <4>1, <5>3
        <4> QED  BY <4>1, <4>2, <4>3
      <3> QED  BY <3>1 DEF StagesInv, QosOf, Held, Taken
    <2>7. AnswersInv'
      <3>1. ASSUME NEW p \in Range(toClient), p.type \in Answering, Live(p.id)'
            PROVE  /\ p.type = "PUBREC" => QosOf(p.id)' = 2 /\ Held(p.id)'
                   /\ p.type = "PUBCOMP" => QosOf(p.id)' = 2 /\ Taken(p.id)'
                   /\ p.type = "PUBACK" => Taken(p.id)'
        <4>1. p.id # id
          BY <2>2, <3>1
        <4>2. Live(p.id)
          BY <2>3, <3>1, <4>1
        <4>3. /\ p.type = "PUBREC" => QosOf(p.id) = 2 /\ Held(p.id)
              /\ p.type = "PUBCOMP" => QosOf(p.id) = 2 /\ Taken(p.id)
              /\ p.type = "PUBACK" => Taken(p.id)
          BY <2>1, <4>2 DEF ExchangeInv, AnswersInv
        <4> QED  BY <2>3, <4>2, <4>3
      <3>2. toClient' = toClient
        OBVIOUS
      <3> QED  BY <3>1, <3>2 DEF AnswersInv, Answering
    <2>8. BrokerInv'
      <3>1. ASSUME NEW k \in DOMAIN bpub
            PROVE  /\ Live(k)' => bpub[k] = disk'.sent[k]
                   /\ OutQos[bpub[k]] = 2 /\ distributed[bpub[k]] = 0
        <4>1. /\ Live(k) => bpub[k] = disk.sent[k]
              /\ OutQos[bpub[k]] = 2 /\ distributed[bpub[k]] = 0
          BY <2>1 DEF ExchangeInv, BrokerInv
        <4>2. k # id
          BY <2>2
        <4> QED  BY <1>2, <2>3, <4>1, <4>2 DEF Live
      <3> QED  BY <3>1 DEF BrokerInv
    <2>9. OneNameInv'
      <3>1. \A k : ~Carries(k, n)
        BY <1>1, <1>6 DEF Carries, RecordInv, Live
      <3>2. ASSUME NEW k, NEW l, Carries(k, l)'
            PROVE  Carries(k, l) \/ (k = id /\ l = n)
        <4>1. CASE \E p \in Range(Outgoing') : p.type = "PUBLISH" /\ p.id = k /\ p.msg = l
          BY <1>5, <4>1 DEF Carries
        <4>2. CASE k \in DOMAIN bpub /\ bpub[k] = l
          BY <4>2 DEF Carries
        <4>3. CASE k \in DOMAIN disk'.sent /\ disk'.sent[k] = l
          BY <1>2, <4>3 DEF Carries, Live
        <4> QED  BY <3>2, <4>1, <4>2, <4>3 DEF Carries, Live
      <3>3. OneNameInv
        BY <2>1 DEF ExchangeInv
      <3>4. ASSUME NEW l \in Messages, OutQos[l] = 2, NEW i \in Ids, NEW j \in Ids,
                   Carries(i, l)', Carries(j, l)'
            PROVE  i = j
        <4>1. CASE l = n
          BY <3>1, <3>2, <3>4, <4>1
        <4>2. CASE l # n
          <5>1. Carries(i, l) /\ Carries(j, l)
            BY <3>2, <3>4, <4>2
          <5> QED  BY <3>3, <3>4, <5>1 DEF OneNameInv
        <4> QED  BY <4>1, <4>2
      <3> QED  BY <3>4 DEF OneNameInv
    <2> QED  BY <2>4, <2>5, <2>6, <2>7, <2>8, <2>9 DEF ExchangeInv
  <1> QED  BY <1>4, <1>7, <1>8 DEF SessionInv

\* While the process is up the ids on the disk are those in outboundMsgs.
LEMMA IdsInFlight ==
    ASSUME SessionInv, mem.up
    PROVE  OutIds = DOMAIN disk.sent /\ OutIds \subseteq Ids
  <1>1. Mirrored /\ DiskType(disk)
    BY DEF SessionInv, TypeInv, RecordInv
  <1> QED  BY <1>1 DEF Mirrored, OutIds, Live, DiskType, Table

LEMMA PublishStep ==
    ASSUME SessionInv, NEW n \in Messages, Publish(n)
    PROVE  SessionInv'
  <1> DEFINE id == AssignMsgId
             e == [id |-> id, msg |-> n, next |-> IF OutQos[n] = 2 THEN "PUBREC" ELSE "PUBACK"]
             m0 == [mem EXCEPT !.msgID = id]
             m == [mem EXCEPT !.msgID = id, !.outbound = Append(@, e)]
             p == Packet("PUBLISH", id, n)
             d == PutSent(disk, id, n)
             torn1 == TearSent(disk, id)
             disks == <<disk, torn1, d>>
  <1>1. /\ TypeInv /\ RecordInv /\ (~Confused => ExchangeInv) /\ MemoryType(mem) /\ DiskType(disk)
        /\ NetworkType /\ mem.up /\ mem.partial = <<>> /\ phase[n] = "new"
        /\ Len(mem.outbound) < MaxInflight
    BY DEF SessionInv, TypeInv, Publish, Connected
  <1>2. /\ OutIds = DOMAIN disk.sent /\ OutIds \subseteq Ids
        /\ mem.outbound \in Seq(Entries) /\ mem.msgID \in Int
    BY <1>1, IdsInFlight DEF MemoryType
  <1>3. Cardinality(DOMAIN disk.sent) < MaxInflight
    <2> DEFINE D == DOMAIN mem.outbound
               f == [i \in D |-> mem.outbound[i].id]
    <2>1. D = 1..Len(mem.outbound) /\ Len(mem.outbound) \in Nat
      BY <1>2
    <2>2. IsFiniteSet(D) /\ Cardinality(D) = Len(mem.outbound)
      BY <2>1, FS_Interval
    <2>3. f \in Surjection(D, OutIds)
      BY DEF Surjection, OutIds
    <2> HIDE DEF f, D
    <2>4. IsFiniteSet(OutIds) /\ Cardinality(OutIds) <= Cardinality(D)
      BY <2>2, <2>3, FS_Surjection
    <2>5. Cardinality(OutIds) \in Nat
      BY <2>4, FS_CardinalityType
    <2> QED  BY <1>1, <1>2, <2>1, <2>2, <2>4, <2>5, SessionAssumption
  <1>4. id \in Ids \ OutIds
    BY <1>1, <1>2, AssignedIdIsFree DEF RecordInv
  <1>5. /\ Send(disks, m, p) /\ reused' = (reused \/ id \in IdsInTransit)
        /\ phase' = [phase EXCEPT ![n] = IF mem'.up THEN "accepted" ELSE "submitted"]
        /\ UNCHANGED <<toClient, bpub, bout, sentIn, distributed>>
    BY DEF Publish
  <1> HIDE DEF id
  <1>6. n \in Nat /\ e \in Entries /\ e.id = id /\ e.msg = n
        /\ e.next = IF OutQos[n] = 2 THEN "PUBREC" ELSE "PUBACK"
    BY <1>4 DEF Entries, Messages, Stages
  <1>7. p \in Packets /\ p.type = "PUBLISH" /\ p.id = id /\ p.msg = n
    BY <1>4, <1>6 DEF Packets, Packet, Sending
  <1> HIDE DEF e, p
  <1>8. Append(mem.outbound, e) \in Seq(Entries)
    BY <1>2, <1>6
  <1>9. /\ MemoryType(m) /\ m.up /\ m.partial = <<>> /\ m.outbound = Append(mem.outbound, e)
        /\ m.acks = mem.acks
    <2>1. MemoryType(m0) /\ m0.up /\ Same(m0, mem, Fields \ {"msgID"})
      <3>1. /\ m0 = [f \in Fields |-> m0[f]] /\ m0.msgID = id
            /\ Same(m0, mem, Fields \ {"msgID"})
        BY <1>1 DEF MemoryType, Fields, Same
      <3>2. id \in 0..MaxMsgId
        BY <1>4, SessionAssumption DEF Ids
      <3> HIDE DEF m0
      <3> QED  BY <1>1, <3>1, <3>2 DEF MemoryType, Same, Fields
    <2>2. m = [m0 EXCEPT !.outbound = Append(mem.outbound, e)]
      BY <1>1 DEF MemoryType, Fields
    <2> HIDE DEF m0, m
    <2>3. MemoryType(m) /\ m.outbound = Append(mem.outbound, e) /\ Same(m, m0, Fields \ {"outbound"})
      BY <1>8, <2>1, <2>2, MemoryFields
    <2> QED  BY <1>1, <2>1, <2>3 DEF Same, Fields
  <1>10. Last(disks) = d /\ \A i \in DOMAIN disks : disks[i] \in {disk, torn1, d}
    BY DEF Last
  <1>0. /\ DiskType(torn1) /\ torn1.sent = disk.sent /\ torn1.pubrel = disk.pubrel
        /\ torn1.badPubrel = disk.badPubrel
    <2>1. /\ DiskType(torn1) /\ torn1.sent = Without(disk.sent, id)
          /\ torn1.pubrel = disk.pubrel /\ torn1.badPubrel = disk.badPubrel
      BY <1>1, <1>4, TearSentUpdate
    <2>2. DOMAIN disk.sent \ {id} = DOMAIN disk.sent
      BY <1>2, <1>4
    <2>3. Without(disk.sent, id) = disk.sent
      BY <1>1, <2>2 DEF Without, DiskType, Table
    <2> QED  BY <2>1, <2>3
  <1>11. d.sent = Put(disk.sent, id, n)
    BY <1>1 DEF PutSent, DiskType
  <1> HIDE DEF m, d, torn1, disks
  <1>12. Outgoing \in Seq(Packets) /\ toBroker \in Seq(Packets) /\ Outgoing = toBroker
    <2>1. toBroker \in Seq(Packets)
      BY <1>1 DEF NetworkType
    <2> QED  BY <1>1, <2>1, ConcatEmptySeq DEF Outgoing
  <1>13. PICK x \in {"submitted", "accepted"} : phase' = [phase EXCEPT ![n] = x]
    BY <1>5
  <1>14. ASSUME ~Confused'
         PROVE  /\ id \notin IdsInTransit
                /\ InOrder(Outgoing) => InOrder(Append(Outgoing, p))
    <2>1. id \notin IdsInTransit
      BY <1>5, <1>14 DEF Confused
    <2>2. \A q \in Range(Outgoing) : q.type = "PUBREL" => q.id # id
      <3>1. Range(Outgoing) \subseteq Range(toBroker \o mem.partial \o mem.acks)
        <4>1. mem.acks \in Seq(Packets)
          BY <1>1 DEF MemoryType
        <4>2. Range(Outgoing \o mem.acks) = Range(Outgoing) \cup Range(mem.acks)
          BY <1>12, <4>1, RangeConcatenation
        <4> QED  BY <4>2 DEF Outgoing
      <3> QED  BY <2>1, <3>1 DEF IdsInTransit, Sending
    <2>3. <<p>> \in Seq(Packets) /\ Range(<<p>>) = {p} /\ InOrder(<<p>>)
      BY <1>7, RangeShort DEF InOrder
    <2>4. Outgoing \o <<p>> = Append(Outgoing, p)
      BY <1>7, <1>12, RangeAppend
    <2> DEFINE v == <<p>>
    <2>5. v \in Seq(Packets) /\ InOrder(v) /\ \A q \in Range(v) : q = p
      BY <2>3
    <2> HIDE DEF v
    <2>6. InOrder(Outgoing) => InOrder(Outgoing \o v)
      BY <1>7, <1>12, <2>2, <2>5, InOrderConcat
    <2> QED  BY <2>1, <2>4, <2>6 DEF v
  <1>15. reused' \in BOOLEAN /\ (reused => reused') /\ (~Confused' => id \notin IdsInTransit)
    BY <1>1, <1>5 DEF NetworkType, Confused
  <1>16. CASE /\ disk' = d /\ torn' = torn /\ MemoryType(mem') /\ toBroker' \in Seq(Packets)
              /\ Same(mem', m, Fields \ {"partial"})
              /\ Outgoing' = Append(Outgoing, p)
    <2>1. mem'.up /\ mem'.outbound = Append(mem.outbound, e) /\ mem'.acks = mem.acks
      BY <1>9, <1>16 DEF Same, Fields
    <2>2. /\ Len(mem.outbound) \in Nat /\ DOMAIN mem.outbound = 1..Len(mem.outbound)
          /\ DOMAIN mem'.outbound = 1..(Len(mem.outbound) + 1)
          /\ \A i \in 1..Len(mem.outbound) : mem'.outbound[i] = mem.outbound[i]
          /\ mem'.outbound[Len(mem.outbound) + 1] = e
      BY <1>2, <1>6, <2>1
    <2>3. \A i \in DOMAIN mem'.outbound :
              \/ i \in DOMAIN mem.outbound /\ mem'.outbound[i] = mem.outbound[i]
              \/ i = Len(mem.outbound) + 1 /\ mem'.outbound[i] = e
      BY <2>2
    <2>4. disk'.sent = Put(disk.sent, id, n)
      BY <1>11, <1>16
    <2>5. Mirrored'
      <3>1. \A i \in DOMAIN mem.outbound :
                Live(mem.outbound[i].id) /\ disk.sent[mem.outbound[i].id] = mem.outbound[i].msg
        BY <1>1 DEF RecordInv, Mirrored
      <3>2. \A i \in DOMAIN mem'.outbound :
                /\ mem'.outbound[i].id \in DOMAIN disk'.sent
                /\ disk'.sent[mem'.outbound[i].id] = mem'.outbound[i].msg
        BY <1>2, <1>4, <1>6, <2>3, <2>4, <3>1 DEF Live, Put
      <3>3. \A k \in DOMAIN disk'.sent : \E i \in DOMAIN mem'.outbound : mem'.outbound[i].id = k
        <4>1. \A k \in OutIds : \E i \in DOMAIN mem'.outbound : mem'.outbound[i].id = k
          <5> SUFFICES ASSUME NEW i \in DOMAIN mem.outbound
                       PROVE  i \in DOMAIN mem'.outbound /\ mem'.outbound[i] = mem.outbound[i]
            BY DEF OutIds
          <5> QED  BY <2>2
        <4>2. Len(mem.outbound) + 1 \in DOMAIN mem'.outbound
          BY <2>2
        <4> QED  BY <1>2, <1>6, <2>2, <2>4, <4>1, <4>2 DEF Put
      <3>4. \A i, j \in DOMAIN mem'.outbound : mem'.outbound[i].id = mem'.outbound[j].id => i = j
        <4>1. \A i \in DOMAIN mem.outbound : mem.outbound[i].id # id
          BY <1>4 DEF OutIds
        <4>2. \A i, j \in DOMAIN mem.outbound : mem.outbound[i].id = mem.outbound[j].id => i = j
          BY <1>1 DEF RecordInv, Mirrored
        <4> QED  BY <1>6, <2>3, <4>1, <4>2
      <3> QED  BY <3>2, <3>3, <3>4 DEF Mirrored, OutIds, Live
    <2>6. Range(Outgoing') = Range(Outgoing) \cup {p}
      BY <1>7, <1>12, <1>16, RangeAppend
    <2>7. \A i \in DOMAIN mem'.outbound :
              \/ \E j \in DOMAIN mem.outbound : mem'.outbound[i] = mem.outbound[j]
              \/ /\ mem'.outbound[i].id = id
                 /\ mem'.outbound[i].next = IF OutQos[n] = 2 THEN "PUBREC" ELSE "PUBACK"
      BY <1>6, <2>3
    <2>8. Quieter(mem.acks, mem'.acks)
      BY <2>1 DEF Quieter
    <2>9. \A q \in Range(Outgoing') : q.type \in Sending =>
              q \in Range(Outgoing) \/ (q.type = "PUBLISH" /\ q.id = id /\ q.msg = n)
      BY <1>7, <2>6
    <2>10. ~Confused' => (InOrder(Outgoing) => InOrder(Outgoing'))
      BY <1>14, <1>16
    <2>11. disk' = PutSent(disk, id, n)
      BY <1>16 DEF d
    <2>12. Confused => Confused'
      BY <1>15, <1>16 DEF Confused
    <2> QED  BY <1>1, <1>2, <1>3, <1>4, <1>5, <1>13, <1>15, <1>16, <2>5, <2>7, <2>8, <2>9, <2>10, <2>11, <2>12, StoreStep
  <1>17. CASE CrashIn(disks)
    <2>1. /\ MemoryType(mem') /\ mem'.up = FALSE /\ mem'.outbound = <<>> /\ mem'.acks = <<>>
          /\ \E i \in DOMAIN disks : disk' = disks[i]
          /\ toBroker' = toBroker /\ Outgoing' = toBroker /\ torn \subseteq torn'
      BY <1>1, <1>17, CrashOutcome
    <2>2. Quieter(mem.acks, mem'.acks) /\ Quieter(Outgoing, Outgoing')
      BY <1>12, <2>1, RangeShort DEF Quieter
    <2>3. CASE disk' \in {disk, torn1}
      <3>0. /\ DiskType(disk') /\ disk'.sent = disk.sent /\ disk'.pubrel = disk.pubrel
            /\ disk'.badPubrel = disk.badPubrel
        BY <1>0, <1>1, <2>3
      <3>1. phase' = [phase EXCEPT ![n] = "submitted"]
        BY <1>5, <2>1
      <3>2. /\ phase' \in [Messages -> Phases]
            /\ \A k \in Messages : phase'[k] = phase[k] \/ (phase[k] = "new" /\ phase'[k] = "submitted")
        BY <1>1, <3>1 DEF NetworkType, Phases
      <3>3. TypeInv'
        BY <1>1, <1>5, <1>12, <1>15, <2>1, <3>0, <3>2 DEF TypeInv, NetworkType
      <3>4. Quiet
        BY <1>5, <1>12, <1>15, <2>1, <2>2, <3>0, <3>2 DEF Quiet, Unsent
      <3> QED  BY <3>3, <3>4, QuietStep
    <2>4. CASE disk' = d
      <3>1. Mirrored' /\ DOMAIN mem'.outbound = {}
        BY <2>1 DEF Mirrored
      <3>2. disk' = PutSent(disk, id, n)
        BY <2>4 DEF d
      <3>3. \A q \in Range(Outgoing') : q.type \in Sending => q \in Range(Outgoing)
        BY <2>2 DEF Quieter
      <3>4. toBroker' \in Seq(Packets) /\ (InOrder(Outgoing) => InOrder(Outgoing'))
        BY <1>12, <2>1
      <3>5. Confused => Confused'
        BY <1>15, <2>1 DEF Confused
      <3> QED  BY <1>1, <1>2, <1>3, <1>4, <1>5, <1>13, <1>15, <2>1, <2>2, <3>1, <3>2, <3>3, <3>4, <3>5, StoreStep
    <2> QED  BY <1>10, <2>1, <2>3, <2>4
  <1> QED  BY <1>1, <1>5, <1>7, <1>9, <1>10, <1>16, <1>17, SendOutcome

-----------------------------------------------------------------------------
(* The process starts again.                                               *)

LEMMA RestartStep ==
    ASSUME SessionInv, Restart
    PROVE  SessionInv'
  <1>1. /\ TypeInv /\ RecordInv /\ (~Confused => ExchangeInv) /\ MemoryType(mem) /\ DiskType(disk)
        /\ NetworkType /\ mem = Down
    BY DEF SessionInv, TypeInv, Restart, MemoryType
  <1>2. PICK found \in BOOLEAN, readable \in ReadableQueues(disk) :
            LET of(S) == IF found THEN S ELSE {}
            IN  /\ mem' = [Created EXCEPT
                              !.outbound = RestorePackets([disk EXCEPT !.pubrel = @ \cup of(disk.badPubrel)]),
                              !.inbound = disk.rcvd,
                              !.queue = RestoreMessageQueue(readable),
                              !.seqno = Max(DOMAIN readable.queue \cup {0})]
                /\ disk' = [disk EXCEPT
                               !.pubrel = @ \cap (DOMAIN disk.sent \cup of(disk.badSent)),
                               !.badSent = {}, !.badPubrel = {}]
    BY Zenon DEF Restart
  <1> DEFINE P == IF found THEN disk.badPubrel ELSE {}
             B == IF found THEN disk.badSent ELSE {}
             d == [disk EXCEPT !.pubrel = disk.pubrel \cup P]
             s == RestorePackets(d)
             q == RestoreMessageQueue(readable)
             k == Max(DOMAIN readable.queue \cup {0})
             m == [Created EXCEPT !.outbound = s, !.inbound = disk.rcvd, !.queue = q, !.seqno = k]
  <1>0. /\ mem' = m
        /\ disk' = [disk EXCEPT !.pubrel = disk.pubrel \cap (DOMAIN disk.sent \cup B),
                                !.badSent = {}, !.badPubrel = {}]
    BY <1>2, Zenon
  <1>16. UNCHANGED <<toBroker, toClient, brokerVars, phase, reused, torn>>
    BY DEF Restart
  <1>17. P \subseteq disk.badPubrel /\ P \subseteq Ids
    BY <1>1 DEF DiskType
  <1> HIDE DEF P, B
  <1>3. /\ DiskType(disk') /\ disk'.sent = disk.sent
        /\ disk'.pubrel = disk.pubrel \cap (DOMAIN disk.sent \cup B)
        /\ disk'.badSent = {} /\ disk'.badPubrel = {}
    BY <1>0, <1>1 DEF DiskType, DiskFields
  <1>18. DiskType(d) /\ d.sent = disk.sent /\ d.pubrel = disk.pubrel \cup P
    BY <1>1, <1>17, PubrelUpdate
  <1> HIDE DEF d
  <1>4. /\ s \in Seq(Entries)
        /\ Range(s) = {StoredEntry(d, id) : id \in DOMAIN disk.sent}
        /\ \A i, j \in DOMAIN s : s[i].id = s[j].id => i = j
    BY <1>18, RestoredEntries
  <1>5. k \in Seqnos
    <2> DEFINE T == DOMAIN readable.queue \cup {0}
               M == SeqnoLimit - 1
    <2>0. DOMAIN readable.queue \subseteq DOMAIN disk.queue
      <3>1. PICK S : readable = [disk EXCEPT !.queue = Restrict(@, DOMAIN @ \ S)]
        BY <1>2 DEF ReadableQueues
      <3>2. readable.queue = Restrict(disk.queue, DOMAIN disk.queue \ S)
        BY <1>1, <3>1 DEF DiskType, DiskFields
      <3> QED  BY <3>2 DEF Restrict
    <2>3. DOMAIN disk.queue \subseteq Seqnos
      BY <1>1 DEF DiskType
    <2>4. M \in Nat /\ Seqnos = 0..M /\ 0 \in Seqnos
      BY SessionAssumption DEF Seqnos
    <2>1. M \in Nat /\ T # {} /\ T \subseteq 0..M /\ Seqnos = 0..M
      BY <2>0, <2>3, <2>4
    <2> HIDE DEF T, M
    <2>2. Max(T) \in T
      BY <2>1, GreatestElement
    <2> QED  BY <2>1, <2>2 DEF T
  <1> HIDE DEF s, q, k
  <1>6. /\ m.up = TRUE /\ m.connected = FALSE /\ m.partial = <<>> /\ m.msgID = 0 /\ m.outbound = s
        /\ m.inbound = disk.rcvd /\ m.acks = <<>> /\ m.seqno = k
        /\ m = [f \in Fields |-> m[f]]
    BY DEF Created, Fields
  <1> HIDE DEF m
  <1>7. MemoryType(mem')
    <2>1. <<>> \in Seq(Packets) /\ Len(<<>>) <= 1 /\ 0 \in 0..MaxMsgId
      BY SessionAssumption
    <2>2. DOMAIN disk.rcvd \subseteq Ids
      BY <1>1 DEF DiskType
    <2>3. m.up \in BOOLEAN /\ m.connected \in BOOLEAN /\ m.msgID \in 0..MaxMsgId /\ m.seqno \in Seqnos
      BY <1>5, <1>6, <2>1
    <2>4. /\ m.partial \in Seq(Packets) /\ Len(m.partial) <= 1 /\ m.acks \in Seq(Packets)
          /\ m.outbound \in Seq(Entries) /\ DOMAIN m.inbound \subseteq Ids
      BY <1>4, <1>6, <2>1, <2>2
    <2> QED  BY <1>0, <1>6, <2>3, <2>4 DEF MemoryType
  <1>8. /\ mem.partial = <<>> /\ mem.acks = <<>> /\ mem'.partial = <<>> /\ mem'.acks = <<>>
        /\ mem'.outbound = s /\ Outgoing' = Outgoing
    <2>1. mem.partial = <<>> /\ mem.acks = <<>> /\ mem'.partial = <<>> /\ mem'.acks = <<>>
          /\ mem'.outbound = s
      BY <1>0, <1>1, <1>6, DownType
    <2> QED  BY <1>16, <2>1 DEF Outgoing
  <1>9. \A id \in DOMAIN disk.sent :
            LET e == StoredEntry(d, id)
            IN  /\ e.id = id /\ e.msg = disk.sent[id]
                /\ e.next = IF OutQos[disk.sent[id]] = 1 THEN "PUBACK"
                            ELSE IF id \in disk.pubrel \cup P THEN "PUBCOMP" ELSE "PUBREC"
    BY <1>18 DEF StoredEntry
  <1>10. /\ \A i \in DOMAIN s : \E id \in DOMAIN disk.sent : s[i] = StoredEntry(d, id)
         /\ \A id \in DOMAIN disk.sent : \E i \in DOMAIN s : s[i] = StoredEntry(d, id)
    <2>1. \A i \in DOMAIN s : s[i] \in Range(s)
      BY <1>4, InRange
    <2>2. \A e \in Range(s) : \E i \in DOMAIN s : s[i] = e
      BY <1>4, InRange
    <2> QED  BY <1>4, <2>1, <2>2
  <1>11. /\ \A i \in DOMAIN s : s[i].id \in DOMAIN disk.sent /\ disk.sent[s[i].id] = s[i].msg
         /\ \A id \in DOMAIN disk.sent : \E i \in DOMAIN s : s[i].id = id
         /\ \A i \in DOMAIN s :
                s[i].next = IF OutQos[disk.sent[s[i].id]] = 1 THEN "PUBACK"
                            ELSE IF s[i].id \in disk.pubrel \cup P THEN "PUBCOMP" ELSE "PUBREC"
    BY <1>9, <1>10
  <1>12. TypeInv'
    BY <1>1, <1>16, <1>3, <1>7 DEF TypeInv, NetworkType
  <1>13. Range(mem'.acks) = {}
    BY <1>8, RangeShort
  <1>14. RecordInv'
    <2>1. Mirrored'
      BY <1>3, <1>4, <1>8, <1>11 DEF Mirrored, OutIds, Live
    <2> QED  BY <1>1, <1>16, <1>3, <1>8, <1>13, <2>1 DEF RecordInv
  <1>15. ASSUME ~Confused PROVE ExchangeInv'
    <2>0. ExchangeInv
      BY <1>1, <1>15
    <2>1. PublishesInv' /\ AnswersInv' /\ BrokerInv'
      BY <1>16, <1>3, <1>8, <2>0
      DEF ExchangeInv, PublishesInv, AnswersInv, BrokerInv, Live, QosOf, Taken, Held
    <2>2. PubrelsInv'
      BY <1>16, <1>3, <1>8, <1>13, <2>0
      DEF ExchangeInv, PubrelsInv, Live, QosOf, Taken, Held
    <2>3. StagesInv'
      <3>1. ASSUME NEW i \in DOMAIN s
            PROVE  /\ s[i].next = "PUBACK" => QosOf(s[i].id) = 1
                   /\ s[i].next = "PUBREC" => QosOf(s[i].id) = 2 /\ s[i].id \notin disk.pubrel
                   /\ s[i].next = "PUBCOMP" => QosOf(s[i].id) = 2 /\ Held(s[i].id)
        <4>1. PICK id \in DOMAIN disk.sent : s[i].id = id
          BY <1>11
        <4>2. id \in disk.pubrel \cup P => QosOf(id) = 2 /\ Held(id)
          BY <1>17, <2>0 DEF ExchangeInv, PubrelsInv, Live
        <4>3. QosOf(id) \in {1, 2}
          BY <1>1, SessionAssumption DEF QosOf, DiskType, Table, Messages
        <4>4. s[i].next = IF QosOf(id) = 1 THEN "PUBACK"
                          ELSE IF id \in disk.pubrel \cup P THEN "PUBCOMP" ELSE "PUBREC"
          BY <1>11, <4>1 DEF QosOf
        <4> QED  BY <4>1, <4>2, <4>3, <4>4
      <3> QED  BY <1>16, <1>3, <1>8, <3>1 DEF StagesInv, QosOf, Held, Taken
    <2>4. OneNameInv'
      <3>1. \A id, n : Carries(id, n)' => Carries(id, n)
        BY <1>16, <1>3, <1>8 DEF Carries, Live
      <3> QED  BY <2>0, <3>1, NamesKept DEF ExchangeInv
    <2> QED  BY <2>1, <2>2, <2>3, <2>4 DEF ExchangeInv
  <1>19. Confused' = Confused
    BY <1>16 DEF Confused
  <1> QED  BY <1>12, <1>14, <1>15, <1>19 DEF SessionInv

-----------------------------------------------------------------------------
(* The invariant.                                                          *)

LEMMA SessionInit ==
    ASSUME Init
    PROVE  SessionInv
  <1>1. PICK id \in LastIds : mem = [Created EXCEPT !.msgID = id]
    BY DEF Init
  <1>2. /\ disk = EmptyDisk /\ toBroker = <<>> /\ toClient = <<>> /\ bpub = <<>> /\ bout = <<>>
        /\ sentIn = 0 /\ phase = [n \in Messages |-> "new"]
        /\ distributed = [n \in Messages |-> 0] /\ reused = FALSE
    BY DEF Init
  <1>3. /\ mem.up = TRUE /\ mem.connected = FALSE /\ mem.partial = <<>> /\ mem.msgID = id
        /\ mem.outbound = <<>> /\ mem.inbound = <<>> /\ mem.acks = <<>> /\ mem.seqno = 0
        /\ mem = [f \in Fields |-> mem[f]]
    BY <1>1 DEF Created, Fields
  <1>4. /\ disk.sent = <<>> /\ disk.pubrel = {} /\ disk.rcvd = <<>> /\ disk.queue = <<>>
        /\ disk.badSent = {} /\ disk.badPubrel = {}
        /\ disk = [f \in DiskFields |-> disk[f]]
    BY <1>2 DEF EmptyDisk, DiskFields
  <1>5. DOMAIN <<>> = {} /\ <<>> = [k \in {} |-> k] /\ Len(<<>>) <= 1 /\ Len(<<>>) = 0
    OBVIOUS
  <1>6. id \in 0..MaxMsgId /\ 0 \in Seqnos
    BY <1>1, SessionAssumption DEF Seqnos
  <1>7. \A S : <<>> \in Seq(S)
    OBVIOUS
  <1>8. MemoryType(mem)
    BY <1>3, <1>5, <1>6, <1>7 DEF MemoryType
  <1>9. \A K, V : Table(<<>>, K, V)
    BY <1>5 DEF Table
  <1>10. DiskType(disk)
    BY <1>4, <1>5, <1>9 DEF DiskType
  <1>11. NetworkType
    BY <1>2, <1>7, <1>9 DEF NetworkType, Phases
  <1>12. Outgoing = <<>> /\ Range(Outgoing) = {} /\ Range(mem.acks) = {} /\ Range(toClient) = {}
    <2>1. Outgoing = <<>>
      <3>1. <<>> \o <<>> = <<>>
        OBVIOUS
      <3> QED  BY <1>2, <1>3, <3>1 DEF Outgoing
    <2> QED  BY <1>2, <1>3, <2>1, RangeShort
  <1>13. Cardinality({}) = 0 /\ 0 <= MaxInflight
    BY FS_EmptySet, SessionAssumption
  <1>14. DOMAIN disk.sent = {} /\ DOMAIN mem.outbound = {} /\ DOMAIN bpub = {} /\ DOMAIN Outgoing = {}
    BY <1>2, <1>3, <1>4, <1>5, <1>12
  <1>15. RecordInv
    <2>1. Mirrored
      BY <1>14 DEF Mirrored
    <2> QED  BY <1>2, <1>4, <1>12, <1>13, <1>14, <2>1 DEF RecordInv
  <1>16. ExchangeInv
    <2>1. PublishesInv
      BY <1>12, <1>14 DEF PublishesInv, InOrder
    <2>2. PubrelsInv
      BY <1>4, <1>12, <1>14 DEF PubrelsInv
    <2>3. StagesInv /\ AnswersInv /\ BrokerInv
      BY <1>12, <1>14 DEF StagesInv, AnswersInv, BrokerInv
    <2>4. OneNameInv
      BY <1>12, <1>14 DEF OneNameInv, Carries, Live
    <2> QED  BY <2>1, <2>2, <2>3, <2>4 DEF ExchangeInv
  <1> QED  BY <1>8, <1>10, <1>11, <1>15, <1>16 DEF SessionInv, TypeInv

LEMMA SessionNext ==
    ASSUME SessionInv, Persistent, [Next]_vars
    PROVE  SessionInv'
  <1>1. CASE \E n \in Messages : Publish(n)
    BY <1>1, PublishStep
  <1>2. CASE ClientStep
    BY <1>2, HandlePublishesStep, HandlePubrelsStep, HandlePubrecsStep, HandleCompletionStep,
       DeliverStep, WriteAvailableStep DEF ClientStep
  <1>3. CASE BrokerStep
    BY <1>3, BrokerPublishStep, BrokerPubrelStep, BrokerPubrecStep, BrokerCompletionStep, SMTT(30)
    DEF BrokerStep
  <1>4. CASE Connect \/ Restart \/ PeriodicRetry \/ LinkDown \/ Crash
    <2>1. CASE Connect
      BY <2>1, ConnectStep
    <2>2. CASE Restart \/ PeriodicRetry
      BY <2>2, RestartStep, PeriodicRetryStep
    <2>3. CASE LinkDown \/ Crash
      BY <2>3, LinkDownStep, CrashStep
    <2> QED  BY <1>4, <2>1, <2>2, <2>3
  <1>5. CASE BrokerSend
    BY <1>5, BrokerSendStep
  <1>6. CASE UNCHANGED vars
    BY <1>6 DEF vars, SessionInv, TypeInv, NetworkType, RecordInv, Mirrored, OutIds, Outgoing,
       Live, QosOf, Taken, Held, ExchangeInv, PublishesInv, PubrelsInv, StagesInv, AnswersInv,
       BrokerInv, OneNameInv, Carries, Confused
  <1> QED  BY <1>1, <1>2, <1>3, <1>4, <1>5, <1>6 DEF Next

\* Every component keeps its type, and outboundMsgs never holds an id twice nor
\* more messages than maxInflightMessages: what is on the disk, and so what a
\* restart finds, keeps to the limit that Publish observes.
THEOREM SessionTypeCorrect ==
    ASSUME Persistent
    PROVE  Spec => []TypeOK
  <1>1. ASSUME SessionInv PROVE TypeOK
    <2>1. /\ MemoryType(mem) /\ DiskType(disk) /\ NetworkType /\ RecordInv
          /\ mem.outbound \in Seq(Entries)
      BY <1>1 DEF SessionInv, TypeInv, MemoryType
    <2> DEFINE D == DOMAIN mem.outbound
               f == [i \in D |-> mem.outbound[i].id]
    <2>2. D = 1..Len(mem.outbound) /\ Len(mem.outbound) \in Nat /\ \A i \in D : mem.outbound[i] \in Entries
      BY <2>1
    <2>3. OutIds \subseteq Ids
      BY <2>2 DEF OutIds, Entries
    <2>4. IsFiniteSet(D) /\ Cardinality(D) = Len(mem.outbound)
      BY <2>2, FS_Interval
    <2>5. \A i, j \in D : mem.outbound[i].id = mem.outbound[j].id => i = j
      <3>1. ~mem.up => mem.outbound = <<>>
        BY <2>1, DownType DEF MemoryType
      <3>2. mem.outbound = <<>> => D = {}
        OBVIOUS
      <3> QED  BY <2>1, <3>1, <3>2 DEF RecordInv, Mirrored
    <2>6. f \in Bijection(D, OutIds)
      BY <2>5 DEF Bijection, Injection, Surjection, OutIds, IsInjective
    <2> HIDE DEF f, D
    <2>7. IsFiniteSet(OutIds) /\ Cardinality(OutIds) = Len(mem.outbound)
      BY <2>4, <2>6, FS_Bijection DEF ExistsBijection
    <2>8. Len(mem.outbound) <= MaxInflight
      <3>1. CASE mem.up
        <4>1. OutIds = DOMAIN disk.sent
          BY <1>1, <3>1, IdsInFlight
        <4> QED  BY <2>1, <2>7, <4>1 DEF RecordInv
      <3>2. CASE ~mem.up
        <4>1. mem.outbound = <<>>
          BY <2>1, <3>2, DownType DEF MemoryType
        <4>2. Len(mem.outbound) = 0 /\ 0 <= MaxInflight
          BY <4>1, SessionAssumption
        <4> QED  BY <4>2
      <3> QED  BY <3>1, <3>2
    <2>9. /\ mem.up \in BOOLEAN /\ mem.connected \in BOOLEAN /\ mem.msgID \in 0..MaxMsgId
          /\ DOMAIN mem.inbound \subseteq Ids /\ Len(mem.partial) <= 1
      BY <2>1 DEF MemoryType
    <2>10. /\ DOMAIN disk.sent \subseteq Ids /\ disk.pubrel \subseteq Ids
           /\ DOMAIN disk.rcvd \subseteq Ids /\ DOMAIN disk.queue \subseteq 0..(SeqnoLimit - 1)
           /\ mem.up => disk.badSent = {} /\ disk.badPubrel = {}
      BY <2>1 DEF DiskType, Table, Seqnos, RecordInv
    <2>11. phase \in [Messages -> {"new", "submitted", "accepted", "confirmed", "discarded"}]
      BY <2>1 DEF NetworkType, Phases
    <2> QED  BY <2>3, <2>7, <2>8, <2>9, <2>10, <2>11 DEF TypeOK
  <1> QED  BY <1>1, SessionInit, SessionNext, PTL DEF Spec

-----------------------------------------------------------------------------
(* The refinement.                                                         *)

\* The end of an exchange confirms a message that was distributed.
LEMMA CompletionConfirms ==
    ASSUME SessionInv, ~Confused, NEW type \in {"PUBACK", "PUBCOMP"}, HandleCompletion(type)
    PROVE  \/ UNCHANGED <<phase, distributed>>
           \/ \E n \in Messages : Abstract!Confirms(n)
  <1>1. /\ TypeInv /\ RecordInv /\ ExchangeInv /\ Reads(type) /\ MemoryType(mem) /\ DiskType(disk)
    BY DEF SessionInv, TypeInv, HandleCompletion
  <1>2. /\ mem.up /\ Received \in Range(toClient) /\ Received.type = type
        /\ distributed' = distributed /\ reused' = reused
    BY <1>1, ReadsOutcome
  <1>3. CASE Matching(Received.id, type) = {}
    <2>1. phase' = phase
      BY <1>3 DEF HandleCompletion
    <2> QED  BY <1>2, <2>1
  <1>4. CASE Matching(Received.id, type) # {}
    <2>1. PICK i \in Matching(Received.id, type) :
              phase' = [phase EXCEPT ![mem.outbound[i].msg] = IF mem'.up THEN "confirmed" ELSE @]
      BY <1>4 DEF HandleCompletion
    <2> DEFINE n == mem.outbound[i].msg
    <2>2. i \in DOMAIN mem.outbound /\ mem.outbound[i].id = Received.id
      BY DEF Matching
    <2>3. Live(Received.id) /\ disk.sent[Received.id] = n
      BY <1>1, <1>2, <2>2 DEF RecordInv, Mirrored
    <2>4. n \in Messages /\ phase[n] \in {"submitted", "accepted"}
      BY <1>1, <2>3 DEF RecordInv, DiskType, Table, Live
    <2>5. Taken(Received.id)
      BY <1>1, <1>2, <2>3 DEF ExchangeInv, AnswersInv
    <2>6. distributed[n] > 0
      BY <2>3, <2>5 DEF Taken
    <2>7. phase \in [Messages -> Phases]
      BY <1>1 DEF TypeInv, NetworkType
    <2> HIDE DEF n
    <2>8. CASE mem'.up
      <3>1. phase' = [phase EXCEPT ![n] = "confirmed"]
        BY <2>1, <2>8 DEF n
      <3>2. torn' = torn
        <4>1. mem'.up => mem' # Down
          BY DownType
        <4> QED  BY <1>4, <2>8, <4>1 DEF HandleCompletion, Perform, CrashIn, CrashWith
      <3>3. Confused' = Confused
        BY <1>2, <3>2 DEF Confused
      <3>4. Abstract!Confirms(n)
        BY <1>2, <2>4, <2>6, <3>1, <3>3 DEF Abstract!Confirms
      <3> QED  BY <2>4, <3>4
    <2>9. CASE ~mem'.up
      <3>1. phase' = [phase EXCEPT ![n] = phase[n]]
        BY <2>1, <2>9 DEF n
      <3>2. phase' = phase
        BY <2>7, <3>1
      <3> QED  BY <1>2, <3>2
    <2> QED  BY <2>8, <2>9
  <1> QED  BY <1>3, <1>4

\* The broker distributes a message that was published, and one of QoS 2 for the
\* first time.
LEMMA BrokerDistributes ==
    ASSUME SessionInv, ~Confused, BrokerPublish \/ BrokerPubrel
    PROVE  \/ UNCHANGED <<phase, distributed>>
           \/ \E n \in Messages : Abstract!Distributes(n)
  <1>1. /\ RecordInv /\ ExchangeInv /\ toBroker \in Seq(Packets) /\ mem.partial \in Seq(Packets)
        /\ Table(bpub, Ids, Messages) /\ distributed \in [Messages -> Nat] /\ toBroker # <<>>
        /\ phase' = phase /\ Confused' = Confused
    BY DEF SessionInv, TypeInv, NetworkType, MemoryType, BrokerPublish, BrokerPubrel, BrokerReads,
           Confused
  <1> DEFINE p == Head(toBroker)
  <1>2. p \in Range(Outgoing)
    <2>1. Range(toBroker) \subseteq Range(Outgoing)
      BY <1>1, RangeConcatenation DEF Outgoing
    <2> QED  BY <1>1, <2>1, RangeTail
  <1>3. CASE BrokerPublish
    <2>1. p.type = "PUBLISH"
      BY <1>3 DEF BrokerPublish, BrokerReads
    <2>2. p.msg \in Messages /\ phase[p.msg] # "new"
      BY <1>1, <1>2, <2>1 DEF RecordInv
    <2>3. CASE OutQos[p.msg] = 1
      <3>1. distributed' = [distributed EXCEPT ![p.msg] = @ + 1]
        BY <1>3, <2>3 DEF BrokerPublish, Distribute
      <3>2. Abstract!Distributes(p.msg)
        BY <1>1, <2>2, <2>3, <3>1 DEF Abstract!Distributes
      <3> QED  BY <2>2, <3>2
    <2>4. CASE OutQos[p.msg] # 1
      <3>1. distributed' = distributed
        BY <1>3, <2>4 DEF BrokerPublish
      <3> QED  BY <1>1, <3>1
    <2> QED  BY <2>3, <2>4
  <1>4. CASE BrokerPubrel
    <2>1. CASE p.id \in DOMAIN bpub
      <3> DEFINE n == bpub[p.id]
      <3>1. distributed' = [distributed EXCEPT ![n] = @ + 1]
        BY <1>4, <2>1 DEF BrokerPubrel, Distribute
      <3>2. n \in Messages /\ phase[n] # "new"
        BY <1>1, <2>1 DEF RecordInv, Table
      <3>3. distributed[n] = 0
        BY <1>1, <2>1 DEF ExchangeInv, BrokerInv
      <3> HIDE DEF n
      <3>4. Abstract!Distributes(n)
        BY <1>1, <3>1, <3>2, <3>3 DEF Abstract!Distributes
      <3> QED  BY <3>2, <3>4
    <2>2. CASE p.id \notin DOMAIN bpub
      <3>1. distributed' = distributed
        BY <1>4, <2>2 DEF BrokerPubrel
      <3> QED  BY <1>1, <3>1
    <2> QED  BY <2>1, <2>2
  <1> QED  BY <1>3, <1>4

\* Exchanges once confused stay so.
LEMMA TornGrows ==
    /\ \A disks : CrashIn(disks) => torn \subseteq torn'
    /\ \A disks, m, w : Perform(disks, m, w) => torn \subseteq torn'
    /\ \A disks, m, p : Send(disks, m, p) => torn \subseteq torn'
    /\ \A disks, m, p : SendAck(disks, m, p) => torn \subseteq torn'
    /\ \A d, earlier, packets : CrashInPut(d, earlier, packets) => torn \subseteq torn'
  <1>1. \A disks : CrashIn(disks) => torn \subseteq torn'
    BY DEF CrashIn, CrashWith
  <1>2. \A disks, m, w : Perform(disks, m, w) => torn \subseteq torn'
    BY <1>1 DEF Perform
  <1>3. \A disks, m, p : Send(disks, m, p) => torn \subseteq torn'
    BY <1>2 DEF Send
  <1>4. \A disks, m, p : SendAck(disks, m, p) => torn \subseteq torn'
    BY <1>2, <1>3 DEF SendAck
  <1>5. \A d, earlier, packets : CrashInPut(d, earlier, packets) => torn \subseteq torn'
    BY DEF CrashInPut, CrashWith
  <1> QED  BY <1>1, <1>2, <1>3, <1>4, <1>5

LEMMA ConfusedStays ==
    ASSUME [Next]_vars
    PROVE  Confused => Confused'
  <1>0. SUFFICES torn \subseteq torn' /\ (reused => reused')
    BY DEF Confused
  <1>1. CASE \E n \in Messages : Publish(n)
    BY <1>1, TornGrows DEF Publish
  <1>2. CASE HandlePublishes \/ HandlePubrels \/ HandlePubrecs
    <2>1. reused' = reused
      BY <1>2 DEF HandlePublishes, HandlePubrels, HandlePubrecs, Reads
    <2>2. HandlePublishes => \E disks, m, p : SendAck(disks, m, p)
      BY Zenon DEF HandlePublishes
    <2>3. HandlePubrels => \E disks, m, p : SendAck(disks, m, p)
      BY Zenon DEF HandlePubrels
    <2>4. HandlePubrecs => \E disks, m, p : SendAck(disks, m, p)
      BY Zenon DEF HandlePubrecs
    <2> QED  BY <1>2, <2>1, <2>2, <2>3, <2>4, TornGrows, Zenon
  <1>3. CASE HandleCompletion("PUBACK") \/ HandleCompletion("PUBCOMP")
    <2>1. ASSUME NEW type, HandleCompletion(type)
          PROVE  reused' = reused /\ torn \subseteq torn'
      <3>1. \E disks, m, w : Perform(disks, m, w)
        BY <2>1, Zenon DEF HandleCompletion
      <3> QED  BY <2>1, <3>1, TornGrows DEF HandleCompletion, Reads
    <2> QED  BY <1>3, <2>1
  <1>4. CASE Deliver \/ Crash
    BY <1>4, TornGrows DEF Deliver, Crash
  <1>10. CASE WriteAvailable
    <2>1. torn' = torn \/ \E d, earlier, packets : CrashInPut(d, earlier, packets)
      BY <1>10, Zenon DEF WriteAvailable
    <2>2. reused' = reused
      BY <1>10 DEF WriteAvailable
    <2> QED  BY <2>1, <2>2, TornGrows
  <1>5. CASE Connect
    <2>1. torn' = torn \/ \E d, earlier, packets : CrashInPut(d, earlier, packets)
      BY <1>5, Zenon DEF Connect
    <2>2. reused' = reused
      BY <1>5 DEF Connect
    <2> QED  BY <2>1, <2>2, TornGrows
  <1>6. CASE PeriodicRetry
    <2>1. torn' = torn \/ \E packets : CrashInPut(disk, toBroker, packets)
      BY <1>6, Zenon DEF PeriodicRetry
    <2>2. reused' = reused
      BY <1>6 DEF PeriodicRetry
    <2> QED  BY <2>1, <2>2, TornGrows
  <1>7. CASE Restart \/ LinkDown \/ BrokerSend
    <2>1. UNCHANGED <<reused, torn>>
      BY <1>7, Zenon DEF Restart, LinkDown, BrokerSend
    <2> QED  BY <2>1
  <1>8. CASE BrokerStep
    <2>1. ASSUME NEW type, BrokerReads(type) PROVE UNCHANGED <<reused, torn>>
      BY <2>1 DEF BrokerReads
    <2>2. \E type : BrokerReads(type)
      BY <1>8, Zenon DEF BrokerStep, BrokerPublish, BrokerPubrel, BrokerPubrec, BrokerCompletion
    <2> QED  BY <2>1, <2>2
  <1>9. CASE UNCHANGED vars
    BY <1>9 DEF vars
  <1> QED  BY <1>1, <1>2, <1>3, <1>4, <1>5, <1>6, <1>7, <1>8, <1>9, <1>10 DEF Next, ClientStep

\* The session implements Delivery: whatever crashes, lost connections, partial
\* writes and retries intervene, publish's success, the broker's distribution and
\* deliveryComplete come in the order Delivery allows, and a QoS 2 message is
\* distributed once.  A crash may come between any two writes of a handler to the
\* disk and inside a write, when pstput has emptied the file, first or rewritten,
\* and it is not complete.  All this until MQTTProtocol_assignMsgId gives out an id
\* of which packets are still about, or a crash cuts short a PUBREL record that is
\* written again: from then on Delivery promises nothing, and neither does the code
\* (see ExactlyOnce).
THEOREM SessionImplementsDelivery ==
    ASSUME Persistent
    PROVE  Spec => ImplementsDelivery
  <1> DEFINE visible == <<phase, distributed, Confused>>
  <1>1. ASSUME Init PROVE Abstract!DeliveryInit
    <2>1. Confused = FALSE
      BY <1>1 DEF Init, Confused
    <2> QED  BY <1>1, <2>1 DEF Init, Abstract!DeliveryInit, Messages, Abstract!Messages
  <1>2. ASSUME SessionInv, [Next]_vars
        PROVE  [Abstract!DeliveryNext]_visible
    <2>1. /\ Confused \in BOOLEAN /\ Confused' \in BOOLEAN
          /\ \/ Confused /\ Confused'
             \/ ~Confused
      <3>1. Confused \in BOOLEAN /\ Confused' \in BOOLEAN
        BY DEF Confused
      <3>2. Confused => Confused'
        BY <1>2, ConfusedStays
      <3> QED  BY <3>1, <3>2
    <2>2. CASE Confused /\ Confused'
      BY <2>2 DEF Abstract!DeliveryNext, Abstract!Anything
    <2>3. CASE ~Confused
      <3>0. UNCHANGED <<phase, distributed>> => [Abstract!DeliveryNext]_visible
        <4> SUFFICES ASSUME UNCHANGED <<phase, distributed>>
                     PROVE  [Abstract!DeliveryNext]_visible
          OBVIOUS
        <4>1. CASE Confused'
          <5>1. Abstract!Confuses
            BY <2>1, <4>1 DEF Abstract!Confuses
          <5> QED  BY <5>1 DEF Abstract!DeliveryNext
        <4>2. CASE ~Confused'
          <5>1. Confused' = Confused
            BY <2>1, <2>3, <4>2
          <5> QED  BY <5>1
        <4> QED  BY <4>1, <4>2
      <3>1. ASSUME NEW n \in Messages, Publish(n)
            PROVE  Abstract!Publishes(n)
        <4>1. /\ phase[n] = "new" /\ distributed' = distributed
              /\ phase' = [phase EXCEPT ![n] = IF mem'.up THEN "accepted" ELSE "submitted"]
          BY <3>1 DEF Publish
        <4>2. Confused' \in {Confused, TRUE}
          BY <2>1, <2>3
        <4> QED  BY <4>1, <4>2 DEF Abstract!Publishes
      <3>2. CASE HandlePublishes \/ HandlePubrels \/ HandlePubrecs \/ Deliver \/ WriteAvailable
        <4>1. UNCHANGED <<phase, distributed>>
          BY <3>2 DEF HandlePublishes, HandlePubrels, HandlePubrecs, Reads, Deliver, WriteAvailable
        <4> QED  BY <3>0, <4>1
      <3>3. CASE Connect \/ Restart \/ PeriodicRetry \/ LinkDown \/ Crash \/ BrokerSend
        <4>1. UNCHANGED <<phase, distributed>>
          BY <3>3 DEF Connect, Restart, PeriodicRetry, LinkDown, Crash, BrokerSend, Persistent
        <4> QED  BY <3>0, <4>1
      <3>4. CASE BrokerPubrec \/ BrokerCompletion("PUBACK") \/ BrokerCompletion("PUBCOMP")
        <4>1. UNCHANGED <<phase, distributed>>
          BY <3>4 DEF BrokerPubrec, BrokerCompletion, BrokerReads
        <4> QED  BY <3>0, <4>1
      <3>5. CASE HandleCompletion("PUBACK") \/ HandleCompletion("PUBCOMP")
        <4>1. UNCHANGED <<phase, distributed>> \/ \E n \in Messages : Abstract!Confirms(n)
          BY <1>2, <2>3, <3>5, CompletionConfirms
        <4> QED  BY <3>0, <4>1 DEF Abstract!DeliveryNext, Messages, Abstract!Messages
      <3>6. CASE BrokerPublish \/ BrokerPubrel
        <4>1. UNCHANGED <<phase, distributed>> \/ \E n \in Messages : Abstract!Distributes(n)
          BY <1>2, <2>3, <3>6, BrokerDistributes
        <4> QED  BY <3>0, <4>1 DEF Abstract!DeliveryNext, Messages, Abstract!Messages
      <3>7. CASE UNCHANGED vars
        <4>1. UNCHANGED <<phase, distributed>>
          BY <3>7 DEF vars
        <4> QED  BY <3>0, <4>1
      <3>8. (\E n \in Messages : Publish(n)) => Abstract!DeliveryNext
        BY <3>1 DEF Abstract!DeliveryNext, Messages, Abstract!Messages
      <3> QED  BY <1>2, <3>2, <3>3, <3>4, <3>5, <3>6, <3>7, <3>8 DEF Next, ClientStep, BrokerStep
    <2> QED  BY <2>1, <2>2, <2>3
  <1> QED  BY <1>1, <1>2, SessionInit, SessionNext, PTL
           DEF Spec, ImplementsDelivery, Abstract!DeliverySpec

-----------------------------------------------------------------------------
(* Messages of the broker arrive once.  The invariant is about the messages *)
(* received and not released (inb, inboundMsgs), those handed over (log),   *)
(* the packets on the way to the client (tc), the broker's unacknowledged   *)
(* publications (bo) and how many it has published (n).                     *)

Twice(msg) == InQos[msg] = 2
Publication(p) == p.type = "PUBLISH"

NumbersInv(inb, log, tc, bo, n) ==
    /\ n \in Nat /\ n <= NIn
    /\ \A k \in DOMAIN tc : Publication(tc[k]) => tc[k].msg \in 1..n
    /\ \A e \in DOMAIN bo : bo[e].msg \in 1..n
    /\ \A id \in DOMAIN inb : inb[id] \in 1..n /\ Twice(inb[id])
    /\ \A i \in DOMAIN log : log[i] \in 1..n

\* A message has one id, and the broker publishes it once on each connection.
NamesInv(inb, tc, bo) ==
    /\ \A e, f \in DOMAIN bo : bo[e].id = bo[f].id \/ bo[e].msg = bo[f].msg => e = f
    /\ \A e \in DOMAIN bo : Twice(bo[e].msg) => bo[e].next # "PUBACK"
    /\ \A e \in DOMAIN bo, id \in DOMAIN inb : bo[e].msg = inb[id] => bo[e].id = id
    /\ \A i, j \in DOMAIN inb : inb[i] = inb[j] => i = j
    /\ \A k \in DOMAIN tc : Publication(tc[k]) /\ Twice(tc[k].msg) =>
           /\ \A e \in DOMAIN bo : bo[e].msg = tc[k].msg => bo[e].id = tc[k].id
           /\ \A id \in DOMAIN inb : inb[id] = tc[k].msg => id = tc[k].id
           /\ \A l \in DOMAIN tc : Publication(tc[l]) /\ tc[l].msg = tc[k].msg => k = l

\* A PUBREL of an earlier exchange may arrive before the PUBLISH of a message with
\* the same id; the client does not have that message yet.
FreshInv(inb, tc, bo) ==
    \A j \in DOMAIN tc : tc[j].type = "PUBREL" =>
        /\ \A k \in DOMAIN tc : k > j /\ Publication(tc[k]) /\ tc[k].id = tc[j].id /\ Twice(tc[k].msg) =>
               \A id \in DOMAIN inb : inb[id] # tc[k].msg
        /\ \A e \in DOMAIN bo : bo[e].id = tc[j].id /\ bo[e].next = "PUBREC" =>
               \E k \in DOMAIN tc : k > j /\ Publication(tc[k]) /\ tc[k].msg = bo[e].msg

\* Nothing is left that could bring a QoS 2 message again.
HandedInv(inb, log, tc, bo) ==
    /\ \A i, j \in DOMAIN log : log[i] = log[j] /\ Twice(log[i]) => i = j
    /\ \A i \in DOMAIN log : Twice(log[i]) =>
           /\ \A id \in DOMAIN inb : inb[id] # log[i]
           /\ \A k \in DOMAIN tc : Publication(tc[k]) => tc[k].msg # log[i]
           /\ \A e \in DOMAIN bo : bo[e].msg = log[i] => bo[e].next = "PUBCOMP"

Once(inb, log, tc, bo, n) ==
    /\ NumbersInv(inb, log, tc, bo, n)
    /\ NamesInv(inb, tc, bo)
    /\ FreshInv(inb, tc, bo)
    /\ HandedInv(inb, log, tc, bo)

\* What has been handed to messageArrived, or is queued for it.
QueueEntries == [seqno : Nat, msg : Nat]
Queued(q) == [i \in DOMAIN q |-> q[i].msg]
Handed == arrived \o Queued(mem.queue)

ArrivalInv ==
    /\ crashes \in Nat
    /\ crashes = 0 =>
          /\ mem.up /\ arrived \in Seq(Nat) /\ mem.queue \in Seq(QueueEntries)
          /\ Once(mem.inbound, Handed, toClient, bout, sentIn)

\* The head of a channel and what follows it, by position.
LEMMA TailPositions ==
    ASSUME NEW S, NEW s \in Seq(S), s # <<>>
    PROVE  /\ Len(s) \in Nat \ {0} /\ DOMAIN s = 1..Len(s) /\ 1 \in DOMAIN s
           /\ Tail(s) \in Seq(S) /\ DOMAIN Tail(s) = 1..(Len(s) - 1)
           /\ Head(s) = s[1] /\ s[1] \in S
           /\ \A i \in DOMAIN Tail(s) : i + 1 \in DOMAIN s /\ Tail(s)[i] = s[i + 1]
  <1>1. /\ Len(s) \in Nat \ {0} /\ Head(s) = s[1] /\ 1 \in 1..Len(s)
        /\ Tail(s) \in Seq(S) /\ Len(Tail(s)) = Len(s) - 1
        /\ DOMAIN Tail(s) = 1..(Len(s) - 1) /\ DOMAIN s = 1..Len(s)
        /\ \A i \in 1..(Len(s) - 1) : i + 1 \in 1..Len(s) /\ Tail(s)[i] = s[i + 1]
    OBVIOUS
  <1> QED  BY <1>1

\* The packet read leaves the channel.
LEMMA OnceTail ==
    ASSUME NEW inb, NEW log, NEW tc \in Seq(Packets), NEW bo, NEW n, tc # <<>>,
           Once(inb, log, tc, bo, n)
    PROVE  Once(inb, log, Tail(tc), bo, n)
  <1> DEFINE t == Tail(tc)
  <1>1. /\ DOMAIN tc = 1..Len(tc) /\ Len(tc) \in Nat \ {0} /\ 1 \in DOMAIN tc /\ Head(tc) = tc[1]
        /\ DOMAIN t = 1..(Len(tc) - 1)
        /\ \A i \in DOMAIN t : i + 1 \in DOMAIN tc /\ t[i] = tc[i + 1]
    BY TailPositions
  <1> HIDE DEF t
  <1>2. NumbersInv(inb, log, t, bo, n)
    BY <1>1 DEF Once, NumbersInv
  <1>3. NamesInv(inb, t, bo)
    <2> SUFFICES ASSUME NEW k \in DOMAIN t, Publication(t[k]), Twice(t[k].msg)
                 PROVE  /\ \A e \in DOMAIN bo : bo[e].msg = t[k].msg => bo[e].id = t[k].id
                        /\ \A id \in DOMAIN inb : inb[id] = t[k].msg => id = t[k].id
                        /\ \A l \in DOMAIN t : Publication(t[l]) /\ t[l].msg = t[k].msg => k = l
      BY DEF Once, NamesInv
    <2>1. k + 1 \in DOMAIN tc /\ t[k] = tc[k + 1] /\ k \in Nat
      BY <1>1
    <2>2. ASSUME NEW l \in DOMAIN t, Publication(t[l]), t[l].msg = t[k].msg PROVE k = l
      <3>1. l + 1 \in DOMAIN tc /\ t[l] = tc[l + 1] /\ l \in Nat
        BY <1>1
      <3>2. k + 1 = l + 1
        BY <2>1, <2>2, <3>1 DEF Once, NamesInv
      <3> QED  BY <2>1, <3>1, <3>2
    <2> QED  BY <2>1, <2>2 DEF Once, NamesInv
  <1>4. FreshInv(inb, t, bo)
    <2> SUFFICES ASSUME NEW j \in DOMAIN t, t[j].type = "PUBREL"
                 PROVE  /\ \A k \in DOMAIN t : k > j /\ Publication(t[k]) /\ t[k].id = t[j].id /\ Twice(t[k].msg) =>
                               \A id \in DOMAIN inb : inb[id] # t[k].msg
                        /\ \A e \in DOMAIN bo : bo[e].id = t[j].id /\ bo[e].next = "PUBREC" =>
                               \E k \in DOMAIN t : k > j /\ Publication(t[k]) /\ t[k].msg = bo[e].msg
      BY DEF FreshInv
    <2>1. j + 1 \in DOMAIN tc /\ t[j] = tc[j + 1] /\ j \in Nat \ {0}
      BY <1>1
    <2>2. ASSUME NEW k \in DOMAIN t, k > j, Publication(t[k]), t[k].id = t[j].id, Twice(t[k].msg),
                 NEW id \in DOMAIN inb
          PROVE  inb[id] # t[k].msg
      <3>1. k + 1 \in DOMAIN tc /\ t[k] = tc[k + 1] /\ k + 1 > j + 1
        BY <1>1, <2>1, <2>2
      <3> QED  BY <2>1, <2>2, <3>1 DEF Once, FreshInv
    <2>3. ASSUME NEW e \in DOMAIN bo, bo[e].id = t[j].id, bo[e].next = "PUBREC"
          PROVE  \E k \in DOMAIN t : k > j /\ Publication(t[k]) /\ t[k].msg = bo[e].msg
      <3>1. PICK k \in DOMAIN tc : k > j + 1 /\ Publication(tc[k]) /\ tc[k].msg = bo[e].msg
        BY <2>1, <2>3 DEF Once, FreshInv
      <3>2. k - 1 \in DOMAIN t /\ k - 1 > j /\ (k - 1) + 1 = k
        BY <1>1, <2>1, <3>1
      <3>3. t[k - 1] = tc[k]
        BY <1>1, <3>2
      <3> QED  BY <3>1, <3>2, <3>3
    <2> QED  BY <2>2, <2>3
  <1>5. HandedInv(inb, log, t, bo)
    BY <1>1 DEF Once, HandedInv
  <1> QED  BY <1>2, <1>3, <1>4, <1>5 DEF Once, t

\* A sequence with one more element, by position.
LEMMA AppendPositions ==
    ASSUME NEW S, NEW s \in Seq(S), NEW x \in S
    PROVE  /\ Len(s) \in Nat /\ DOMAIN s = 1..Len(s)
           /\ Append(s, x) \in Seq(S) /\ DOMAIN Append(s, x) = DOMAIN s \cup {Len(s) + 1}
           /\ Len(s) + 1 \notin DOMAIN s
           /\ \A i \in DOMAIN s : Append(s, x)[i] = s[i] /\ i < Len(s) + 1
           /\ Append(s, x)[Len(s) + 1] = x
  <1>1. /\ Len(s) \in Nat /\ DOMAIN s = 1..Len(s)
        /\ Append(s, x) \in Seq(S) /\ DOMAIN Append(s, x) = 1..(Len(s) + 1)
        /\ \A i \in 1..Len(s) : Append(s, x)[i] = s[i]
        /\ Append(s, x)[Len(s) + 1] = x
    OBVIOUS
  <1> QED  BY <1>1

\* A QoS 2 message at the head of the channel is received, perhaps once more.
LEMMA OnceReceive ==
    ASSUME NEW inb, NEW log, NEW tc, NEW bo, NEW n, Once(inb, log, tc, bo, n),
           NEW k \in DOMAIN tc, Publication(tc[k]), Twice(tc[k].msg),
           \A j \in DOMAIN tc : ~(k > j),
           NEW f, DOMAIN f = DOMAIN inb \cup {tc[k].id}, f[tc[k].id] = tc[k].msg,
           \A id \in DOMAIN inb : id # tc[k].id => f[id] = inb[id]
    PROVE  Once(f, log, tc, bo, n)
  <1> DEFINE p == tc[k]
  <1>1. /\ DOMAIN f = DOMAIN inb \cup {p.id} /\ f[p.id] = p.msg
        /\ \A id \in DOMAIN f : (f[id] = p.msg /\ id = p.id) \/ (id \in DOMAIN inb /\ f[id] = inb[id])
    OBVIOUS
  <1>2. /\ NumbersInv(inb, log, tc, bo, n) /\ NamesInv(inb, tc, bo)
        /\ FreshInv(inb, tc, bo) /\ HandedInv(inb, log, tc, bo)
    BY DEF Once
  <1>3. NumbersInv(f, log, tc, bo, n)
    BY <1>1, <1>2 DEF NumbersInv
  <1>4. NamesInv(f, tc, bo)
    <2>1. \A e \in DOMAIN bo, id \in DOMAIN f : bo[e].msg = f[id] => bo[e].id = id
      BY <1>1, <1>2 DEF NamesInv
    <2>2. \A i, j \in DOMAIN f : f[i] = f[j] => i = j
      BY <1>1, <1>2 DEF NamesInv
    <2>3. \A l \in DOMAIN tc : Publication(tc[l]) /\ Twice(tc[l].msg) =>
              \A id \in DOMAIN f : f[id] = tc[l].msg => id = tc[l].id
      BY <1>1, <1>2 DEF NamesInv
    <2> QED  BY <1>2, <2>1, <2>2, <2>3 DEF NamesInv
  <1>5. FreshInv(f, tc, bo)
    <2> SUFFICES ASSUME NEW j \in DOMAIN tc, tc[j].type = "PUBREL",
                        NEW l \in DOMAIN tc, l > j, Publication(tc[l]), tc[l].id = tc[j].id,
                        Twice(tc[l].msg), NEW id \in DOMAIN f
                 PROVE  f[id] # tc[l].msg
      BY <1>2 DEF FreshInv
    <2>1. CASE id \in DOMAIN inb /\ f[id] = inb[id]
      BY <1>2, <2>1 DEF FreshInv
    <2>2. CASE f[id] = p.msg
      <3>1. tc[l].msg = p.msg => k = l
        BY <1>2 DEF NamesInv
      <3> QED  BY <2>2, <3>1
    <2> QED  BY <1>1, <2>1, <2>2
  <1>6. HandedInv(f, log, tc, bo)
    BY <1>1, <1>2 DEF HandedInv
  <1> QED  BY <1>3, <1>4, <1>5, <1>6 DEF Once

\* A QoS 1 message is queued for the application, perhaps once more.
LEMMA OnceQueue ==
    ASSUME NEW inb, NEW log \in Seq(Nat), NEW tc, NEW bo, NEW n, Once(inb, log, tc, bo, n),
           NEW msg \in 1..n, ~Twice(msg)
    PROVE  Once(inb, Append(log, msg), tc, bo, n)
  <1> DEFINE g == Append(log, msg)
  <1>1. /\ NumbersInv(inb, log, tc, bo, n) /\ NamesInv(inb, tc, bo)
        /\ FreshInv(inb, tc, bo) /\ HandedInv(inb, log, tc, bo)
    BY DEF Once
  <1>2. msg \in Nat
    BY <1>1 DEF NumbersInv
  <1>3. /\ DOMAIN g = DOMAIN log \cup {Len(log) + 1} /\ g[Len(log) + 1] = msg
        /\ \A i \in DOMAIN log : g[i] = log[i]
    BY <1>2, AppendPositions
  <1> HIDE DEF g
  <1>4. NumbersInv(inb, g, tc, bo, n)
    BY <1>1, <1>3 DEF NumbersInv
  <1>5. HandedInv(inb, g, tc, bo)
    <2>1. \A i \in DOMAIN g : Twice(g[i]) => i \in DOMAIN log /\ g[i] = log[i]
      BY <1>3
    <2> QED  BY <1>1, <1>3, <2>1 DEF HandedInv
  <1> QED  BY <1>1, <1>4, <1>5 DEF Once, g

\* The PUBREL at the head of the channel releases the message with its id: it is
\* the one the PUBREL is for, which neither the channel nor the broker has left.
LEMMA OnceRelease ==
    ASSUME NEW inb, NEW log \in Seq(Nat), NEW tc, NEW bo \in Seq(BrokerEntries), NEW n,
           Once(inb, log, tc, bo, n),
           NEW h \in DOMAIN tc, \A j \in DOMAIN tc : j = h \/ j > h,
           tc[h].type = "PUBREL", tc[h].id \in DOMAIN inb
    PROVE  Once(Without(inb, tc[h].id), Append(log, inb[tc[h].id]), tc, bo, n)
  <1> DEFINE id == tc[h].id
             msg == inb[id]
             f == Without(inb, id)
             g == Append(log, msg)
  <1>1. /\ NumbersInv(inb, log, tc, bo, n) /\ NamesInv(inb, tc, bo)
        /\ FreshInv(inb, tc, bo) /\ HandedInv(inb, log, tc, bo)
    BY DEF Once
  <1>2. msg \in 1..n /\ n \in Nat /\ msg \in Nat /\ Twice(msg)
    BY <1>1 DEF NumbersInv
  <1>3. /\ DOMAIN g = DOMAIN log \cup {Len(log) + 1} /\ g[Len(log) + 1] = msg
        /\ Len(log) + 1 \notin DOMAIN log
        /\ \A i \in DOMAIN log : g[i] = log[i]
    BY <1>2, AppendPositions
  <1>4. /\ DOMAIN f = DOMAIN inb \ {id}
        /\ \A i \in DOMAIN f : i \in DOMAIN inb /\ i # id /\ f[i] = inb[i]
    BY DEF Without
  <1>5. ASSUME NEW k \in DOMAIN tc, Publication(tc[k]) PROVE tc[k].msg # msg
    <2> SUFFICES ASSUME tc[k].msg = msg PROVE FALSE
      OBVIOUS
    <2>1. k > h
      BY <1>5 DEF Publication
    <2>2. tc[k].id = id
      BY <1>1, <1>2, <1>5 DEF NamesInv
    <2> QED  BY <1>1, <1>2, <1>5, <2>1, <2>2 DEF FreshInv
  <1>6. ASSUME NEW e \in DOMAIN bo, bo[e].msg = msg PROVE bo[e].next = "PUBCOMP"
    <2>1. bo[e].id = id /\ bo[e].next # "PUBACK"
      BY <1>1, <1>2, <1>6 DEF NamesInv
    <2>2. bo[e].next # "PUBREC"
      BY <1>1, <1>5, <1>6, <2>1 DEF FreshInv
    <2>3. bo[e] \in BrokerEntries
      OBVIOUS
    <2> QED  BY <2>1, <2>2, <2>3 DEF BrokerEntries, Stages
  <1>7. \A i \in DOMAIN log : log[i] # msg
    BY <1>1, <1>2 DEF HandedInv
  <1>8. \A i \in DOMAIN f : f[i] # msg
    BY <1>1, <1>4 DEF NamesInv
  <1> HIDE DEF f, g, msg
  <1>9. NumbersInv(f, g, tc, bo, n)
    BY <1>1, <1>2, <1>3, <1>4 DEF NumbersInv
  <1>10. NamesInv(f, tc, bo)
    BY <1>1, <1>4 DEF NamesInv
  <1>11. FreshInv(f, tc, bo)
    BY <1>1, <1>4 DEF FreshInv
  <1>12. HandedInv(f, g, tc, bo)
    <2>1. \A i \in DOMAIN g : g[i] = msg \/ (i \in DOMAIN log /\ g[i] = log[i])
      BY <1>3
    <2>2. \A i, j \in DOMAIN g : g[i] = g[j] /\ Twice(g[i]) => i = j
      BY <1>1, <1>3, <1>7 DEF HandedInv
    <2>3. ASSUME NEW i \in DOMAIN g, Twice(g[i])
          PROVE  /\ \A k \in DOMAIN f : f[k] # g[i]
                 /\ \A k \in DOMAIN tc : Publication(tc[k]) => tc[k].msg # g[i]
                 /\ \A e \in DOMAIN bo : bo[e].msg = g[i] => bo[e].next = "PUBCOMP"
      <3>1. CASE g[i] = msg
        BY <1>5, <1>6, <1>8, <3>1
      <3>2. CASE i \in DOMAIN log /\ g[i] = log[i]
        BY <1>1, <1>4, <2>3, <3>2 DEF HandedInv
      <3> QED  BY <2>1, <3>1, <3>2
    <2> QED  BY <2>2, <2>3 DEF HandedInv
  <1> QED  BY <1>9, <1>10, <1>11, <1>12 DEF Once, f, g, msg

\* The broker answers a packet of the client.
LEMMA OnceAnswer ==
    ASSUME NEW inb, NEW log, NEW tc \in Seq(Packets), NEW bo, NEW n, Once(inb, log, tc, bo, n),
           NEW p \in Packets, p.type \in Answering
    PROVE  Once(inb, log, Append(tc, p), bo, n)
  <1> DEFINE t == Append(tc, p)
             last == Len(tc) + 1
  <1>1. /\ NumbersInv(inb, log, tc, bo, n) /\ NamesInv(inb, tc, bo)
        /\ FreshInv(inb, tc, bo) /\ HandedInv(inb, log, tc, bo)
    BY DEF Once
  <1>2. /\ DOMAIN t = DOMAIN tc \cup {last} /\ t[last] = p
        /\ \A i \in DOMAIN tc : t[i] = tc[i]
    BY AppendPositions
  <1>3. p.type # "PUBLISH" /\ p.type # "PUBREL"
    BY DEF Answering
  <1> HIDE DEF t, last
  <1>4. \A k \in DOMAIN t : Publication(t[k]) \/ t[k].type = "PUBREL" => k \in DOMAIN tc /\ t[k] = tc[k]
    BY <1>2, <1>3 DEF Publication
  <1>5. NumbersInv(inb, log, t, bo, n)
    BY <1>1, <1>4 DEF NumbersInv
  <1>6. NamesInv(inb, t, bo)
    BY <1>1, <1>4 DEF NamesInv
  <1>7. FreshInv(inb, t, bo)
    <2> SUFFICES ASSUME NEW j \in DOMAIN t, t[j].type = "PUBREL"
                 PROVE  /\ \A k \in DOMAIN t : k > j /\ Publication(t[k]) /\ t[k].id = t[j].id /\ Twice(t[k].msg) =>
                               \A id \in DOMAIN inb : inb[id] # t[k].msg
                        /\ \A e \in DOMAIN bo : bo[e].id = t[j].id /\ bo[e].next = "PUBREC" =>
                               \E k \in DOMAIN t : k > j /\ Publication(t[k]) /\ t[k].msg = bo[e].msg
      BY DEF FreshInv
    <2>1. j \in DOMAIN tc /\ t[j] = tc[j]
      BY <1>4
    <2>2. \A k \in DOMAIN t : k > j /\ Publication(t[k]) /\ t[k].id = t[j].id /\ Twice(t[k].msg) =>
              \A id \in DOMAIN inb : inb[id] # t[k].msg
      BY <1>1, <1>4, <2>1 DEF FreshInv
    <2>3. ASSUME NEW e \in DOMAIN bo, bo[e].id = t[j].id, bo[e].next = "PUBREC"
          PROVE  \E k \in DOMAIN t : k > j /\ Publication(t[k]) /\ t[k].msg = bo[e].msg
      <3>1. PICK k \in DOMAIN tc : k > j /\ Publication(tc[k]) /\ tc[k].msg = bo[e].msg
        BY <1>1, <2>1, <2>3 DEF FreshInv
      <3> QED  BY <1>2, <3>1
    <2> QED  BY <2>2, <2>3
  <1>8. HandedInv(inb, log, t, bo)
    BY <1>1, <1>4 DEF HandedInv
  <1> QED  BY <1>5, <1>6, <1>7, <1>8 DEF Once, t

\* The broker's entries change: some of them go, the others may reach PUBCOMP.
LEMMA OnceEntries ==
    ASSUME NEW inb, NEW log, NEW tc, NEW bo, NEW n, Once(inb, log, tc, bo, n), NEW new,
           NEW from, \A e \in DOMAIN new : from[e] \in DOMAIN bo,
           \A e, f \in DOMAIN new : from[e] = from[f] => e = f,
           \A e \in DOMAIN new :
               /\ new[e].id = bo[from[e]].id /\ new[e].msg = bo[from[e]].msg
               /\ new[e].next = bo[from[e]].next \/ new[e].next = "PUBCOMP"
    PROVE  Once(inb, log, tc, new, n)
  <1>1. /\ NumbersInv(inb, log, tc, bo, n) /\ NamesInv(inb, tc, bo)
        /\ FreshInv(inb, tc, bo) /\ HandedInv(inb, log, tc, bo)
    BY DEF Once
  <1>2. NumbersInv(inb, log, tc, new, n)
    BY <1>1 DEF NumbersInv
  <1>3. NamesInv(inb, tc, new)
    <2>1. ASSUME NEW e \in DOMAIN new, NEW f \in DOMAIN new,
                 new[e].id = new[f].id \/ new[e].msg = new[f].msg
          PROVE  e = f
      <3>1. from[e] = from[f]
        BY <1>1, <2>1 DEF NamesInv
      <3> QED  BY <3>1
    <2>2. /\ \A e \in DOMAIN new : Twice(new[e].msg) => new[e].next # "PUBACK"
          /\ \A e \in DOMAIN new, id \in DOMAIN inb : new[e].msg = inb[id] => new[e].id = id
          /\ \A k \in DOMAIN tc : Publication(tc[k]) /\ Twice(tc[k].msg) =>
                 \A e \in DOMAIN new : new[e].msg = tc[k].msg => new[e].id = tc[k].id
      BY <1>1 DEF NamesInv
    <2> QED  BY <1>1, <2>1, <2>2 DEF NamesInv
  <1>4. FreshInv(inb, tc, new)
    <2> SUFFICES ASSUME NEW j \in DOMAIN tc, tc[j].type = "PUBREL",
                        NEW e \in DOMAIN new, new[e].id = tc[j].id, new[e].next = "PUBREC"
                 PROVE  \E k \in DOMAIN tc : k > j /\ Publication(tc[k]) /\ tc[k].msg = new[e].msg
      BY <1>1 DEF FreshInv
    <2>1. bo[from[e]].id = tc[j].id /\ bo[from[e]].next = "PUBREC" /\ from[e] \in DOMAIN bo
      OBVIOUS
    <2> QED  BY <1>1, <2>1 DEF FreshInv
  <1>5. HandedInv(inb, log, tc, new)
    BY <1>1 DEF HandedInv
  <1> QED  BY <1>2, <1>3, <1>4, <1>5 DEF Once

\* A PUBREL joins the channel; no entry with its id awaits PUBREC any more.
LEMMA OncePubrel ==
    ASSUME NEW inb, NEW log, NEW tc \in Seq(Packets), NEW bo, NEW n, Once(inb, log, tc, bo, n),
           NEW p \in Packets, p.type = "PUBREL",
           \A e \in DOMAIN bo : bo[e].id = p.id => bo[e].next # "PUBREC"
    PROVE  Once(inb, log, Append(tc, p), bo, n)
  <1> DEFINE t == Append(tc, p)
             last == Len(tc) + 1
  <1>1. /\ NumbersInv(inb, log, tc, bo, n) /\ NamesInv(inb, tc, bo)
        /\ FreshInv(inb, tc, bo) /\ HandedInv(inb, log, tc, bo)
    BY DEF Once
  <1>2. /\ DOMAIN t = DOMAIN tc \cup {last} /\ t[last] = p /\ DOMAIN tc = 1..Len(tc) /\ Len(tc) \in Nat
        /\ \A i \in DOMAIN tc : t[i] = tc[i] /\ i < last
    BY AppendPositions
  <1>3. last \in Nat /\ ~Publication(p)
    BY <1>2 DEF Publication
  <1> HIDE DEF t, last
  <1>4. \A k \in DOMAIN t : Publication(t[k]) => k \in DOMAIN tc /\ t[k] = tc[k]
    BY <1>2, <1>3
  <1>5. NumbersInv(inb, log, t, bo, n)
    BY <1>1, <1>4 DEF NumbersInv
  <1>6. NamesInv(inb, t, bo)
    BY <1>1, <1>4 DEF NamesInv
  <1>7. FreshInv(inb, t, bo)
    <2> SUFFICES ASSUME NEW j \in DOMAIN t, t[j].type = "PUBREL"
                 PROVE  /\ \A k \in DOMAIN t : k > j /\ Publication(t[k]) /\ t[k].id = t[j].id /\ Twice(t[k].msg) =>
                               \A id \in DOMAIN inb : inb[id] # t[k].msg
                        /\ \A e \in DOMAIN bo : bo[e].id = t[j].id /\ bo[e].next = "PUBREC" =>
                               \E k \in DOMAIN t : k > j /\ Publication(t[k]) /\ t[k].msg = bo[e].msg
      BY DEF FreshInv
    <2>1. CASE j = last
      <3>1. \A k \in DOMAIN t : ~(k > j /\ Publication(t[k]))
        BY <1>2, <1>3, <1>4, <2>1
      <3> QED  BY <1>2, <2>1, <3>1
    <2>2. CASE j \in DOMAIN tc /\ t[j] = tc[j]
      <3>1. \A k \in DOMAIN t : k > j /\ Publication(t[k]) /\ t[k].id = t[j].id /\ Twice(t[k].msg) =>
                \A id \in DOMAIN inb : inb[id] # t[k].msg
        BY <1>1, <1>4, <2>2 DEF FreshInv
      <3>2. ASSUME NEW e \in DOMAIN bo, bo[e].id = t[j].id, bo[e].next = "PUBREC"
            PROVE  \E k \in DOMAIN t : k > j /\ Publication(t[k]) /\ t[k].msg = bo[e].msg
        <4>1. PICK k \in DOMAIN tc : k > j /\ Publication(tc[k]) /\ tc[k].msg = bo[e].msg
          BY <1>1, <2>2, <3>2 DEF FreshInv
        <4> QED  BY <1>2, <4>1
      <3> QED  BY <3>1, <3>2
    <2> QED  BY <1>2, <2>1, <2>2
  <1>8. HandedInv(inb, log, t, bo)
    BY <1>1, <1>4 DEF HandedInv
  <1> QED  BY <1>5, <1>6, <1>7, <1>8 DEF Once, t

\* The broker publishes its next message, under an id that is free.
LEMMA OnceSend ==
    ASSUME NEW inb, NEW log, NEW tc \in Seq(Packets), NEW bo \in Seq(BrokerEntries), NEW n,
           Once(inb, log, tc, bo, n), n < NIn, NIn \in Nat,
           NEW p \in Packets, p.type = "PUBLISH", p.msg = n + 1,
           NEW e \in BrokerEntries, e.id = p.id, e.msg = n + 1, Twice(n + 1) => e.next = "PUBREC",
           \A i \in DOMAIN bo : bo[i].id # e.id
    PROVE  Once(inb, log, Append(tc, p), Append(bo, e), n + 1)
  <1> DEFINE t == Append(tc, p)
             new == Append(bo, e)
             last == Len(tc) + 1
             end == Len(bo) + 1
  <1>1. /\ NumbersInv(inb, log, tc, bo, n) /\ NamesInv(inb, tc, bo)
        /\ FreshInv(inb, tc, bo) /\ HandedInv(inb, log, tc, bo)
    BY DEF Once
  <1>2. /\ DOMAIN t = DOMAIN tc \cup {last} /\ t[last] = p /\ DOMAIN tc = 1..Len(tc) /\ Len(tc) \in Nat
        /\ \A i \in DOMAIN tc : t[i] = tc[i] /\ i < last
    BY AppendPositions
  <1>3. /\ DOMAIN new = DOMAIN bo \cup {end} /\ new[end] = e
        /\ \A i \in DOMAIN bo : new[i] = bo[i]
    BY AppendPositions
  <1> HIDE DEF t, last, new, end
  <1>4. n \in Nat /\ n + 1 \in Nat /\ n + 1 <= NIn /\ n + 1 \in 1..(n + 1) /\ n + 1 \notin 1..n
        /\ 1..n \subseteq 1..(n + 1)
    BY <1>1 DEF NumbersInv
  <1>5. /\ \A k \in DOMAIN tc : Publication(tc[k]) => tc[k].msg # n + 1
        /\ \A i \in DOMAIN bo : bo[i].msg # n + 1
        /\ \A id \in DOMAIN inb : inb[id] # n + 1
        /\ \A i \in DOMAIN log : log[i] # n + 1
    BY <1>1, <1>4 DEF NumbersInv
  <1>6. NumbersInv(inb, log, t, new, n + 1)
    <2>1. /\ \A k \in DOMAIN t : Publication(t[k]) => t[k].msg \in 1..(n + 1)
          /\ \A i \in DOMAIN new : new[i].msg \in 1..(n + 1)
      BY <1>1, <1>2, <1>3, <1>4 DEF NumbersInv
    <2>2. /\ \A id \in DOMAIN inb : inb[id] \in 1..(n + 1) /\ Twice(inb[id])
          /\ \A i \in DOMAIN log : log[i] \in 1..(n + 1)
      BY <1>1, <1>4 DEF NumbersInv
    <2> QED  BY <1>4, <2>1, <2>2 DEF NumbersInv
  <1>7. NamesInv(inb, t, new)
    <2>1. \A i, j \in DOMAIN new : new[i].id = new[j].id \/ new[i].msg = new[j].msg => i = j
      BY <1>1, <1>3, <1>5 DEF NamesInv
    <2>2. \A i \in DOMAIN new : Twice(new[i].msg) => new[i].next # "PUBACK"
      BY <1>1, <1>3 DEF NamesInv
    <2>3. \A i \in DOMAIN new, id \in DOMAIN inb : new[i].msg = inb[id] => new[i].id = id
      BY <1>1, <1>3, <1>5 DEF NamesInv
    <2>4. ASSUME NEW k \in DOMAIN t, Publication(t[k]), Twice(t[k].msg)
          PROVE  /\ \A i \in DOMAIN new : new[i].msg = t[k].msg => new[i].id = t[k].id
                 /\ \A id \in DOMAIN inb : inb[id] = t[k].msg => id = t[k].id
                 /\ \A l \in DOMAIN t : Publication(t[l]) /\ t[l].msg = t[k].msg => k = l
      <3>1. CASE k = last
        BY <1>2, <1>3, <1>5, <3>1
      <3>2. CASE k \in DOMAIN tc /\ t[k] = tc[k]
        <4>1. tc[k].msg # n + 1
          BY <1>5, <2>4, <3>2
        <4>2. \A i \in DOMAIN new : new[i].msg = t[k].msg => new[i].id = t[k].id
          BY <1>1, <1>3, <2>4, <3>2, <4>1 DEF NamesInv
        <4>3. \A id \in DOMAIN inb : inb[id] = t[k].msg => id = t[k].id
          BY <1>1, <2>4, <3>2 DEF NamesInv
        <4>4. \A l \in DOMAIN t : Publication(t[l]) /\ t[l].msg = t[k].msg => k = l
          BY <1>1, <1>2, <2>4, <3>2, <4>1 DEF NamesInv
        <4> QED  BY <4>2, <4>3, <4>4
      <3> QED  BY <1>2, <3>1, <3>2
    <2>5. \A i, j \in DOMAIN inb : inb[i] = inb[j] => i = j
      BY <1>1 DEF NamesInv
    <2> QED  BY <2>1, <2>2, <2>3, <2>4, <2>5 DEF NamesInv
  <1>8. FreshInv(inb, t, new)
    <2> SUFFICES ASSUME NEW j \in DOMAIN t, t[j].type = "PUBREL"
                 PROVE  /\ \A k \in DOMAIN t : k > j /\ Publication(t[k]) /\ t[k].id = t[j].id /\ Twice(t[k].msg) =>
                               \A id \in DOMAIN inb : inb[id] # t[k].msg
                        /\ \A i \in DOMAIN new : new[i].id = t[j].id /\ new[i].next = "PUBREC" =>
                               \E k \in DOMAIN t : k > j /\ Publication(t[k]) /\ t[k].msg = new[i].msg
      BY DEF FreshInv
    <2>1. j \in DOMAIN tc /\ t[j] = tc[j]
      BY <1>2
    <2>2. \A k \in DOMAIN t : k > j /\ Publication(t[k]) /\ t[k].id = t[j].id /\ Twice(t[k].msg) =>
              \A id \in DOMAIN inb : inb[id] # t[k].msg
      BY <1>1, <1>2, <1>5, <2>1 DEF FreshInv
    <2>3. ASSUME NEW i \in DOMAIN new, new[i].id = t[j].id, new[i].next = "PUBREC"
          PROVE  \E k \in DOMAIN t : k > j /\ Publication(t[k]) /\ t[k].msg = new[i].msg
      <3>1. CASE i = end
        <4>1. last \in DOMAIN t /\ last > j /\ Publication(t[last]) /\ t[last].msg = new[i].msg
          <5>1. last > j
            BY <1>2, <2>1
          <5> QED  BY <1>2, <1>3, <3>1, <5>1 DEF Publication
        <4> QED  BY <4>1
      <3>2. CASE i \in DOMAIN bo /\ new[i] = bo[i]
        <4>1. PICK k \in DOMAIN tc : k > j /\ Publication(tc[k]) /\ tc[k].msg = bo[i].msg
          BY <1>1, <2>1, <2>3, <3>2 DEF FreshInv
        <4> QED  BY <1>2, <3>2, <4>1
      <3> QED  BY <1>3, <3>1, <3>2
    <2> QED  BY <2>2, <2>3
  <1>9. HandedInv(inb, log, t, new)
    BY <1>1, <1>2, <1>3, <1>5 DEF HandedInv
  <1> QED  BY <1>6, <1>7, <1>8, <1>9 DEF Once, t, new

\* The broker sends on a new connection what it has no end of.
Resumed(bo) ==
    [i \in DOMAIN bo |-> IF bo[i].next = "PUBCOMP" THEN Ack("PUBREL", bo[i].id)
                         ELSE Packet("PUBLISH", bo[i].id, bo[i].msg)]

LEMMA OnceResume ==
    ASSUME NEW inb, NEW log, NEW tc, NEW bo, NEW n, Once(inb, log, tc, bo, n)
    PROVE  Once(inb, log, Resumed(bo), bo, n)
  <1> DEFINE t == Resumed(bo)
  <1>1. /\ NumbersInv(inb, log, tc, bo, n) /\ NamesInv(inb, tc, bo)
        /\ FreshInv(inb, tc, bo) /\ HandedInv(inb, log, tc, bo)
    BY DEF Once
  <1>2. DOMAIN t = DOMAIN bo
    BY DEF Resumed
  <1>3. ASSUME NEW k \in DOMAIN t
        PROVE  /\ k \in DOMAIN bo /\ t[k].id = bo[k].id
               /\ Publication(t[k]) => bo[k].next # "PUBCOMP" /\ t[k].msg = bo[k].msg
               /\ t[k].type = "PUBREL" => bo[k].next = "PUBCOMP"
    <2>1. k \in DOMAIN bo
      BY <1>2
    <2>2. CASE bo[k].next = "PUBCOMP"
      <3>1. t[k] = Ack("PUBREL", bo[k].id)
        BY <2>1, <2>2 DEF Resumed
      <3> QED  BY <2>1, <2>2, <3>1 DEF Ack, Packet, Publication
    <2>3. CASE bo[k].next # "PUBCOMP"
      <3>1. t[k] = Packet("PUBLISH", bo[k].id, bo[k].msg)
        BY <2>1, <2>3 DEF Resumed
      <3> QED  BY <2>1, <2>3, <3>1 DEF Packet, Publication
    <2> QED  BY <2>2, <2>3
  <1> HIDE DEF t
  <1>4. NumbersInv(inb, log, t, bo, n)
    BY <1>1, <1>3 DEF NumbersInv
  <1>5. NamesInv(inb, t, bo)
    <2>1. ASSUME NEW k \in DOMAIN t, Publication(t[k]), Twice(t[k].msg)
          PROVE  /\ \A i \in DOMAIN bo : bo[i].msg = t[k].msg => bo[i].id = t[k].id
                 /\ \A id \in DOMAIN inb : inb[id] = t[k].msg => id = t[k].id
                 /\ \A l \in DOMAIN t : Publication(t[l]) /\ t[l].msg = t[k].msg => k = l
      <3>1. k \in DOMAIN bo /\ t[k].id = bo[k].id /\ t[k].msg = bo[k].msg
        BY <1>3, <2>1
      <3>2. \A l \in DOMAIN t : Publication(t[l]) => l \in DOMAIN bo /\ t[l].msg = bo[l].msg
        BY <1>3
      <3> QED  BY <1>1, <3>1, <3>2 DEF NamesInv
    <2> QED  BY <1>1, <2>1 DEF NamesInv
  <1>6. FreshInv(inb, t, bo)
    <2> SUFFICES ASSUME NEW j \in DOMAIN t, t[j].type = "PUBREL"
                 PROVE  /\ \A k \in DOMAIN t : ~(Publication(t[k]) /\ t[k].id = t[j].id)
                        /\ \A e \in DOMAIN bo : bo[e].id = t[j].id => bo[e].next = "PUBCOMP"
      BY DEF FreshInv
    <2>1. j \in DOMAIN bo /\ t[j].id = bo[j].id /\ bo[j].next = "PUBCOMP"
      BY <1>3
    <2> QED  BY <1>1, <1>3, <2>1 DEF NamesInv
  <1>7. HandedInv(inb, log, t, bo)
    <2>1. ASSUME NEW i \in DOMAIN log, Twice(log[i]), NEW k \in DOMAIN t, Publication(t[k])
          PROVE  t[k].msg # log[i]
      BY <1>1, <1>3, <2>1 DEF HandedInv
    <2> QED  BY <1>1, <2>1 DEF HandedInv
  <1> QED  BY <1>4, <1>5, <1>6, <1>7 DEF Once, t

\* A message joins the queue; the application takes one.
LEMMA QueueGrows ==
    ASSUME NEW a \in Seq(Nat), NEW q \in Seq(QueueEntries), NEW e \in QueueEntries
    PROVE  /\ a \o Queued(q) \in Seq(Nat)
           /\ a \o Queued(Append(q, e)) = Append(a \o Queued(q), e.msg)
  <1> DEFINE s == Queued(q)
             t == Queued(Append(q, e))
  <1>1. /\ Len(q) \in Nat /\ DOMAIN q = 1..Len(q) /\ \A i \in 1..Len(q) : q[i] \in QueueEntries
        /\ DOMAIN Append(q, e) = 1..(Len(q) + 1) /\ Append(q, e)[Len(q) + 1] = e
        /\ \A i \in 1..Len(q) : Append(q, e)[i] = q[i]
    OBVIOUS
  <1>2. e.msg \in Nat /\ \A i \in 1..Len(q) : q[i].msg \in Nat
    BY <1>1 DEF QueueEntries
  <1>3. s \in Seq(Nat) /\ Len(s) = Len(q) /\ \A i \in 1..Len(q) : s[i] = q[i].msg
    <2>1. s = [i \in 1..Len(q) |-> q[i].msg]
      BY <1>1 DEF Queued
    <2> HIDE DEF s
    <2> QED  BY <1>1, <1>2, <2>1
  <1>4. t \in Seq(Nat) /\ Len(t) = Len(q) + 1 /\ t[Len(q) + 1] = e.msg /\ \A i \in 1..Len(q) : t[i] = q[i].msg
    <2>1. t = [i \in 1..(Len(q) + 1) |-> Append(q, e)[i].msg]
      BY <1>1 DEF Queued
    <2> HIDE DEF t
    <2>2. t \in Seq(Nat) /\ Len(t) = Len(q) + 1
      BY <1>1, <1>2, <2>1
    <2>3. t[Len(q) + 1] = e.msg /\ \A i \in 1..Len(q) : t[i] = q[i].msg
      BY <1>1, <2>1
    <2> QED  BY <2>2, <2>3
  <1> HIDE DEF s, t
  <1>5. t = Append(s, e.msg)
    <2>1. /\ Append(s, e.msg) \in Seq(Nat) /\ Len(Append(s, e.msg)) = Len(q) + 1
          /\ Append(s, e.msg)[Len(q) + 1] = e.msg
          /\ \A i \in 1..Len(q) : Append(s, e.msg)[i] = s[i]
      BY <1>2, <1>3
    <2>2. \A i \in 1..Len(t) : t[i] = Append(s, e.msg)[i]
      BY <1>1, <1>3, <1>4, <2>1
    <2> QED  BY <1>4, <2>1, <2>2, SeqEqual
  <1>6. a \o Append(s, e.msg) = Append(a \o s, e.msg)
    BY <1>2, <1>3
  <1> QED  BY <1>3, <1>5, <1>6 DEF s, t

LEMMA QueueShrinks ==
    ASSUME NEW a \in Seq(Nat), NEW q \in Seq(QueueEntries), q # <<>>
    PROVE  /\ Append(a, Head(q).msg) \in Seq(Nat) /\ Tail(q) \in Seq(QueueEntries)
           /\ Append(a, Head(q).msg) \o Queued(Tail(q)) = a \o Queued(q)
  <1> DEFINE s == Queued(q)
             t == Queued(Tail(q))
             h == Head(q).msg
  <1>1. /\ Len(q) \in Nat \ {0} /\ DOMAIN q = 1..Len(q) /\ \A i \in 1..Len(q) : q[i] \in QueueEntries
        /\ Head(q) = q[1] /\ Tail(q) \in Seq(QueueEntries) /\ DOMAIN Tail(q) = 1..(Len(q) - 1)
        /\ \A i \in 1..(Len(q) - 1) : Tail(q)[i] = q[i + 1]
    BY TailPositions
  <1>2. h \in Nat /\ \A i \in 1..Len(q) : q[i].msg \in Nat
    BY <1>1 DEF QueueEntries
  <1>3. s \in Seq(Nat) /\ Len(s) = Len(q) /\ \A i \in 1..Len(q) : s[i] = q[i].msg
    <2>1. s = [i \in 1..Len(q) |-> q[i].msg]
      BY <1>1 DEF Queued
    <2> HIDE DEF s
    <2> QED  BY <1>1, <1>2, <2>1
  <1>4. t \in Seq(Nat) /\ Len(t) = Len(q) - 1 /\ \A i \in 1..(Len(q) - 1) : t[i] = q[i + 1].msg
    <2>1. t = [i \in 1..(Len(q) - 1) |-> q[i + 1].msg]
      BY <1>1 DEF Queued
    <2>2. \A i \in 1..(Len(q) - 1) : q[i + 1].msg \in Nat
      BY <1>1, <1>2
    <2> HIDE DEF t
    <2> QED  BY <1>1, <2>1, <2>2
  <1> HIDE DEF s, t, h
  <1>5. Append(a, h) \in Seq(Nat) /\ Len(Append(a, h)) = Len(a) + 1 /\ Append(a, h)[Len(a) + 1] = h
        /\ \A i \in 1..Len(a) : Append(a, h)[i] = a[i]
    BY <1>2
  <1> DEFINE u == Append(a, h)
  <1> HIDE DEF u
  <1>6. /\ u \o t \in Seq(Nat) /\ Len(u \o t) = Len(u) + Len(t)
        /\ \A i \in 1 .. Len(u) + Len(t) : (u \o t)[i] = IF i <= Len(u) THEN u[i] ELSE t[i - Len(u)]
    BY <1>4, <1>5, ConcatProperties DEF u
  <1>7. /\ a \o s \in Seq(Nat) /\ Len(a \o s) = Len(a) + Len(s)
        /\ \A i \in 1 .. Len(a) + Len(s) : (a \o s)[i] = IF i <= Len(a) THEN a[i] ELSE s[i - Len(a)]
    BY <1>3, ConcatProperties
  <1>8. Len(u \o t) = Len(a \o s) /\ Len(a) \in Nat /\ Len(u) = Len(a) + 1
    BY <1>1, <1>3, <1>4, <1>5, <1>6, <1>7 DEF u
  <1>9. ASSUME NEW i \in 1..Len(u \o t) PROVE (u \o t)[i] = (a \o s)[i]
    <2>0. i \in 1 .. Len(u) + Len(t) /\ i \in 1 .. Len(a) + Len(s) /\ i \in Nat
      BY <1>6, <1>7, <1>8
    <2>1. CASE i <= Len(a)
      BY <1>5, <1>6, <1>7, <1>8, <2>0, <2>1 DEF u
    <2>2. CASE i = Len(a) + 1
      <3>1. (u \o t)[i] = h
        BY <1>5, <1>6, <1>8, <2>0, <2>2 DEF u
      <3>2. (a \o s)[i] = s[1]
        BY <1>7, <1>8, <2>0, <2>2
      <3>3. s[1] = h
        BY <1>1, <1>3 DEF h
      <3> QED  BY <3>1, <3>2, <3>3
    <2>3. CASE i > Len(a) + 1
      <3>1. i - Len(u) \in 1..(Len(q) - 1) /\ (i - Len(u)) + 1 = i - Len(a) /\ i - Len(a) \in 1..Len(q)
        BY <1>1, <1>3, <1>8, <2>0, <2>3
      <3>2. ~(i <= Len(u)) /\ ~(i <= Len(a))
        BY <1>8, <2>0, <2>3
      <3>3. (u \o t)[i] = t[i - Len(u)]
        BY <1>6, <2>0, <3>2
      <3>4. (a \o s)[i] = s[i - Len(a)]
        BY <1>7, <2>0, <3>2
      <3> QED  BY <1>3, <1>4, <3>1, <3>3, <3>4
    <2> QED  BY <1>8, <2>0, <2>1, <2>2, <2>3
  <1>10. u \o t = a \o s
    BY <1>6, <1>7, <1>8, <1>9, SeqEqual
  <1> QED  BY <1>1, <1>5, <1>10 DEF u, s, t, h

\* Unless it crashes, a handler leaves the messages of the broker as m has them.
Keeps(m) ==
    /\ crashes' \in Nat
    /\ crashes' = 0 =>
          crashes = 0 /\ mem'.up = m.up /\ mem'.inbound = m.inbound /\ mem'.queue = m.queue

\* The count of the crashes after one.
LEMMA CrashCounted ==
    ASSUME crashes \in Nat, crashes' = crashes + 1
    PROVE  ArrivalInv' /\ \A m : Keeps(m)
  <1>1. crashes' \in Nat /\ crashes' # 0
    OBVIOUS
  <1> QED  BY <1>1 DEF ArrivalInv, Keeps

LEMMA PerformKeeps ==
    ASSUME crashes \in Nat, NEW m, NEW disks, NEW written, Perform(disks, m, written)
    PROVE  Keeps(m)
  <1>1. CASE CrashIn(disks)
    BY <1>1, CrashCounted DEF CrashIn, CrashWith
  <1>2. CASE mem' = m /\ crashes' = crashes
    BY <1>2 DEF Keeps
  <1> QED  BY <1>1, <1>2 DEF Perform

LEMMA SendKeeps ==
    ASSUME crashes \in Nat, NEW m, m = [f \in Fields |-> m[f]], NEW disks, NEW p, Send(disks, m, p)
    PROVE  Keeps(m)
  <1> DEFINE k == [m EXCEPT !.partial = <<p>>]
  <1>1. k.up = m.up /\ k.inbound = m.inbound /\ k.queue = m.queue
    BY DEF Fields
  <1> HIDE DEF k
  <1>2. Keeps(m) \/ Keeps(k)
    BY PerformKeeps DEF Send, k
  <1> QED  BY <1>1, <1>2 DEF Keeps

LEMMA AckKeeps ==
    ASSUME crashes \in Nat, NEW m, m = [f \in Fields |-> m[f]], NEW disks, NEW p, SendAck(disks, m, p)
    PROVE  Keeps(m)
  <1> DEFINE s == Append(m.acks, p)
             k == [m EXCEPT !.acks = s]
  <1>1. k.up = m.up /\ k.inbound = m.inbound /\ k.queue = m.queue
    BY DEF Fields
  <1>2. CASE m.partial # <<>>
    <2>1. Perform(disks, k, <<>>)
      BY <1>2 DEF SendAck
    <2> HIDE DEF k
    <2>2. Keeps(k)
      BY <2>1, PerformKeeps
    <2> QED  BY <1>1, <2>2 DEF Keeps
  <1>3. CASE m.partial = <<>>
    <2>1. Send(AckDisks(disks, p), m, p)
      BY <1>3 DEF SendAck, AckDisks
    <2> QED  BY <2>1, SendKeeps
  <1> QED  BY <1>2, <1>3

\* A step of the client that changes none of the broker's messages; it may read a
\* packet.
LEMMA ArrivalKept ==
    ASSUME TypeInv, ArrivalInv, Keeps(mem), UNCHANGED <<arrived, bout, sentIn>>,
           toClient' = toClient \/ (toClient # <<>> /\ toClient' = Tail(toClient))
    PROVE  ArrivalInv'
  <1> SUFFICES ASSUME crashes' = 0
               PROVE  /\ mem'.up /\ arrived' \in Seq(Nat) /\ mem'.queue \in Seq(QueueEntries)
                      /\ Once(mem'.inbound, Handed', toClient', bout', sentIn')
    BY DEF ArrivalInv, Keeps
  <1>1. /\ mem'.up = mem.up /\ mem'.inbound = mem.inbound /\ mem'.queue = mem.queue
        /\ mem.up /\ arrived \in Seq(Nat) /\ mem.queue \in Seq(QueueEntries)
        /\ Once(mem.inbound, Handed, toClient, bout, sentIn)
    BY DEF ArrivalInv, Keeps
  <1>2. Handed' = Handed
    BY <1>1 DEF Handed
  <1>3. Once(mem.inbound, Handed, toClient', bout, sentIn)
    BY <1>1, OnceTail DEF TypeInv, NetworkType
  <1> QED  BY <1>1, <1>2, <1>3

LEMMA EnqueueArrival ==
    ASSUME ArrivalInv, crashes = 0, NEW m, MemoryType(m), m.up, m.queue = mem.queue, NEW msg \in Nat
    PROVE  /\ Enqueue(m, msg).queue \in Seq(QueueEntries)
           /\ arrived \o Queued(Enqueue(m, msg).queue) = Append(Handed, msg)
           /\ Handed \in Seq(Nat)
  <1> DEFINE n == NextSeqno(m.seqno)
             e == [seqno |-> n, msg |-> msg]
  <1>1. arrived \in Seq(Nat) /\ mem.queue \in Seq(QueueEntries)
    BY DEF ArrivalInv
  <1>2. n \in Nat
    <2>1. m.seqno \in 0..(SeqnoLimit - 1) /\ SeqnoLimit \in Nat \ {0}
      BY SessionAssumption DEF Seqnos, MemoryType
    <2> QED  BY <2>1 DEF NextSeqno
  <1>3. e \in QueueEntries /\ e.msg = msg
    BY <1>2 DEF QueueEntries
  <1>4. Enqueue(m, msg).queue = Append(m.queue, e)
    BY DEF Enqueue, MemoryType, Fields
  <1> HIDE DEF e, n
  <1>5. Append(mem.queue, e) \in Seq(QueueEntries)
    BY <1>1, <1>3
  <1>6. /\ arrived \o Queued(mem.queue) \in Seq(Nat)
        /\ arrived \o Queued(Append(mem.queue, e)) = Append(arrived \o Queued(mem.queue), msg)
    BY <1>1, <1>3, QueueGrows
  <1> QED  BY <1>4, <1>5, <1>6 DEF Handed

\* The handlers of PUBLISH and PUBREL.
LEMMA ReadsArrival ==
    ASSUME TypeInv, ArrivalInv, NEW type, Reads(type)
    PROVE  /\ MemoryType(mem) /\ mem = [f \in Fields |-> mem[f]] /\ DOMAIN mem.inbound \subseteq Ids
           /\ toClient \in Seq(Packets) /\ toClient # <<>> /\ toClient' = Tail(toClient)
           /\ bout \in Seq(BrokerEntries) /\ crashes \in Nat /\ mem.up
           /\ Received = toClient[1] /\ Received \in Packets /\ Received.type = type
           /\ 1 \in DOMAIN toClient /\ DOMAIN toClient = 1..Len(toClient) /\ Len(toClient) \in Nat
           /\ UNCHANGED <<arrived, bout, sentIn>>
  <1>1. /\ MemoryType(mem) /\ mem = [f \in Fields |-> mem[f]] /\ DOMAIN mem.inbound \subseteq Ids
        /\ toClient \in Seq(Packets) /\ bout \in Seq(BrokerEntries) /\ crashes \in Nat
    BY DEF TypeInv, MemoryType, NetworkType, ArrivalInv
  <1>2. /\ toClient # <<>> /\ toClient' = Tail(toClient) /\ mem.up /\ Received.type = type
        /\ UNCHANGED <<arrived, bout, sentIn>>
    BY ReadsOutcome DEF Reads
  <1>3. Received = Head(toClient)
    BY DEF Received
  <1> QED  BY <1>1, <1>2, <1>3, TailPositions

LEMMA HandlePublishesArrival ==
    ASSUME TypeInv, ArrivalInv, HandlePublishes
    PROVE  ArrivalInv'
  <1> DEFINE id == Received.id
             msg == Received.msg
             n == sentIn
  <1>1. /\ MemoryType(mem) /\ mem.up /\ toClient \in Seq(Packets) /\ toClient # <<>>
        /\ toClient' = Tail(toClient) /\ UNCHANGED <<arrived, bout, sentIn>>
        /\ crashes \in Nat /\ mem = [f \in Fields |-> mem[f]]
    BY ReadsArrival DEF HandlePublishes
  <1>2. /\ 1 \in DOMAIN toClient /\ Received = toClient[1] /\ Publication(toClient[1])
        /\ Received \in Packets /\ \A j \in DOMAIN toClient : ~(1 > j)
    <2>1. /\ 1 \in DOMAIN toClient /\ Received = toClient[1] /\ Received.type = "PUBLISH"
          /\ Received \in Packets /\ DOMAIN toClient = 1..Len(toClient) /\ Len(toClient) \in Nat
      BY ReadsArrival DEF HandlePublishes
    <2> QED  BY <2>1 DEF Publication
  <1>3. msg \in Nat /\ id \in Ids
    BY <1>2 DEF Packets
  <1>4. crashes = 0 =>
            /\ Once(mem.inbound, Handed, toClient, bout, n) /\ msg \in 1..n
            /\ arrived \in Seq(Nat) /\ mem.queue \in Seq(QueueEntries)
    BY <1>2 DEF ArrivalInv, Once, NumbersInv
  <1>5. CASE InQos[msg] = 1
    <2> DEFINE m == Enqueue(mem, msg)
    <2>1. m = [f \in Fields |-> m[f]] /\ m.up = mem.up /\ m.inbound = mem.inbound
      <3>1. MemoryType(m) /\ Same(m, mem, Fields \ {"queue", "seqno"})
        BY <1>1, EnqueueType
      <3> HIDE DEF m
      <3> QED  BY <3>1 DEF Same, Fields, MemoryType
    <2>2. SendAck(<<disk, TearQueueEntry(disk, m.seqno), PersistQueueEntry(disk, m.seqno, msg)>>,
                  m, Ack("PUBACK", id))
      BY <1>5 DEF HandlePublishes
    <2>3. crashes = 0 =>
              /\ m.queue \in Seq(QueueEntries) /\ Handed \in Seq(Nat)
              /\ arrived \o Queued(m.queue) = Append(Handed, msg)
      BY <1>1, <1>3, EnqueueArrival
    <2> HIDE DEF m, msg, id
    <2>4. Keeps(m)
      BY <1>1, <2>1, <2>2, AckKeeps
    <2> SUFFICES ASSUME crashes' = 0
                 PROVE  /\ mem'.up /\ arrived' \in Seq(Nat) /\ mem'.queue \in Seq(QueueEntries)
                        /\ Once(mem'.inbound, Handed', toClient', bout', sentIn')
      BY <2>4 DEF ArrivalInv, Keeps
    <2>5. /\ crashes = 0 /\ mem'.up = m.up /\ mem'.inbound = mem.inbound /\ mem'.queue = m.queue
      BY <2>1, <2>4 DEF Keeps
    <2>6. Handed' = Append(Handed, msg)
      BY <1>1, <2>3, <2>5 DEF Handed
    <2>7. Once(mem.inbound, Append(Handed, msg), toClient, bout, n)
      <3>1. ~Twice(msg)
        BY <1>5 DEF Twice
      <3> QED  BY <1>4, <2>3, <2>5, <3>1, OnceQueue
    <2>8. Once(mem.inbound, Append(Handed, msg), Tail(toClient), bout, n)
      BY <1>1, <2>7, OnceTail
    <2> QED  BY <1>1, <1>4, <2>1, <2>3, <2>5, <2>6, <2>8
  <1>6. CASE InQos[msg] # 1
    <2> DEFINE f == Put(mem.inbound, id, msg)
               m == [mem EXCEPT !.inbound = f]
    <2>1. m = [x \in Fields |-> m[x]] /\ m.up = mem.up /\ m.inbound = f /\ m.queue = mem.queue
      BY <1>1 DEF Fields, MemoryType
    <2>2. SendAck(<<disk, TearReceived(disk, id), PutReceived(disk, id, msg)>>,
                  m, Ack("PUBREC", id))
      BY <1>6 DEF HandlePublishes
    <2>3. /\ DOMAIN f = DOMAIN mem.inbound \cup {id} /\ f[id] = msg
          /\ \A i \in DOMAIN mem.inbound : i # id => f[i] = mem.inbound[i]
      BY DEF Put
    <2>4. Keeps(m)
      <3> HIDE DEF m
      <3> QED  BY <1>1, <2>1, <2>2, AckKeeps
    <2> HIDE DEF m, f
    <2> SUFFICES ASSUME crashes' = 0
                 PROVE  /\ mem'.up /\ arrived' \in Seq(Nat) /\ mem'.queue \in Seq(QueueEntries)
                        /\ Once(mem'.inbound, Handed', toClient', bout', sentIn')
      BY <2>4 DEF ArrivalInv, Keeps
    <2>5. /\ crashes = 0 /\ mem'.up = mem.up /\ mem'.inbound = f /\ mem'.queue = mem.queue
      BY <2>1, <2>4 DEF Keeps
    <2>6. Handed' = Handed
      BY <1>1, <2>5 DEF Handed
    <2>7. Twice(msg)
      <3>1. msg \in 1..NIn
        <4>1. n \in Nat /\ n <= NIn /\ msg \in 1..n /\ NIn \in Nat
          BY <1>4, <2>5, SessionAssumption DEF Once, NumbersInv
        <4> QED  BY <4>1
      <3>2. InQos[msg] \in {1, 2}
        BY <3>1, SessionAssumption
      <3> QED  BY <1>6, <3>2 DEF Twice
    <2>8. Once(f, Handed, toClient, bout, n)
      BY <1>2, <1>4, <2>3, <2>5, <2>7, OnceReceive
    <2>9. Once(f, Handed, Tail(toClient), bout, n)
      BY <1>1, <2>8, OnceTail
    <2> QED  BY <1>1, <1>4, <2>5, <2>6, <2>9
  <1> QED  BY <1>5, <1>6

LEMMA HandlePubrelsArrival ==
    ASSUME TypeInv, ArrivalInv, HandlePubrels
    PROVE  ArrivalInv'
  <1> DEFINE id == Received.id
             n == sentIn
  <1>1. /\ MemoryType(mem) /\ mem.up /\ toClient \in Seq(Packets) /\ toClient # <<>>
        /\ toClient' = Tail(toClient) /\ UNCHANGED <<arrived, bout, sentIn>>
        /\ crashes \in Nat /\ bout \in Seq(BrokerEntries)
        /\ mem = [f \in Fields |-> mem[f]] /\ DOMAIN mem.inbound \subseteq Ids
    BY ReadsArrival DEF HandlePubrels
  <1>2. /\ 1 \in DOMAIN toClient /\ Received = toClient[1] /\ toClient[1].type = "PUBREL"
        /\ \A j \in DOMAIN toClient : j = 1 \/ j > 1
    <2>1. /\ 1 \in DOMAIN toClient /\ Received = toClient[1] /\ Received.type = "PUBREL"
          /\ DOMAIN toClient = 1..Len(toClient) /\ Len(toClient) \in Nat
      BY ReadsArrival DEF HandlePubrels
    <2> QED  BY <2>1
  <1>3. CASE id \notin DOMAIN mem.inbound
    <2>1. SendAck(<<disk>>, mem, Ack("PUBCOMP", id))
      BY <1>3 DEF HandlePubrels
    <2>2. Keeps(mem)
      BY <1>1, <2>1, AckKeeps
    <2> QED  BY <1>1, <2>2, ArrivalKept
  <1>4. CASE id \in DOMAIN mem.inbound
    <2> DEFINE msg == mem.inbound[id]
               f == Without(mem.inbound, id)
               k == [mem EXCEPT !.inbound = f]
               m == Enqueue(k, msg)
               d == PersistQueueEntry(disk, m.seqno, msg)
    <2>1. SendAck(<<disk, TearQueueEntry(disk, m.seqno), d, RemoveReceived(d, id)>>,
                  m, Ack("PUBCOMP", id))
      BY <1>4 DEF HandlePubrels
    <2>2. MemoryType(k) /\ k.up /\ k.inbound = f /\ k.queue = mem.queue
      <3>1. DOMAIN f \subseteq Ids
        BY <1>1 DEF Without
      <3>2. k.up = mem.up /\ k.inbound = f /\ k.queue = mem.queue
        BY <1>1 DEF Fields
      <3>3. MemoryType(k)
        <4> HIDE DEF f
        <4> QED  BY <1>1, <3>1, MemoryFields
      <3> QED  BY <1>1, <3>2, <3>3
    <2> HIDE DEF k
    <2>3. m = [x \in Fields |-> m[x]] /\ m.up = k.up /\ m.inbound = f
      <3>1. MemoryType(m) /\ Same(m, k, Fields \ {"queue", "seqno"})
        BY <2>2, EnqueueType
      <3> HIDE DEF m
      <3> QED  BY <2>2, <3>1 DEF Same, Fields, MemoryType
    <2>4. crashes = 0 =>
              /\ msg \in Nat /\ Once(mem.inbound, Handed, toClient, bout, n)
              /\ arrived \in Seq(Nat)
      BY <1>4 DEF ArrivalInv, Once, NumbersInv
    <2>5. crashes = 0 =>
              /\ m.queue \in Seq(QueueEntries) /\ Handed \in Seq(Nat)
              /\ arrived \o Queued(m.queue) = Append(Handed, msg)
      <3> HIDE DEF msg
      <3> QED  BY <2>2, <2>4, EnqueueArrival
    <2>6. Keeps(m)
      <3> HIDE DEF m, d, msg
      <3> QED  BY <1>1, <2>1, <2>3, AckKeeps
    <2> HIDE DEF m
    <2> SUFFICES ASSUME crashes' = 0
                 PROVE  /\ mem'.up /\ arrived' \in Seq(Nat) /\ mem'.queue \in Seq(QueueEntries)
                        /\ Once(mem'.inbound, Handed', toClient', bout', sentIn')
      BY <2>6 DEF ArrivalInv, Keeps
    <2>7. /\ crashes = 0 /\ mem'.up = m.up /\ mem'.inbound = f /\ mem'.queue = m.queue
      BY <2>3, <2>6 DEF Keeps
    <2>8. Handed' = Append(Handed, msg)
      BY <1>1, <2>5, <2>7 DEF Handed
    <2>9. Once(f, Append(Handed, msg), toClient, bout, n)
      <3> DEFINE x == toClient[1].id
      <3>1. id = x
        BY <1>2
      <3>2. Once(Without(mem.inbound, x), Append(Handed, mem.inbound[x]), toClient, bout, n)
        <4>1. x \in DOMAIN mem.inbound
          BY <1>4, <3>1
        <4> QED  BY <1>1, <1>2, <2>4, <2>5, <2>7, <4>1, OnceRelease
      <3> QED  BY <3>1, <3>2
    <2>10. Once(f, Append(Handed, msg), Tail(toClient), bout, n)
      BY <1>1, <2>9, OnceTail
    <2> QED  BY <1>1, <2>2, <2>3, <2>4, <2>5, <2>7, <2>8, <2>10
  <1> QED  BY <1>3, <1>4

\* The application takes a message.
LEMMA DeliverArrival ==
    ASSUME TypeInv, ArrivalInv, Deliver
    PROVE  ArrivalInv'
  <1> DEFINE m == [mem EXCEPT !.queue = Tail(@)]
  <1>1. /\ crashes \in Nat /\ mem = [f \in Fields |-> mem[f]] /\ mem.queue # <<>>
        /\ arrived' = Append(arrived, Head(mem.queue).msg)
        /\ Perform(<<disk, UnpersistQueueEntry(disk, Head(mem.queue).seqno)>>, m, <<>>)
        /\ UNCHANGED <<toClient, bout, sentIn>>
    <2>1. crashes \in Nat /\ mem = [f \in Fields |-> mem[f]]
      BY DEF TypeInv, MemoryType, ArrivalInv
    <2>2. /\ mem.queue # <<>> /\ arrived' = Append(arrived, Head(mem.queue).msg)
          /\ Perform(<<disk, UnpersistQueueEntry(disk, Head(mem.queue).seqno)>>, m, <<>>)
      BY DEF Deliver
    <2>3. UNCHANGED <<toClient, brokerVars>>
      BY DEF Deliver
    <2> HIDE DEF m
    <2> QED  BY <2>1, <2>2, <2>3
  <1>2. m.up = mem.up /\ m.inbound = mem.inbound /\ m.queue = Tail(mem.queue)
    BY <1>1 DEF Fields
  <1>3. Keeps(m)
    BY <1>1, PerformKeeps
  <1> HIDE DEF m
  <1> SUFFICES ASSUME crashes' = 0
               PROVE  /\ mem'.up /\ arrived' \in Seq(Nat) /\ mem'.queue \in Seq(QueueEntries)
                      /\ Once(mem'.inbound, Handed', toClient', bout', sentIn')
    BY <1>3 DEF ArrivalInv, Keeps
  <1>4. /\ crashes = 0 /\ mem'.up = mem.up /\ mem'.inbound = mem.inbound /\ mem'.queue = Tail(mem.queue)
    BY <1>2, <1>3 DEF Keeps
  <1>5. /\ mem.up /\ arrived \in Seq(Nat) /\ mem.queue \in Seq(QueueEntries)
        /\ Once(mem.inbound, Handed, toClient, bout, sentIn)
    BY <1>4 DEF ArrivalInv
  <1>6. /\ arrived' \in Seq(Nat) /\ Tail(mem.queue) \in Seq(QueueEntries)
        /\ Handed' = Handed
    BY <1>1, <1>4, <1>5, QueueShrinks DEF Handed
  <1> QED  BY <1>1, <1>4, <1>5, <1>6

\* The steps of the broker leave the client alone.
LEMMA BrokerArrival ==
    ASSUME ArrivalInv, mem' = mem, arrived' = arrived, crashes' = crashes,
           \A inb, log : Once(inb, log, toClient, bout, sentIn)
                             => Once(inb, log, toClient', bout', sentIn')
    PROVE  ArrivalInv'
  <1>1. Handed' = Handed
    BY DEF Handed
  <1> QED  BY <1>1 DEF ArrivalInv

LEMMA BrokerStepArrival ==
    ASSUME SessionInv, ArrivalInv, BrokerStep
    PROVE  ArrivalInv'
  <1>1. toClient \in Seq(Packets) /\ bout \in Seq(BrokerEntries)
    BY DEF SessionInv, TypeInv, NetworkType
  <1>2. ASSUME NEW type, BrokerReads(type)
        PROVE  /\ mem' = mem /\ arrived' = arrived /\ crashes' = crashes /\ sentIn' = sentIn
               /\ Head(toBroker).id \in Ids
    <2>1. Head(toBroker) \in Packets
      BY <1>2, BrokerReadsOutcome
    <2> QED  BY <1>2, <2>1 DEF BrokerReads, Packets
  <1>3. ASSUME NEW inb, NEW log, Once(inb, log, toClient, bout, sentIn),
               NEW t \in Answering, NEW type, BrokerReads(type), Answer(t)
        PROVE  Once(inb, log, toClient', bout, sentIn)
    <2>1. Ack(t, Head(toBroker).id) \in Packets /\ Ack(t, Head(toBroker).id).type = t
      BY <1>2, <1>3, AckType
    <2> DEFINE p == Ack(t, Head(toBroker).id)
    <2>2. toClient' = Append(toClient, p)
      BY <1>3 DEF Answer
    <2> HIDE DEF p
    <2> QED  BY <1>1, <1>3, <2>1, <2>2, OnceAnswer DEF p
  <1>4. CASE BrokerPublish
    <2>1. /\ BrokerReads("PUBLISH") /\ bout' = bout
          /\ Answer("PUBACK") \/ Answer("PUBREC")
      BY <1>4 DEF BrokerPublish
    <2>2. "PUBACK" \in Answering /\ "PUBREC" \in Answering
      BY DEF Answering
    <2>3. \A inb, log : Once(inb, log, toClient, bout, sentIn)
                            => Once(inb, log, toClient', bout, sentIn)
      BY <1>3, <2>1, <2>2
    <2> QED  BY <1>2, <2>1, <2>3, BrokerArrival
  <1>5. CASE BrokerPubrel
    <2>1. /\ BrokerReads("PUBREL") /\ bout' = bout /\ Answer("PUBCOMP")
      BY <1>5 DEF BrokerPubrel
    <2>2. "PUBCOMP" \in Answering
      BY DEF Answering
    <2>3. \A inb, log : Once(inb, log, toClient, bout, sentIn)
                            => Once(inb, log, toClient', bout, sentIn)
      BY <1>3, <2>1, <2>2
    <2> QED  BY <1>2, <2>1, <2>3, BrokerArrival
  <1>6. CASE BrokerPubrec
    <2> DEFINE id == Head(toBroker).id
               p == Ack("PUBREL", id)
               new == [i \in DOMAIN bout |-> IF bout[i].id = id /\ bout[i].next = "PUBREC"
                                             THEN [bout[i] EXCEPT !.next = "PUBCOMP"] ELSE bout[i]]
               from == [i \in DOMAIN bout |-> i]
    <2>1. /\ BrokerReads("PUBREC") /\ toClient' = Append(toClient, p) /\ bout' = new
      BY <1>6 DEF BrokerPubrec, Answer
    <2>2. p \in Packets /\ p.type = "PUBREL" /\ p.id = id
      BY <1>2, <2>1, AckType DEF Sending
    <2>3. /\ DOMAIN new = DOMAIN bout /\ DOMAIN from = DOMAIN bout
          /\ \A i \in DOMAIN bout :
                 /\ from[i] = i
                 /\ new[i].id = bout[i].id /\ new[i].msg = bout[i].msg
                 /\ new[i].next = bout[i].next \/ new[i].next = "PUBCOMP"
                 /\ new[i].id = id => new[i].next # "PUBREC"
      <3>1. ASSUME NEW i \in DOMAIN bout
            PROVE  /\ new[i].id = bout[i].id /\ new[i].msg = bout[i].msg
                   /\ new[i].next = bout[i].next \/ new[i].next = "PUBCOMP"
                   /\ new[i].id = id => new[i].next # "PUBREC"
        <4>1. bout[i] \in BrokerEntries
          BY <1>1
        <4> HIDE DEF id
        <4> QED  BY <4>1 DEF BrokerEntries
      <3> HIDE DEF id
      <3> QED  BY <3>1
    <2> HIDE DEF p, id, new, from
    <2>4. ASSUME NEW inb, NEW log, Once(inb, log, toClient, bout, sentIn)
          PROVE  Once(inb, log, Append(toClient, p), new, sentIn)
      <3>1. Once(inb, log, toClient, new, sentIn)
        BY <2>3, <2>4, OnceEntries
      <3> QED  BY <1>1, <2>2, <2>3, <3>1, OncePubrel
    <2> QED  BY <1>2, <2>1, <2>4, BrokerArrival
  <1>7. ASSUME NEW type, BrokerCompletion(type) PROVE ArrivalInv'
    <2>1. /\ BrokerReads(type) /\ toClient' = toClient
          /\ bout' = bout \/ \E i \in DOMAIN bout : bout' = RemoveAt(bout, i)
      BY <1>7 DEF BrokerCompletion
    <2>2. ASSUME NEW i \in DOMAIN bout, bout' = RemoveAt(bout, i),
                 NEW inb, NEW log, Once(inb, log, toClient, bout, sentIn)
          PROVE  Once(inb, log, toClient, bout', sentIn)
      <3> DEFINE new == RemoveAt(bout, i)
                 from == [j \in 1..(Len(bout) - 1) |-> IF j < i THEN j ELSE j + 1]
      <3>1. /\ new \in Seq(BrokerEntries) /\ Len(new) = Len(bout) - 1
            /\ \A j \in 1..(Len(bout) - 1) : new[j] = IF j < i THEN bout[j] ELSE bout[j + 1]
        BY <1>1, RemoveAtProperties
      <3>2. Len(bout) \in Nat /\ DOMAIN bout = 1..Len(bout) /\ i \in 1..Len(bout)
        BY <1>1
      <3> HIDE DEF new
      <3>3. DOMAIN new = 1..(Len(bout) - 1)
        BY <3>1
      <3>4. \A j \in DOMAIN new : from[j] \in DOMAIN bout /\ new[j] = bout[from[j]]
        BY <3>1, <3>2, <3>3
      <3>5. \A j, k \in DOMAIN new : from[j] = from[k] => j = k
        BY <3>2, <3>3
      <3> HIDE DEF from
      <3>6. Once(inb, log, toClient, new, sentIn)
        BY <2>2, <3>4, <3>5, OnceEntries
      <3> QED  BY <2>2, <3>6 DEF new
    <2>3. \A inb, log : Once(inb, log, toClient, bout, sentIn)
                            => Once(inb, log, toClient', bout', sentIn)
      BY <2>1, <2>2
    <2> QED  BY <1>2, <2>1, <2>3, BrokerArrival
  <1> QED  BY <1>4, <1>5, <1>6, <1>7 DEF BrokerStep

\* A retry changes only connect_sent and what is written.
LEMMA RetryKeeps ==
    ASSUME NEW m, DOMAIN m = Fields, NEW x, NEW c, NEW r \in RetryOutcomes(m, x, c)
    PROVE  r.m.up = m.up /\ r.m.inbound = m.inbound /\ r.m.queue = m.queue
  <1>1. ASSUME NEW y, NEW s, NEW b, r.m = Retried(m, y, s, b)
        PROVE  r.m.up = m.up /\ r.m.inbound = m.inbound /\ r.m.queue = m.queue
    <2> DEFINE a == Retried(m, y, s, b)
    <2>1. a.up = m.up /\ a.inbound = m.inbound /\ a.queue = m.queue
      BY DEF Retried, Fields
    <2> QED  BY <1>1, <2>1
  <1>2. \E y, s, b : r.m = Retried(m, y, s, b)
    <2> DEFINE n == Len(x)
               packets == Resends(m, x)
               after(k, stuck) ==
                   [m |-> [m EXCEPT !.csent = IF c THEN @ + k ELSE @,
                                    !.partial = IF stuck THEN <<packets[k]>> ELSE <<>>,
                                    !.connected = ~(stuck /\ packets[k].type = "PUBREL")],
                    partials |-> partials + (IF stuck THEN 1 ELSE 0),
                    written |-> SubSeq(packets, 1, IF stuck THEN k - 1 ELSE k),
                    stored |-> k]
    <2>1. r = after(n, FALSE) \/ \E k \in 1..n : r = after(k, TRUE)
      BY DEF RetryOutcomes
    <2>2. CASE r = after(n, FALSE)
      <3> DEFINE y == IF c THEN m.csent + n ELSE m.csent
      <3>1. r.m = Retried(m, y, <<>>, TRUE)
        BY <2>2 DEF Retried
      <3> QED  BY <3>1
    <2>3. ASSUME NEW k, r = after(k, TRUE) PROVE \E y, s, b : r.m = Retried(m, y, s, b)
      <3> DEFINE y == IF c THEN m.csent + k ELSE m.csent
                 s == <<packets[k]>>
                 b == packets[k].type # "PUBREL"
      <3>1. r.m = Retried(m, y, s, b)
        BY <2>3 DEF Retried
      <3> HIDE DEF y, s, b
      <3> QED  BY <3>1
    <2> HIDE DEF after
    <2> QED  BY <2>1, <2>2, <2>3
  <1> QED  BY <1>1, <1>2

LEMMA BrokerSendArrival ==
    ASSUME SessionInv, SessionInv', ArrivalInv, BrokerSend
    PROVE  ArrivalInv'
  <1> DEFINE used == {bout[i].id : i \in DOMAIN bout}
             id == Min(Ids \ used)
             next == IF InQos[sentIn'] = 2 THEN "PUBREC" ELSE "PUBACK"
             p == Packet("PUBLISH", id, sentIn')
             e == [id |-> id, msg |-> sentIn', next |-> next]
  <1>1. /\ bout \in Seq(BrokerEntries) /\ toClient \in Seq(Packets) /\ sentIn \in Nat
        /\ bout' \in Seq(BrokerEntries)
    BY DEF SessionInv, TypeInv, NetworkType
  <1>2. /\ sentIn < NIn /\ sentIn' = sentIn + 1 /\ Len(bout) < MaxMsgId
        /\ bout' = Append(bout, e) /\ toClient' = Append(toClient, p)
        /\ mem' = mem /\ arrived' = arrived /\ crashes' = crashes
    BY DEF BrokerSend
  <1>3. id \in Ids \ used
    BY <1>1, <1>2, FreeId
  <1> HIDE DEF id
  <1>4. /\ p \in Packets /\ p.type = "PUBLISH" /\ p.msg = sentIn + 1 /\ p.id = id
    BY <1>1, <1>2, <1>3 DEF Packet, Packets, Sending
  <1>5. /\ e \in BrokerEntries /\ e.id = id /\ e.msg = sentIn + 1
        /\ Twice(sentIn + 1) => e.next = "PUBREC"
    BY <1>1, <1>2, <1>3 DEF BrokerEntries, Stages, Twice
  <1>6. \A i \in DOMAIN bout : bout[i].id # id
    BY <1>3
  <1>7. NIn \in Nat
    BY SessionAssumption
  <1> HIDE DEF p, e, used
  <1>8. ASSUME NEW inb, NEW log, Once(inb, log, toClient, bout, sentIn)
        PROVE  Once(inb, log, toClient', bout', sentIn')
    BY <1>1, <1>2, <1>4, <1>5, <1>6, <1>7, <1>8, OnceSend
  <1> QED  BY <1>2, <1>8, BrokerArrival

\* A connection is made: the broker sends again what it has no end of.
LEMMA ConnectArrival ==
    ASSUME SessionInv, Persistent, ArrivalInv, Connect
    PROVE  ArrivalInv'
  <1> DEFINE m == [mem EXCEPT !.connected = TRUE, !.partial = <<>>]
             m2 == IF m.outbound = <<>> THEN m ELSE [m EXCEPT !.ccount = Len(m.outbound)]
  <1>1. mem = [f \in Fields |-> mem[f]]
    BY DEF SessionInv, TypeInv, MemoryType
  <1>2. \/ \E r \in RetryOutcomes(m2, AllIndexes(m2), TRUE) : mem' = r.m /\ crashes' = crashes
        \/ \E d, packets : CrashInPut(d, <<>>, packets)
    <2> DEFINE m1 == IF CleanSession THEN CleanedMemory(m) ELSE m
               m3 == IF m1.outbound = <<>> THEN m1 ELSE [m1 EXCEPT !.ccount = Len(m1.outbound)]
               packets == Resends(m3, AllIndexes(m3))
               d == IF CleanSession THEN PersistenceClear(disk) ELSE disk
    <2>1. \/ \E r \in RetryOutcomes(m3, AllIndexes(m3), TRUE) :
                /\ mem' = r.m
                /\ partials' = r.partials
                /\ toBroker' = r.written
                /\ disk' = Stored(d, packets, r.stored)
                /\ UNCHANGED <<crashes, torn>>
          \/ CrashInPut(d, <<>>, packets)
      BY Zenon DEF Connect
    <2>2. m3 = m2
      BY DEF Persistent
    <2> HIDE DEF m3, m2, d, packets
    <2>3. \A r : UNCHANGED <<crashes, torn>> => crashes' = crashes
      OBVIOUS
    <2> QED  BY <2>1, <2>2, <2>3, Zenon
  <1>3. /\ DOMAIN m2 = Fields
        /\ m2.up = mem.up /\ m2.inbound = mem.inbound /\ m2.queue = mem.queue
    BY <1>1 DEF Fields
  <1> HIDE DEF m2
  <1>4. CASE \E d, packets : CrashInPut(d, <<>>, packets)
    <2>1. crashes' = crashes + 1
      BY <1>4 DEF CrashInPut, CrashWith
    <2> QED  BY <2>1, CrashCounted DEF ArrivalInv
  <1>5. CASE \E r \in RetryOutcomes(m2, AllIndexes(m2), TRUE) : mem' = r.m /\ crashes' = crashes
    <2>1. mem'.up = mem.up /\ mem'.inbound = mem.inbound /\ mem'.queue = mem.queue
      <3>1. \E x, c : \E q \in RetryOutcomes(m2, x, c) : mem' = q.m
        BY <1>5, Zenon
      <3> QED  BY <1>3, <3>1, RetryKeeps
    <2>2. /\ bout' = bout /\ toClient' = Resumed(bout)
          /\ UNCHANGED <<sentIn, arrived>>
      BY DEF Connect, Persistent, Resumed
    <2>3. Handed' = Handed
      BY <2>1, <2>2 DEF Handed
    <2> QED  BY <1>5, <2>1, <2>2, <2>3, OnceResume DEF ArrivalInv
  <1> QED  BY <1>2, <1>4, <1>5

\* The other steps of the client touch none of the broker's messages.
LEMMA OtherArrival ==
    ASSUME SessionInv, Persistent, ArrivalInv,
           \/ \E n \in Messages : Publish(n)
           \/ HandlePubrecs \/ HandleCompletion("PUBACK") \/ HandleCompletion("PUBCOMP")
           \/ WriteAvailable \/ PeriodicRetry \/ LinkDown \/ Crash \/ UNCHANGED vars
    PROVE  ArrivalInv'
  <1>1. TypeInv /\ MemoryType(mem) /\ mem = [f \in Fields |-> mem[f]] /\ crashes \in Nat
    BY DEF SessionInv, TypeInv, MemoryType, ArrivalInv
  <1>2. ASSUME NEW n \in Messages, Publish(n) PROVE ArrivalInv'
    <2> DEFINE next == IF OutQos[n] = 2 THEN "PUBREC" ELSE "PUBACK"
               m == [mem EXCEPT !.msgID = AssignMsgId,
                        !.outbound = Append(@, [id |-> AssignMsgId, msg |-> n, next |-> next])]
    <2>1. Send(<<disk, TearSent(disk, AssignMsgId), PutSent(disk, AssignMsgId, n)>>,
               m, Packet("PUBLISH", AssignMsgId, n))
      BY <1>2 DEF Publish
    <2>2. /\ m = [f \in Fields |-> m[f]]
          /\ m.up = mem.up /\ m.inbound = mem.inbound /\ m.queue = mem.queue
      BY <1>1 DEF Fields
    <2> HIDE DEF m
    <2>3. Keeps(m)
      BY <1>1, <2>1, <2>2, SendKeeps
    <2>4. UNCHANGED <<toClient, brokerVars, arrived>>
      BY <1>2 DEF Publish
    <2> QED  BY <1>1, <2>2, <2>3, <2>4, ArrivalKept DEF Keeps
  <1>3. ASSUME NEW type, Reads(type), Keeps(mem) PROVE ArrivalInv'
    BY <1>1, <1>3, ReadsArrival, ArrivalKept
  <1>4. CASE HandlePubrecs
    <2> DEFINE hit == Matching(Received.id, "PUBREC")
               m == [mem EXCEPT !.outbound =
                        [i \in DOMAIN @ |-> IF i \in hit THEN [@[i] EXCEPT !.next = "PUBCOMP"] ELSE @[i]]]
    <2>1. SendAck(<<disk>>, m, Ack("PUBREL", Received.id)) /\ Reads("PUBREC")
      BY <1>4 DEF HandlePubrecs
    <2>2. /\ m = [f \in Fields |-> m[f]]
          /\ m.up = mem.up /\ m.inbound = mem.inbound /\ m.queue = mem.queue
      BY <1>1 DEF Fields
    <2> HIDE DEF m
    <2>3. Keeps(mem)
      BY <1>1, <2>1, <2>2, AckKeeps DEF Keeps
    <2> QED  BY <1>3, <2>1, <2>3
  <1>5. ASSUME NEW type, HandleCompletion(type) PROVE ArrivalInv'
    <2>1. Reads(type)
      BY <1>5 DEF HandleCompletion
    <2>2. CASE Perform(<<disk>>, mem, <<>>)
      BY <1>1, <1>3, <2>1, <2>2, PerformKeeps
    <2>3. ASSUME NEW i, Perform(<<disk>> \o RemoveSent(disk, Received.id),
                                [mem EXCEPT !.outbound = RemoveAt(@, i)], <<>>)
          PROVE  ArrivalInv'
      <3> DEFINE m == [mem EXCEPT !.outbound = RemoveAt(@, i)]
      <3>1. m.up = mem.up /\ m.inbound = mem.inbound /\ m.queue = mem.queue
        BY <1>1 DEF Fields
      <3>2. Keeps(m)
        BY <1>1, <2>3, PerformKeeps
      <3> HIDE DEF m
      <3>3. Keeps(mem)
        BY <3>1, <3>2 DEF Keeps
      <3> QED  BY <1>3, <2>1, <3>3
    <2> QED  BY <1>5, <2>2, <2>3 DEF HandleCompletion
  <1>6. CASE WriteAvailable
    <2>1. UNCHANGED <<toClient, brokerVars, arrived>>
      BY <1>6 DEF WriteAvailable
    <2>2. \/ \E stuck : mem' = [mem EXCEPT !.partial = stuck, !.acks = <<>>] /\ crashes' = crashes
          \/ CrashInPut(disk, toBroker \o mem.partial, mem.acks)
      BY <1>6 DEF WriteAvailable
    <2>3. CASE CrashInPut(disk, toBroker \o mem.partial, mem.acks)
      <3>1. crashes' = crashes + 1
        BY <2>3 DEF CrashInPut, CrashWith
      <3> QED  BY <1>1, <3>1, CrashCounted
    <2>4. CASE \E stuck : mem' = [mem EXCEPT !.partial = stuck, !.acks = <<>>] /\ crashes' = crashes
      <3>1. mem'.up = mem.up /\ mem'.inbound = mem.inbound /\ mem'.queue = mem.queue
        BY <1>1, <2>4 DEF Fields
      <3> QED  BY <1>1, <2>1, <2>4, <3>1, ArrivalKept DEF Keeps
    <2> QED  BY <2>2, <2>3, <2>4
  <1>7. CASE PeriodicRetry
    <2>1. UNCHANGED <<toClient, brokerVars, arrived>>
      BY <1>7 DEF PeriodicRetry
    <2>2. \/ \E x, c : \E r \in RetryOutcomes(mem, x, c) : mem' = r.m /\ crashes' = crashes
          \/ \E packets : CrashInPut(disk, toBroker, packets)
      <3> DEFINE continues == mem.csent < mem.ccount
      <3>1. \E S \in IF continues THEN {DOMAIN mem.outbound} ELSE (SUBSET DOMAIN mem.outbound) \ {{}} :
               \/ \E r \in RetryOutcomes(mem, Ascending(S), continues) :
                     /\ mem' = r.m
                     /\ partials' = r.partials
                     /\ toBroker' = toBroker \o r.written
                     /\ disk' = Stored(disk, Resends(mem, Ascending(S)), r.stored)
                     /\ UNCHANGED <<crashes, torn>>
               \/ CrashInPut(disk, toBroker, Resends(mem, Ascending(S)))
        BY <1>7, Zenon DEF PeriodicRetry
      <3>2. UNCHANGED <<crashes, torn>> => crashes' = crashes
        OBVIOUS
      <3> HIDE DEF continues
      <3> QED  BY <3>1, <3>2, Zenon
    <2>3. CASE \E packets : CrashInPut(disk, toBroker, packets)
      <3>1. crashes' = crashes + 1
        BY <2>3 DEF CrashInPut, CrashWith
      <3> QED  BY <1>1, <3>1, CrashCounted
    <2>4. CASE \E x, c : \E r \in RetryOutcomes(mem, x, c) : mem' = r.m /\ crashes' = crashes
      <3>0. DOMAIN mem = Fields
        BY <1>1
      <3>1. mem'.up = mem.up /\ mem'.inbound = mem.inbound /\ mem'.queue = mem.queue
        BY <2>4, <3>0, RetryKeeps
      <3> QED  BY <1>1, <2>1, <2>4, <3>1, ArrivalKept DEF Keeps
    <2> QED  BY <2>2, <2>3, <2>4
  <1>8. CASE LinkDown
    <2>1. UNCHANGED <<toClient, brokerVars, arrived, crashes>>
      BY <1>8 DEF LinkDown
    <2>2. mem' = [mem EXCEPT !.connected = FALSE, !.partial = <<>>]
      BY <1>8 DEF LinkDown, Persistent
    <2>3. mem'.up = mem.up /\ mem'.inbound = mem.inbound /\ mem'.queue = mem.queue
      BY <1>1, <2>2 DEF Fields
    <2> QED  BY <1>1, <2>1, <2>3, ArrivalKept DEF Keeps
  <1>9. CASE Crash
    <2>1. UNCHANGED <<toClient, brokerVars, arrived>> /\ CrashIn(<<disk>>)
      BY <1>9 DEF Crash
    <2>2. crashes' = crashes + 1
      BY <2>1 DEF CrashIn, CrashWith
    <2> QED  BY <1>1, <2>2, CrashCounted
  <1>10. CASE UNCHANGED vars
    BY <1>1, <1>10, ArrivalKept DEF vars, Keeps
  <1> QED  BY <1>2, <1>4, <1>5, <1>6, <1>7, <1>8, <1>9, <1>10

LEMMA ArrivalInit ==
    ASSUME Init
    PROVE  ArrivalInv
  <1>1. PICK id \in LastIds : mem = [Created EXCEPT !.msgID = id]
    BY DEF Init
  <1>2. mem.up = TRUE /\ mem.inbound = <<>> /\ mem.queue = <<>>
    BY <1>1 DEF Created
  <1>3. toClient = <<>> /\ bout = <<>> /\ sentIn = 0 /\ arrived = <<>> /\ crashes = 0
    BY DEF Init
  <1>4. Queued(<<>>) = <<>> /\ Handed = <<>>
    <2>1. Queued(<<>>) = <<>>
      BY DEF Queued
    <2>2. <<>> \o <<>> = <<>>
      OBVIOUS
    <2> QED  BY <1>2, <1>3, <2>1, <2>2 DEF Handed
  <1>5. DOMAIN <<>> = {} /\ \A S : <<>> \in Seq(S)
    OBVIOUS
  <1>6. Once(<<>>, <<>>, <<>>, <<>>, 0)
    <2>1. NIn \in Nat
      BY SessionAssumption
    <2> QED  BY <1>5, <2>1 DEF Once, NumbersInv, NamesInv, FreshInv, HandedInv
  <1> QED  BY <1>2, <1>3, <1>4, <1>5, <1>6 DEF ArrivalInv

LEMMA ArrivalNext ==
    ASSUME SessionInv, SessionInv', ArrivalInv, Persistent, [Next]_vars
    PROVE  ArrivalInv'
  <1>1. TypeInv
    BY DEF SessionInv
  <1>2. CASE HandlePublishes \/ HandlePubrels \/ Deliver
    BY <1>1, <1>2, HandlePublishesArrival, HandlePubrelsArrival, DeliverArrival
  <1>3. CASE BrokerStep \/ BrokerSend \/ Connect
    BY <1>3, BrokerStepArrival, BrokerSendArrival, ConnectArrival
  <1>4. CASE Restart
    <2>1. ~mem.up /\ UNCHANGED <<arrived, crashes>>
      BY <1>4 DEF Restart
    <2> QED  BY <2>1 DEF ArrivalInv
  <1>5. CASE \/ \E n \in Messages : Publish(n)
             \/ HandlePubrecs \/ HandleCompletion("PUBACK") \/ HandleCompletion("PUBCOMP")
             \/ WriteAvailable \/ PeriodicRetry \/ LinkDown \/ Crash \/ UNCHANGED vars
    BY <1>5, OtherArrival
  <1> QED  BY <1>2, <1>3, <1>4, <1>5 DEF Next, ClientStep

\* Lost connections, repeated PUBLISH and PUBREL packets, ids the broker has given
\* to an earlier message, and acknowledgements late or queued never hand a QoS 2
\* message of the broker to messageArrived twice, as long as the process lives:
\* HandlePubrels forgets the id when it queues the message, and by then nothing
\* that could bring the message again is left.
THEOREM MessagesArriveOnce ==
    ASSUME Persistent
    PROVE  Spec => []ArrivesOnce
  <1>1. ASSUME ArrivalInv PROVE ArrivesOnce
    <2> SUFFICES ASSUME crashes = 0, NEW i \in DOMAIN arrived, NEW j \in DOMAIN arrived,
                        arrived[i] = arrived[j], InQos[arrived[i]] = 2
                 PROVE  i = j
      BY DEF ArrivesOnce
    <2> DEFINE s == Queued(mem.queue)
    <2>1. /\ arrived \in Seq(Nat) /\ mem.queue \in Seq(QueueEntries)
          /\ HandedInv(mem.inbound, Handed, toClient, bout)
      BY <1>1 DEF ArrivalInv, Once
    <2>2. s \in Seq(Nat)
      <3>1. DOMAIN mem.queue = 1..Len(mem.queue) /\ Len(mem.queue) \in Nat
            /\ \A k \in 1..Len(mem.queue) : mem.queue[k] \in QueueEntries
        BY <2>1
      <3>2. s = [k \in 1..Len(mem.queue) |-> mem.queue[k].msg]
        BY <3>1 DEF Queued
      <3> HIDE DEF s
      <3> QED  BY <3>1, <3>2 DEF QueueEntries
    <2>3. \A k \in DOMAIN arrived : k \in DOMAIN Handed /\ Handed[k] = arrived[k]
      <3> HIDE DEF s
      <3>1. \A k \in DOMAIN arrived : k \in DOMAIN (arrived \o s) /\ (arrived \o s)[k] = arrived[k]
        BY <2>1, <2>2
      <3> QED  BY <3>1 DEF Handed, s
    <2> QED  BY <2>1, <2>3 DEF HandedInv, Twice
  <1>2. ASSUME SessionInv /\ ArrivalInv, [Next]_vars
        PROVE  (SessionInv /\ ArrivalInv)'
    BY <1>2, SessionNext, ArrivalNext
  <1>3. Init => SessionInv /\ ArrivalInv
    BY SessionInit, ArrivalInit
  <1> QED  BY <1>1, <1>2, <1>3, PTL DEF Spec

=============================================================================
