---------------------------- MODULE AsyncProofs ----------------------------
(***************************************************************************)
(* The asynchronous client answers every operation it accepts exactly once *)
(* and never confuses the answers of the broker, for every number and kind *)
(* of operations, whatever is reconnected, dropped, timed out, partly      *)
(* written, lost or restarted on the way.                                  *)
(***************************************************************************)
EXTENDS Async, FiniteSetTheorems, SequenceTheorems, TLAPS

-----------------------------------------------------------------------------
(* Sequences: what is left of one when an entry is taken out.              *)

Distinct(s) == \A a, b \in DOMAIN s : s[a] = s[b] => a = b
Ascends(s) == \A a, b \in DOMAIN s : a < b => s[a] < s[b]

LEMMA InRange ==
    ASSUME NEW S, NEW s \in Seq(S)
    PROVE  /\ Len(s) \in Nat /\ DOMAIN s = 1..Len(s)
           /\ Range(s) \subseteq S
           /\ \A i \in DOMAIN s : s[i] \in Range(s) /\ s[i] \in S
           /\ \A e \in Range(s) : \E i \in DOMAIN s : s[i] = e
  <1>1. Len(s) \in Nat /\ DOMAIN s = 1..Len(s) /\ s \in [1..Len(s) -> S]
    OBVIOUS
  <1> QED  BY <1>1 DEF Range

LEMMA RangeShort ==
    /\ Range(<<>>) = {} /\ \A e : Range(<<e>>) = {e}
    /\ DOMAIN <<>> = {} /\ \A e : DOMAIN <<e>> = {1} /\ <<e>>[1] = e
    /\ \A S : <<>> \in Seq(S)
    /\ \A S, e : e \in S => <<e>> \in Seq(S)
  BY DEF Range

LEMMA EmptyRange ==
    ASSUME NEW S, NEW s \in Seq(S), Range(s) = {}
    PROVE  s = <<>>
  <1>1. Len(s) \in Nat /\ DOMAIN s = 1..Len(s) /\ \A i \in DOMAIN s : s[i] \in Range(s)
    BY InRange
  <1>2. 1 \notin DOMAIN s
    BY <1>1
  <1>3. Len(s) = 0
    BY <1>1, <1>2
  <1> QED  BY <1>3

LEMMA AppendPositions ==
    ASSUME NEW S, NEW s \in Seq(S), NEW x \in S
    PROVE  /\ Len(s) \in Nat /\ DOMAIN s = 1..Len(s)
           /\ Append(s, x) \in Seq(S) /\ DOMAIN Append(s, x) = DOMAIN s \cup {Len(s) + 1}
           /\ Len(s) + 1 \notin DOMAIN s
           /\ \A i \in DOMAIN s : Append(s, x)[i] = s[i] /\ i < Len(s) + 1
           /\ Append(s, x)[Len(s) + 1] = x
           /\ Range(Append(s, x)) = Range(s) \cup {x}
           /\ Len(Append(s, x)) = Len(s) + 1
  <1>1. /\ Len(s) \in Nat /\ DOMAIN s = 1..Len(s)
        /\ Append(s, x) \in Seq(S) /\ DOMAIN Append(s, x) = 1..(Len(s) + 1)
        /\ \A i \in 1..Len(s) : Append(s, x)[i] = s[i]
        /\ Append(s, x)[Len(s) + 1] = x
        /\ Len(Append(s, x)) = Len(s) + 1
    OBVIOUS
  <1>2. \A i \in 1..(Len(s) + 1) : i \in 1..Len(s) \/ i = Len(s) + 1
    BY <1>1
  <1>3. Range(Append(s, x)) = Range(s) \cup {x}
    BY <1>1, <1>2 DEF Range
  <1> QED  BY <1>1, <1>2, <1>3

LEMMA ConcatPositions ==
    ASSUME NEW S, NEW s \in Seq(S), NEW t \in Seq(S)
    PROVE  /\ s \o t \in Seq(S)
           /\ Len(s) \in Nat /\ DOMAIN s = 1..Len(s)
           /\ Len(t) \in Nat /\ DOMAIN t = 1..Len(t)
           /\ DOMAIN (s \o t) = 1..(Len(s) + Len(t))
           /\ \A i \in DOMAIN s : (s \o t)[i] = s[i] /\ i \in DOMAIN (s \o t)
           /\ \A i \in DOMAIN t : (s \o t)[Len(s) + i] = t[i] /\ Len(s) + i \in DOMAIN (s \o t)
           /\ \A i \in DOMAIN (s \o t) \ DOMAIN s : i - Len(s) \in DOMAIN t
           /\ Range(s \o t) = Range(s) \cup Range(t)
  <1>1. /\ s \o t \in Seq(S) /\ Len(s \o t) = Len(s) + Len(t)
        /\ Len(s) \in Nat /\ DOMAIN s = 1..Len(s)
        /\ Len(t) \in Nat /\ DOMAIN t = 1..Len(t)
        /\ DOMAIN (s \o t) = 1..(Len(s) + Len(t))
        /\ \A i \in 1..Len(s) : (s \o t)[i] = s[i] /\ i \in DOMAIN (s \o t)
        /\ \A i \in 1..Len(t) : (s \o t)[Len(s) + i] = t[i] /\ Len(s) + i \in DOMAIN (s \o t)
    <2>1. /\ Len(s) \in Nat /\ DOMAIN s = 1..Len(s)
          /\ Len(t) \in Nat /\ DOMAIN t = 1..Len(t)
      OBVIOUS
    <2>2. /\ s \o t \in Seq(S) /\ Len(s \o t) = Len(s) + Len(t)
          /\ \A i \in 1 .. Len(s) + Len(t) : (s \o t)[i] = IF i <= Len(s) THEN s[i] ELSE t[i - Len(s)]
      BY ConcatProperties
    <2>3. DOMAIN (s \o t) = 1..(Len(s) + Len(t))
      BY <2>2
    <2>4. ASSUME NEW i \in 1..Len(t)
          PROVE  (s \o t)[Len(s) + i] = t[i] /\ Len(s) + i \in DOMAIN (s \o t)
      <3>1. Len(s) + i \in 1 .. Len(s) + Len(t) /\ ~(Len(s) + i <= Len(s)) /\ Len(s) + i - Len(s) = i
        BY <2>1
      <3> QED  BY <2>2, <2>3, <3>1
    <2> QED  BY <2>1, <2>2, <2>3, <2>4
  <1>2. \A i \in DOMAIN (s \o t) \ DOMAIN s : i - Len(s) \in DOMAIN t /\ Len(s) + (i - Len(s)) = i
    BY <1>1
  <1>3. Range(s \o t) = Range(s) \cup Range(t)
    <2>1. ASSUME NEW e \in Range(s \o t)
          PROVE  e \in Range(s) \cup Range(t)
      <3>1. PICK i \in DOMAIN (s \o t) : (s \o t)[i] = e
        BY DEF Range
      <3> QED  BY <1>1, <1>2, <3>1 DEF Range
    <2>2. Range(s) \subseteq Range(s \o t)
      BY <1>1 DEF Range
    <2>3. Range(t) \subseteq Range(s \o t)
      BY <1>1 DEF Range
    <2> QED  BY <2>1, <2>2, <2>3
  <1> QED  BY <1>1, <1>2, <1>3

LEMMA LeastElement ==
    ASSUME NEW T, T \subseteq Nat, T # {}
    PROVE  Min(T) \in T /\ \A y \in T : Min(T) <= y
  <1>1. PICK x \in T : \A y \in T : <<y, x>> \notin OpToRel(<, Nat)
    BY NatLessThanWellFounded, WFMin
  <1>2. \A y \in T : ~(y < x)
    BY <1>1 DEF OpToRel
  <1>3. \A y \in T : x <= y
    BY <1>2
  <1> QED  BY <1>3 DEF Min

\* t is s without its entry at n: at says where the entries of t come from.
Without(t, s, n) ==
    \E at \in [DOMAIN t -> DOMAIN s \ {n}] :
        /\ \A a, b \in DOMAIN t : a < b => at[a] < at[b]
        /\ \A a, b \in DOMAIN t : at[a] = at[b] => a = b
        /\ \A a \in DOMAIN t : t[a] = s[at[a]]
        /\ \A b \in DOMAIN s \ {n} : \E a \in DOMAIN t : at[a] = b

LEMMA TailWithout ==
    ASSUME NEW S, NEW s \in Seq(S), s # <<>>
    PROVE  /\ Tail(s) \in Seq(S) /\ Without(Tail(s), s, 1)
           /\ 1 \in DOMAIN s /\ Head(s) = s[1] /\ s[1] \in S /\ s[1] \in Range(s)
           /\ \A a \in DOMAIN s : 1 <= a
           /\ \A a \in DOMAIN Tail(s) : a + 1 \in DOMAIN s /\ Tail(s)[a] = s[a + 1]
           /\ Len(Tail(s)) = Len(s) - 1
  <1>1. /\ Len(s) \in Nat \ {0} /\ Head(s) = s[1] /\ 1 \in 1..Len(s)
        /\ Tail(s) \in Seq(S) /\ Len(Tail(s)) = Len(s) - 1
        /\ DOMAIN Tail(s) = 1..(Len(s) - 1) /\ DOMAIN s = 1..Len(s)
        /\ \A i \in 1..(Len(s) - 1) : i + 1 \in 1..Len(s) /\ Tail(s)[i] = s[i + 1]
    OBVIOUS
  <1> DEFINE at == [a \in 1..(Len(s) - 1) |-> a + 1]
  <1>2. at \in [DOMAIN Tail(s) -> DOMAIN s \ {1}]
    BY <1>1
  <1>3. \A a, b \in DOMAIN Tail(s) : /\ a < b => at[a] < at[b]
                                     /\ at[a] = at[b] => a = b
    BY <1>1
  <1>4. \A a \in DOMAIN Tail(s) : Tail(s)[a] = s[at[a]]
    BY <1>1
  <1>5. \A b \in DOMAIN s \ {1} : b - 1 \in DOMAIN Tail(s) /\ at[b - 1] = b
    BY <1>1
  <1> HIDE DEF at
  <1>6. Without(Tail(s), s, 1)
    BY <1>2, <1>3, <1>4, <1>5 DEF Without
  <1>7. s[1] \in S
    BY <1>1
  <1> QED  BY <1>1, <1>6, <1>7 DEF Range

LEMMA SkippedWithout ==
    ASSUME NEW s, NEW L \in Nat, DOMAIN s = 1..L, NEW i \in 1..L, NEW t,
           DOMAIN t = 1..(L - 1),
           \A j \in 1..(L - 1) : t[j] = IF j < i THEN s[j] ELSE s[j + 1]
    PROVE  Without(t, s, i)
  <1> DEFINE at == [j \in 1..(L - 1) |-> IF j < i THEN j ELSE j + 1]
  <1>1. at \in [DOMAIN t -> DOMAIN s \ {i}]
    <2>1. \A j \in 1..(L - 1) : (IF j < i THEN j ELSE j + 1) \in (1..L) \ {i}
      OBVIOUS
    <2> QED  BY <2>1
  <1>2. \A j, k \in DOMAIN t : /\ j < k => at[j] < at[k]
                               /\ at[j] = at[k] => j = k
    OBVIOUS
  <1>3. \A j \in DOMAIN t : t[j] = s[at[j]]
    OBVIOUS
  <1>4. ASSUME NEW k \in DOMAIN s \ {i}
        PROVE  \E j \in DOMAIN t : at[j] = k
    <2>1. CASE k < i
      <3>1. k \in 1..(L - 1) /\ at[k] = k
        BY <2>1
      <3> QED  BY <3>1
    <2>2. CASE k > i
      <3>1. k - 1 \in 1..(L - 1) /\ ~(k - 1 < i) /\ at[k - 1] = k
        BY <2>2
      <3> QED  BY <3>1
    <2> QED  BY <2>1, <2>2
  <1> HIDE DEF at
  <1> QED  BY <1>1, <1>2, <1>3, <1>4, ZenonT(40) DEF Without

LEMMA RemoveAtWithout ==
    ASSUME NEW S, NEW s \in Seq(S), NEW i \in DOMAIN s
    PROVE  RemoveAt(s, i) \in Seq(S) /\ Without(RemoveAt(s, i), s, i)
  <1> DEFINE a == SubSeq(s, 1, i - 1)
             b == SubSeq(s, i + 1, Len(s))
  <1>1. Len(s) \in Nat /\ DOMAIN s = 1..Len(s) /\ i \in 1..Len(s) /\ \A j \in 1..Len(s) : s[j] \in S
    OBVIOUS
  <1>2. a \in Seq(S) /\ Len(a) = i - 1 /\ \A j \in 1..(i - 1) : a[j] = s[j]
    <2>1. 1 \in Int /\ i - 1 \in Int /\ \A j \in 1..(i - 1) : s[j] \in S
      BY <1>1
    <2>2. /\ a \in Seq(S) /\ Len(a) = IF 1 <= i - 1 THEN (i - 1) - 1 + 1 ELSE 0
          /\ \A j \in 1 .. ((i - 1) - 1 + 1) : a[j] = s[1 + j - 1]
      BY <2>1, SubSeqProperties
    <2> QED  BY <1>1, <2>2
  <1>3. b \in Seq(S) /\ Len(b) = Len(s) - i /\ \A j \in 1..(Len(s) - i) : b[j] = s[i + j]
    <2>1. i + 1 \in Int /\ Len(s) \in Int /\ \A j \in (i + 1)..Len(s) : s[j] \in S
      BY <1>1
    <2>2. /\ b \in Seq(S) /\ Len(b) = IF i + 1 <= Len(s) THEN Len(s) - (i + 1) + 1 ELSE 0
          /\ \A j \in 1 .. (Len(s) - (i + 1) + 1) : b[j] = s[(i + 1) + j - 1]
      BY <2>1, SubSeqProperties
    <2>3. (Len(s) - (i + 1) + 1) = Len(s) - i /\ \A j \in 1..(Len(s) - i) : (i + 1) + j - 1 = i + j
      BY <1>1
    <2>4. Len(b) = Len(s) - i
      BY <1>1, <2>2, <2>3
    <2> QED  BY <2>2, <2>3, <2>4
  <1>4. RemoveAt(s, i) = a \o b
    BY DEF RemoveAt
  <1> HIDE DEF a, b
  <1>5. /\ a \o b \in Seq(S) /\ Len(a \o b) = Len(a) + Len(b)
        /\ \A j \in 1 .. Len(a) + Len(b) : (a \o b)[j] = IF j <= Len(a) THEN a[j] ELSE b[j - Len(a)]
    BY <1>2, <1>3, ConcatProperties
  <1>6. ASSUME NEW j \in 1..(Len(s) - 1)
        PROVE  (a \o b)[j] = IF j < i THEN s[j] ELSE s[j + 1]
    <2>1. j \in 1 .. Len(a) + Len(b)
      BY <1>1, <1>2, <1>3
    <2>2. CASE j < i
      <3>1. j <= Len(a) /\ j \in 1..(i - 1)
        BY <1>1, <1>2, <2>2
      <3> QED  BY <1>2, <1>5, <2>1, <2>2, <3>1
    <2>3. CASE ~(j < i)
      <3>1. ~(j <= Len(a)) /\ j - Len(a) \in 1..(Len(s) - i) /\ i + (j - Len(a)) = j + 1
        BY <1>1, <1>2, <2>3
      <3> QED  BY <1>3, <1>5, <2>1, <2>3, <3>1
    <2> QED  BY <2>2, <2>3
  <1>7. Len(a \o b) = Len(s) - 1 /\ DOMAIN (a \o b) = 1..(Len(s) - 1)
    <2>1. Len(a \o b) = Len(s) - 1
      BY <1>1, <1>2, <1>3, <1>5
    <2> QED  BY <2>1, <1>5
  <1> QED  BY <1>1, <1>4, <1>5, <1>6, <1>7, SkippedWithout

LEMMA WithoutProperties ==
    ASSUME NEW S, NEW s \in Seq(S), NEW t, NEW n \in DOMAIN s, Without(t, s, n)
    PROVE  /\ Range(t) \subseteq Range(s)
           /\ Range(s) \ {s[n]} \subseteq Range(t)
           /\ Distinct(s) => Distinct(t) /\ Range(t) = Range(s) \ {s[n]}
           /\ (S \subseteq Int /\ Ascends(s)) => Ascends(t)
  <1>1. PICK at \in [DOMAIN t -> DOMAIN s \ {n}] :
            /\ \A a, b \in DOMAIN t : a < b => at[a] < at[b]
            /\ \A a, b \in DOMAIN t : at[a] = at[b] => a = b
            /\ \A a \in DOMAIN t : t[a] = s[at[a]]
            /\ \A b \in DOMAIN s \ {n} : \E a \in DOMAIN t : at[a] = b
    BY DEF Without
  <1>2. \A a \in DOMAIN t : at[a] \in DOMAIN s /\ at[a] # n /\ t[a] = s[at[a]]
    BY <1>1
  <1>3. Range(t) \subseteq Range(s)
    BY <1>2 DEF Range
  <1>4. Range(s) \ {s[n]} \subseteq Range(t)
    <2> SUFFICES ASSUME NEW e \in Range(s), e # s[n] PROVE e \in Range(t)
      OBVIOUS
    <2>1. PICK b \in DOMAIN s : s[b] = e
      BY DEF Range
    <2>2. PICK a \in DOMAIN t : at[a] = b
      BY <1>1, <2>1
    <2> QED  BY <1>1, <2>1, <2>2 DEF Range
  <1>5. ASSUME Distinct(s) PROVE Distinct(t) /\ Range(t) = Range(s) \ {s[n]}
    <2>1. Distinct(t)
      BY <1>1, <1>2, <1>5 DEF Distinct
    <2>2. \A a \in DOMAIN t : t[a] # s[n]
      BY <1>2, <1>5 DEF Distinct
    <2>3. s[n] \notin Range(t)
      BY <2>2 DEF Range
    <2> QED  BY <1>3, <1>4, <2>1, <2>3
  <1>6. Ascends(s) => Ascends(t)
    BY <1>1, <1>2 DEF Ascends
  <1> QED  BY <1>3, <1>4, <1>5, <1>6

\* A list of distinct entries without the first of those at T.
LEMMA DetachProperties ==
    ASSUME NEW S, NEW s \in Seq(S), NEW T, T \subseteq DOMAIN s
    PROVE  /\ Detach(s, T) \in Seq(S) /\ Range(Detach(s, T)) \subseteq Range(s)
           /\ Distinct(s) => Distinct(Detach(s, T))
           /\ (S \subseteq Int /\ Ascends(s)) => Ascends(Detach(s, T))
           /\ T = {} => Detach(s, T) = s
           /\ T # {} =>
                  /\ Min(T) \in T /\ Min(T) \in DOMAIN s /\ \A a \in T : Min(T) <= a
                  /\ Without(Detach(s, T), s, Min(T))
                  /\ Distinct(s) => Range(Detach(s, T)) = Range(s) \ {s[Min(T)]}
  <1>1. CASE T = {}
    BY <1>1 DEF Detach
  <1>2. CASE T # {}
    <2>1. T \subseteq Nat
      BY InRange
    <2>2. Min(T) \in T /\ \A a \in T : Min(T) <= a
      BY <1>2, <2>1, LeastElement
    <2> DEFINE n == Min(T)
    <2>3. n \in DOMAIN s /\ Detach(s, T) = RemoveAt(s, n)
      BY <1>2, <2>2 DEF Detach
    <2> HIDE DEF n
    <2>4. Detach(s, T) \in Seq(S) /\ Without(Detach(s, T), s, n)
      BY <2>3, RemoveAtWithout
    <2>5. /\ Range(Detach(s, T)) \subseteq Range(s)
          /\ Distinct(s) => Distinct(Detach(s, T)) /\ Range(Detach(s, T)) = Range(s) \ {s[n]}
          /\ (S \subseteq Int /\ Ascends(s)) => Ascends(Detach(s, T))
      BY <2>3, <2>4, WithoutProperties
    <2> QED  BY <1>2, <2>2, <2>3, <2>4, <2>5 DEF n
  <1> QED  BY <1>1, <1>2

\* The places where an operation stands in a list of distinct operations.
LEMMA DistinctPositions ==
    ASSUME NEW S, NEW s \in Seq(S), Distinct(s), NEW i
    PROVE  /\ i \in Range(s) =>
                  /\ Cardinality(Positions(s, i)) = 1 /\ Positions(s, i) # {}
                  /\ s[Min(Positions(s, i))] = i
                  /\ Range(Detach(s, Positions(s, i))) = Range(s) \ {i}
           /\ i \notin Range(s) => Positions(s, i) = {} /\ Cardinality(Positions(s, i)) = 0
  <1>1. CASE i \notin Range(s)
    <2>1. Positions(s, i) = {}
      BY <1>1 DEF Positions, Range
    <2> QED  BY <1>1, <2>1, FS_EmptySet
  <1>2. CASE i \in Range(s)
    <2>1. PICK n \in DOMAIN s : s[n] = i
      BY <1>2 DEF Range
    <2>2. Positions(s, i) = {n}
      BY <2>1 DEF Positions, Distinct
    <2>3. Cardinality(Positions(s, i)) = 1
      BY <2>2, FS_Singleton
    <2>4. /\ Min(Positions(s, i)) = n
          /\ Range(Detach(s, Positions(s, i))) = Range(s) \ {s[Min(Positions(s, i))]}
      <3>1. Positions(s, i) \subseteq DOMAIN s /\ Positions(s, i) # {}
        BY <2>1, <2>2
      <3>2. Min(Positions(s, i)) \in Positions(s, i)
        BY <3>1, DetachProperties
      <3>3. Range(Detach(s, Positions(s, i))) = Range(s) \ {s[Min(Positions(s, i))]}
        BY <3>1, DetachProperties
      <3> QED  BY <2>2, <3>2, <3>3
    <2> QED  BY <1>2, <2>1, <2>2, <2>3, <2>4
  <1> QED  BY <1>1, <1>2

-----------------------------------------------------------------------------
(* What the client structure is made of.                                   *)

States == {"NOT_IN_PROGRESS", "TCP_IN_PROGRESS", "WAIT_FOR_CONNACK", "DISCONNECTING"}
Kinds == {"success", "failure"}
Types == {"PUBLISH0", "PUBLISH1", "SUBSCRIBE", "UNSUBSCRIBE"}
Packets ==
    [type : {"CONNECT", "CONNACK", "PUBACK", "SUBACK"} \cup Types, op : 0..NOps,
     ok : BOOLEAN]
Sockets == [out : Seq(Packets), in : Seq(Packets), pending : Seq(Ops), broken : BOOLEAN]
ConnectCommands ==
    [type : {"CONNECT"}, cb : 0..MaxConnects, uri : Nat, version : {0, 3, 4}, late : BOOLEAN]
DisconnectCommands == [type : {"DISCONNECT"}, internal : BOOLEAN, expired : BOOLEAN]
OpCommands == [type : {"OP"}, op : Ops]
Commands == ConnectCommands \cup DisconnectCommands \cup OpCommands

\* Nothing, an error, or an answer read and not handled yet.
HeldType(h) ==
    \/ h \in [type : {"NONE", "ERROR"}, stale : BOOLEAN]
    \/ h \in [type : {"CONNACK", "SUBACK"}, stale : BOOLEAN, pack : Packets]

Fields == {"connected", "state", "should", "retrying", "now", "connect", "disconnect",
           "commands", "buffered", "responses", "outbound", "pendingWrite", "msgID",
           "token", "net", "held", "told", "toldConn"}

Shape(x) ==
    /\ DOMAIN x = Fields /\ x = [f \in Fields |-> x[f]]
    /\ x.connected \in BOOLEAN /\ x.should \in BOOLEAN
    /\ x.retrying \in BOOLEAN /\ x.now \in BOOLEAN
    /\ x.state \in States
    /\ x.connected => x.state \in {"NOT_IN_PROGRESS", "DISCONNECTING"}
    /\ x.connect \in ConnectCommands /\ x.disconnect \in DisconnectCommands
    /\ x.commands \in Seq(Commands)
    /\ x.buffered \in Int
    /\ x.responses \in Seq(Ops) /\ x.outbound \in Seq(Ops)
    /\ x.pendingWrite \in 0..NOps
    /\ x.msgID \in 0..MaxMsgId
    /\ x.token \in [Ops -> 0..MaxMsgId]
    /\ x.net \in Sockets
    /\ HeldType(x.held)
    /\ x.told \in [Ops -> Seq(Kinds)]
    /\ x.toldConn \in [1..MaxConnects -> Seq(Kinds)]

\* The operations among commands, and that they are there in ascending order.
OpsIn(s) == {s[n].op : n \in {k \in DOMAIN s : IsOp(s[k])}}
OrderedOps(s) ==
    \A a, b \in DOMAIN s : a < b /\ IsOp(s[a]) /\ IsOp(s[b]) => s[a].op < s[b].op

LEMMA QueuedAre ==
    \A x : QueuedOps(x) = OpsIn(x.commands)
  BY DEF QueuedOps, OpPositions, OpsIn

LEMMA CommandKinds ==
    /\ \A c \in Commands : IsOp(c) <=> c \in OpCommands
    /\ \A c \in Commands : IsOp(c) => c.op \in Ops /\ c = OpCommand(c.op)
    /\ \A c \in ConnectCommands \cup DisconnectCommands : ~IsOp(c) /\ c \in Commands
    /\ \A i \in Ops : IsOp(OpCommand(i)) /\ OpCommand(i).op = i /\ OpCommand(i) \in Commands
    /\ Ops \subseteq Nat
  <1>1. \A c \in ConnectCommands \cup DisconnectCommands : ~IsOp(c) /\ c \in Commands
    BY DEF ConnectCommands, DisconnectCommands, IsOp, Commands
  <1>2. \A c \in OpCommands : IsOp(c) /\ c.op \in Ops /\ c = OpCommand(c.op)
    BY DEF OpCommands, IsOp, OpCommand
  <1>3. \A i \in Ops : IsOp(OpCommand(i)) /\ OpCommand(i).op = i /\ OpCommand(i) \in Commands
    BY DEF OpCommands, OpCommand, IsOp, Commands
  <1> QED  BY <1>1, <1>2, <1>3 DEF Commands, Ops

LEMMA OpsInType ==
    ASSUME NEW s \in Seq(Commands)
    PROVE  /\ OpsIn(s) \subseteq Ops
           /\ \A i \in OpsIn(s) : \E n \in DOMAIN s : IsOp(s[n]) /\ s[n].op = i /\ s[n] = OpCommand(i)
           /\ \A n \in DOMAIN s : IsOp(s[n]) => s[n].op \in OpsIn(s)
           /\ OpsIn(<<>>) = {} /\ OrderedOps(<<>>)
  <1>1. \A n \in DOMAIN s : s[n] \in Commands
    BY InRange
  <1>2. \A n \in DOMAIN s : IsOp(s[n]) => s[n].op \in Ops /\ s[n] = OpCommand(s[n].op)
    BY <1>1, CommandKinds
  <1>3. OpsIn(s) \subseteq Ops
    BY <1>2 DEF OpsIn
  <1>4. \A i \in OpsIn(s) : \E n \in DOMAIN s : IsOp(s[n]) /\ s[n].op = i /\ s[n] = OpCommand(i)
    BY <1>2 DEF OpsIn
  <1>5. \A n \in DOMAIN s : IsOp(s[n]) => s[n].op \in OpsIn(s)
    BY DEF OpsIn
  <1>6. OpsIn(<<>>) = {} /\ OrderedOps(<<>>)
    BY RangeShort DEF OpsIn, OrderedOps
  <1> QED  BY <1>3, <1>4, <1>5, <1>6

\* Taking a command out.
LEMMA OpsWithout ==
    ASSUME NEW s \in Seq(Commands), NEW t, NEW n \in DOMAIN s, Without(t, s, n), OrderedOps(s)
    PROVE  /\ OrderedOps(t)
           /\ IsOp(s[n]) => OpsIn(t) = OpsIn(s) \ {s[n].op}
           /\ ~IsOp(s[n]) => OpsIn(t) = OpsIn(s)
  <1>1. PICK at \in [DOMAIN t -> DOMAIN s \ {n}] :
            /\ \A a, b \in DOMAIN t : a < b => at[a] < at[b]
            /\ \A a, b \in DOMAIN t : at[a] = at[b] => a = b
            /\ \A a \in DOMAIN t : t[a] = s[at[a]]
            /\ \A b \in DOMAIN s \ {n} : \E a \in DOMAIN t : at[a] = b
    BY DEF Without
  <1>2. \A a \in DOMAIN t : at[a] \in DOMAIN s /\ at[a] # n /\ t[a] = s[at[a]]
    BY <1>1
  <1>3. OrderedOps(t)
    BY <1>1, <1>2 DEF OrderedOps
  <1>4. OpsIn(t) \subseteq OpsIn(s)
    BY <1>2 DEF OpsIn
  <1>5. ASSUME NEW b \in DOMAIN s, IsOp(s[b]), b # n
        PROVE  s[b].op \in OpsIn(t)
    <2>1. PICK a \in DOMAIN t : at[a] = b
      BY <1>1, <1>5
    <2> QED  BY <1>1, <1>5, <2>1 DEF OpsIn
  <1>6. ASSUME ~IsOp(s[n]) PROVE OpsIn(t) = OpsIn(s)
    BY <1>4, <1>5, <1>6 DEF OpsIn
  <1>7. ASSUME IsOp(s[n]) PROVE OpsIn(t) = OpsIn(s) \ {s[n].op}
    <2>1. DOMAIN s \subseteq Nat /\ \A a \in DOMAIN s : IsOp(s[a]) => s[a].op \in Nat
      <3>1. DOMAIN s \subseteq Nat /\ \A a \in DOMAIN s : s[a] \in Commands
        BY InRange
      <3> QED  BY <3>1, CommandKinds
    <2>2. \A a \in DOMAIN s : a # n /\ IsOp(s[a]) => s[a].op # s[n].op
      <3> SUFFICES ASSUME NEW a \in DOMAIN s, a # n, IsOp(s[a]) PROVE s[a].op # s[n].op
        OBVIOUS
      <3>1. a \in Nat /\ n \in Nat /\ s[a].op \in Nat /\ s[n].op \in Nat
        BY <1>7, <2>1
      <3>2. CASE a < n
        <4>1. s[a].op < s[n].op
          BY <1>7, <3>2 DEF OrderedOps
        <4> QED  BY <3>1, <4>1
      <3>3. CASE n < a
        <4>1. s[n].op < s[a].op
          BY <1>7, <3>3 DEF OrderedOps
        <4> QED  BY <3>1, <4>1
      <3> QED  BY <3>1, <3>2, <3>3
    <2>3. s[n].op \notin OpsIn(t)
      BY <1>2, <2>2 DEF OpsIn
    <2>4. OpsIn(s) \ {s[n].op} \subseteq OpsIn(t)
      BY <1>5 DEF OpsIn
    <2> QED  BY <1>4, <2>3, <2>4
  <1> QED  BY <1>3, <1>6, <1>7

\* A connect or disconnect command put in front, or any command at the end.
LEMMA OpsFirst ==
    ASSUME NEW s \in Seq(Commands), NEW c \in ConnectCommands \cup DisconnectCommands
    PROVE  /\ <<c>> \o s \in Seq(Commands)
           /\ OpsIn(<<c>> \o s) = OpsIn(s)
           /\ OrderedOps(s) => OrderedOps(<<c>> \o s)
  <1>1. ~IsOp(c) /\ c \in Commands /\ <<c>> \in Seq(Commands) /\ DOMAIN <<c>> = {1} /\ <<c>>[1] = c /\ Len(<<c>>) = 1
    BY CommandKinds, RangeShort
  <1> DEFINE t == <<c>> \o s
  <1>2. /\ t \in Seq(Commands) /\ DOMAIN t = 1..(1 + Len(s)) /\ Len(s) \in Nat /\ DOMAIN s = 1..Len(s)
        /\ t[1] = c /\ \A i \in DOMAIN s : t[1 + i] = s[i] /\ 1 + i \in DOMAIN t
    BY <1>1, ConcatPositions
  <1>3. \A i \in DOMAIN t : i = 1 \/ (i - 1 \in DOMAIN s /\ t[i] = s[i - 1])
    <2> SUFFICES ASSUME NEW i \in DOMAIN t, i # 1 PROVE i - 1 \in DOMAIN s /\ t[i] = s[i - 1]
      OBVIOUS
    <2> HIDE DEF t
    <2>1. i - 1 \in DOMAIN s /\ 1 + (i - 1) = i
      BY <1>2
    <2> QED  BY <1>2, <2>1
  <1> HIDE DEF t
  <1>4. OpsIn(t) = OpsIn(s)
    <2>1. \A n \in DOMAIN t : IsOp(t[n]) => t[n].op \in OpsIn(s)
      BY <1>1, <1>2, <1>3 DEF OpsIn
    <2>2. \A n \in DOMAIN s : IsOp(s[n]) => s[n].op \in OpsIn(t)
      BY <1>2 DEF OpsIn
    <2> QED  BY <2>1, <2>2 DEF OpsIn
  <1>5. ASSUME OrderedOps(s) PROVE OrderedOps(t)
    <2> SUFFICES ASSUME NEW a \in DOMAIN t, NEW b \in DOMAIN t, a < b, IsOp(t[a]), IsOp(t[b])
                 PROVE  t[a].op < t[b].op
      BY DEF OrderedOps
    <2>1. /\ a - 1 \in DOMAIN s /\ b - 1 \in DOMAIN s /\ a - 1 < b - 1
          /\ t[a] = s[a - 1] /\ t[b] = s[b - 1]
      BY <1>1, <1>2, <1>3
    <2> QED  BY <1>5, <2>1 DEF OrderedOps
  <1> QED  BY <1>2, <1>4, <1>5 DEF t

LEMMA OpsLast ==
    ASSUME NEW s \in Seq(Commands), NEW c \in Commands
    PROVE  /\ Append(s, c) \in Seq(Commands)
           /\ IsOp(c) => OpsIn(Append(s, c)) = OpsIn(s) \cup {c.op}
           /\ ~IsOp(c) => OpsIn(Append(s, c)) = OpsIn(s)
           /\ (OrderedOps(s) /\ (IsOp(c) => \A i \in OpsIn(s) : i < c.op)) => OrderedOps(Append(s, c))
  <1> DEFINE t == Append(s, c)
  <1>1. /\ t \in Seq(Commands) /\ DOMAIN t = DOMAIN s \cup {Len(s) + 1}
        /\ Len(s) \in Nat /\ DOMAIN s = 1..Len(s)
        /\ \A i \in DOMAIN s : t[i] = s[i] /\ i < Len(s) + 1
        /\ t[Len(s) + 1] = c
    BY AppendPositions
  <1> HIDE DEF t
  <1>2. \A n \in DOMAIN s : IsOp(s[n]) => s[n].op \in OpsIn(t)
    BY <1>1 DEF OpsIn
  <1>3. ASSUME IsOp(c) PROVE OpsIn(t) = OpsIn(s) \cup {c.op}
    <2>1. c.op \in OpsIn(t)
      BY <1>1, <1>3 DEF OpsIn
    <2>2. \A n \in DOMAIN t : IsOp(t[n]) => t[n].op \in OpsIn(s) \cup {c.op}
      BY <1>1 DEF OpsIn
    <2> QED  BY <1>2, <2>1, <2>2 DEF OpsIn
  <1>4. ASSUME ~IsOp(c) PROVE OpsIn(t) = OpsIn(s)
    <2>1. \A n \in DOMAIN t : IsOp(t[n]) => t[n].op \in OpsIn(s)
      BY <1>1, <1>4 DEF OpsIn
    <2> QED  BY <1>2, <2>1 DEF OpsIn
  <1>5. ASSUME OrderedOps(s), IsOp(c) => \A i \in OpsIn(s) : i < c.op
        PROVE  OrderedOps(t)
    <2> SUFFICES ASSUME NEW a \in DOMAIN t, NEW b \in DOMAIN t, a < b, IsOp(t[a]), IsOp(t[b])
                 PROVE  t[a].op < t[b].op
      BY DEF OrderedOps
    <2>1. a \in DOMAIN s /\ t[a] = s[a]
      BY <1>1
    <2>2. CASE b \in DOMAIN s
      BY <1>1, <1>5, <2>1, <2>2 DEF OrderedOps
    <2>3. CASE b = Len(s) + 1
      <3>1. s[a].op \in OpsIn(s)
        BY <2>1 DEF OpsIn
      <3> QED  BY <1>1, <1>5, <2>1, <2>3, <3>1
    <2> QED  BY <1>1, <2>2, <2>3
  <1> QED  BY <1>1, <1>3, <1>4, <1>5 DEF t

-----------------------------------------------------------------------------
(* The inductive invariant.                                                *)

\* No two callers have been given the same message id at a time: while this is so
\* an answer of the broker finds its operation, and no other, by the id.
Apart == ~asked.shared

\* An operation is in one place, or in the responses and the outbound messages.
PlaceInv(x) ==
    /\ OrderedOps(x.commands)
    /\ Distinct(x.responses) /\ Distinct(x.outbound)
    /\ \A i \in OpsIn(x.commands) : i \notin Range(x.responses) /\ i \notin Range(x.outbound)
    /\ \A i \in Range(x.outbound) : OpType[i] = "PUBLISH1"
    /\ Apart =>
           \A i \in Range(x.responses) : OpType[i] = "PUBLISH1" => i \in Range(x.outbound)
    /\ x.pendingWrite # 0 => OpType[x.pendingWrite] = "PUBLISH0"

\* The operations whose message id is in use, and that it is theirs alone.
Open(x) == OpsIn(x.commands) \cup Range(x.responses) \cup Range(x.outbound)

TokenInv(x) ==
    /\ \A i \in Ops \ Acknowledged : x.token[i] = 0
    /\ \A i \in Open(x) \cap Acknowledged : x.token[i] # 0
    /\ Apart => \A i, j \in Open(x) \cap Acknowledged : x.token[i] = x.token[j] => i = j

\* A packet on the wire is the only one of its operation, on a connection that is
\* up, and the client still waits for its answer.
AnswerOf(i) == IF OpType[i] = "PUBLISH1" THEN "PUBACK" ELSE "SUBACK"
Waits(x, i) ==
    /\ OpType[i] = "PUBLISH1" => i \in Range(x.outbound)
    /\ OpType[i] \in {"SUBSCRIBE", "UNSUBSCRIBE"} => i \in Range(x.responses)

OutOps(net) == {net.out[n].op : n \in DOMAIN net.out} \ {0}
InOps(net) == {net.in[n].op : n \in DOMAIN net.in} \ {0}
OnWire(net) == Range(net.pending) \cup OutOps(net) \cup InOps(net)

\* No operation twice in a channel.
OnceEach(s) == \A a, b \in DOMAIN s : s[a].op = s[b].op /\ s[a].op # 0 => a = b

NetInv(net) ==
    /\ Len(net.pending) <= 1
    /\ \A n \in DOMAIN net.out :
           net.out[n].type = IF net.out[n].op = 0 THEN "CONNECT" ELSE OpType[net.out[n].op]
    /\ \A n \in DOMAIN net.in :
           /\ net.in[n].type = IF net.in[n].op = 0 THEN "CONNACK" ELSE AnswerOf(net.in[n].op)
           /\ net.in[n].op # 0 => net.in[n].op \in Acknowledged
    /\ OnceEach(net.out) /\ OnceEach(net.in)
    /\ OutOps(net) \cap InOps(net) = {}
    /\ OutOps(net) \cap Range(net.pending) = {}
    /\ InOps(net) \cap Range(net.pending) = {}

WireInv(x) ==
    /\ NetInv(x.net)
    /\ \A i \in OnWire(x.net) :
           x.connected /\ i \notin OpsIn(x.commands) /\ (Apart => Waits(x, i))

\* A SUBACK read and not handled yet has its operation in responses, unless the
\* connection has been closed since.
HeldInv(x) ==
    x.held.type = "SUBACK" =>
        /\ x.held.pack.op # 0 /\ OpType[x.held.pack.op] \in {"SUBSCRIBE", "UNSUBSCRIBE"}
        /\ x.held.pack.op \notin OpsIn(x.commands) /\ x.held.pack.op \notin OnWire(x.net)
        /\ Apart => \/ x.held.pack.op \in Range(x.responses)
                    \/ x.responses = <<>> /\ ~x.connected

Fine(x) == Shape(x) /\ PlaceInv(x) /\ TokenInv(x) /\ WireInv(x) /\ HeldInv(x)

-----------------------------------------------------------------------------
(* Handlers that only drive the connection.                                *)

Sound(x) == Shape(x) /\ OrderedOps(x.commands) /\ Distinct(x.responses)

\* A connection without a packet of an operation on it.
QuietNet(net) ==
    /\ net.pending = <<>>
    /\ \A n \in DOMAIN net.out : net.out[n].op = 0 /\ net.out[n].type = "CONNECT"
    /\ \A n \in DOMAIN net.in : net.in[n].op = 0 /\ net.in[n].type = "CONNACK"

Kept(x, y) == y.responses = x.responses /\ y.outbound = x.outbound /\ y.told = x.told
Cleared(x, y) ==
    /\ y.responses = <<>> /\ y.outbound = <<>> /\ ~y.connected
    /\ \A i \in Ops : y.told[i] = IF i \in Range(x.responses) THEN Append(x.told[i], "failure")
                                  ELSE x.told[i]

\* What such a handler may change: it may close the connection and then fail every
\* response, and it keeps the operations of the command list.
Control(x, y) ==
    /\ y.token = x.token /\ y.pendingWrite = x.pendingWrite /\ y.buffered = x.buffered
    /\ y.held.type = "SUBACK" => x.held.type = "SUBACK" /\ y.held.pack = x.held.pack
    /\ OpsIn(y.commands) = OpsIn(x.commands)
    /\ y.connected => x.connected
    /\ (y.net = x.net /\ y.connected = x.connected) \/ (QuietNet(y.net) /\ ~y.connected)
    /\ Kept(x, y) \/ (Cleared(x, y) /\ QuietNet(y.net))

Controls(x, y) == Sound(y) /\ Control(x, y)

LEMMA ControlsSame ==
    ASSUME NEW x, Sound(x)
    PROVE  Controls(x, x)
  BY DEF Controls, Control, Kept

LEMMA ControlsTwice ==
    ASSUME NEW x, NEW y, NEW z, Sound(x), Controls(x, y), Controls(y, z)
    PROVE  Controls(x, z)
  <1>1. Sound(z) /\ Control(x, y) /\ Control(y, z)
    BY DEF Controls
  <1>2. Kept(x, z) \/ (Cleared(x, z) /\ QuietNet(z.net))
    <2>1. CASE Kept(x, y) /\ Kept(y, z)
      BY <2>1 DEF Kept
    <2>2. CASE Kept(x, y) /\ Cleared(y, z) /\ QuietNet(z.net)
      BY <2>2 DEF Kept, Cleared
    <2>3. CASE Cleared(x, y) /\ QuietNet(y.net) /\ Kept(y, z)
      BY <1>1, <2>3 DEF Kept, Cleared, Control
    <2>4. CASE Cleared(x, y) /\ QuietNet(y.net) /\ Cleared(y, z) /\ QuietNet(z.net)
      <3>1. Range(y.responses) = {}
        BY <2>4, RangeShort DEF Cleared
      <3> QED  BY <2>4, <3>1 DEF Cleared
    <2> QED  BY <1>1, <2>1, <2>2, <2>3, <2>4 DEF Control
  <1>3. /\ z.token = x.token /\ z.pendingWrite = x.pendingWrite /\ z.buffered = x.buffered
        /\ z.held.type = "SUBACK" => x.held.type = "SUBACK" /\ z.held.pack = x.held.pack
        /\ OpsIn(z.commands) = OpsIn(x.commands)
        /\ z.connected => x.connected
    BY <1>1 DEF Control
  <1>4. (z.net = x.net /\ z.connected = x.connected) \/ (QuietNet(z.net) /\ ~z.connected)
    BY <1>1 DEF Control
  <1> QED  BY <1>1, <1>2, <1>3, <1>4 DEF Controls, Control

\* Such a handler keeps the invariant of the structure.
LEMMA QuietWire ==
    ASSUME NEW net \in Sockets, QuietNet(net)
    PROVE  NetInv(net) /\ OnWire(net) = {}
  <1>1. /\ Range(net.pending) = {} /\ Len(net.pending) = 0
        /\ OutOps(net) = {} /\ InOps(net) = {}
    BY RangeShort DEF QuietNet, OutOps, InOps
  <1>2. OnWire(net) = {}
    BY <1>1 DEF OnWire
  <1>3. OnceEach(net.out) /\ OnceEach(net.in)
    BY DEF QuietNet, OnceEach
  <1>4. NetInv(net)
    BY <1>1, <1>3 DEF NetInv, QuietNet
  <1> QED  BY <1>2, <1>4

LEMMA ControlsFine ==
    ASSUME NEW x, NEW y, Fine(x), Controls(x, y)
    PROVE  Fine(y)
  <1>1. /\ Sound(y) /\ Shape(y) /\ y.net \in Sockets
        /\ y.token = x.token /\ y.pendingWrite = x.pendingWrite
        /\ y.held.type = "SUBACK" => x.held.type = "SUBACK" /\ y.held.pack = x.held.pack
        /\ OpsIn(y.commands) = OpsIn(x.commands)
        /\ y.connected => x.connected
        /\ (y.net = x.net /\ y.connected = x.connected) \/ (QuietNet(y.net) /\ ~y.connected)
        /\ \/ y.responses = x.responses /\ y.outbound = x.outbound
           \/ y.responses = <<>> /\ y.outbound = <<>> /\ ~y.connected /\ QuietNet(y.net)
    BY DEF Controls, Control, Sound, Shape, Kept, Cleared
  <1>2. Range(<<>>) = {} /\ DOMAIN <<>> = {}
    BY RangeShort
  <1>3. PlaceInv(x) /\ TokenInv(x) /\ WireInv(x) /\ HeldInv(x)
    BY DEF Fine
  <1>4. /\ Distinct(y.responses) /\ Distinct(y.outbound)
        /\ \/ Range(y.responses) = Range(x.responses) /\ Range(y.outbound) = Range(x.outbound)
           \/ Range(y.responses) = {} /\ Range(y.outbound) = {}
    BY <1>1, <1>2, <1>3 DEF PlaceInv, Distinct
  <1>5. PlaceInv(y)
    BY <1>1, <1>3, <1>4 DEF PlaceInv, Sound
  <1>6. TokenInv(y)
    <2>1. Open(y) \subseteq Open(x)
      BY <1>1, <1>4 DEF Open
    <2> QED  BY <1>1, <1>3, <2>1 DEF TokenInv
  <1>7. WireInv(y) /\ OnWire(y.net) \subseteq OnWire(x.net)
    <2>1. CASE QuietNet(y.net)
      BY <1>1, <2>1, QuietWire DEF WireInv
    <2>2. CASE ~QuietNet(y.net)
      BY <1>1, <1>3, <2>2 DEF WireInv, Waits
    <2> QED  BY <2>1, <2>2
  <1>8. HeldInv(y)
    BY <1>1, <1>3, <1>7 DEF HeldInv
  <1> QED  BY <1>1, <1>5, <1>6, <1>7, <1>8 DEF Fine

\* A structure of which only what drives the connection has changed.
LEMMA DrivesOnly ==
    ASSUME NEW x, NEW y, Sound(x), Shape(y),
           \A f \in {"commands", "responses", "outbound", "told", "token", "pendingWrite",
                     "buffered", "net", "held", "connected"} : y[f] = x[f]
    PROVE  Controls(x, y)
  <1>1. /\ y.commands = x.commands /\ y.responses = x.responses /\ y.outbound = x.outbound
        /\ y.told = x.told /\ y.token = x.token /\ y.pendingWrite = x.pendingWrite
        /\ y.buffered = x.buffered /\ y.net = x.net /\ y.held = x.held
        /\ y.connected = x.connected
    OBVIOUS
  <1> QED  BY <1>1 DEF Controls, Control, Sound, Kept

LEMMA NewSocketType ==
    /\ NewSocket \in Sockets /\ QuietNet(NewSocket)
    /\ \A s \in Seq(Packets) : [NewSocket EXCEPT !.out = s] \in Sockets
    /\ \A b \in BOOLEAN : [NewSocket EXCEPT !.broken = b] \in Sockets /\ QuietNet([NewSocket EXCEPT !.broken = b])
    /\ Packet("CONNECT", 0) \in Packets
    /\ [NewSocket EXCEPT !.out = <<Packet("CONNECT", 0)>>] \in Sockets
    /\ QuietNet([NewSocket EXCEPT !.out = <<Packet("CONNECT", 0)>>])
    /\ QuietNet([NewSocket EXCEPT !.out = <<>>])
  <1>1. /\ <<>> \in Seq(Packets) /\ <<>> \in Seq(Ops) /\ DOMAIN <<>> = {}
        /\ \A p : DOMAIN <<p>> = {1} /\ <<p>>[1] = p
        /\ \A p \in Packets : <<p>> \in Seq(Packets)
    BY RangeShort
  <1>2. NewSocket \in Sockets /\ QuietNet(NewSocket)
    BY <1>1 DEF NewSocket, Sockets, QuietNet
  <1>3. \A s \in Seq(Packets) : [NewSocket EXCEPT !.out = s] \in Sockets
    BY <1>1 DEF NewSocket, Sockets
  <1>4. \A b \in BOOLEAN : [NewSocket EXCEPT !.broken = b] \in Sockets /\ QuietNet([NewSocket EXCEPT !.broken = b])
    BY <1>1 DEF NewSocket, Sockets, QuietNet
  <1>5. Packet("CONNECT", 0) \in Packets /\ Packet("CONNECT", 0).op = 0 /\ Packet("CONNECT", 0).type = "CONNECT"
    BY AsyncAssumption DEF Packet, Packets
  <1>6. /\ [NewSocket EXCEPT !.out = <<Packet("CONNECT", 0)>>] \in Sockets
        /\ QuietNet([NewSocket EXCEPT !.out = <<Packet("CONNECT", 0)>>])
    <2>1. <<Packet("CONNECT", 0)>> \in Seq(Packets)
      BY <1>1, <1>5
    <2> DEFINE p == Packet("CONNECT", 0)
    <2>2. p.op = 0 /\ p.type = "CONNECT"
      BY <1>5
    <2> HIDE DEF p
    <2>3. QuietNet([NewSocket EXCEPT !.out = <<p>>])
      BY <1>1, <2>2 DEF NewSocket, QuietNet
    <2> QED  BY <1>3, <2>1, <2>3 DEF p
  <1>7. QuietNet([NewSocket EXCEPT !.out = <<>>])
    BY <1>1 DEF NewSocket, QuietNet
  <1> QED  BY <1>2, <1>3, <1>4, <1>5, <1>6, <1>7

\* AnswerConnect and ReplyConnect tell the application of a connect call.
LEMMA ReplyConnectControls ==
    ASSUME NEW x, Sound(x), NEW k \in 0..MaxConnects, NEW kind \in Kinds
    PROVE  /\ Controls(x, ReplyConnect(x, k, kind))
           /\ \A f \in Fields \ {"toldConn"} : ReplyConnect(x, k, kind)[f] = x[f]
  <1> DEFINE y == ReplyConnect(x, k, kind)
  <1>1. CASE k = 0
    BY <1>1, ControlsSame DEF ReplyConnect
  <1>2. CASE k # 0
    <2> DEFINE v == [x.toldConn EXCEPT ![k] = Append(x.toldConn[k], kind)]
    <2>1. "toldConn" \in DOMAIN x /\ x.toldConn \in [1..MaxConnects -> Seq(Kinds)] /\ k \in 1..MaxConnects
      <3>1. MaxConnects \in Nat
        BY AsyncAssumption
      <3> QED  BY <1>2, <3>1 DEF Sound, Shape, Fields
    <2>2. v \in [1..MaxConnects -> Seq(Kinds)]
      <3>1. x.toldConn[k] \in Seq(Kinds)
        BY <2>1
      <3>2. Append(x.toldConn[k], kind) \in Seq(Kinds)
        BY <3>1, AppendPositions
      <3> QED  BY <2>1, <3>2
    <2>3. y = [x EXCEPT !.toldConn = v]
      BY <1>2, <2>1 DEF ReplyConnect
    <2> HIDE DEF v, y
    <2>4. Shape(y) /\ \A f \in Fields \ {"toldConn"} : y[f] = x[f]
      BY <2>2, <2>3 DEF Sound, Shape, Fields, v
    <2>5. Controls(x, y)
      BY <2>4, DrivesOnly DEF Fields
    <2> QED  BY <2>4, <2>5 DEF y
  <1> QED  BY <1>1, <1>2

LEMMA ConnectTypes ==
    ASSUME NEW c \in ConnectCommands
    PROVE  /\ [c EXCEPT !.cb = 0] \in ConnectCommands
           /\ c.cb \in 0..MaxConnects /\ c.version \in {0, 3, 4} /\ c.late \in BOOLEAN
           /\ NextTry(c) \in ConnectCommands /\ Restarted(c) \in ConnectCommands
           /\ WithVersion(c) \in ConnectCommands
           /\ [c EXCEPT !.late = FALSE] \in ConnectCommands
           /\ [c EXCEPT !.late = TRUE] \in ConnectCommands
           /\ c.type = "CONNECT"
           /\ \A k \in 0..MaxConnects : [c EXCEPT !.cb = k] \in ConnectCommands
  <1>1. 0 \in 0..MaxConnects
    BY AsyncAssumption
  <1>2. /\ [c EXCEPT !.cb = 0] \in ConnectCommands
        /\ c.cb \in 0..MaxConnects /\ c.version \in {0, 3, 4} /\ c.late \in BOOLEAN
        /\ c.type = "CONNECT"
    BY <1>1 DEF ConnectCommands
  <1>3. NextTry(c) \in ConnectCommands
    <2>1. c.uri + 1 \in Nat
      BY DEF ConnectCommands
    <2>2. [c EXCEPT !.uri = @ + 1] \in ConnectCommands
      BY <2>1 DEF ConnectCommands
    <2>3. [c EXCEPT !.uri = @ + 1, !.version = 0] \in ConnectCommands
      BY <2>1 DEF ConnectCommands
    <2> QED  BY <2>2, <2>3 DEF NextTry
  <1>4. Restarted(c) \in ConnectCommands
    BY DEF ConnectCommands, Restarted
  <1>5. WithVersion(c) \in ConnectCommands
    BY DEF ConnectCommands, WithVersion
  <1>6. /\ [c EXCEPT !.late = FALSE] \in ConnectCommands
        /\ [c EXCEPT !.late = TRUE] \in ConnectCommands
        /\ \A k \in 0..MaxConnects : [c EXCEPT !.cb = k] \in ConnectCommands
    BY DEF ConnectCommands
  <1> QED  BY <1>2, <1>3, <1>4, <1>5, <1>6

LEMMA AnswerConnectControls ==
    ASSUME NEW x, Sound(x), NEW kind \in Kinds
    PROVE  Controls(x, AnswerConnect(x, kind))
  <1> DEFINE y == ReplyConnect(x, x.connect.cb, kind)
             z == AnswerConnect(x, kind)
  <1>1. x.connect.cb \in 0..MaxConnects /\ x.connect \in ConnectCommands
    BY ConnectTypes DEF Sound, Shape
  <1>2. Controls(x, y) /\ y.connect = x.connect
    BY <1>1, ReplyConnectControls DEF Fields
  <1>3. z = [y EXCEPT !.connect = [x.connect EXCEPT !.cb = 0]]
    BY <1>2 DEF AnswerConnect
  <1> DEFINE v == [x.connect EXCEPT !.cb = 0]
  <1>4. v \in ConnectCommands
    BY <1>1, ConnectTypes
  <1> HIDE DEF v, y, z
  <1>5. Sound(y)
    BY <1>2 DEF Controls
  <1>6. Shape(z) /\ \A f \in Fields \ {"connect"} : z[f] = y[f]
    BY <1>3, <1>4, <1>5 DEF Sound, Shape, Fields, v
  <1>7. Controls(y, z)
    BY <1>5, <1>6, DrivesOnly DEF Fields
  <1> QED  BY <1>2, <1>7, ControlsTwice DEF z

LEMMA StartConnectRetryControls ==
    ASSUME NEW x, Sound(x)
    PROVE  /\ Controls(x, StartConnectRetry(x))
           /\ \A f \in Fields \ {"retrying"} : StartConnectRetry(x)[f] = x[f]
  <1> DEFINE y == StartConnectRetry(x)
  <1>1. Shape(y) /\ \A f \in Fields \ {"retrying"} : y[f] = x[f]
    BY DEF Sound, Shape, Fields, StartConnectRetry
  <1> HIDE DEF y
  <1>2. Controls(x, y)
    BY <1>1, DrivesOnly DEF Fields
  <1> QED  BY <1>1, <1>2 DEF y

\* MQTTAsync_addCommand at the head of the list.
LEMMA AddFirstControls ==
    ASSUME NEW x, Sound(x), NEW c \in ConnectCommands \cup DisconnectCommands
    PROVE  /\ Controls(x, AddFirst(x, c))
           /\ \A f \in Fields \ {"commands"} : AddFirst(x, c)[f] = x[f]
  <1> DEFINE y == AddFirst(x, c)
             s == <<Started(x, c)>> \o x.commands
  <1>1. CASE Ignored(x)
    BY <1>1, ControlsSame DEF AddFirst
  <1>2. CASE ~Ignored(x)
    <2>1. Started(x, c) \in ConnectCommands \cup DisconnectCommands
      BY ConnectTypes DEF Started, DisconnectCommands
    <2>2. x.commands \in Seq(Commands)
      BY DEF Sound, Shape
    <2>3. /\ s \in Seq(Commands)
          /\ OpsIn(s) = OpsIn(x.commands)
          /\ OrderedOps(x.commands) => OrderedOps(s)
      BY <2>1, <2>2, OpsFirst
    <2>4. y = [x EXCEPT !.commands = s]
      BY <1>2 DEF AddFirst
    <2> HIDE DEF s, y
    <2>5. Shape(y) /\ y.commands = s /\ \A f \in Fields \ {"commands"} : y[f] = x[f]
      BY <2>3, <2>4 DEF Sound, Shape, Fields
    <2>6. Controls(x, y)
      <3>1. /\ y.responses = x.responses /\ y.outbound = x.outbound
            /\ y.told = x.told /\ y.token = x.token /\ y.pendingWrite = x.pendingWrite
            /\ y.buffered = x.buffered /\ y.net = x.net /\ y.held = x.held
            /\ y.connected = x.connected
        BY <2>5 DEF Fields
      <3> QED  BY <2>3, <2>5, <3>1 DEF Controls, Control, Sound, Kept
    <2> QED  BY <2>5, <2>6 DEF y
  <1> QED  BY <1>1, <1>2

\* The failures of the responses when they are freed.
LEMMA FreedTold ==
    ASSUME NEW x, Sound(x), NEW i \in Ops
    PROVE  x.told[i] \o Failures(Positions(x.responses, i)) =
               IF i \in Range(x.responses) THEN Append(x.told[i], "failure") ELSE x.told[i]
  <1>1. x.responses \in Seq(Ops) /\ Distinct(x.responses) /\ x.told[i] \in Seq(Kinds)
    BY DEF Sound, Shape
  <1>2. CASE i \in Range(x.responses)
    <2>1. Cardinality(Positions(x.responses, i)) = 1
      BY <1>1, <1>2, DistinctPositions
    <2>2. Failures(Positions(x.responses, i)) = <<"failure">>
      BY <2>1 DEF Failures
    <2> QED  BY <1>1, <1>2, <2>2, AppendIsConcat DEF Kinds
  <1>3. CASE i \notin Range(x.responses)
    <2>1. Cardinality(Positions(x.responses, i)) = 0
      BY <1>1, <1>3, DistinctPositions
    <2>2. Failures(Positions(x.responses, i)) = <<>>
      BY <2>1 DEF Failures
    <2> QED  BY <1>1, <1>3, <2>2
  <1> QED  BY <1>2, <1>3

LEMMA CleanedFields ==
    ASSUME NEW x, Sound(x)
    PROVE  /\ Sound(CleanedSession(x))
           /\ CleanedSession(x).responses = <<>> /\ CleanedSession(x).outbound = <<>>
           /\ \A f \in Fields \ {"outbound", "msgID", "responses", "told"} :
                  CleanedSession(x)[f] = x[f]
           /\ \A i \in Ops : CleanedSession(x).told[i] =
                  IF i \in Range(x.responses) THEN Append(x.told[i], "failure") ELSE x.told[i]
  <1> DEFINE told == [i \in Ops |-> x.told[i] \o Failures(Positions(x.responses, i))]
             w == [x EXCEPT !.outbound = <<>>, !.msgID = 0]
             y == CleanedSession(x)
  <1>1. \A i \in Ops : told[i] = IF i \in Range(x.responses) THEN Append(x.told[i], "failure")
                                 ELSE x.told[i]
    BY FreedTold
  <1>2. told \in [Ops -> Seq(Kinds)]
    <2>1. ASSUME NEW i \in Ops PROVE told[i] \in Seq(Kinds)
      <3>1. x.told[i] \in Seq(Kinds) /\ "failure" \in Kinds
        BY DEF Sound, Shape, Kinds
      <3>2. Append(x.told[i], "failure") \in Seq(Kinds)
        BY <3>1
      <3> HIDE DEF told
      <3> QED  BY <1>1, <3>1, <3>2
    <2> QED  BY <2>1
  <1>3. DOMAIN w = Fields /\ w.responses = x.responses /\ w.told = x.told
    BY DEF Sound, Shape, Fields
  <1>4. y = [w EXCEPT !.responses = <<>>, !.told = told]
    <2> HIDE DEF w
    <2> QED  BY <1>3 DEF CleanedSession, FreeResponses, w
  <1> HIDE DEF told, y
  <1>5. /\ y.responses = <<>> /\ y.outbound = <<>> /\ y.told = told /\ y.msgID = 0
        /\ \A f \in Fields \ {"outbound", "msgID", "responses", "told"} : y[f] = x[f]
    BY <1>4 DEF Sound, Shape, Fields
  <1>6. DOMAIN y = Fields /\ y = [f \in Fields |-> y[f]]
    BY <1>4 DEF Sound, Shape, Fields
  <1>7. 0 \in 0..MaxMsgId /\ <<>> \in Seq(Ops)
    BY AsyncAssumption
  <1>8. Sound(y)
    <2>1. Distinct(<<>>)
      BY RangeShort DEF Distinct
    <2> QED  BY <1>2, <1>5, <1>6, <1>7, <2>1 DEF Sound, Shape, Fields
  <1> QED  BY <1>1, <1>5, <1>8 DEF y

LEMMA HeldStale ==
    ASSUME NEW h, HeldType(h), NEW b \in BOOLEAN
    PROVE  /\ HeldType([h EXCEPT !.stale = b])
           /\ [h EXCEPT !.stale = b].type = h.type
           /\ h.type = "SUBACK" => [h EXCEPT !.stale = b].pack = h.pack /\ h.pack \in Packets
           /\ h.type = "CONNACK" => h.pack \in Packets
           /\ h.type \in {"NONE", "ERROR", "CONNACK", "SUBACK"}
  <1>1. CASE h \in [type : {"NONE", "ERROR"}, stale : BOOLEAN]
    BY <1>1 DEF HeldType
  <1>2. CASE h \in [type : {"CONNACK", "SUBACK"}, stale : BOOLEAN, pack : Packets]
    BY <1>2 DEF HeldType
  <1> QED  BY <1>1, <1>2 DEF HeldType

LEMMA CloseOnlyFields ==
    ASSUME NEW x, Sound(x)
    PROVE  /\ Sound(CloseOnly(x)) /\ CloseOnly(x).net = NewSocket
           /\ CloseOnly(x).connected = FALSE
           /\ \A f \in Fields \ {"connected", "state", "net", "held"} : CloseOnly(x)[f] = x[f]
           /\ CloseOnly(x).held.type = x.held.type
           /\ x.held.type = "SUBACK" => CloseOnly(x).held.pack = x.held.pack
           /\ Controls(x, CloseOnly(x))
  <1> DEFINE b == x.held.type # "NONE"
             h == [x.held EXCEPT !.stale = b]
             y == CloseOnly(x)
  <1>1. b \in BOOLEAN
    OBVIOUS
  <1>2. HeldType(x.held) /\ DOMAIN x = Fields
    BY DEF Sound, Shape
  <1>3. y = [x EXCEPT !.connected = FALSE, !.state = "NOT_IN_PROGRESS", !.net = NewSocket,
                      !.held = h]
    BY DEF CloseOnly
  <1> HIDE DEF b
  <1>4. /\ HeldType(h) /\ h.type = x.held.type
        /\ x.held.type = "SUBACK" => h.pack = x.held.pack
    BY <1>1, <1>2, HeldStale
  <1> HIDE DEF h, y
  <1>5. /\ y.connected = FALSE /\ y.state = "NOT_IN_PROGRESS" /\ y.net = NewSocket /\ y.held = h
        /\ \A f \in Fields \ {"connected", "state", "net", "held"} : y[f] = x[f]
        /\ DOMAIN y = Fields /\ y = [f \in Fields |-> y[f]]
    BY <1>3 DEF Sound, Shape, Fields
  <1>6. Sound(y)
    BY <1>4, <1>5, NewSocketType DEF Sound, Shape, Fields, States
  <1>7. Controls(x, y)
    <2>1. /\ y.commands = x.commands /\ y.responses = x.responses /\ y.outbound = x.outbound
          /\ y.told = x.told /\ y.token = x.token /\ y.pendingWrite = x.pendingWrite
          /\ y.buffered = x.buffered
      BY <1>5 DEF Fields
    <2> QED  BY <1>4, <1>5, <1>6, <2>1, NewSocketType DEF Controls, Control, Kept
  <1> QED  BY <1>4, <1>5, <1>6, <1>7 DEF y

LEMMA CloseSessionControls ==
    ASSUME NEW x, Sound(x)
    PROVE  /\ Controls(x, CloseSession(x)) /\ CloseSession(x).connected = FALSE
           /\ CloseSession(x).net = NewSocket
           /\ \A f \in Fields \ {"connected", "state", "net", "held", "outbound", "msgID",
                                 "responses", "told"} : CloseSession(x)[f] = x[f]
  <1> DEFINE y == CloseOnly(x)
             z == CleanedSession(y)
  <1>1. /\ Sound(y) /\ y.net = NewSocket /\ y.connected = FALSE
        /\ \A f \in Fields \ {"connected", "state", "net", "held"} : y[f] = x[f]
        /\ Controls(x, y)
    BY CloseOnlyFields
  <1> HIDE DEF y
  <1>2. /\ Sound(z) /\ z.responses = <<>> /\ z.outbound = <<>>
        /\ \A f \in Fields \ {"outbound", "msgID", "responses", "told"} : z[f] = y[f]
        /\ \A i \in Ops : z.told[i] =
               IF i \in Range(y.responses) THEN Append(y.told[i], "failure") ELSE y.told[i]
    BY <1>1, CleanedFields
  <1> HIDE DEF z
  <1>3. /\ z.commands = y.commands /\ z.token = y.token /\ z.pendingWrite = y.pendingWrite
        /\ z.buffered = y.buffered /\ z.held = y.held /\ z.net = y.net /\ z.connected = y.connected
    BY <1>2 DEF Fields
  <1>4. Controls(y, z)
    BY <1>1, <1>2, <1>3, NewSocketType DEF Controls, Control, Cleared
  <1>5. Controls(x, z)
    BY <1>1, <1>4, ControlsTwice
  <1> QED  BY <1>1, <1>2, <1>3, <1>5 DEF CloseSession, y, z

LEMMA GiveUpControls ==
    ASSUME NEW x, Sound(x)
    PROVE  Controls(x, GiveUp(x))
  <1> DEFINE y == CloseSession(x)
             z == AnswerConnect(y, "failure")
             w == StartConnectRetry(z)
  <1>1. Controls(x, y)
    BY CloseSessionControls
  <1>2. w = GiveUp(x)
    BY DEF GiveUp
  <1> HIDE DEF y, w
  <1>3. Sound(y) /\ Controls(y, z)
    BY <1>1, AnswerConnectControls DEF Controls, Kinds
  <1> HIDE DEF z
  <1>4. Sound(z) /\ Controls(z, w)
    BY <1>3, StartConnectRetryControls DEF Controls, w
  <1> QED  BY <1>1, <1>2, <1>3, <1>4, ControlsTwice

LEMMA NextOrCloseControls ==
    ASSUME NEW x, Sound(x)
    PROVE  Controls(x, NextOrClose(x))
  <1>1. CASE CheckConn(x.connect) /\ ~Ignored(x)
    <2> DEFINE y == CloseOnly(x)
    <2>1. Controls(x, y) /\ Sound(y)
      BY CloseOnlyFields
    <2> HIDE DEF y
    <2>2. NextTry(x.connect) \in ConnectCommands
      BY ConnectTypes DEF Sound, Shape
    <2>3. Controls(y, AddFirst(y, NextTry(x.connect)))
      BY <2>1, <2>2, AddFirstControls
    <2> QED  BY <1>1, <2>1, <2>3, ControlsTwice DEF NextOrClose, y
  <1>2. CASE ~(CheckConn(x.connect) /\ ~Ignored(x))
    BY <1>2, GiveUpControls DEF NextOrClose
  <1> QED  BY <1>1, <1>2

LEMMA CheckDisconnectControls ==
    ASSUME NEW x, Sound(x), NEW d
    PROVE  Controls(x, CheckDisconnect(x, d))
  <1> DEFINE y == CloseSession(x)
  <1>1. Controls(x, x) /\ Controls(x, y) /\ Sound(y)
    BY ControlsSame, CloseSessionControls DEF Controls
  <1> HIDE DEF y
  <1>2. Controls(x, StartConnectRetry(y))
    BY <1>1, StartConnectRetryControls, ControlsTwice
  <1> QED  BY <1>1, <1>2 DEF CheckDisconnect, y

LEMMA DisconnectInternalControls ==
    ASSUME NEW x, Sound(x)
    PROVE  /\ Controls(x, DisconnectInternal(x))
           /\ \A f \in Fields \ {"commands"} : DisconnectInternal(x)[f] = x[f]
  <1>1. DisconnectCommand(TRUE) \in DisconnectCommands
    BY DEF DisconnectCommand, DisconnectCommands
  <1> QED  BY <1>1, AddFirstControls, ControlsSame DEF DisconnectInternal

LEMMA ConnectFailedControls ==
    ASSUME NEW x, Sound(x), NEW c \in ConnectCommands
    PROVE  Controls(x, ConnectFailed(x, c))
  <1> DEFINE y == [x EXCEPT !.should = TRUE]
             z == ReplyConnect(y, c.cb, "failure")
             w == [z EXCEPT !.connect = c]
  <1>1. Controls(x, y)
    <2>1. Shape(y) /\ \A f \in Fields \ {"should"} : y[f] = x[f]
      BY DEF Sound, Shape, Fields
    <2> HIDE DEF y
    <2> QED  BY <2>1, DrivesOnly DEF Fields
  <1>2. Sound(y)
    BY <1>1 DEF Controls
  <1> HIDE DEF y
  <1>3. Controls(y, AddFirst(y, NextTry(c)))
    BY <1>2, ConnectTypes, AddFirstControls
  <1>4. Controls(y, z) /\ Sound(z)
    BY <1>2, ConnectTypes, ReplyConnectControls DEF Kinds, Controls
  <1> HIDE DEF z
  <1>5. Controls(z, w)
    <2>1. Shape(w) /\ \A f \in Fields \ {"connect"} : w[f] = z[f]
      BY <1>4 DEF Sound, Shape, Fields
    <2> HIDE DEF w
    <2> QED  BY <1>4, <2>1, DrivesOnly DEF Fields
  <1> HIDE DEF w
  <1>6. Controls(w, StartConnectRetry(w)) /\ Sound(w)
    BY <1>5, StartConnectRetryControls DEF Controls
  <1>7. Controls(x, AddFirst(y, NextTry(c)))
    BY <1>1, <1>3, ControlsTwice
  <1>8. Controls(x, StartConnectRetry(w))
    BY <1>1, <1>2, <1>4, <1>5, <1>6, ControlsTwice
  <1>9. ConnectFailed(x, c) = IF CheckConn(c) THEN AddFirst(y, NextTry(c)) ELSE StartConnectRetry(w)
    BY DEF ConnectFailed, y, z, w
  <1> QED  BY <1>7, <1>8, <1>9

LEMMA RetryControls ==
    ASSUME NEW x, Sound(x)
    PROVE  Controls(x, Retry(x))
  <1> DEFINE y == AddFirst(x, Restarted(x.connect))
             z == [y EXCEPT !.now = FALSE]
  <1>1. Restarted(x.connect) \in ConnectCommands
    BY ConnectTypes DEF Sound, Shape
  <1>2. Controls(x, y) /\ Sound(y)
    BY <1>1, AddFirstControls DEF Controls
  <1>3. z = Retry(x)
    BY DEF Retry
  <1> HIDE DEF y
  <1>4. Controls(y, z)
    <2>1. Shape(z) /\ \A f \in Fields \ {"now"} : z[f] = y[f]
      BY <1>2 DEF Sound, Shape, Fields
    <2> HIDE DEF z
    <2> QED  BY <1>2, <2>1, DrivesOnly DEF Fields
  <1> QED  BY <1>2, <1>3, <1>4, ControlsTwice

\* A connect attempt starts on a socket of its own.
LEMMA ConnectingControls ==
    ASSUME NEW x, Sound(x), ~HasSocket(x), NEW c \in ConnectCommands,
           NEW state \in {"TCP_IN_PROGRESS", "WAIT_FOR_CONNACK"},
           NEW out \in {<<>>, <<Packet("CONNECT", 0)>>}
    PROVE  Controls(x, Connecting(x, c, state, out))
  <1> DEFINE net == [NewSocket EXCEPT !.out = out]
             y == Connecting(x, c, state, out)
  <1>1. net \in Sockets /\ QuietNet(net)
    BY NewSocketType, RangeShort
  <1>2. y = [x EXCEPT !.state = state, !.connect = c, !.net = net]
    BY DEF Connecting
  <1> HIDE DEF net, y
  <1>3. /\ y.net = net /\ y.state = state /\ y.connect = c
        /\ \A f \in Fields \ {"state", "connect", "net"} : y[f] = x[f]
        /\ DOMAIN y = Fields /\ y = [f \in Fields |-> y[f]]
    BY <1>2 DEF Sound, Shape, Fields
  <1>4. ~x.connected
    BY DEF HasSocket
  <1>5. Sound(y)
    BY <1>1, <1>3, <1>4 DEF Sound, Shape, Fields, States
  <1>6. /\ y.commands = x.commands /\ y.responses = x.responses /\ y.outbound = x.outbound
        /\ y.told = x.told /\ y.token = x.token /\ y.pendingWrite = x.pendingWrite
        /\ y.buffered = x.buffered /\ y.held = x.held /\ y.connected = x.connected
    BY <1>3 DEF Fields
  <1> QED  BY <1>1, <1>3, <1>4, <1>5, <1>6 DEF Controls, Control, Kept, y

-----------------------------------------------------------------------------
(* The invariant of the whole client, and the step that changes it least.  *)

\* Operations whose callback is still to come.
Waiting(x) == OpsIn(x.commands) \cup Range(x.responses)

\* What handlers do to operations: each one that no longer waits is told so once,
\* of a success only if it is among good.
Told(x, y, good, i) ==
    \/ y.told[i] = Append(x.told[i], "failure")
    \/ i \in good /\ y.told[i] = Append(x.told[i], "success")
Moves(x, y, good) ==
    /\ y.token = x.token
    /\ Open(y) \subseteq Open(x)
    /\ OnWire(y.net) \subseteq OnWire(x.net) \cup Open(x)
    /\ InOps(y.net) \subseteq InOps(x.net)
    /\ y.held.type = "SUBACK" =>
           \/ x.held.type = "SUBACK" /\ y.held.pack = x.held.pack
           \/ y.held.pack.op \in InOps(x.net)
    /\ Waiting(y) \subseteq Waiting(x)
    /\ \A i \in Waiting(x) \ Waiting(y) : Told(x, y, good, i)
    /\ \A i \in Ops \ (Waiting(x) \ Waiting(y)) : y.told[i] = x.told[i]

AskedType ==
    /\ asked = [f \in {"conn", "other", "left", "shared"} |-> asked[f]]
    /\ asked.conn \in Nat
AskedKept == AskedType' /\ asked'.shared = asked.shared

OtherTypes ==
    /\ m.told = NoReplies /\ m.toldConn = NoConnReplies
    /\ call \in [Ops -> {"new", "calling", "accepted", "refused", "dropped", "orphan"}]
    /\ replies \in [Ops -> Seq(Kinds)] /\ conns \in [1..MaxConnects -> Seq(Kinds)]
    /\ written \subseteq Ops /\ got \in Seq(Ops)
    /\ AskedType

\* The disk has the operations of the command list, in the same order.
StoreInv ==
    /\ stored \in Seq(Ops) /\ Ascends(stored) /\ Range(stored) = OpsIn(m.commands)
    /\ m.buffered = Cardinality(OpsIn(m.commands) \cap Publishes)
    /\ m.buffered <= MaxBuffered

\* Operations are queued in the order of their numbers; what the client still has
\* to do with was accepted; while callers share no id, the id of an operation about
\* to be queued is no other's; an accepted operation waits, or has been told once.
CallInv ==
    /\ \A i, j \in Ops : i < j /\ call[i] \in {"new", "calling"} =>
           call[j] \in {"new", "calling", "refused"}
    /\ \A i \in Open(m) \cup OnWire(m.net) : call[i] \in {"accepted", "orphan"}
    /\ m.held.type = "SUBACK" => call[m.held.pack.op] \in {"accepted", "orphan"}
    /\ \A i \in Acknowledged : call[i] \notin {"new", "refused"} => m.token[i] # 0
    /\ Apart => \A i \in Acknowledged : call[i] = "calling" =>
           /\ \A j \in Open(m) : m.token[j] # m.token[i]
           /\ \A j \in Acknowledged : call[j] = "calling" /\ m.token[j] = m.token[i] => j = i
    /\ \A i \in Ops : call[i] = "accepted" =>
           Len(replies[i]) = IF i \in Waiting(m) THEN 0 ELSE 1
    /\ \A i \in Ops : call[i] \in {"new", "calling", "refused"} => replies[i] = <<>>

\* The broker has read what an answer is about, and what was told to succeed.
ReadInv ==
    /\ InOps(m.net) \subseteq Range(got)
    /\ m.held.type = "SUBACK" => m.held.pack.op \in Range(got)
    /\ Apart => \A i \in Acknowledged : "success" \in Range(replies[i]) => i \in Range(got)

AsyncInv == Fine(m) /\ OtherTypes /\ StoreInv /\ CallInv /\ ReadInv

\* What else the writes leave behind.  A QoS 0 publish that is among the
\* responses is the one partly written, and the one pending_write stands for; one
\* that was told to succeed was written.
CleanInv ==
    /\ \A i \in Range(m.responses) : OpType[i] = "PUBLISH0" =>
           m.pendingWrite = i /\ (m.connected => m.net.pending = <<i>>)
    /\ \A i \in Ops \ Acknowledged : "success" \in Range(replies[i]) => i \in written

\* What the broker has read, what is written, what is partly written and what is
\* queued are in the order in which the application asked, one after the other.
OutAscends(net) ==
    \A a, b \in DOMAIN net.out : a < b /\ net.out[b].op # 0 => net.out[a].op < net.out[b].op
OrderInv ==
    /\ Ascends(got) /\ OutAscends(m.net)
    /\ \A i \in Range(got), j \in OutOps(m.net) : i < j
    /\ \A i \in Range(got) \cup OutOps(m.net), j \in Range(m.net.pending) : i < j
    /\ \A i \in Range(got) \cup OutOps(m.net) \cup Range(m.net.pending),
          j \in OpsIn(m.commands) : i < j
    /\ \A i \in Range(got) : call[i] \notin {"new", "calling", "refused"}

\* A step that puts no operation on the wire and tells no success of a QoS 0 publish.
Quietly(x, y) ==
    /\ OpsIn(y.commands) \subseteq OpsIn(x.commands)
    /\ OutOps(y.net) \subseteq OutOps(x.net) /\ Range(y.net.pending) \subseteq Range(x.net.pending)
    /\ OutAscends(x.net) => OutAscends(y.net)
    /\ Range(y.responses) \subseteq Range(x.responses)
    /\ Range(y.responses) # {} =>
           /\ y.pendingWrite = x.pendingWrite
           /\ y.connected => x.connected /\ y.net.pending = x.net.pending
Steady ==
    /\ Quietly(m, m') /\ UNCHANGED <<written, got>>
    /\ \A i \in Ops \ Acknowledged :
           "success" \in Range(replies'[i]) => "success" \in Range(replies[i])
    /\ \A i \in Ops : call[i] \notin {"new", "calling", "refused"} =>
           call'[i] \notin {"new", "calling", "refused"}

Ordered == CleanInv /\ OrderInv

LEMMA SteadyKeeps ==
    ASSUME Ordered, Steady, OtherTypes
    PROVE  Ordered'
  <1> USE DEF Ordered
  <1>1. /\ Quietly(m, m') /\ UNCHANGED <<written, got>>
        /\ got \in Seq(Ops)
    BY DEF Steady, OtherTypes
  <1>2. CleanInv'
    <2>1. ASSUME NEW i \in Range(m'.responses), OpType[i] = "PUBLISH0"
          PROVE  m'.pendingWrite = i /\ (m'.connected => m'.net.pending = <<i>>)
      <3>1. /\ i \in Range(m.responses) /\ m'.pendingWrite = m.pendingWrite
            /\ m'.connected => m.connected /\ m'.net.pending = m.net.pending
        BY <1>1, <2>1 DEF Quietly
      <3> QED  BY <2>1, <3>1 DEF CleanInv
    <2>2. \A i \in Ops \ Acknowledged : "success" \in Range(replies'[i]) => i \in written
      BY DEF CleanInv, Steady
    <2> QED  BY <1>1, <2>1, <2>2 DEF CleanInv
  <1>3. OrderInv'
    <2>1. \A i \in Range(got) : i \in Ops
      BY <1>1, InRange
    <2>2. \A i \in Range(got) : call'[i] \notin {"new", "calling", "refused"}
      BY <2>1 DEF OrderInv, Steady
    <2> QED  BY <1>1, <2>2 DEF OrderInv, Quietly
  <1> QED  BY <1>2, <1>3

\* Operation i moves on from the command list to the connection, or from the
\* partly written packet to the packets written.
LEMMA OrderStep ==
    ASSUME AsyncInv, Ordered, NEW i \in Ops, UNCHANGED <<call, got>>, written \subseteq written',
           OpsIn(m'.commands) \subseteq OpsIn(m.commands), OutAscends(m'.net),
           OutOps(m'.net) \subseteq OutOps(m.net) \cup {i},
           Range(m'.net.pending) \subseteq {i},
           i \in OutOps(m'.net) => Range(m'.net.pending) = {},
           \A j \in Range(got) \cup OutOps(m.net) : j < i,
           \A j \in OpsIn(m'.commands) : i < j,
           \A j \in Range(m'.responses) : OpType[j] = "PUBLISH0" =>
               m'.pendingWrite = j /\ (m'.connected => m'.net.pending = <<j>>),
           \A j \in Ops \ Acknowledged : "success" \in Range(replies'[j]) =>
               "success" \in Range(replies[j]) \/ j \in written'
    PROVE  Ordered'
  <1>1. CleanInv'
    BY DEF Ordered, CleanInv
  <1>2. OrderInv'
    <2>1. \A a \in Range(got), b \in OutOps(m'.net) : a < b
      BY DEF Ordered, OrderInv
    <2>2. \A a \in Range(got) \cup OutOps(m'.net), b \in Range(m'.net.pending) : a < b
      OBVIOUS
    <2>3. \A a \in Range(got) \cup OutOps(m'.net) \cup Range(m'.net.pending),
             b \in OpsIn(m'.commands) : a < b
      BY DEF Ordered, OrderInv
    <2> QED  BY <2>1, <2>2, <2>3 DEF Ordered, OrderInv
  <1> QED  BY <1>1, <1>2 DEF Ordered

\* A packet is written after those of earlier operations.
LEMMA WrittenOrder ==
    ASSUME NEW net \in Sockets, OutAscends(net), NEW w \in Ops, NEW nn,
           \A j \in OutOps(net) : j < w, nn.out = Append(net.out, Packet(OpType[w], w))
    PROVE  OutAscends(nn)
  <1> DEFINE s == net.out
             p == Packet(OpType[w], w)
             t == Append(s, p)
  <1>1. s \in Seq(Packets) /\ p \in Packets /\ p.op = w
    BY AsyncAssumption DEF Sockets, Packet, Packets, Ops, Types
  <1> HIDE DEF p
  <1>2. /\ DOMAIN t = DOMAIN s \cup {Len(s) + 1} /\ Len(s) + 1 \notin DOMAIN s
        /\ \A n \in DOMAIN s : t[n] = s[n] /\ n < Len(s) + 1
        /\ t[Len(s) + 1] = p /\ DOMAIN s = 1..Len(s) /\ Len(s) \in Nat
    BY <1>1, AppendPositions
  <1>3. \A n \in DOMAIN s : s[n].op < w
    <2> SUFFICES ASSUME NEW n \in DOMAIN s, s[n].op # 0 PROVE s[n].op < w
      BY DEF Ops
    <2>1. s[n].op \in OutOps(net)
      BY DEF OutOps
    <2> QED  BY <2>1
  <1>4. \A a, b \in DOMAIN s : a < b /\ s[b].op # 0 => s[a].op < s[b].op
    BY DEF OutAscends
  <1>5. nn.out = t
    BY DEF p
  <1> HIDE DEF t, s
  <1>6. ASSUME NEW a \in DOMAIN t, NEW b \in DOMAIN t, a < b, t[b].op # 0
        PROVE  t[a].op < t[b].op
    <2>1. a \in DOMAIN s
      BY <1>2, <1>6
    <2>2. CASE b \in DOMAIN s
      BY <1>2, <1>4, <1>6, <2>1, <2>2
    <2>3. CASE b = Len(s) + 1
      BY <1>1, <1>2, <1>3, <2>1, <2>3
    <2> QED  BY <1>2, <2>2, <2>3
  <1> QED  BY <1>5, <1>6 DEF OutAscends

\* The first packet is read before the others.
LEMMA ReadOrder ==
    ASSUME NEW net \in Sockets, net.out # <<>>, OutAscends(net), NEW nn,
           nn.out = Tail(net.out)
    PROVE  /\ OutAscends(nn) /\ OutOps(nn) \subseteq OutOps(net)
           /\ Head(net.out).op # 0 => Head(net.out).op \in OutOps(net)
           /\ \A j \in OutOps(nn) : Head(net.out).op < j
  <1> DEFINE s == net.out
             t == Tail(s)
  <1>1. s \in Seq(Packets) /\ s # <<>>
    BY DEF Sockets
  <1>2. /\ 1 \in DOMAIN s /\ Head(s) = s[1] /\ t \in Seq(Packets)
        /\ \A a \in DOMAIN t : a + 1 \in DOMAIN s /\ t[a] = s[a + 1]
    BY <1>1, TailWithout
  <1>3. \A a, b \in DOMAIN s : a < b /\ s[b].op # 0 => s[a].op < s[b].op
    BY DEF OutAscends
  <1> HIDE DEF t
  <1>4. DOMAIN t \subseteq Nat \ {0}
    BY <1>2, InRange
  <1>5. nn.out = t
    BY DEF t
  <1> HIDE DEF s
  <1>6. ASSUME NEW a \in DOMAIN t, NEW b \in DOMAIN t, a < b, t[b].op # 0
        PROVE  t[a].op < t[b].op
    <2>1. a + 1 \in DOMAIN s /\ b + 1 \in DOMAIN s /\ a + 1 < b + 1
      BY <1>2, <1>4, <1>6
    <2> QED  BY <1>2, <1>3, <1>6, <2>1
  <1>7. ASSUME NEW b \in DOMAIN t, t[b].op # 0 PROVE s[1].op < t[b].op
    <2>1. b + 1 \in DOMAIN s /\ 1 < b + 1
      BY <1>2, <1>4
    <2> QED  BY <1>2, <1>3, <1>7, <2>1
  <1>8. OutOps(nn) = {t[n].op : n \in DOMAIN t} \ {0} /\ OutOps(net) = {s[n].op : n \in DOMAIN s} \ {0}
    BY <1>5 DEF OutOps, s
  <1>9. OutAscends(nn)
    BY <1>5, <1>6 DEF OutAscends
  <1>10. Head(net.out) = s[1]
    BY <1>2 DEF s
  <1> QED  BY <1>2, <1>7, <1>8, <1>9, <1>10

LEMMA AscendsAppend ==
    ASSUME NEW s \in Seq(Ops), Ascends(s), NEW i \in Ops, \A j \in Range(s) : j < i
    PROVE  Ascends(Append(s, i))
  <1> DEFINE t == Append(s, i)
  <1>1. /\ DOMAIN t = DOMAIN s \cup {Len(s) + 1} /\ DOMAIN s = 1..Len(s) /\ Len(s) \in Nat
        /\ \A n \in DOMAIN s : t[n] = s[n] /\ n < Len(s) + 1
        /\ t[Len(s) + 1] = i
    BY AppendPositions
  <1>2. \A n \in DOMAIN s : s[n] < i
    BY InRange
  <1> HIDE DEF t
  <1>3. ASSUME NEW a \in DOMAIN t, NEW b \in DOMAIN t, a < b PROVE t[a] < t[b]
    <2>1. a \in DOMAIN s
      BY <1>1, <1>3
    <2>2. CASE b \in DOMAIN s
      BY <1>1, <1>3, <2>1, <2>2 DEF Ascends
    <2>3. CASE b = Len(s) + 1
      BY <1>1, <1>2, <2>1, <2>3
    <2> QED  BY <1>1, <2>2, <2>3
  <1> QED  BY <1>3 DEF Ascends, t

LEMMA QuietlyTwice ==
    ASSUME NEW x, NEW y, NEW z, Quietly(x, y), Quietly(y, z)
    PROVE  Quietly(x, z)
  BY DEF Quietly

LEMMA OutQuietly ==
    ASSUME NEW x, NEW y,
           y.commands = x.commands, y.pendingWrite = x.pendingWrite,
           y.connected = x.connected, y.net.out = x.net.out, y.net.pending = x.net.pending,
           Range(y.responses) \subseteq Range(x.responses)
    PROVE  Quietly(x, y)
  <1>1. OutOps(y.net) = OutOps(x.net) /\ (OutAscends(x.net) => OutAscends(y.net))
    BY DEF OutOps, OutAscends
  <1> QED  BY <1>1 DEF Quietly

LEMMA EmptyQuietly ==
    ASSUME NEW x, NEW y, OpsIn(y.commands) \subseteq OpsIn(x.commands),
           OnWire(y.net) = {}, y.responses = <<>>
    PROVE  Quietly(x, y)
  <1>1. OutOps(y.net) = {} /\ Range(y.net.pending) = {} /\ Range(y.responses) = {}
    BY RangeShort DEF OnWire
  <1>2. \A n \in DOMAIN y.net.out : y.net.out[n].op = 0
    BY <1>1 DEF OutOps
  <1> QED  BY <1>1, <1>2 DEF Quietly, OutAscends

LEMMA QuietNetOps ==
    ASSUME NEW net \in Sockets, QuietNet(net)
    PROVE  OutOps(net) = {} /\ Range(net.pending) = {} /\ OutAscends(net)
  BY RangeShort DEF QuietNet, OutOps, OutAscends

LEMMA ControlQuietly ==
    ASSUME NEW x, NEW y, Controls(x, y)
    PROVE  Quietly(x, y)
  <1>1. /\ y.pendingWrite = x.pendingWrite /\ OpsIn(y.commands) = OpsIn(x.commands)
        /\ y.connected => x.connected
        /\ (y.net = x.net /\ y.connected = x.connected) \/ (QuietNet(y.net) /\ ~y.connected)
        /\ y.responses = x.responses \/ y.responses = <<>>
        /\ y.net \in Sockets
    BY DEF Controls, Control, Sound, Shape, Kept, Cleared
  <1>2. Range(<<>>) = {}
    BY RangeShort
  <1>3. Range(y.responses) \subseteq Range(x.responses)
    BY <1>1, <1>2
  <1>4. CASE y.net = x.net /\ y.connected = x.connected
    BY <1>1, <1>3, <1>4 DEF Quietly
  <1>5. CASE QuietNet(y.net) /\ ~y.connected
    BY <1>1, <1>3, <1>5, QuietNetOps DEF Quietly
  <1> QED  BY <1>1, <1>4, <1>5

LEMMA ControlMoves ==
    ASSUME NEW x, NEW y, Fine(x), Controls(x, y)
    PROVE  Moves(x, y, {})
  <1>1. /\ y.token = x.token
        /\ y.held.type = "SUBACK" => x.held.type = "SUBACK" /\ y.held.pack = x.held.pack
        /\ OpsIn(y.commands) = OpsIn(x.commands)
        /\ y.net = x.net \/ QuietNet(y.net)
        /\ \/ y.responses = x.responses /\ y.outbound = x.outbound /\ y.told = x.told
           \/ y.responses = <<>> /\ y.outbound = <<>> /\ Cleared(x, y)
        /\ y.net \in Sockets /\ x.responses \in Seq(Ops) /\ x.commands \in Seq(Commands)
    BY DEF Controls, Control, Kept, Cleared, Sound, Shape, Fine
  <1>2. Range(<<>>) = {}
    BY RangeShort
  <1>3. Open(y) \subseteq Open(x) /\ Waiting(y) \subseteq Waiting(x)
    BY <1>1, <1>2 DEF Open, Waiting
  <1>4. OnWire(y.net) \subseteq OnWire(x.net) /\ InOps(y.net) \subseteq InOps(x.net)
    <2>1. CASE y.net = x.net
      BY <2>1
    <2>2. CASE QuietNet(y.net)
      <3>1. OnWire(y.net) = {}
        BY <1>1, <2>2, QuietWire
      <3> QED  BY <3>1 DEF OnWire
    <2> QED  BY <1>1, <2>1, <2>2
  <1>5. /\ \A i \in Waiting(x) \ Waiting(y) : Told(x, y, {}, i)
        /\ \A i \in Ops \ (Waiting(x) \ Waiting(y)) : y.told[i] = x.told[i]
    <2>1. CASE y.responses = x.responses /\ y.outbound = x.outbound /\ y.told = x.told
      <3>1. Waiting(x) = Waiting(y)
        BY <1>1, <2>1 DEF Waiting
      <3> QED  BY <2>1, <3>1
    <2>2. CASE y.responses = <<>> /\ y.outbound = <<>> /\ Cleared(x, y)
      <3>1. \A i \in OpsIn(x.commands) : i \notin Range(x.responses)
        BY DEF Fine, PlaceInv
      <3>2. Waiting(x) \ Waiting(y) = Range(x.responses)
        BY <1>1, <1>2, <2>2, <3>1 DEF Waiting
      <3>3. Range(x.responses) \subseteq Ops
        BY <1>1, InRange
      <3> QED  BY <2>2, <3>2, <3>3 DEF Cleared, Told
    <2> QED  BY <1>1, <2>1, <2>2
  <1> QED  BY <1>1, <1>3, <1>4, <1>5 DEF Moves

\* The structure without the callbacks of the step.
Reset(x) == [x EXCEPT !.told = NoReplies, !.toldConn = NoConnReplies]

LEMMA ResetFine ==
    ASSUME NEW x, Fine(x)
    PROVE  /\ Fine(Reset(x)) /\ Reset(x).told = NoReplies /\ Reset(x).toldConn = NoConnReplies
           /\ \A f \in Fields \ {"told", "toldConn"} : Reset(x)[f] = x[f]
  <1> DEFINE y == Reset(x)
  <1>1. NoReplies \in [Ops -> Seq(Kinds)] /\ NoConnReplies \in [1..MaxConnects -> Seq(Kinds)]
    BY RangeShort DEF NoReplies, NoConnReplies
  <1>2. /\ y.told = NoReplies /\ y.toldConn = NoConnReplies
        /\ \A f \in Fields \ {"told", "toldConn"} : y[f] = x[f]
        /\ DOMAIN y = Fields /\ y = [f \in Fields |-> y[f]]
    BY DEF Fine, Shape, Fields, Reset
  <1> HIDE DEF y
  <1>3. Shape(y)
    BY <1>1, <1>2 DEF Fine, Shape, Fields
  <1>4. /\ y.commands = x.commands /\ y.responses = x.responses /\ y.outbound = x.outbound
        /\ y.token = x.token /\ y.pendingWrite = x.pendingWrite /\ y.buffered = x.buffered
        /\ y.net = x.net /\ y.held = x.held /\ y.connected = x.connected
    BY <1>2 DEF Fields
  <1>5. PlaceInv(y) /\ TokenInv(y) /\ WireInv(y) /\ HeldInv(y)
    BY <1>4 DEF Fine, PlaceInv, TokenInv, WireInv, HeldInv, Open, Waits
  <1> QED  BY <1>2, <1>3, <1>5 DEF Fine, y

LEMMA BecomeIs ==
    ASSUME NEW x, Become(x)
    PROVE  /\ m' = Reset(x)
           /\ replies' = [i \in Ops |->
                  IF call[i] = "accepted" THEN replies[i] \o x.told[i] ELSE replies[i]]
           /\ conns' = [k \in 1..MaxConnects |-> conns[k] \o x.toldConn[k]]
  BY DEF Become, Reset

\* The step of a handler that leaves the application's calls and the broker alone.
LEMMA BecomeStep ==
    ASSUME AsyncInv, NEW x, NEW good, Fine(x), Moves(m, x, good), Become(x),
           Apart => good \cap Acknowledged \subseteq Range(got),
           UNCHANGED <<call, got>>, written' \subseteq Ops, AskedKept
    PROVE  /\ Fine(m)' /\ OtherTypes' /\ CallInv' /\ ReadInv'
           /\ m'.commands = x.commands /\ m'.buffered = x.buffered
           /\ \A i \in Ops : "success" \in Range(replies'[i]) =>
                  "success" \in Range(replies[i]) \/ i \in good
  <1>1. /\ m' = Reset(x)
        /\ replies' = [i \in Ops |->
               IF call[i] = "accepted" THEN replies[i] \o x.told[i] ELSE replies[i]]
        /\ conns' = [k \in 1..MaxConnects |-> conns[k] \o x.toldConn[k]]
    BY BecomeIs
  <1>2. /\ Fine(m') /\ m'.told = NoReplies /\ m'.toldConn = NoConnReplies
        /\ m'.commands = x.commands /\ m'.responses = x.responses /\ m'.outbound = x.outbound
        /\ m'.token = x.token /\ m'.buffered = x.buffered
        /\ m'.net = x.net /\ m'.held = x.held
    BY <1>1, ResetFine DEF Fields
  <1>3. /\ Open(m') = Open(x) /\ Waiting(m') = Waiting(x)
    BY <1>2 DEF Open, Waiting
  <1>a. Apart' <=> Apart
    BY DEF AskedKept, Apart
  <1>4. Fine(m)'
    BY <1>2, <1>a DEF Fine, Shape, PlaceInv, TokenInv, WireInv, HeldInv, Open, Waits
  <1>5. /\ x.told \in [Ops -> Seq(Kinds)] /\ x.toldConn \in [1..MaxConnects -> Seq(Kinds)]
        /\ OtherTypes /\ CallInv /\ ReadInv
    BY DEF AsyncInv, Fine, Shape
  <1>6. \A i \in Ops : m.told[i] = <<>>
    BY <1>5 DEF OtherTypes, NoReplies
  <1>7. ASSUME NEW i \in Ops
        PROVE  /\ replies'[i] \in Seq(Kinds)
               /\ call[i] # "accepted" => replies'[i] = replies[i]
               /\ call[i] = "accepted" /\ i \in Waiting(m) \ Waiting(x) =>
                      /\ Len(replies'[i]) = Len(replies[i]) + 1
                      /\ "success" \in Range(replies'[i]) => "success" \in Range(replies[i]) \/ i \in good
               /\ i \notin Waiting(m) \ Waiting(x) => replies'[i] = replies[i]
    <2>1. replies[i] \in Seq(Kinds) /\ x.told[i] \in Seq(Kinds) /\ m.told[i] = <<>>
      BY <1>5, <1>6 DEF OtherTypes
    <2>2. replies'[i] = IF call[i] = "accepted" THEN replies[i] \o x.told[i] ELSE replies[i]
      BY <1>1
    <2>3. replies'[i] \in Seq(Kinds)
      BY <2>1, <2>2, ConcatProperties
    <2>4. ASSUME call[i] = "accepted", i \in Waiting(m) \ Waiting(x)
          PROVE  /\ Len(replies'[i]) = Len(replies[i]) + 1
                 /\ "success" \in Range(replies'[i]) => "success" \in Range(replies[i]) \/ i \in good
      <3>1. PICK k \in Kinds : x.told[i] = <<k>> /\ (k = "success" => i \in good)
        <4>1. Told(m, x, good, i)
          BY <2>4 DEF Moves
        <4>2. Append(<<>>, "failure") = <<"failure">> /\ Append(<<>>, "success") = <<"success">>
          OBVIOUS
        <4> QED  BY <2>1, <4>1, <4>2 DEF Told, Kinds
      <3>2. replies'[i] = Append(replies[i], k)
        BY <2>1, <2>2, <2>4, <3>1, AppendIsConcat
      <3>3. Range(replies'[i]) = Range(replies[i]) \cup {k} /\ Len(replies'[i]) = Len(replies[i]) + 1
        BY <2>1, <3>2, AppendPositions
      <3> QED  BY <3>1, <3>3
    <2>5. ASSUME i \notin Waiting(m) \ Waiting(x) PROVE replies'[i] = replies[i]
      <3>1. x.told[i] = <<>>
        BY <2>1, <2>5 DEF Moves
      <3> QED  BY <2>1, <2>2, <3>1
    <2> QED  BY <2>2, <2>3, <2>4, <2>5
  <1>8. OtherTypes'
    <2>1. DOMAIN replies' = Ops /\ replies' \in [Ops -> Seq(Kinds)]
      BY <1>1, <1>7
    <2>2. conns' \in [1..MaxConnects -> Seq(Kinds)]
      <3>1. ASSUME NEW k \in 1..MaxConnects PROVE conns[k] \o x.toldConn[k] \in Seq(Kinds)
        <4>1. conns[k] \in Seq(Kinds) /\ x.toldConn[k] \in Seq(Kinds)
          BY <1>5 DEF OtherTypes
        <4> QED  BY <4>1, ConcatProperties
      <3> QED  BY <1>1, <3>1
    <2> QED  BY <1>2, <1>5, <2>1, <2>2 DEF OtherTypes, AskedKept
  <1>9. CallInv'
    <2>1. Open(m)' = Open(m') /\ Waiting(m)' = Waiting(m') /\ OnWire(m.net)' = OnWire(m'.net)
      BY DEF Open, Waiting
    <2>2. \A i, j \in Ops : i < j /\ call'[i] \in {"new", "calling"} =>
              call'[j] \in {"new", "calling", "refused"}
      BY <1>5 DEF CallInv
    <2>3. \A i \in Open(m') \cup OnWire(m'.net) : call'[i] \in {"accepted", "orphan"}
      BY <1>2, <1>3, <1>5 DEF CallInv, Moves
    <2>4. /\ \A i \in Acknowledged : call'[i] \notin {"new", "refused"} => m'.token[i] # 0
          /\ Apart' => \A i \in Acknowledged : call'[i] = "calling" =>
                 /\ \A j \in Open(m') : m'.token[j] # m'.token[i]
                 /\ \A j \in Acknowledged :
                        call'[j] = "calling" /\ m'.token[j] = m'.token[i] => j = i
      BY <1>2, <1>3, <1>5, <1>a DEF CallInv, Moves
    <2>5. ASSUME NEW i \in Ops, call'[i] = "accepted"
          PROVE  Len(replies'[i]) = IF i \in Waiting(m') THEN 0 ELSE 1
      <3>1. call[i] = "accepted" /\ Len(replies[i]) = IF i \in Waiting(m) THEN 0 ELSE 1
        BY <1>5, <2>5 DEF CallInv
      <3>2. Waiting(x) \subseteq Waiting(m)
        BY DEF Moves
      <3> QED  BY <1>3, <1>7, <3>1, <3>2
    <2>6. \A i \in Ops : call'[i] \in {"new", "calling", "refused"} => replies'[i] = <<>>
      BY <1>5, <1>7 DEF CallInv
    <2>7. m'.held.type = "SUBACK" => call'[m'.held.pack.op] \in {"accepted", "orphan"}
      <3>1. InOps(m.net) \subseteq OnWire(m.net)
        BY DEF OnWire
      <3> QED  BY <1>2, <1>5, <3>1 DEF CallInv, Moves
    <2> QED  BY <2>1, <2>2, <2>3, <2>4, <2>5, <2>6, <2>7 DEF CallInv
  <1>10. ReadInv'
    <2>1. InOps(m'.net) \subseteq Range(got)
      BY <1>2, <1>5 DEF ReadInv, Moves
    <2>2. m'.held.type = "SUBACK" => m'.held.pack.op \in Range(got)
      BY <1>2, <1>5 DEF ReadInv, Moves
    <2>3. ASSUME Apart, NEW i \in Acknowledged, "success" \in Range(replies'[i])
          PROVE  i \in Range(got)
      <3>1. i \in Ops
        BY DEF Acknowledged
      <3>2. "success" \in Range(replies[i]) \/ i \in good
        BY <1>7, <2>3, <3>1
      <3> QED  BY <1>5, <2>3, <3>2 DEF ReadInv
    <2> QED  BY <1>a, <2>1, <2>2, <2>3 DEF ReadInv
  <1>11. \A i \in Ops : "success" \in Range(replies'[i]) =>
             "success" \in Range(replies[i]) \/ i \in good
    <2> SUFFICES ASSUME NEW i \in Ops, "success" \in Range(replies'[i])
                 PROVE  "success" \in Range(replies[i]) \/ i \in good
      OBVIOUS
    <2>1. CASE call[i] = "accepted" /\ i \in Waiting(m) \ Waiting(x)
      BY <1>7, <2>1
    <2>2. CASE call[i] # "accepted" \/ i \notin Waiting(m) \ Waiting(x)
      <3>1. replies'[i] = replies[i]
        BY <1>7, <2>2
      <3> QED  BY <3>1
    <2> QED  BY <2>1, <2>2
  <1> QED  BY <1>2, <1>4, <1>8, <1>9, <1>10, <1>11

\* The step is quiet if the handler is, and succeeds at none but good.
LEMMA BecomeSteady ==
    ASSUME NEW x, Fine(x), Become(x), Quietly(m, x), UNCHANGED <<call, written, got>>,
           NEW good \in SUBSET Acknowledged,
           \A i \in Ops : "success" \in Range(replies'[i]) =>
               "success" \in Range(replies[i]) \/ i \in good
    PROVE  Steady
  <1>1. m' = Reset(x)
    BY BecomeIs
  <1>2. /\ m'.commands = x.commands /\ m'.responses = x.responses /\ m'.net = x.net
        /\ m'.pendingWrite = x.pendingWrite /\ m'.connected = x.connected
    BY <1>1, ResetFine DEF Fields
  <1>3. Quietly(m, m')
    BY <1>2 DEF Quietly
  <1> QED  BY <1>3 DEF Steady

\* A step that only drives the connection.
LEMMA ControlCall ==
    ASSUME AsyncInv, NEW x, Controls(m, x), Become(x),
           UNCHANGED <<stored, call, written, got>>,
           AskedKept
    PROVE  AsyncInv' /\ Steady
  <1>1. Fine(x) /\ Moves(m, x, {})
    BY ControlsFine, ControlMoves DEF AsyncInv
  <1>2. written' \subseteq Ops
    BY DEF AsyncInv, OtherTypes
  <1>3. /\ Fine(m)' /\ OtherTypes' /\ CallInv' /\ ReadInv'
        /\ m'.commands = x.commands /\ m'.buffered = x.buffered
        /\ \A i \in Ops : "success" \in Range(replies'[i]) =>
               "success" \in Range(replies[i]) \/ i \in {}
    BY <1>1, <1>2, BecomeStep
  <1>4. StoreInv'
    <2>1. OpsIn(m'.commands) = OpsIn(m.commands) /\ m'.buffered = m.buffered
      BY <1>3 DEF Controls, Control
    <2> QED  BY <2>1 DEF AsyncInv, StoreInv
  <1>5. Steady
    <2>1. Quietly(m, x) /\ {} \in SUBSET Acknowledged
      BY ControlQuietly
    <2> QED  BY <1>1, <1>3, <2>1, BecomeSteady
  <1> QED  BY <1>3, <1>4, <1>5 DEF AsyncInv

LEMMA ControlStep ==
    ASSUME AsyncInv, NEW x, Controls(m, x), Become(x),
           UNCHANGED <<stored, call, written, got, asked>>
    PROVE  AsyncInv' /\ Steady
  <1>1. AskedKept
    BY DEF AsyncInv, OtherTypes, AskedType, AskedKept
  <1> QED  BY <1>1, ControlCall

\* The same for a step that makes no callback.
LEMMA SilentStep ==
    ASSUME AsyncInv, Controls(m, m'),
           m'.told = NoReplies, m'.toldConn = NoConnReplies, m'.responses = m.responses,
           UNCHANGED <<stored, call, replies, written, got>>,
           conns' \in [1..MaxConnects -> Seq(Kinds)],
           AskedKept
    PROVE  AsyncInv' /\ Steady
  <1>1. Fine(m') /\ Moves(m, m', {})
    BY ControlsFine, ControlMoves DEF AsyncInv
  <1>a. Apart' <=> Apart
    BY DEF AskedKept, Apart
  <1>2. Fine(m)'
    BY <1>1, <1>a DEF Fine, Shape, PlaceInv, TokenInv, WireInv, HeldInv, Open, Waits
  <1>3. OtherTypes'
    BY DEF AsyncInv, OtherTypes, AskedKept
  <1>4. /\ OpsIn(m'.commands) = OpsIn(m.commands) /\ m'.buffered = m.buffered
        /\ m'.token = m.token
    BY DEF Controls, Control
  <1>5. StoreInv'
    BY <1>4 DEF AsyncInv, StoreInv
  <1>6. Waiting(m)' = Waiting(m) /\ Open(m)' \subseteq Open(m)
        /\ OnWire(m.net)' \subseteq OnWire(m.net) \cup Open(m)
    BY <1>1, <1>4 DEF Waiting, Open, Moves
  <1>7. CallInv /\ ReadInv
    BY DEF AsyncInv
  <1>8. CallInv'
    <2>1. m'.held.type = "SUBACK" => m.held.type = "SUBACK" /\ m'.held.pack = m.held.pack
      BY DEF Controls, Control
    <2> QED  BY <1>4, <1>6, <1>7, <1>a, <2>1 DEF CallInv
  <1>9. ReadInv'
    BY <1>1, <1>7, <1>a DEF ReadInv, Moves
  <1>10. Steady
    BY ControlQuietly DEF Steady
  <1> QED  BY <1>2, <1>3, <1>5, <1>8, <1>9, <1>10 DEF AsyncInv

LEMMA InvSound ==
    ASSUME AsyncInv
    PROVE  Sound(m) /\ Shape(m) /\ Fine(m) /\ DOMAIN m = Fields
  BY DEF AsyncInv, Fine, Sound, Shape, PlaceInv

-----------------------------------------------------------------------------
(* The steps that drive the connection.                                    *)

LEMMA ConnectStep ==
    ASSUME AsyncInv, Connect
    PROVE  AsyncInv' /\ Steady
  <1> DEFINE k == asked.conn + 1
             c == [m.connect EXCEPT !.cb = k]
             x == [m EXCEPT !.connect = c, !.should = TRUE]
  <1>1. Sound(m) /\ OtherTypes
    BY InvSound DEF AsyncInv
  <1>2. /\ asked.conn < MaxConnects /\ asked' = [asked EXCEPT !.conn = k]
        /\ m' = AddFirst(x, ConnectCommand(k))
        /\ conns' = [conns EXCEPT ![k] = <<>>]
        /\ UNCHANGED <<stored, call, replies, written, got>>
    BY DEF Connect
  <1>3. k \in 1..MaxConnects /\ k \in 0..MaxConnects /\ k \in Nat
    BY <1>1, <1>2, AsyncAssumption DEF OtherTypes, AskedType, AskedKept
  <1>4. c \in ConnectCommands
    BY <1>1, <1>3, ConnectTypes DEF Sound, Shape
  <1>5. ConnectCommand(k) \in ConnectCommands
    BY <1>3 DEF ConnectCommand, ConnectCommands
  <1> HIDE DEF c
  <1>6. Shape(x) /\ \A f \in Fields \ {"connect", "should"} : x[f] = m[f]
    BY <1>1, <1>4 DEF Sound, Shape, Fields
  <1> HIDE DEF x
  <1>7. Controls(m, x) /\ Sound(x)
    BY <1>1, <1>6, DrivesOnly DEF Fields, Controls
  <1>8. /\ Controls(x, m')
        /\ \A f \in Fields \ {"commands"} : m'[f] = x[f]
    BY <1>2, <1>5, <1>7, AddFirstControls
  <1>9. Controls(m, m')
    BY <1>1, <1>7, <1>8, ControlsTwice
  <1>10. m'.told = NoReplies /\ m'.toldConn = NoConnReplies /\ m'.responses = m.responses
    BY <1>1, <1>6, <1>8 DEF OtherTypes, Fields
  <1>11. conns' \in [1..MaxConnects -> Seq(Kinds)]
    <2>1. <<>> \in Seq(Kinds)
      BY RangeShort
    <2> QED  BY <1>1, <1>2, <1>3, <2>1 DEF OtherTypes
  <1>12. AskedKept
    BY <1>1, <1>2, <1>3 DEF OtherTypes, AskedType, AskedKept
  <1> QED  BY <1>2, <1>3, <1>9, <1>10, <1>11, <1>12, SilentStep

LEMMA ReconnectStep ==
    ASSUME AsyncInv, Reconnect
    PROVE  AsyncInv' /\ Steady
  <1> DEFINE x == [m EXCEPT !.now = TRUE, !.retrying = TRUE]
             y == AddFirst(m, Restarted(m.connect))
  <1>1. Sound(m) /\ OtherTypes
    BY InvSound DEF AsyncInv
  <1>2. Controls(m, x)
    <2>1. Shape(x) /\ \A f \in Fields \ {"now", "retrying"} : x[f] = m[f]
      BY <1>1 DEF Sound, Shape, Fields
    <2> HIDE DEF x
    <2> QED  BY <1>1, <2>1, DrivesOnly DEF Fields
  <1>3. Controls(m, y)
    BY <1>1, ConnectTypes, AddFirstControls DEF Sound, Shape
  <1>4. Become(x) \/ Become(y)
    BY DEF Reconnect
  <1>5. /\ UNCHANGED <<stored, call, written, got>>
        /\ AskedKept
    BY <1>1 DEF Reconnect, OtherTypes, AskedType, AskedKept
  <1> HIDE DEF x, y
  <1> QED  BY <1>2, <1>3, <1>4, <1>5, ControlCall

LEMMA DisconnectStep ==
    ASSUME AsyncInv, Disconnect
    PROVE  AsyncInv' /\ Steady
  <1> DEFINE x == [m EXCEPT !.should = FALSE]
             s == Append(x.commands, DisconnectCommand(FALSE))
             y == [x EXCEPT !.commands = s]
  <1>1. Sound(m) /\ OtherTypes
    BY InvSound DEF AsyncInv
  <1>2. Shape(x) /\ \A f \in Fields \ {"should"} : x[f] = m[f]
    BY <1>1 DEF Sound, Shape, Fields
  <1>3. Become(y) \/ Become(x)
    BY DEF Disconnect
  <1> HIDE DEF x
  <1>4. Controls(m, x) /\ Sound(x)
    BY <1>1, <1>2, DrivesOnly DEF Fields, Controls
  <1>5. /\ s \in Seq(Commands) /\ OpsIn(s) = OpsIn(x.commands) /\ OrderedOps(s)
    <2>1. /\ DisconnectCommand(FALSE) \in DisconnectCommands
          /\ x.commands \in Seq(Commands) /\ OrderedOps(x.commands)
      BY <1>4 DEF DisconnectCommand, DisconnectCommands, Sound, Shape
    <2> QED  BY <2>1, CommandKinds, OpsLast
  <1> HIDE DEF s
  <1>6. Shape(y) /\ y.commands = s /\ \A f \in Fields \ {"commands"} : y[f] = x[f]
    BY <1>4, <1>5 DEF Sound, Shape, Fields
  <1> HIDE DEF y
  <1>7. Controls(x, y)
    <2>1. /\ y.responses = x.responses /\ y.outbound = x.outbound
          /\ y.told = x.told /\ y.token = x.token /\ y.pendingWrite = x.pendingWrite
          /\ y.buffered = x.buffered /\ y.net = x.net /\ y.held = x.held
          /\ y.connected = x.connected
      BY <1>6 DEF Fields
    <2> QED  BY <1>4, <1>5, <1>6, <2>1 DEF Controls, Control, Sound, Kept
  <1>8. Controls(m, y)
    BY <1>1, <1>4, <1>7, ControlsTwice
  <1>9. /\ UNCHANGED <<stored, call, written, got>>
        /\ AskedKept
    BY <1>1 DEF Disconnect, OtherTypes, AskedType, AskedKept
  <1> QED  BY <1>3, <1>4, <1>8, <1>9, ControlCall

\* Taking the first command from the list.
LEMMA DetachedFields ==
    ASSUME NEW x, Sound(x), x.commands # <<>>
    PROVE  /\ Sound(Detached(x)) /\ Head(x.commands) \in Commands
           /\ \A f \in Fields \ {"commands"} : Detached(x)[f] = x[f]
           /\ ~IsOp(Head(x.commands)) => OpsIn(Detached(x).commands) = OpsIn(x.commands)
           /\ IsOp(Head(x.commands)) =>
                  /\ Head(x.commands).op \in OpsIn(x.commands)
                  /\ Head(x.commands).op \in Ops
                  /\ OpsIn(Detached(x).commands) = OpsIn(x.commands) \ {Head(x.commands).op}
                  /\ \A i \in OpsIn(x.commands) : Head(x.commands).op <= i
  <1> DEFINE s == x.commands
             y == Detached(x)
  <1>1. s \in Seq(Commands) /\ s # <<>> /\ OrderedOps(s)
    BY DEF Sound, Shape
  <1>2. /\ Tail(s) \in Seq(Commands) /\ Without(Tail(s), s, 1)
        /\ 1 \in DOMAIN s /\ Head(s) = s[1] /\ s[1] \in Commands
        /\ \A a \in DOMAIN s : 1 <= a
    BY <1>1, TailWithout
  <1>3. /\ OrderedOps(Tail(s))
        /\ IsOp(s[1]) => OpsIn(Tail(s)) = OpsIn(s) \ {s[1].op}
        /\ ~IsOp(s[1]) => OpsIn(Tail(s)) = OpsIn(s)
    BY <1>1, <1>2, OpsWithout
  <1>4. y.commands = Tail(s) /\ Sound(y) /\ \A f \in Fields \ {"commands"} : y[f] = x[f]
    BY <1>2, <1>3 DEF Detached, Sound, Shape, Fields
  <1>5. ASSUME IsOp(s[1]) PROVE s[1].op \in OpsIn(s) /\ s[1].op \in Ops /\ \A i \in OpsIn(s) : s[1].op <= i
    <2>1. s[1].op \in OpsIn(s) /\ s[1].op \in Ops /\ OpsIn(s) \subseteq Ops
      BY <1>1, <1>2, <1>5, OpsInType, CommandKinds
    <2>2. ASSUME NEW i \in OpsIn(s) PROVE s[1].op <= i
      <3>1. PICK n \in DOMAIN s : IsOp(s[n]) /\ s[n].op = i
        BY <1>1, OpsInType
      <3>2. n \in Nat /\ 1 <= n /\ i \in Nat /\ s[1].op \in Nat
        <4>1. DOMAIN s \subseteq Nat
          BY <1>1, InRange
        <4>2. Ops \subseteq Nat
          BY CommandKinds
        <4> QED  BY <1>2, <2>1, <4>1, <4>2
      <3>3. CASE n = 1
        BY <3>1, <3>2, <3>3
      <3>4. CASE 1 < n
        <4>1. s[1].op < s[n].op
          BY <1>1, <1>2, <1>5, <3>1, <3>4 DEF OrderedOps
        <4> QED  BY <3>1, <3>2, <4>1
      <3> QED  BY <3>2, <3>3, <3>4
    <2> QED  BY <2>1, <2>2
  <1> QED  BY <1>2, <1>3, <1>4, <1>5

LEMMA DetachedControls ==
    ASSUME NEW x, Sound(x), x.commands # <<>>, ~IsOp(Head(x.commands))
    PROVE  /\ Controls(x, Detached(x)) /\ Sound(Detached(x))
           /\ Head(x.commands) \in ConnectCommands \cup DisconnectCommands
  <1> DEFINE y == Detached(x)
  <1>1. /\ Sound(y) /\ Head(x.commands) \in Commands
        /\ \A f \in Fields \ {"commands"} : y[f] = x[f]
        /\ OpsIn(y.commands) = OpsIn(x.commands)
    BY DetachedFields
  <1>2. Head(x.commands) \in ConnectCommands \cup DisconnectCommands
    BY <1>1, CommandKinds DEF Commands
  <1> HIDE DEF y
  <1>3. /\ y.responses = x.responses /\ y.outbound = x.outbound
        /\ y.told = x.told /\ y.token = x.token /\ y.pendingWrite = x.pendingWrite
        /\ y.buffered = x.buffered /\ y.net = x.net /\ y.held = x.held
        /\ y.connected = x.connected
    BY <1>1 DEF Fields
  <1>4. Controls(x, y)
    BY <1>1, <1>3 DEF Controls, Control, Kept
  <1> QED  BY <1>1, <1>2, <1>4 DEF y

LEMMA ProcessConnectStep ==
    ASSUME AsyncInv, ProcessConnect
    PROVE  AsyncInv' /\ Steady
  <1> DEFINE x == Detached(m)
             first == Head(m.commands)
             c == WithVersion(first)
             y == [x EXCEPT !.connect = first]
  <1>1. /\ Ready(m) /\ first.type = "CONNECT"
        /\ UNCHANGED <<stored, call, written, got, asked>>
        /\ \/ Become(y)
           \/ /\ ~HasSocket(m)
              /\ \/ Become(Connecting(x, c, "TCP_IN_PROGRESS", <<>>))
                 \/ Become(Connecting(x, c, "WAIT_FOR_CONNACK", <<Packet("CONNECT", 0)>>))
                 \/ Become(ConnectFailed(x, c))
    BY DEF ProcessConnect
  <1>2. Sound(m) /\ m.commands # <<>> /\ ~IsOp(first)
    BY <1>1, InvSound DEF Ready, IsOp
  <1>3. Controls(m, x) /\ Sound(x) /\ first \in ConnectCommands
    BY <1>1, <1>2, DetachedControls DEF DisconnectCommands
  <1>4. c \in ConnectCommands
    BY <1>3, ConnectTypes
  <1>5. HasSocket(x) = HasSocket(m)
    BY <1>2, DetachedFields DEF HasSocket, Fields
  <1>6. Controls(m, y)
    <2> HIDE DEF first, x
    <2>1. Shape(y) /\ \A f \in Fields \ {"connect"} : y[f] = x[f]
      BY <1>3 DEF Sound, Shape, Fields
    <2> HIDE DEF y
    <2>2. Controls(x, y)
      BY <1>3, <2>1, DrivesOnly DEF Fields
    <2> QED  BY <1>2, <1>3, <2>2, ControlsTwice
  <1> HIDE DEF first, x, c, y
  <1>7. CASE Become(y)
    BY <1>1, <1>6, <1>7, ControlStep
  <1>8. CASE ~HasSocket(m)
    <2>1. /\ Controls(x, Connecting(x, c, "TCP_IN_PROGRESS", <<>>))
          /\ Controls(x, Connecting(x, c, "WAIT_FOR_CONNACK", <<Packet("CONNECT", 0)>>))
      BY <1>3, <1>4, <1>5, <1>8, ConnectingControls
    <2>2. Controls(x, ConnectFailed(x, c))
      BY <1>3, <1>4, ConnectFailedControls
    <2>3. /\ Controls(m, Connecting(x, c, "TCP_IN_PROGRESS", <<>>))
          /\ Controls(m, Connecting(x, c, "WAIT_FOR_CONNACK", <<Packet("CONNECT", 0)>>))
          /\ Controls(m, ConnectFailed(x, c))
      BY <1>2, <1>3, <2>1, <2>2, ControlsTwice
    <2> QED  BY <1>1, <1>6, <2>3, ControlStep
  <1> QED  BY <1>1, <1>7, <1>8

LEMMA ProcessDisconnectStep ==
    ASSUME AsyncInv, ProcessDisconnect
    PROVE  AsyncInv' /\ Steady
  <1> DEFINE d == Head(m.commands)
             x == Detached(m)
             y == IF m.state # "NOT_IN_PROGRESS" THEN AnswerConnect(x, "failure") ELSE x
             v == [y EXCEPT !.state = "DISCONNECTING"]
             z == CheckDisconnect(v, d)
             w == IF HasSocket(m) THEN z ELSE x
             r == [w EXCEPT !.disconnect = d]
  <1>1. /\ Ready(m) /\ d.type = "DISCONNECT"
        /\ Become(r)
        /\ UNCHANGED <<stored, call, written, got, asked, faults, delays>>
    BY DEF ProcessDisconnect
  <1>2. Sound(m) /\ m.commands # <<>> /\ ~IsOp(d)
    BY <1>1, InvSound DEF Ready, IsOp
  <1>3. Controls(m, x) /\ Sound(x) /\ d \in DisconnectCommands
    BY <1>1, <1>2, DetachedControls DEF ConnectCommands
  <1> HIDE DEF d, x
  <1>4. Controls(x, y) /\ Sound(y)
    BY <1>3, AnswerConnectControls, ControlsSame DEF Kinds, Controls
  <1> HIDE DEF y
  <1>5. Controls(y, v) /\ Sound(v)
    <2>1. Shape(v) /\ \A f \in Fields \ {"state"} : v[f] = y[f]
      BY <1>4 DEF Sound, Shape, Fields, States
    <2> HIDE DEF v
    <2> QED  BY <1>4, <2>1, DrivesOnly DEF Fields, Controls
  <1> HIDE DEF v
  <1>6. Controls(v, z)
    BY <1>5, CheckDisconnectControls
  <1> HIDE DEF z
  <1>7. Controls(x, z)
    BY <1>3, <1>4, <1>5, <1>6, ControlsTwice
  <1>8. Controls(m, w) /\ Sound(w)
    BY <1>2, <1>3, <1>7, ControlsTwice DEF Controls
  <1> HIDE DEF w
  <1>9. Controls(w, r)
    <2>1. Shape(r) /\ \A f \in Fields \ {"disconnect"} : r[f] = w[f]
      BY <1>3, <1>8 DEF Sound, Shape, Fields
    <2> HIDE DEF r
    <2> QED  BY <1>8, <2>1, DrivesOnly DEF Fields
  <1> HIDE DEF r
  <1>10. Controls(m, r)
    BY <1>2, <1>8, <1>9, ControlsTwice
  <1> QED  BY <1>1, <1>10, ControlStep

LEMMA CheckTimeoutsStep ==
    ASSUME AsyncInv, CheckTimeouts
    PROVE  AsyncInv' /\ Steady
  <1> DEFINE x == IF m.state = "DISCONNECTING" THEN CheckDisconnect(m, m.disconnect) ELSE m
  <1>1. /\ Become(NextOrClose(x)) \/ Become(Retry(x)) \/ Become(x)
        /\ UNCHANGED <<stored, call, written, got, asked>>
    BY DEF CheckTimeouts
  <1>2. Sound(m)
    BY InvSound
  <1>3. Controls(m, x) /\ Sound(x)
    BY <1>2, CheckDisconnectControls, ControlsSame DEF Controls
  <1> HIDE DEF x
  <1>4. Controls(m, NextOrClose(x)) /\ Controls(m, Retry(x))
    BY <1>2, <1>3, NextOrCloseControls, RetryControls, ControlsTwice
  <1> QED  BY <1>1, <1>3, <1>4, ControlStep

\* What is put aside between the two halves of the receive thread's loop.
LEMMA HoldsControls ==
    ASSUME NEW x, Sound(x), NEW h, HeldType(h), h.type # "SUBACK"
    PROVE  /\ Controls(x, [x EXCEPT !.held = h])
           /\ \A f \in Fields \ {"held"} : [x EXCEPT !.held = h][f] = x[f]
  <1> DEFINE y == [x EXCEPT !.held = h]
  <1>1. Shape(y) /\ y.held = h /\ \A f \in Fields \ {"held"} : y[f] = x[f]
    BY DEF Sound, Shape, Fields
  <1> HIDE DEF y
  <1>2. /\ y.commands = x.commands /\ y.responses = x.responses /\ y.outbound = x.outbound
        /\ y.told = x.told /\ y.token = x.token /\ y.pendingWrite = x.pendingWrite
        /\ y.buffered = x.buffered /\ y.net = x.net /\ y.connected = x.connected
    BY <1>1 DEF Fields
  <1>3. Controls(x, y)
    BY <1>1, <1>2 DEF Controls, Control, Sound, Kept
  <1> QED  BY <1>1, <1>3 DEF y

LEMMA TcpCompleteStep ==
    ASSUME AsyncInv, TcpComplete
    PROVE  AsyncInv' /\ Steady
  <1> DEFINE out == <<Packet("CONNECT", 0)>>
             net == [m.net EXCEPT !.out = out]
             x == [m EXCEPT !.state = "WAIT_FOR_CONNACK", !.net = net]
  <1>1. /\ m.state = "TCP_IN_PROGRESS"
        /\ UNCHANGED <<stored, call, written, got, asked>>
        /\ \/ Become(x)
           \/ \E held \in {Nothing, Error} : Become(NextOrClose([m EXCEPT !.held = held]))
    BY DEF TcpComplete
  <1>2. Sound(m) /\ WireInv(m) /\ m.net \in Sockets
    BY InvSound DEF Fine, Sound, Shape
  <1>3. ASSUME NEW h \in {Nothing, Error} PROVE Controls(m, NextOrClose([m EXCEPT !.held = h]))
    <2> DEFINE y == [m EXCEPT !.held = h]
    <2>1. HeldType(h) /\ h.type # "SUBACK"
      <3>1. CASE h = Nothing
        BY <3>1 DEF HeldType, Nothing
      <3>2. CASE h = Error
        BY <3>2 DEF HeldType, Error
      <3> QED  BY <3>1, <3>2
    <2>2. Controls(m, y) /\ Sound(y)
      BY <1>2, <2>1, HoldsControls DEF Controls
    <2> HIDE DEF y
    <2>3. Controls(m, NextOrClose(y))
      BY <1>2, <2>2, NextOrCloseControls, ControlsTwice
    <2> QED  BY <2>3 DEF y
  <1>4. Controls(m, x)
    <2>1. ~m.connected
      BY <1>1, <1>2 DEF Sound, Shape
    <2>2. OnWire(m.net) = {}
      BY <1>2, <2>1 DEF WireInv
    <2>3. net \in Sockets /\ QuietNet(net)
      <3>1. out \in Seq(Packets) /\ DOMAIN out = {1} /\ out[1].op = 0 /\ out[1].type = "CONNECT"
        <4>1. Packet("CONNECT", 0) \in Packets
          BY NewSocketType
        <4>2. Packet("CONNECT", 0).op = 0 /\ Packet("CONNECT", 0).type = "CONNECT"
          BY DEF Packet
        <4> DEFINE p == Packet("CONNECT", 0)
        <4> HIDE DEF p
        <4>3. <<p>> \in Seq(Packets) /\ DOMAIN <<p>> = {1} /\ <<p>>[1] = p
          BY <4>1, RangeShort DEF p
        <4> QED  BY <4>2, <4>3 DEF p
      <3> HIDE DEF out
      <3>2. net \in Sockets /\ net.out = out /\ net.in = m.net.in /\ net.pending = m.net.pending
        BY <1>2, <3>1 DEF Sockets
      <3>3. m.net.pending = <<>>
        <4>1. m.net.pending \in Seq(Ops) /\ Range(m.net.pending) = {}
          BY <1>2, <2>2 DEF Sockets, OnWire
        <4> QED  BY <4>1, EmptyRange
      <3>4. ASSUME NEW n \in DOMAIN m.net.in PROVE m.net.in[n].op = 0 /\ m.net.in[n].type = "CONNACK"
        <4>1. m.net.in[n].op = 0
          BY <2>2 DEF OnWire, InOps
        <4> QED  BY <1>2, <4>1 DEF WireInv, NetInv
      <3> HIDE DEF net
      <3> QED  BY <3>1, <3>2, <3>3, <3>4 DEF QuietNet
    <2> HIDE DEF net, out
    <2>4. /\ Shape(x) /\ x.net = net /\ \A f \in Fields \ {"state", "net"} : x[f] = m[f]
      BY <1>2, <2>1, <2>3 DEF Sound, Shape, Fields, States
    <2> HIDE DEF x
    <2>5. /\ x.commands = m.commands /\ x.responses = m.responses /\ x.outbound = m.outbound
          /\ x.told = m.told /\ x.token = m.token /\ x.pendingWrite = m.pendingWrite
          /\ x.buffered = m.buffered /\ x.held = m.held /\ x.connected = m.connected
      BY <2>4 DEF Fields
    <2> QED  BY <1>2, <2>1, <2>3, <2>4, <2>5 DEF Controls, Control, Sound, Kept
  <1> HIDE DEF x
  <1>5. CASE Become(x)
    BY <1>1, <1>4, <1>5, ControlStep
  <1>6. CASE \E held \in {Nothing, Error} : Become(NextOrClose([m EXCEPT !.held = held]))
    <2>1. PICK h \in {Nothing, Error} : Become(NextOrClose([m EXCEPT !.held = h]))
      BY <1>6
    <2> DEFINE z == NextOrClose([m EXCEPT !.held = h])
    <2>2. Controls(m, z) /\ Become(z)
      BY <1>3, <2>1
    <2> HIDE DEF z
    <2> QED  BY <1>1, <2>2, ControlStep
  <1> QED  BY <1>1, <1>5, <1>6

LEMMA ReadErrorStep ==
    ASSUME AsyncInv, ReadError
    PROVE  AsyncInv' /\ Steady
  <1> DEFINE x == [m EXCEPT !.held = Error]
  <1>1. /\ Become(NextOrClose(x)) \/ Become(x)
        /\ UNCHANGED <<stored, call, written, got, asked>>
    BY DEF ReadError
  <1>2. Sound(m)
    BY InvSound
  <1>3. HeldType(Error) /\ Error.type # "SUBACK"
    BY DEF HeldType, Error
  <1>4. Controls(m, x) /\ Sound(x)
    BY <1>2, <1>3, HoldsControls DEF Controls
  <1> HIDE DEF x
  <1>5. Controls(m, NextOrClose(x))
    BY <1>2, <1>4, NextOrCloseControls, ControlsTwice
  <1> QED  BY <1>1, <1>4, <1>5, ControlStep

\* The session of a server that does not answer is closed.
LEMMA KeepAliveCloseStep ==
    ASSUME AsyncInv, KeepAliveClose
    PROVE  AsyncInv' /\ Steady
  <1>1. Become(NextOrClose(m)) /\ UNCHANGED <<stored, call, written, got, asked>>
    BY DEF KeepAliveClose
  <1>2. Controls(m, NextOrClose(m))
    BY InvSound, NextOrCloseControls
  <1> QED  BY <1>1, <1>2, ControlStep

LEMMA TimePassesStep ==
    ASSUME AsyncInv, TimePasses
    PROVE  AsyncInv' /\ Steady
  <1> DEFINE c == [m.connect EXCEPT !.late = TRUE]
             d == [m.disconnect EXCEPT !.expired = TRUE]
             x == [m EXCEPT !.connect = c]
             y == [m EXCEPT !.disconnect = d]
  <1>1. /\ m' = x \/ m' = y
        /\ UNCHANGED <<stored, call, replies, conns, written, got, asked>>
    BY DEF TimePasses
  <1>2. Sound(m) /\ OtherTypes
    BY InvSound DEF AsyncInv
  <1>3. c \in ConnectCommands /\ d \in DisconnectCommands
    BY <1>2, ConnectTypes DEF Sound, Shape, DisconnectCommands
  <1> HIDE DEF c, d
  <1>4. Shape(x) /\ \A f \in Fields \ {"connect"} : x[f] = m[f]
    BY <1>2, <1>3 DEF Sound, Shape, Fields
  <1>5. Shape(y) /\ \A f \in Fields \ {"disconnect"} : y[f] = m[f]
    BY <1>2, <1>3 DEF Sound, Shape, Fields
  <1> HIDE DEF x, y
  <1>6. Controls(m, x) /\ Controls(m, y)
    BY <1>2, <1>4, <1>5, DrivesOnly DEF Fields
  <1>7. m'.told = NoReplies /\ m'.toldConn = NoConnReplies /\ m'.responses = m.responses
    BY <1>1, <1>2, <1>4, <1>5 DEF OtherTypes, Fields
  <1>8. AskedKept /\ conns' \in [1..MaxConnects -> Seq(Kinds)]
    BY <1>1, <1>2 DEF OtherTypes, AskedType, AskedKept
  <1> QED  BY <1>1, <1>6, <1>7, <1>8, SilentStep

-----------------------------------------------------------------------------
(* Answers.                                                                *)

LEMMA MovesTwice ==
    ASSUME NEW x, NEW y, NEW z, NEW good, NEW more, Moves(x, y, good), Moves(y, z, more),
           Waiting(x) \subseteq Ops
    PROVE  Moves(x, z, good \cup more)
  <1>1. \A i \in Waiting(x) \ Waiting(z) : Told(x, z, good \cup more, i)
    <2> SUFFICES ASSUME NEW i \in Waiting(x), i \notin Waiting(z)
                 PROVE  Told(x, z, good \cup more, i)
      OBVIOUS
    <2>1. CASE i \in Waiting(y)
      BY <2>1 DEF Moves, Told
    <2>2. CASE i \notin Waiting(y)
      BY <2>2 DEF Moves, Told
    <2> QED  BY <2>1, <2>2
  <1>2. \A i \in Ops \ (Waiting(x) \ Waiting(z)) : z.told[i] = x.told[i]
    BY DEF Moves
  <1>3. /\ z.token = x.token /\ Open(z) \subseteq Open(x)
        /\ OnWire(z.net) \subseteq OnWire(x.net) \cup Open(x)
        /\ InOps(z.net) \subseteq InOps(x.net)
        /\ Waiting(z) \subseteq Waiting(x)
    BY DEF Moves
  <1>4. z.held.type = "SUBACK" =>
           \/ x.held.type = "SUBACK" /\ z.held.pack = x.held.pack
           \/ z.held.pack.op \in InOps(x.net)
    BY DEF Moves
  <1> QED  BY <1>1, <1>2, <1>3, <1>4 DEF Moves

LEMMA OpenTypes ==
    ASSUME NEW x, Shape(x)
    PROVE  /\ Waiting(x) \subseteq Ops /\ Open(x) \subseteq Ops
           /\ OnWire(x.net) \subseteq Ops /\ 0 \notin Ops
           /\ OpsIn(x.commands) \subseteq Ops /\ Range(x.responses) \subseteq Ops
           /\ Range(x.outbound) \subseteq Ops
  <1>1. /\ OpsIn(x.commands) \subseteq Ops /\ Range(x.responses) \subseteq Ops
        /\ Range(x.outbound) \subseteq Ops
    BY OpsInType, InRange DEF Shape
  <1>2. x.net.pending \in Seq(Ops) /\ x.net.out \in Seq(Packets) /\ x.net.in \in Seq(Packets)
    BY DEF Shape, Sockets
  <1>3. /\ Range(x.net.pending) \subseteq Ops
        /\ \A n \in DOMAIN x.net.out : x.net.out[n] \in Packets
        /\ \A n \in DOMAIN x.net.in : x.net.in[n] \in Packets
    BY <1>2, InRange
  <1>4. \A p \in Packets : p.op = 0 \/ p.op \in Ops
    BY AsyncAssumption DEF Packets, Ops
  <1>5. OutOps(x.net) \subseteq Ops /\ InOps(x.net) \subseteq Ops
    BY <1>3, <1>4 DEF OutOps, InOps
  <1>6. 0 \notin Ops
    BY DEF Ops
  <1> QED  BY <1>1, <1>3, <1>5, <1>6 DEF Waiting, Open, OnWire

\* A structure with fewer operations to wait for.
LEMMA ShrinkFine ==
    ASSUME NEW x, NEW y, Fine(x), Shape(y), OrderedOps(y.commands),
           OpsIn(y.commands) \subseteq OpsIn(x.commands),
           Distinct(y.responses), Distinct(y.outbound),
           y.token = x.token, y.pendingWrite \in {0, x.pendingWrite},
           Range(y.responses) \subseteq Range(x.responses),
           Range(y.outbound) \subseteq Range(x.outbound),
           Apart => \A i \in Range(y.responses) : OpType[i] = "PUBLISH1" => i \in Range(y.outbound),
           NetInv(y.net), OnWire(y.net) \subseteq OnWire(x.net),
           \A i \in OnWire(y.net) : y.connected /\ (Apart => Waits(y, i)),
           HeldInv(y)
    PROVE  Fine(y)
  <1>1. PlaceInv(x) /\ TokenInv(x) /\ WireInv(x)
    BY DEF Fine
  <1>2. PlaceInv(y)
    BY <1>1 DEF PlaceInv
  <1>3. Open(y) \subseteq Open(x)
    BY DEF Open
  <1>4. TokenInv(y)
    BY <1>1, <1>3 DEF TokenInv
  <1>5. WireInv(y)
    BY <1>1 DEF WireInv
  <1> QED  BY <1>2, <1>4, <1>5 DEF Fine

LEMMA ReplyFields ==
    ASSUME NEW x, Shape(x), NEW i \in Ops, NEW kind \in Kinds
    PROVE  /\ Shape(Reply(x, i, kind))
           /\ Reply(x, i, kind).told[i] = Append(x.told[i], kind)
           /\ \A j \in Ops \ {i} : Reply(x, i, kind).told[j] = x.told[j]
           /\ \A f \in Fields \ {"told"} : Reply(x, i, kind)[f] = x[f]
  <1> DEFINE v == [x.told EXCEPT ![i] = Append(x.told[i], kind)]
             y == Reply(x, i, kind)
  <1>1. "told" \in DOMAIN x /\ x.told \in [Ops -> Seq(Kinds)]
    BY DEF Shape, Fields
  <1>2. v \in [Ops -> Seq(Kinds)]
    <2>1. Append(x.told[i], kind) \in Seq(Kinds)
      BY <1>1, AppendPositions
    <2> QED  BY <1>1, <2>1
  <1>3. y = [x EXCEPT !.told = v]
    BY <1>1 DEF Reply
  <1>4. v[i] = Append(x.told[i], kind) /\ \A j \in Ops \ {i} : v[j] = x.told[j]
    BY <1>1
  <1> HIDE DEF v, y
  <1>5. Shape(y) /\ y.told = v /\ \A f \in Fields \ {"told"} : y[f] = x[f]
    BY <1>2, <1>3 DEF Shape, Fields
  <1> QED  BY <1>4, <1>5 DEF v, y

\* The callback of an operation that waits among the responses.
Settled(x, i, kind) ==
    Reply([x EXCEPT !.responses = Detach(x.responses, Positions(x.responses, i))], i, kind)

LEMMA SettledFields ==
    ASSUME NEW x, Shape(x), Distinct(x.responses), NEW i \in Range(x.responses),
           NEW kind \in Kinds
    PROVE  /\ Shape(Settled(x, i, kind))
           /\ Distinct(Settled(x, i, kind).responses)
           /\ Range(Settled(x, i, kind).responses) = Range(x.responses) \ {i}
           /\ Settled(x, i, kind).told[i] = Append(x.told[i], kind)
           /\ \A j \in Ops \ {i} : Settled(x, i, kind).told[j] = x.told[j]
           /\ \A f \in Fields \ {"told", "responses"} : Settled(x, i, kind)[f] = x[f]
  <1> DEFINE s == Detach(x.responses, Positions(x.responses, i))
             y == [x EXCEPT !.responses = s]
             z == Reply(y, i, kind)
  <1>1. x.responses \in Seq(Ops) /\ i \in Ops
    BY InRange DEF Shape
  <1>2. Positions(x.responses, i) \subseteq DOMAIN x.responses
    BY DEF Positions
  <1>3. s \in Seq(Ops) /\ Distinct(s)
    BY <1>1, <1>2, DetachProperties
  <1>4. Range(s) = Range(x.responses) \ {i}
    BY <1>1, DistinctPositions
  <1> HIDE DEF s
  <1>5. Shape(y) /\ y.responses = s /\ \A f \in Fields \ {"responses"} : y[f] = x[f]
    BY <1>3 DEF Shape, Fields
  <1> HIDE DEF y
  <1>6. /\ Shape(z) /\ z.told[i] = Append(y.told[i], kind)
        /\ \A j \in Ops \ {i} : z.told[j] = y.told[j]
        /\ \A f \in Fields \ {"told"} : z[f] = y[f]
    <2>1. Shape(y) /\ i \in Ops /\ kind \in Kinds
      BY <1>1, <1>5
    <2> QED  BY <2>1, ReplyFields
  <1>7. z = Settled(x, i, kind)
    BY DEF Settled, y, s
  <1> HIDE DEF z
  <1>8. z.responses = s /\ y.told = x.told /\ \A f \in Fields \ {"told", "responses"} : z[f] = x[f]
    BY <1>5, <1>6 DEF Fields
  <1> QED  BY <1>3, <1>4, <1>6, <1>7, <1>8

IsSettled(x, i, kind, y) ==
    /\ Shape(y) /\ Distinct(y.responses)
    /\ Range(y.responses) = Range(x.responses) \ {i}
    /\ y.told[i] = Append(x.told[i], kind)
    /\ \A j \in Ops \ {i} : y.told[j] = x.told[j]
    /\ \A f \in Fields \ {"told", "responses"} : y[f] = x[f]

LEMMA SettledIs ==
    ASSUME NEW x, Shape(x), Distinct(x.responses), NEW i \in Range(x.responses),
           NEW kind \in Kinds
    PROVE  IsSettled(x, i, kind, Settled(x, i, kind))
  BY SettledFields DEF IsSettled

-----------------------------------------------------------------------------
(* What happens to the packets on a connection.                            *)

\* A channel of packets with its head taken.
LEMMA ChannelTail ==
    ASSUME NEW s \in Seq(Packets), s # <<>>, OnceEach(s)
    PROVE  /\ Tail(s) \in Seq(Packets) /\ Head(s) \in Packets /\ OnceEach(Tail(s))
           /\ \A n \in DOMAIN Tail(s) : \E k \in DOMAIN s : Tail(s)[n] = s[k]
           /\ \E k \in DOMAIN s : Head(s) = s[k]
           /\ {Tail(s)[n].op : n \in DOMAIN Tail(s)} \ {0} =
                  ({s[n].op : n \in DOMAIN s} \ {0}) \ {Head(s).op}
  <1>1. /\ Tail(s) \in Seq(Packets) /\ Without(Tail(s), s, 1)
        /\ 1 \in DOMAIN s /\ Head(s) = s[1] /\ s[1] \in Packets
    BY TailWithout
  <1> DEFINE t == Tail(s)
  <1> HIDE DEF t
  <1>2. PICK at \in [DOMAIN t -> DOMAIN s \ {1}] :
            /\ \A a, b \in DOMAIN t : a < b => at[a] < at[b]
            /\ \A a, b \in DOMAIN t : at[a] = at[b] => a = b
            /\ \A a \in DOMAIN t : t[a] = s[at[a]]
            /\ \A b \in DOMAIN s \ {1} : \E a \in DOMAIN t : at[a] = b
    BY <1>1 DEF Without, t
  <1>3. \A a \in DOMAIN t : at[a] \in DOMAIN s /\ at[a] # 1 /\ t[a] = s[at[a]]
    BY <1>2
  <1>4. OnceEach(t)
    BY <1>2, <1>3 DEF OnceEach
  <1>5. \A n \in DOMAIN t : t[n].op # 0 => t[n].op # s[1].op
    BY <1>1, <1>3 DEF OnceEach
  <1>6. \A k \in DOMAIN s : s[k].op # s[1].op => \E n \in DOMAIN t : t[n].op = s[k].op
    <2> SUFFICES ASSUME NEW k \in DOMAIN s, s[k].op # s[1].op
                 PROVE  \E n \in DOMAIN t : t[n].op = s[k].op
      OBVIOUS
    <2>1. PICK a \in DOMAIN t : at[a] = k
      BY <1>2
    <2> QED  BY <1>3, <2>1
  <1>7. {t[n].op : n \in DOMAIN t} \ {0} = ({s[n].op : n \in DOMAIN s} \ {0}) \ {s[1].op}
    BY <1>3, <1>5, <1>6
  <1> QED  BY <1>1, <1>3, <1>4, <1>7 DEF t

\* A packet put at the end of a channel that has none of its operation.
LEMMA ChannelAppend ==
    ASSUME NEW s \in Seq(Packets), NEW p \in Packets, OnceEach(s),
           p.op = 0 \/ p.op \notin {s[n].op : n \in DOMAIN s}
    PROVE  /\ Append(s, p) \in Seq(Packets) /\ OnceEach(Append(s, p))
           /\ \A n \in DOMAIN Append(s, p) :
                  Append(s, p)[n] = p \/ \E k \in DOMAIN s : Append(s, p)[n] = s[k]
           /\ {Append(s, p)[n].op : n \in DOMAIN Append(s, p)} \ {0} =
                  ({s[n].op : n \in DOMAIN s} \cup {p.op}) \ {0}
  <1> DEFINE t == Append(s, p)
  <1>1. /\ t \in Seq(Packets) /\ DOMAIN t = DOMAIN s \cup {Len(s) + 1}
        /\ Len(s) + 1 \notin DOMAIN s
        /\ \A i \in DOMAIN s : t[i] = s[i]
        /\ t[Len(s) + 1] = p
    BY AppendPositions
  <1> HIDE DEF t
  <1>2. OnceEach(t)
    BY <1>1 DEF OnceEach
  <1>3. {t[n].op : n \in DOMAIN t} \ {0} = ({s[n].op : n \in DOMAIN s} \cup {p.op}) \ {0}
    BY <1>1
  <1> QED  BY <1>1, <1>2, <1>3 DEF t

LEMMA ReadIn ==
    ASSUME NEW net \in Sockets, NetInv(net), net.in # <<>>
    PROVE  LET nn == [net EXCEPT !.in = Tail(net.in)]
               h == Head(net.in)
           IN  /\ nn \in Sockets /\ NetInv(nn) /\ h \in Packets
               /\ InOps(nn) = InOps(net) \ {h.op} /\ OutOps(nn) = OutOps(net)
               /\ nn.pending = net.pending
               /\ h.op # 0 => h.op \in InOps(net)
               /\ h.type = IF h.op = 0 THEN "CONNACK" ELSE AnswerOf(h.op)
               /\ h.op # 0 => h.op \in Acknowledged /\ h.op \notin OutOps(net) \cup Range(net.pending)
  <1> DEFINE nn == [net EXCEPT !.in = Tail(net.in)]
             h == Head(net.in)
             s == net.in
  <1>1. s \in Seq(Packets) /\ OnceEach(s)
    BY DEF Sockets, NetInv
  <1>2. /\ Tail(s) \in Seq(Packets) /\ h \in Packets /\ OnceEach(Tail(s))
        /\ \A n \in DOMAIN Tail(s) : \E k \in DOMAIN s : Tail(s)[n] = s[k]
        /\ \E k \in DOMAIN s : h = s[k]
        /\ {Tail(s)[n].op : n \in DOMAIN Tail(s)} \ {0} =
               ({s[n].op : n \in DOMAIN s} \ {0}) \ {h.op}
    BY <1>1, ChannelTail
  <1>3. nn \in Sockets /\ nn.in = Tail(s) /\ nn.out = net.out /\ nn.pending = net.pending
    BY <1>2 DEF Sockets
  <1> HIDE DEF nn, h
  <1>4. InOps(nn) = InOps(net) \ {h.op} /\ OutOps(nn) = OutOps(net)
    BY <1>2, <1>3 DEF InOps, OutOps
  <1>5. \A n \in DOMAIN nn.in :
           /\ nn.in[n].type = IF nn.in[n].op = 0 THEN "CONNACK" ELSE AnswerOf(nn.in[n].op)
           /\ nn.in[n].op # 0 => nn.in[n].op \in Acknowledged
    BY <1>2, <1>3 DEF NetInv
  <1>6. NetInv(nn)
    BY <1>2, <1>3, <1>4, <1>5 DEF NetInv
  <1>7. /\ h.op # 0 => h.op \in InOps(net) /\ h.op \in Acknowledged
        /\ h.type = IF h.op = 0 THEN "CONNACK" ELSE AnswerOf(h.op)
    BY <1>2 DEF NetInv, InOps
  <1>8. h.op # 0 => h.op \notin OutOps(net) \cup Range(net.pending)
    BY <1>7 DEF NetInv
  <1> QED  BY <1>2, <1>3, <1>4, <1>6, <1>7, <1>8 DEF nn, h

\* The answers by their operations.
LEMMA AnswerKinds ==
    ASSUME NEW i \in Ops
    PROVE  /\ OpType[i] \in Types
           /\ i \in Acknowledged <=> OpType[i] # "PUBLISH0"
           /\ i \in Publishes <=> OpType[i] \in {"PUBLISH0", "PUBLISH1"}
           /\ AnswerOf(i) = "PUBACK" <=> OpType[i] = "PUBLISH1"
           /\ AnswerOf(i) \in {"PUBACK", "SUBACK"}
  BY AsyncAssumption DEF Types, Acknowledged, Publishes, AnswerOf, Ops

LEMMA ReadPacketStep ==
    ASSUME AsyncInv, ReadPacket
    PROVE  AsyncInv' /\ Steady
  <1> DEFINE nn == [m.net EXCEPT !.in = Tail(m.net.in)]
             p == Head(m.net.in)
             h == [type |-> p.type, stale |-> FALSE, pack |-> p]
             x == [m EXCEPT !.net = nn, !.held = h]
  <1>1. /\ m.held.type = "NONE" /\ m.net.in # <<>> /\ p.type # "PUBACK"
        /\ Become(x)
        /\ UNCHANGED <<stored, call, written, got, asked>>
    BY DEF ReadPacket, Idle
  <1>2. Fine(m) /\ Shape(m) /\ WireInv(m) /\ PlaceInv(m)
    BY InvSound DEF Fine
  <1>3. m.net \in Sockets /\ NetInv(m.net)
    BY <1>2 DEF Shape, WireInv
  <1>4. /\ nn \in Sockets /\ NetInv(nn) /\ p \in Packets
        /\ InOps(nn) = InOps(m.net) \ {p.op} /\ OutOps(nn) = OutOps(m.net)
        /\ nn.pending = m.net.pending
        /\ p.op # 0 => p.op \in InOps(m.net)
        /\ p.type = IF p.op = 0 THEN "CONNACK" ELSE AnswerOf(p.op)
        /\ p.op # 0 => p.op \in Acknowledged /\ p.op \notin OutOps(m.net) \cup Range(m.net.pending)
    BY <1>1, <1>3, ReadIn
  <1>4a. nn.out = m.net.out
    BY <1>3 DEF Sockets
  <1> HIDE DEF nn, p
  <1>5. p.type \in {"CONNACK", "SUBACK"}
    BY <1>1, <1>4 DEF AnswerOf
  <1>6. HeldType(h) /\ h.type = p.type /\ h.pack = p
    BY <1>4, <1>5 DEF HeldType
  <1> HIDE DEF h
  <1>7. /\ Shape(x) /\ x.net = nn /\ x.held = h
        /\ \A f \in Fields \ {"net", "held"} : x[f] = m[f]
    BY <1>2, <1>4, <1>6 DEF Shape, Fields
  <1> HIDE DEF x
  <1>8. /\ x.commands = m.commands /\ x.responses = m.responses /\ x.outbound = m.outbound
        /\ x.told = m.told /\ x.token = m.token /\ x.pendingWrite = m.pendingWrite
        /\ x.buffered = m.buffered /\ x.connected = m.connected
    BY <1>7 DEF Fields
  <1>9. /\ OnWire(x.net) \subseteq OnWire(m.net)
        /\ p.op # 0 => p.op \notin OnWire(x.net) /\ p.op \in OnWire(m.net)
    BY <1>4, <1>7 DEF OnWire
  <1>10. HeldInv(x)
    <2> SUFFICES ASSUME p.type = "SUBACK"
                 PROVE  /\ p.op # 0 /\ OpType[p.op] \in {"SUBSCRIBE", "UNSUBSCRIBE"}
                        /\ p.op \notin OpsIn(x.commands) /\ p.op \notin OnWire(x.net)
                        /\ Apart => p.op \in Range(x.responses)
      BY <1>6, <1>7 DEF HeldInv
    <2>1. p.op # 0 /\ p.op \in OnWire(m.net) /\ p.op \in Acknowledged /\ AnswerOf(p.op) # "PUBACK"
      BY <1>4, <1>9
    <2>2. OpType[p.op] \in {"SUBSCRIBE", "UNSUBSCRIBE"}
      <3>1. p.op \in Ops
        BY <2>1 DEF Acknowledged
      <3> QED  BY <2>1, <3>1, AnswerKinds DEF Types
    <2> QED  BY <1>2, <1>8, <1>9, <2>1, <2>2 DEF WireInv, Waits
  <1>11. Fine(x)
    BY <1>2, <1>4, <1>7, <1>8, <1>9, <1>10, ShrinkFine DEF WireInv, PlaceInv, Waits
  <1>12. Moves(m, x, {})
    <2>1. Open(x) = Open(m) /\ Waiting(x) = Waiting(m)
      BY <1>8 DEF Open, Waiting
    <2>2. InOps(x.net) \subseteq InOps(m.net)
      BY <1>4, <1>7
    <2>3. x.held.type = "SUBACK" => x.held.pack.op \in InOps(m.net)
      BY <1>4, <1>6, <1>7, <1>10 DEF HeldInv
    <2> QED  BY <1>8, <1>9, <2>1, <2>2, <2>3 DEF Moves
  <1>13. written' \subseteq Ops /\ AskedKept
    BY <1>1 DEF AsyncInv, OtherTypes, AskedType, AskedKept
  <1>14. /\ Fine(m)' /\ OtherTypes' /\ CallInv' /\ ReadInv'
         /\ m'.commands = x.commands /\ m'.buffered = x.buffered
         /\ \A i \in Ops : "success" \in Range(replies'[i]) =>
                "success" \in Range(replies[i]) \/ i \in {}
    BY <1>1, <1>11, <1>12, <1>13, BecomeStep
  <1>15. StoreInv'
    BY <1>1, <1>8, <1>14 DEF AsyncInv, StoreInv
  <1>16. Steady
    <2>1. Quietly(m, x)
      BY <1>4, <1>4a, <1>7, <1>8, OutQuietly
    <2>2. {} \in SUBSET Acknowledged
      OBVIOUS
    <2> QED  BY <1>1, <1>11, <1>14, <2>1, <2>2, BecomeSteady
  <1> QED  BY <1>14, <1>15, <1>16 DEF AsyncInv

\* An answer is matched by its message id: it finds the operation it is for.
LEMMA MatchingIs ==
    ASSUME Apart, NEW x, Fine(x), NEW i \in Open(x) \cap Acknowledged,
           NEW s \in Seq(Ops), Range(s) \subseteq Open(x)
    PROVE  Matching(x, s, x.token[i]) = Positions(s, i)
  <1>1. TokenInv(x)
    BY DEF Fine
  <1>2. \A n \in DOMAIN s : s[n] \in Open(x) /\ s[n] \in Ops
    BY InRange
  <1>3. ASSUME NEW n \in DOMAIN s
        PROVE  x.token[s[n]] = x.token[i] <=> s[n] = i
    <2>1. CASE s[n] \in Acknowledged
      BY <1>1, <1>2, <2>1 DEF TokenInv
    <2>2. CASE s[n] \notin Acknowledged
      BY <1>1, <1>2, <2>2 DEF TokenInv
    <2> QED  BY <2>1, <2>2
  <1> QED  BY <1>3 DEF Matching, Positions

LEMMA AnsweredIs ==
    ASSUME Apart, NEW x, Fine(x), NEW i \in Open(x) \cap Acknowledged, NEW y,
           y.token = x.token, y.responses = x.responses, NEW kind
    PROVE  Answered(y, x.token[i], kind) =
               IF i \in Range(x.responses) THEN Settled(y, i, kind) ELSE y
  <1>1. x.responses \in Seq(Ops) /\ Distinct(x.responses) /\ Range(x.responses) \subseteq Open(x)
    BY DEF Fine, Shape, PlaceInv, Open
  <1>2. Matching(x, x.responses, x.token[i]) = Positions(x.responses, i)
    BY <1>1, MatchingIs
  <1>3. Matching(y, y.responses, x.token[i]) = Positions(x.responses, i)
    BY <1>2 DEF Matching
  <1>4. CASE i \in Range(x.responses)
    <2>1. Positions(x.responses, i) # {} /\ x.responses[Min(Positions(x.responses, i))] = i
      BY <1>1, <1>4, DistinctPositions
    <2> QED  BY <1>3, <1>4, <2>1 DEF Answered, Settled
  <1>5. CASE i \notin Range(x.responses)
    <2>1. Positions(x.responses, i) = {}
      BY <1>1, <1>5, DistinctPositions
    <2> QED  BY <1>3, <1>5, <2>1 DEF Answered
  <1> QED  BY <1>4, <1>5

\* When ids are shared it finds one operation of that id, or none.
LEMMA AnsweredAny ==
    ASSUME NEW x, Shape(x), Distinct(x.responses), NEW t, NEW kind
    PROVE  \/ Answered(x, t, kind) = x
           \/ \E k \in Range(x.responses) :
                  x.token[k] = t /\ Answered(x, t, kind) = Settled(x, k, kind)
  <1> DEFINE s == x.responses
             found == Matching(x, s, t)
             n == Min(found)
             k == s[n]
  <1>1. s \in Seq(Ops) /\ found \subseteq DOMAIN s
    BY DEF Shape, Matching
  <1>2. CASE found = {}
    BY <1>2 DEF Answered
  <1>3. CASE found # {}
    <2>1. n \in found /\ n \in DOMAIN s
      BY <1>1, <1>3, DetachProperties
    <2>2. x.token[k] = t /\ k \in Range(s)
      BY <2>1 DEF Matching, Range
    <2>3. Positions(s, k) = {n}
      BY <2>1 DEF Positions, Distinct
    <2>4. Min(Positions(s, k)) = n
      <3>1. Positions(s, k) \subseteq DOMAIN s /\ Positions(s, k) # {}
        BY <2>1, <2>3
      <3>2. Min(Positions(s, k)) \in Positions(s, k)
        BY <1>1, <3>1, DetachProperties
      <3> QED  BY <2>3, <3>2
    <2>5. Detach(s, Positions(s, k)) = Detach(s, found)
      BY <1>3, <2>3, <2>4 DEF Detach
    <2>6. Answered(x, t, kind) = Settled(x, k, kind)
      BY <1>3, <2>5 DEF Answered, Settled
    <2> QED  BY <2>2, <2>6
  <1> QED  BY <1>2, <1>3

LEMMA HandlePubackStep ==
    ASSUME AsyncInv, HandlePuback
    PROVE  AsyncInv' /\ Steady
  <1> DEFINE p == Head(m.net.in)
             t == m.token[p.op]
             nn == [m.net EXCEPT !.in = Tail(m.net.in)]
             out == Detach(m.outbound, Matching(m, m.outbound, t))
             x == [m EXCEPT !.net = nn, !.outbound = out]
             y == Answered(x, t, "success")
  <1>1. /\ m.held.type = "NONE" /\ m.net.in # <<>> /\ p.type = "PUBACK"
        /\ Become(y)
        /\ UNCHANGED <<stored, call, written, got, asked>>
    BY DEF HandlePuback, Idle
  <1>2. Fine(m) /\ Shape(m) /\ WireInv(m) /\ PlaceInv(m)
    BY InvSound DEF Fine
  <1>3. m.net \in Sockets /\ NetInv(m.net)
    BY <1>2 DEF Shape, WireInv
  <1>4. /\ nn \in Sockets /\ NetInv(nn) /\ p \in Packets
        /\ InOps(nn) = InOps(m.net) \ {p.op} /\ OutOps(nn) = OutOps(m.net)
        /\ nn.pending = m.net.pending
        /\ p.op # 0 => p.op \in InOps(m.net)
        /\ p.type = IF p.op = 0 THEN "CONNACK" ELSE AnswerOf(p.op)
        /\ p.op # 0 => p.op \in Acknowledged /\ p.op \notin OutOps(m.net) \cup Range(m.net.pending)
    BY <1>1, <1>3, ReadIn
  <1>4a. nn.out = m.net.out
    BY <1>3 DEF Sockets
  <1> HIDE DEF nn
  <1> DEFINE i == p.op
  <1>5. i # 0 /\ i \in InOps(m.net) /\ i \in Acknowledged /\ i \in Ops /\ OpType[i] = "PUBLISH1"
    <2>1. i # 0 /\ i \in Acknowledged /\ AnswerOf(i) = "PUBACK"
      BY <1>1, <1>4
    <2>2. i \in Ops
      BY <2>1 DEF Acknowledged
    <2> QED  BY <1>4, <2>1, <2>2, AnswerKinds
  <1>5t. t # 0
    <2>1. call[i] \in {"accepted", "orphan"}
      BY <1>5 DEF AsyncInv, CallInv, OnWire
    <2> QED  BY <1>5, <2>1 DEF AsyncInv, CallInv
  <1>6. Apart => i \in Range(m.outbound) /\ i \in Open(m) \cap Acknowledged
    BY <1>2, <1>5 DEF WireInv, Waits, OnWire, Open
  <1>7. /\ out \in Seq(Ops) /\ Distinct(out) /\ Range(out) \subseteq Range(m.outbound)
        /\ Apart => Range(out) = Range(m.outbound) \ {i}
    <2>1. m.outbound \in Seq(Ops) /\ Distinct(m.outbound) /\ Range(m.outbound) \subseteq Open(m)
      BY <1>2 DEF Shape, PlaceInv, Open
    <2> DEFINE s == m.outbound
    <2>2. Matching(m, s, t) \subseteq DOMAIN s
      BY DEF Matching
    <2>3. out \in Seq(Ops) /\ Distinct(out) /\ Range(out) \subseteq Range(s)
      BY <2>1, <2>2, DetachProperties
    <2>4. ASSUME Apart PROVE Range(out) = Range(s) \ {i}
      <3>1. Matching(m, s, t) = Positions(s, i)
        BY <1>2, <1>6, <2>1, <2>4, MatchingIs
      <3>2. i \in Range(s) /\ s \in Seq(Ops) /\ Distinct(s)
        BY <1>6, <2>1, <2>4
      <3> HIDE DEF s
      <3>3. Range(Detach(s, Positions(s, i))) = Range(s) \ {i}
        BY <3>2, DistinctPositions
      <3> QED  BY <3>1, <3>3 DEF s
    <2> QED  BY <2>3, <2>4
  <1> HIDE DEF out, p
  <1>8. /\ Shape(x) /\ x.net = nn /\ x.outbound = out
        /\ \A f \in Fields \ {"net", "outbound"} : x[f] = m[f]
    BY <1>2, <1>4, <1>7 DEF Shape, Fields
  <1> HIDE DEF x
  <1>9. /\ x.commands = m.commands /\ x.responses = m.responses
        /\ x.told = m.told /\ x.token = m.token /\ x.pendingWrite = m.pendingWrite
        /\ x.buffered = m.buffered /\ x.connected = m.connected /\ x.held = m.held
    BY <1>8 DEF Fields
  <1>10. PICK G \in SUBSET (Range(m.responses) \cap Acknowledged) :
             /\ \/ G = {} /\ y = x
                \/ \E k \in Range(m.responses) : G = {k} /\ y = Settled(x, k, "success")
             /\ Apart => G = Range(m.responses) \cap {i}
    <2>1. CASE Apart
      <3>1. y = IF i \in Range(m.responses) THEN Settled(x, i, "success") ELSE x
        BY <1>2, <1>6, <1>9, <2>1, AnsweredIs
      <3> HIDE DEF y, i
      <3>2. CASE i \in Range(m.responses)
        <4>1. {i} \in SUBSET (Range(m.responses) \cap Acknowledged) /\ {i} = Range(m.responses) \cap {i}
          BY <1>6, <2>1, <3>2
        <4> QED  BY <3>1, <3>2, <4>1
      <3>3. CASE i \notin Range(m.responses)
        <4>1. {} \in SUBSET (Range(m.responses) \cap Acknowledged) /\ {} = Range(m.responses) \cap {i}
          BY <3>3
        <4> QED  BY <3>1, <3>3, <4>1
      <3> QED  BY <3>2, <3>3
    <2>2. CASE ~Apart
      <3>1. Distinct(x.responses)
        BY <1>2, <1>9 DEF PlaceInv
      <3>2. \/ y = x
            \/ \E k \in Range(x.responses) : x.token[k] = t /\ y = Settled(x, k, "success")
        BY <1>8, <3>1, AnsweredAny
      <3>3. ASSUME NEW k \in Range(m.responses), m.token[k] = t PROVE k \in Acknowledged
        <4>1. k \in Ops
          BY <1>2, OpenTypes
        <4> QED  BY <1>2, <1>5t, <3>3, <4>1 DEF Fine, TokenInv
      <3> HIDE DEF y, t
      <3>4. CASE y = x
        <4>1. {} \in SUBSET (Range(m.responses) \cap Acknowledged)
          OBVIOUS
        <4> QED  BY <2>2, <3>4, <4>1
      <3>5. CASE \E k \in Range(x.responses) : x.token[k] = t /\ y = Settled(x, k, "success")
        <4>1. PICK k \in Range(m.responses) : m.token[k] = t /\ y = Settled(x, k, "success")
          BY <1>9, <3>5
        <4>2. {k} \in SUBSET (Range(m.responses) \cap Acknowledged)
          BY <3>3, <4>1
        <4> QED  BY <2>2, <4>1, <4>2
      <3> QED  BY <3>2, <3>4, <3>5
    <2> QED  BY <2>1, <2>2
  <1> HIDE DEF y, i, t
  <1>11. /\ Shape(y) /\ y.net = nn /\ y.outbound = out /\ y.commands = m.commands
         /\ y.token = m.token /\ y.pendingWrite = m.pendingWrite
         /\ y.buffered = m.buffered /\ y.connected = m.connected /\ y.held = m.held
         /\ Distinct(y.responses) /\ Range(y.responses) = Range(m.responses) \ G
         /\ \A j \in Ops \ G : y.told[j] = m.told[j]
         /\ \A j \in G : y.told[j] = Append(m.told[j], "success")
    <2>1. CASE \E k \in Range(m.responses) : G = {k} /\ y = Settled(x, k, "success")
      <3>1. PICK k \in Range(m.responses) : G = {k} /\ y = Settled(x, k, "success")
        BY <2>1
      <3>2. Distinct(x.responses) /\ k \in Range(x.responses) /\ "success" \in Kinds
        BY <1>2, <1>9 DEF PlaceInv, Kinds
      <3> DEFINE z == Settled(x, k, "success")
      <3>3. /\ Shape(z) /\ Distinct(z.responses)
            /\ Range(z.responses) = Range(x.responses) \ {k}
            /\ z.told[k] = Append(x.told[k], "success")
            /\ \A j \in Ops \ {k} : z.told[j] = x.told[j]
            /\ \A f \in Fields \ {"told", "responses"} : z[f] = x[f]
        <4>1. IsSettled(x, k, "success", z)
          BY ONLY <1>8, <3>2, SettledIs DEF z
        <4> HIDE DEF z
        <4> QED  BY <4>1 DEF IsSettled
      <3>4. y = z
        BY <3>1
      <3> HIDE DEF z
      <3>5. /\ z.net = x.net /\ z.outbound = x.outbound /\ z.commands = x.commands
            /\ z.token = x.token /\ z.pendingWrite = x.pendingWrite
            /\ z.buffered = x.buffered /\ z.connected = x.connected /\ z.held = x.held
        BY <3>3 DEF Fields
      <3> QED  BY <1>8, <1>9, <3>1, <3>3, <3>4, <3>5
    <2>2. CASE G = {} /\ y = x
      BY <1>2, <1>8, <1>9, <2>2 DEF PlaceInv
    <2> QED  BY <1>10, <2>1, <2>2
  <1>12. OnWire(y.net) \subseteq OnWire(m.net) /\ i \notin OnWire(y.net)
    BY <1>4, <1>5, <1>11 DEF OnWire, i
  <1>13. HeldInv(y)
    BY <1>1, <1>11 DEF HeldInv
  <1>14. \A j \in OnWire(y.net) : y.connected /\ (Apart => Waits(y, j))
    <2>1. \A j \in OnWire(y.net) : j # i /\ j \in OnWire(m.net)
      BY <1>12
    <2>2. ASSUME Apart, NEW j \in OnWire(y.net) PROVE Waits(y, j)
      <3>1. Waits(m, j) /\ j # i
        BY <1>2, <2>1, <2>2 DEF WireInv
      <3>2. Range(y.outbound) = Range(m.outbound) \ {i} /\ Range(m.responses) \ {i} \subseteq Range(y.responses)
        BY <1>7, <1>10, <1>11, <2>2
      <3> QED  BY <3>1, <3>2 DEF Waits
    <2> QED  BY <1>2, <1>11, <2>1, <2>2 DEF WireInv
  <1>15. Fine(y)
    <2>1. OrderedOps(y.commands) /\ OpsIn(y.commands) \subseteq OpsIn(m.commands)
      BY <1>2, <1>11 DEF PlaceInv
    <2>2. Apart => \A j \in Range(y.responses) : OpType[j] = "PUBLISH1" => j \in Range(y.outbound)
      BY <1>2, <1>7, <1>10, <1>11 DEF PlaceInv
    <2> QED  BY <1>2, <1>4, <1>7, <1>11, <1>12, <1>13, <1>14, <2>1, <2>2, ShrinkFine
  <1>16. Moves(m, y, G)
    <2>1. Open(y) \subseteq Open(m) /\ Waiting(y) \subseteq Waiting(m)
      BY <1>7, <1>11 DEF Open, Waiting
    <2>2. Waiting(m) \ Waiting(y) = G
      BY <1>2, <1>11 DEF Waiting, PlaceInv
    <2>3. /\ \A j \in Waiting(m) \ Waiting(y) : Told(m, y, G, j)
          /\ \A j \in Ops \ (Waiting(m) \ Waiting(y)) : y.told[j] = m.told[j]
      BY <1>11, <2>2 DEF Told
    <2>4. InOps(y.net) \subseteq InOps(m.net)
      BY <1>4, <1>11
    <2>5. y.held.type # "SUBACK"
      BY <1>1, <1>11
    <2> QED  BY <1>11, <1>12, <2>1, <2>3, <2>4, <2>5 DEF Moves
  <1>17. written' \subseteq Ops /\ AskedKept
    BY <1>1 DEF AsyncInv, OtherTypes, AskedType, AskedKept
  <1>18. Apart => G \cap Acknowledged \subseteq Range(got)
    BY <1>5, <1>10 DEF AsyncInv, ReadInv
  <1>19. /\ Fine(m)' /\ OtherTypes' /\ CallInv' /\ ReadInv'
         /\ m'.commands = y.commands /\ m'.buffered = y.buffered
         /\ \A j \in Ops : "success" \in Range(replies'[j]) =>
                "success" \in Range(replies[j]) \/ j \in G
    BY <1>1, <1>15, <1>16, <1>17, <1>18, BecomeStep
  <1>20. StoreInv'
    BY <1>1, <1>11, <1>19 DEF AsyncInv, StoreInv
  <1>21. Steady
    <2>1. Quietly(m, y)
      BY <1>4, <1>4a, <1>11, OutQuietly
    <2>2. G \in SUBSET Acknowledged
      BY <1>10
    <2> QED  BY <1>1, <1>15, <1>19, <2>1, <2>2, BecomeSteady
  <1> QED  BY <1>19, <1>20, <1>21 DEF AsyncInv

-----------------------------------------------------------------------------
(* The CONNACK of a connection that is accepted.                           *)

\* Without a connection no packet of an operation is on the wire.
LEMMA DownIsQuiet ==
    ASSUME NEW x, Fine(x), ~x.connected
    PROVE  QuietNet(x.net)
  <1>1. x.net \in Sockets /\ NetInv(x.net) /\ OnWire(x.net) = {}
    BY DEF Fine, Shape, WireInv
  <1>2. x.net.pending = <<>>
    <2>1. x.net.pending \in Seq(Ops) /\ Range(x.net.pending) = {}
      BY <1>1 DEF Sockets, OnWire
    <2> QED  BY <2>1, EmptyRange
  <1>3. \A n \in DOMAIN x.net.out : x.net.out[n].op = 0 /\ x.net.out[n].type = "CONNECT"
    <2>1. \A n \in DOMAIN x.net.out : x.net.out[n].op = 0
      BY <1>1 DEF OnWire, OutOps
    <2> QED  BY <1>1, <2>1 DEF NetInv
  <1>4. \A n \in DOMAIN x.net.in : x.net.in[n].op = 0 /\ x.net.in[n].type = "CONNACK"
    <2>1. \A n \in DOMAIN x.net.in : x.net.in[n].op = 0
      BY <1>1 DEF OnWire, InOps
    <2> QED  BY <1>1, <2>1 DEF NetInv
  <1> QED  BY <1>2, <1>3, <1>4 DEF QuietNet

LEMMA CompletedFine ==
    ASSUME NEW x, Fine(x), x.state = "WAIT_FOR_CONNACK", x.held.type = "CONNACK"
    PROVE  /\ Fine(Completed(x)) /\ Moves(x, Completed(x), {})
           /\ OpsIn(Completed(x).commands) = OpsIn(x.commands)
           /\ Completed(x).buffered = x.buffered
           /\ Quietly(x, Completed(x))
  <1> DEFINE y == [x EXCEPT !.retrying = FALSE, !.connected = TRUE, !.state = "NOT_IN_PROGRESS"]
             z == CleanedSession(y)
  <1>1. /\ Shape(x) /\ PlaceInv(x) /\ TokenInv(x) /\ ~x.connected /\ QuietNet(x.net)
        /\ x.net \in Sockets
    <2>1. Shape(x) /\ PlaceInv(x) /\ TokenInv(x)
      BY DEF Fine
    <2>2. ~x.connected /\ x.net \in Sockets
      BY <2>1 DEF Shape
    <2> QED  BY <2>1, <2>2, DownIsQuiet
  <1>2. /\ Shape(y) /\ y.connected = TRUE
        /\ \A f \in Fields \ {"retrying", "connected", "state"} : y[f] = x[f]
    BY <1>1 DEF Shape, Fields, States
  <1>3. z = Completed(x)
    BY DEF Completed
  <1> HIDE DEF y
  <1>4. /\ y.commands = x.commands /\ y.responses = x.responses /\ y.outbound = x.outbound
        /\ y.told = x.told /\ y.token = x.token /\ y.pendingWrite = x.pendingWrite
        /\ y.buffered = x.buffered /\ y.net = x.net /\ y.held = x.held
    BY <1>2 DEF Fields
  <1>5. Sound(y)
    BY <1>1, <1>2, <1>4 DEF Sound, PlaceInv
  <1>6. /\ Sound(z) /\ z.responses = <<>> /\ z.outbound = <<>>
        /\ \A f \in Fields \ {"outbound", "msgID", "responses", "told"} : z[f] = y[f]
        /\ \A i \in Ops : z.told[i] =
               IF i \in Range(y.responses) THEN Append(y.told[i], "failure") ELSE y.told[i]
    BY <1>5, CleanedFields
  <1> HIDE DEF z
  <1>7. /\ z.commands = x.commands /\ z.token = x.token /\ z.pendingWrite = x.pendingWrite
        /\ z.buffered = x.buffered /\ z.net = x.net /\ z.held = x.held /\ z.connected = TRUE
        /\ \A i \in Ops : z.told[i] =
               IF i \in Range(x.responses) THEN Append(x.told[i], "failure") ELSE x.told[i]
    BY <1>2, <1>4, <1>6 DEF Fields
  <1>8. Range(<<>>) = {} /\ DOMAIN <<>> = {}
    BY RangeShort
  <1>9. NetInv(z.net) /\ OnWire(z.net) = {} /\ InOps(z.net) = {}
    <2>1. NetInv(z.net) /\ OnWire(z.net) = {}
      BY <1>1, <1>7, QuietWire
    <2> QED  BY <2>1 DEF OnWire
  <1>10. PlaceInv(z)
    BY <1>1, <1>6, <1>7, <1>8 DEF PlaceInv, Distinct
  <1>11. Open(z) \subseteq Open(x) /\ Waiting(z) \subseteq Waiting(x)
    BY <1>6, <1>7, <1>8 DEF Open, Waiting
  <1>12. TokenInv(z)
    BY <1>1, <1>7, <1>11 DEF TokenInv
  <1>13. WireInv(z) /\ HeldInv(z)
    BY <1>7, <1>9 DEF WireInv, HeldInv
  <1>14. Fine(z)
    BY <1>6, <1>10, <1>12, <1>13 DEF Fine, Sound
  <1>15. Moves(x, z, {})
    <2>1. Waiting(x) \ Waiting(z) = Range(x.responses)
      BY <1>1, <1>6, <1>7, <1>8 DEF Waiting, PlaceInv
    <2>2. Range(x.responses) \subseteq Ops
      BY <1>1, OpenTypes
    <2>3. /\ \A i \in Waiting(x) \ Waiting(z) : Told(x, z, {}, i)
          /\ \A i \in Ops \ (Waiting(x) \ Waiting(z)) : z.told[i] = x.told[i]
      BY <1>7, <2>1, <2>2 DEF Told
    <2> QED  BY <1>7, <1>9, <1>11, <2>3 DEF Moves
  <1>16. Quietly(x, z)
    BY <1>6, <1>7, <1>9, EmptyQuietly
  <1> QED  BY <1>3, <1>7, <1>14, <1>15, <1>16

\* A step after which the same operations are in the command list.
LEMMA QueueStep ==
    ASSUME AsyncInv, NEW x, NEW good, Fine(x), Moves(m, x, good), Become(x),
           Apart => good \cap Acknowledged \subseteq Range(got),
           OpsIn(x.commands) = OpsIn(m.commands), x.buffered = m.buffered,
           UNCHANGED <<stored, call, got, asked>>, written' \subseteq Ops
    PROVE  /\ AsyncInv'
           /\ \A i \in Ops : "success" \in Range(replies'[i]) =>
                  "success" \in Range(replies[i]) \/ i \in good
  <1>1. AskedKept
    BY DEF AsyncInv, OtherTypes, AskedType, AskedKept
  <1>2. /\ Fine(m)' /\ OtherTypes' /\ CallInv' /\ ReadInv'
        /\ m'.commands = x.commands /\ m'.buffered = x.buffered
        /\ \A i \in Ops : "success" \in Range(replies'[i]) =>
               "success" \in Range(replies[i]) \/ i \in good
    BY <1>1, BecomeStep
  <1>3. StoreInv'
    BY <1>2 DEF AsyncInv, StoreInv
  <1> QED  BY <1>2, <1>3 DEF AsyncInv

\* Driving the connection after something else has been done.
LEMMA ThenControls ==
    ASSUME NEW x, NEW y, NEW good, Fine(x), Moves(m, x, good), Controls(x, y), Shape(m)
    PROVE  /\ Fine(y) /\ Moves(m, y, good)
           /\ OpsIn(y.commands) = OpsIn(x.commands) /\ y.buffered = x.buffered
  <1>1. Fine(y) /\ Moves(x, y, {})
    BY ControlsFine, ControlMoves
  <1>2. Moves(m, y, good \cup {})
    BY <1>1, MovesTwice, OpenTypes
  <1>3. good \cup {} = good
    OBVIOUS
  <1> QED  BY <1>1, <1>2, <1>3 DEF Controls, Control

LEMMA HandlePacketStep ==
    ASSUME AsyncInv, HandlePacket
    PROVE  AsyncInv' /\ Steady
  <1> DEFINE h == m.held
  <1>1. /\ h.type # "NONE"
        /\ Become(Release(Handled(m))) \/ Become(Release(m))
        /\ UNCHANGED <<stored, call, written, got, asked>>
    BY DEF HandlePacket, Idle
  <1>2. Sound(m) /\ Fine(m) /\ Shape(m) /\ HeldInv(m) /\ PlaceInv(m) /\ WireInv(m)
    BY InvSound DEF Fine
  <1>3. h.type \in {"ERROR", "CONNACK", "SUBACK"}
    BY <1>1, <1>2, HeldStale DEF Shape
  <1>4. HeldType(Nothing) /\ Nothing.type = "NONE"
    BY DEF HeldType, Nothing
  <1>5. \A y : Sound(y) => Controls(y, Release(y))
    BY <1>4, HoldsControls DEF Release
  <1>6. written' \subseteq Ops
    BY <1>1 DEF AsyncInv, OtherTypes
  <1>7. CASE Become(Release(m))
    BY <1>1, <1>2, <1>5, <1>7, ControlStep
  <1>8. CASE Become(Release(Handled(m))) /\ (h.type = "ERROR" \/ (h.type = "CONNACK" /\ Handled(m) = NextOrClose(m)))
    <2>1. Handled(m) = NextOrClose(m)
      BY <1>8 DEF Handled
    <2>2. Controls(m, Handled(m)) /\ Sound(Handled(m))
      BY <1>2, <2>1, NextOrCloseControls DEF Controls
    <2>3. Controls(m, Release(Handled(m)))
      BY <1>2, <1>5, <2>2, ControlsTwice
    <2> QED  BY <1>1, <1>8, <2>3, ControlStep
  <1>9. CASE Become(Release(Handled(m))) /\ h.type = "CONNACK" /\ Handled(m) # NextOrClose(m)
    <2> DEFINE c == Completed(m)
               y == AnswerConnect(c, "success")
    <2>1. Handled(m) = y /\ m.state = "WAIT_FOR_CONNACK"
      BY <1>9 DEF Handled, HandleConnack
    <2>2. /\ Fine(c) /\ Moves(m, c, {})
          /\ OpsIn(c.commands) = OpsIn(m.commands) /\ c.buffered = m.buffered
          /\ Quietly(m, c)
      BY <1>2, <1>9, <2>1, CompletedFine
    <2> HIDE DEF c
    <2>3. Sound(c)
      BY <2>2 DEF Fine, Sound, PlaceInv
    <2>4. Controls(c, y) /\ Sound(y)
      BY <2>3, AnswerConnectControls DEF Kinds, Controls
    <2> HIDE DEF y
    <2>5. Controls(c, Release(y))
      BY <1>5, <2>3, <2>4, ControlsTwice
    <2>6. /\ Fine(Release(y)) /\ Moves(m, Release(y), {})
          /\ OpsIn(Release(y).commands) = OpsIn(m.commands) /\ Release(y).buffered = m.buffered
      BY <1>2, <2>2, <2>5, ThenControls
    <2>7. /\ AsyncInv'
          /\ \A i \in Ops : "success" \in Range(replies'[i]) =>
                 "success" \in Range(replies[i]) \/ i \in {}
      BY <1>1, <1>6, <1>9, <2>1, <2>6, QueueStep
    <2>8. Steady
      <3>1. Quietly(m, Release(y))
        BY <2>2, <2>5, ControlQuietly, QuietlyTwice
      <3>2. {} \in SUBSET Acknowledged
        OBVIOUS
      <3> QED  BY <1>1, <1>9, <2>1, <2>6, <2>7, <3>1, <3>2, BecomeSteady
    <2> QED  BY <2>7, <2>8
  <1>10. CASE Become(Release(Handled(m))) /\ h.type = "SUBACK"
    <2> DEFINE i == h.pack.op
               kind == IF h.pack.ok THEN "success" ELSE "failure"
               y == Answered(m, m.token[i], kind)
               z == Release(y)
    <2>1. /\ i # 0 /\ OpType[i] \in {"SUBSCRIBE", "UNSUBSCRIBE"}
          /\ i \notin OpsIn(m.commands) /\ i \notin OnWire(m.net)
          /\ Apart => i \in Range(m.responses) \/ (m.responses = <<>> /\ ~m.connected)
          /\ i \in Ops /\ i \in Acknowledged
      <3>1. /\ i # 0 /\ OpType[i] \in {"SUBSCRIBE", "UNSUBSCRIBE"}
            /\ i \notin OpsIn(m.commands) /\ i \notin OnWire(m.net)
            /\ Apart => i \in Range(m.responses) \/ (m.responses = <<>> /\ ~m.connected)
        BY <1>2, <1>10 DEF HeldInv
      <3>2. h.pack \in Packets
        BY <1>2, <1>10, HeldStale DEF Shape
      <3>3. i \in Ops
        BY <3>1, <3>2, AsyncAssumption DEF Packets, Ops
      <3> QED  BY <3>1, <3>3 DEF Acknowledged
    <2>1t. m.token[i] # 0
      BY <1>10, <2>1 DEF AsyncInv, CallInv
    <2>2. Handled(m) = y /\ kind \in Kinds
      BY <1>10 DEF Handled, Kinds
    <2>2a. Distinct(m.responses) /\ m.responses \in Seq(Ops)
      BY <1>2 DEF PlaceInv, Shape
    <2>2b. \/ y = m
           \/ \E k \in Range(m.responses) : m.token[k] = m.token[i] /\ y = Settled(m, k, kind)
      BY <1>2, <2>2a, AnsweredAny
    <2> HIDE DEF kind
    <2>3. CASE y = m
      BY <1>1, <1>2, <1>5, <1>10, <2>2, <2>3, ControlStep
    <2>4. CASE \E k \in Range(m.responses) : m.token[k] = m.token[i] /\ y = Settled(m, k, kind)
      <3>0. PICK k \in Range(m.responses) : m.token[k] = m.token[i] /\ y = Settled(m, k, kind)
        BY <2>4
      <3>1. k \in Ops /\ k \in Acknowledged /\ k \in Open(m)
        <4>1. k \in Ops
          BY <1>2, OpenTypes
        <4>2. k \in Acknowledged
          BY <1>2, <2>1t, <3>0, <4>1 DEF Fine, TokenInv
        <4> QED  BY <4>1, <4>2 DEF Open
      <3>1a. Apart => k = i
        <4> SUFFICES ASSUME Apart PROVE k = i
          OBVIOUS
        <4>1. i \in Range(m.responses)
          BY <2>1, RangeShort
        <4> QED  BY <1>2, <2>1, <3>0, <3>1, <4>1 DEF Fine, TokenInv, Open
      <3>2. y = Settled(m, k, kind)
        BY <3>0
      <3> HIDE DEF i
      <3>3. /\ Shape(Settled(m, k, kind))
            /\ Distinct(Settled(m, k, kind).responses)
            /\ Range(Settled(m, k, kind).responses) = Range(m.responses) \ {k}
            /\ Settled(m, k, kind).told[k] = Append(m.told[k], kind)
            /\ \A j \in Ops \ {k} : Settled(m, k, kind).told[j] = m.told[j]
            /\ \A f \in Fields \ {"told", "responses"} : Settled(m, k, kind)[f] = m[f]
        BY <1>2, <2>2, <2>2a, SettledFields
      <3> HIDE DEF y
      <3>4. /\ Shape(z) /\ z.held = Nothing
            /\ \A f \in Fields \ {"held"} : z[f] = y[f]
        BY <1>4, <3>2, <3>3 DEF Release, Shape, Fields
      <3> HIDE DEF z
      <3>5. /\ z.net = m.net /\ z.outbound = m.outbound /\ z.commands = m.commands
            /\ z.token = m.token /\ z.pendingWrite = m.pendingWrite
            /\ z.buffered = m.buffered /\ z.connected = m.connected
            /\ Distinct(z.responses) /\ Range(z.responses) = Range(m.responses) \ {k}
            /\ z.told = y.told
        BY <3>2, <3>3, <3>4 DEF Fields
      <3>6. \A j \in OnWire(z.net) : z.connected /\ (Apart => Waits(z, j))
        BY <1>2, <2>1, <3>1a, <3>5 DEF WireInv, Waits
      <3>7. Fine(z)
        <4>1. OrderedOps(z.commands) /\ OpsIn(z.commands) \subseteq OpsIn(m.commands) /\ Distinct(z.outbound)
          BY <1>2, <3>5 DEF PlaceInv
        <4>2. Apart => \A j \in Range(z.responses) : OpType[j] = "PUBLISH1" => j \in Range(z.outbound)
          BY <1>2, <3>5 DEF PlaceInv
        <4>3. NetInv(z.net) /\ OnWire(z.net) \subseteq OnWire(m.net)
          BY <1>2, <3>5 DEF WireInv
        <4>4. HeldInv(z)
          BY <1>4, <3>4 DEF HeldInv
        <4> QED  BY <1>2, <3>4, <3>5, <3>6, <4>1, <4>2, <4>3, <4>4, ShrinkFine
      <3>8. Moves(m, z, {k})
        <4>1. Open(z) \subseteq Open(m) /\ Waiting(z) \subseteq Waiting(m)
          BY <3>5 DEF Open, Waiting
        <4>2. Waiting(m) \ Waiting(z) = {k}
          BY <1>2, <3>5 DEF Waiting, PlaceInv
        <4>3. Told(m, z, {k}, k)
          BY <2>2, <3>2, <3>3, <3>5 DEF Told, Kinds
        <4>4. \A j \in Ops \ (Waiting(m) \ Waiting(z)) : z.told[j] = m.told[j]
          BY <3>2, <3>3, <3>5, <4>2
        <4> QED  BY <1>4, <3>4, <3>5, <4>1, <4>2, <4>3, <4>4 DEF Moves
      <3>9. Apart => {k} \cap Acknowledged \subseteq Range(got)
        BY <1>10, <3>1a DEF AsyncInv, ReadInv, i
      <3>10. Become(z) /\ OpsIn(z.commands) = OpsIn(m.commands) /\ z.buffered = m.buffered
        BY <1>10, <2>2, <3>5 DEF z
      <3>11. /\ AsyncInv'
             /\ \A j \in Ops : "success" \in Range(replies'[j]) =>
                    "success" \in Range(replies[j]) \/ j \in {k}
        BY <1>1, <1>6, <3>7, <3>8, <3>9, <3>10, QueueStep
      <3>12. Quietly(m, z) /\ {k} \in SUBSET Acknowledged
        BY <3>1, <3>5, OutQuietly
      <3>13. Steady
        BY <1>1, <3>7, <3>10, <3>11, <3>12, BecomeSteady
      <3> QED  BY <3>11, <3>13
    <2> QED  BY <2>2b, <2>3, <2>4
  <1> QED  BY <1>1, <1>3, <1>7, <1>8, <1>9, <1>10

-----------------------------------------------------------------------------
(* Writing.                                                                *)

\* A packet written completely to a connection that has none half written.
LEMMA WrittenNet ==
    ASSUME NEW net \in Sockets, NetInv(net), NEW nn \in Sockets, NEW w \in Ops,
           w \notin OutOps(net) \cup InOps(net),
           nn.out = Append(net.out, Packet(OpType[w], w)), nn.in = net.in, nn.pending = <<>>
    PROVE  /\ NetInv(nn) /\ OutOps(nn) = OutOps(net) \cup {w} /\ InOps(nn) = InOps(net)
           /\ OnWire(nn) = OutOps(net) \cup {w} \cup InOps(net)
  <1> DEFINE p == Packet(OpType[w], w)
             s == net.out
             t == Append(s, p)
  <1>1. w # 0 /\ w \in 0..NOps /\ OpType[w] \in Types
    BY AsyncAssumption, AnswerKinds DEF Ops
  <1>2. p \in Packets /\ p.op = w /\ p.type = OpType[w]
    BY <1>1 DEF Packet, Packets
  <1>3. s \in Seq(Packets) /\ OnceEach(s)
    BY DEF Sockets, NetInv
  <1> HIDE DEF p
  <1>4. p.op \notin {s[n].op : n \in DOMAIN s}
    BY <1>1, <1>2 DEF OutOps
  <1> HIDE DEF s
  <1>5. /\ t \in Seq(Packets) /\ OnceEach(t)
        /\ \A n \in DOMAIN t : t[n] = p \/ \E k \in DOMAIN s : t[n] = s[k]
        /\ {t[n].op : n \in DOMAIN t} \ {0} = ({s[n].op : n \in DOMAIN s} \cup {p.op}) \ {0}
    BY <1>2, <1>3, <1>4, ChannelAppend
  <1>6. nn.out = t /\ nn.in = net.in /\ nn.pending = <<>>
    BY DEF p, s
  <1> HIDE DEF t
  <1>7. OutOps(nn) = OutOps(net) \cup {w} /\ InOps(nn) = InOps(net)
    <2>1. OutOps(nn) = {t[n].op : n \in DOMAIN t} \ {0} /\ InOps(nn) = InOps(net)
      BY <1>6 DEF OutOps, InOps
    <2>2. OutOps(net) = {s[n].op : n \in DOMAIN s} \ {0}
      BY DEF OutOps, s
    <2> QED  BY <1>1, <1>2, <1>5, <2>1, <2>2
  <1>8. Range(nn.pending) = {} /\ Len(nn.pending) = 0
    BY <1>6, RangeShort
  <1>9. \A n \in DOMAIN nn.out :
            nn.out[n].type = IF nn.out[n].op = 0 THEN "CONNECT" ELSE OpType[nn.out[n].op]
    BY <1>1, <1>2, <1>5, <1>6 DEF NetInv, s
  <1>10. NetInv(nn)
    BY <1>5, <1>6, <1>7, <1>8, <1>9 DEF NetInv
  <1> QED  BY <1>7, <1>8, <1>10 DEF OnWire

\* The end of MQTTAsync_writeComplete, on the structure x with its new connection.
Finished(x, kind) ==
    [IF m.pendingWrite \in Range(m.responses) /\ m.pendingWrite \in Publishes
     THEN Settled(x, m.pendingWrite, kind) ELSE x EXCEPT !.pendingWrite = 0]

LEMMA FinishedStep ==
    ASSUME AsyncInv, NEW net \in Sockets, NetInv(net), OnWire(net) \subseteq OnWire(m.net),
           InOps(net) \subseteq InOps(m.net), NEW kind \in Kinds, NEW x,
           x = [m EXCEPT !.net = net], Become(Finished(x, kind)), written' \subseteq Ops,
           UNCHANGED <<stored, call, got, asked>>
    PROVE  /\ AsyncInv'
           /\ m'.net = net /\ m'.commands = m.commands /\ m'.connected = m.connected
           /\ Range(m'.responses) \subseteq Range(m.responses)
           /\ m.pendingWrite \in Publishes => m.pendingWrite \notin Range(m'.responses)
           /\ \A j \in Ops : "success" \in Range(replies'[j]) =>
                  \/ "success" \in Range(replies[j])
                  \/ j = m.pendingWrite /\ j \in Range(m.responses) /\ kind = "success"
  <1> DEFINE p == m.pendingWrite
             waiting == p \in Range(m.responses) /\ p \in Publishes
             y == IF waiting THEN Settled(x, p, kind) ELSE x
             z == Finished(x, kind)
  <1>1. Fine(m) /\ Shape(m) /\ PlaceInv(m) /\ WireInv(m) /\ HeldInv(m)
    BY InvSound DEF Fine
  <1>2. Shape(x) /\ x.net = net /\ \A f \in Fields \ {"net"} : x[f] = m[f]
    BY <1>1 DEF Shape, Fields
  <1>3. /\ x.commands = m.commands /\ x.responses = m.responses /\ x.outbound = m.outbound
        /\ x.told = m.told /\ x.token = m.token /\ x.pendingWrite = m.pendingWrite
        /\ x.buffered = m.buffered /\ x.connected = m.connected /\ x.held = m.held
    BY <1>2 DEF Fields
  <1>4. z = [y EXCEPT !.pendingWrite = 0]
    BY DEF Finished
  <1>5. p # 0 => OpType[p] = "PUBLISH0"
    BY <1>1 DEF PlaceInv
  <1>6. waiting => p # 0 /\ p \in Ops /\ p \notin Acknowledged
    <2>1. p \in Publishes => p \in Ops /\ p # 0
      BY DEF Publishes, Ops
    <2> QED  BY <1>5, <2>1 DEF Acknowledged
  <1> HIDE DEF p, z
  <1>7. /\ Shape(y) /\ Distinct(y.responses)
        /\ Range(y.responses) = IF waiting THEN Range(m.responses) \ {p} ELSE Range(m.responses)
        /\ waiting => y.told[p] = Append(m.told[p], kind) /\ \A j \in Ops \ {p} : y.told[j] = m.told[j]
        /\ ~waiting => y.told = m.told /\ y.responses = m.responses
        /\ \A f \in Fields \ {"told", "responses"} : y[f] = x[f]
    <2>1. Distinct(x.responses)
      BY <1>1, <1>3 DEF PlaceInv
    <2>2. CASE waiting
      <3> DEFINE u == Settled(x, p, kind)
      <3>1. p \in Range(x.responses)
        BY <1>3, <2>2
      <3>2. /\ Shape(u) /\ Distinct(u.responses)
            /\ Range(u.responses) = Range(x.responses) \ {p}
            /\ u.told[p] = Append(x.told[p], kind)
            /\ \A j \in Ops \ {p} : u.told[j] = x.told[j]
            /\ \A f \in Fields \ {"told", "responses"} : u[f] = x[f]
        <4>1. Shape(x) /\ Distinct(x.responses) /\ p \in Range(x.responses) /\ kind \in Kinds
          BY <1>2, <2>1, <3>1
        <4>2. IsSettled(x, p, kind, u)
          BY ONLY <4>1, SettledIs DEF u
        <4> HIDE DEF u
        <4> QED  BY <4>2 DEF IsSettled
      <3>3. y = u
        BY <2>2
      <3> HIDE DEF u, y
      <3> QED  BY <1>3, <2>2, <3>2, <3>3
    <2>3. CASE ~waiting
      BY <1>2, <1>3, <2>1, <2>3
    <2> QED  BY <2>2, <2>3
  <1> HIDE DEF y
  <1>8. Shape(z) /\ z.pendingWrite = 0 /\ \A f \in Fields \ {"pendingWrite"} : z[f] = y[f]
    <2>1. /\ z.pendingWrite = 0 /\ \A f \in Fields \ {"pendingWrite"} : z[f] = y[f]
          /\ DOMAIN z = Fields /\ z = [f \in Fields |-> z[f]]
      BY <1>4, <1>7 DEF Shape, Fields
    <2>2. Shape(y) /\ 0 \in 0..NOps
      BY <1>7, AsyncAssumption
    <2> QED  BY <2>1, <2>2 DEF Shape, Fields
  <1>9. /\ z.net = net /\ z.commands = m.commands /\ z.responses = y.responses
        /\ z.outbound = m.outbound /\ z.told = y.told /\ z.token = m.token
        /\ z.buffered = m.buffered /\ z.connected = m.connected /\ z.held = m.held
    BY <1>2, <1>3, <1>7, <1>8, ZenonT(40) DEF Fields
  <1>10. Range(z.responses) \subseteq Range(m.responses) /\ Range(m.responses) \ {p} \subseteq Range(z.responses)
    BY <1>7, <1>9
  <1>11. \A j \in OnWire(z.net) : z.connected /\ (Apart => Waits(z, j))
    <2> SUFFICES ASSUME NEW j \in OnWire(net) PROVE m.connected /\ (Apart => Waits(z, j))
      BY <1>9
    <2>1. m.connected /\ (Apart => Waits(m, j))
      BY <1>1 DEF WireInv
    <2>2. OpType[j] \in {"SUBSCRIBE", "UNSUBSCRIBE"} => j # p \/ p = 0
      BY <1>5
    <2>3. 0 \notin OnWire(net)
      BY <1>1, OpenTypes
    <2> QED  BY <1>9, <1>10, <2>1, <2>2, <2>3 DEF Waits
  <1>12. HeldInv(z)
    <2> SUFFICES ASSUME m.held.type = "SUBACK", Apart
                 PROVE  m.held.pack.op \in Range(z.responses) \/ (z.responses = <<>> /\ ~z.connected)
      BY <1>1, <1>9 DEF HeldInv
    <2>1. m.held.pack.op # p
      BY <1>1, <1>5 DEF HeldInv
    <2>2. CASE m.held.pack.op \in Range(m.responses)
      BY <1>10, <2>1, <2>2
    <2>3. CASE m.responses = <<>> /\ ~m.connected
      <3>1. Range(m.responses) = {}
        BY <2>3, RangeShort
      <3>2. ~waiting
        BY <3>1
      <3> QED  BY <1>7, <1>9, <2>3, <3>2
    <2> QED  BY <1>1, <2>2, <2>3 DEF HeldInv
  <1>13. Fine(z)
    <2>1. OrderedOps(z.commands) /\ OpsIn(z.commands) \subseteq OpsIn(m.commands) /\ Distinct(z.outbound)
      BY <1>1, <1>9 DEF PlaceInv
    <2>2. Apart => \A j \in Range(z.responses) : OpType[j] = "PUBLISH1" => j \in Range(z.outbound)
      BY <1>1, <1>9, <1>10 DEF PlaceInv
    <2> QED  BY <1>1, <1>7, <1>8, <1>9, <1>10, <1>11, <1>12, <2>1, <2>2, ShrinkFine
  <1> DEFINE good == IF waiting /\ kind = "success" THEN {p} ELSE {}
  <1>14. Moves(m, z, good)
    <2>1. Open(z) \subseteq Open(m) /\ Waiting(z) \subseteq Waiting(m)
      BY <1>9, <1>10 DEF Open, Waiting
    <2>2. /\ \A j \in Waiting(m) \ Waiting(z) : Told(m, z, good, j)
          /\ \A j \in Ops \ (Waiting(m) \ Waiting(z)) : z.told[j] = m.told[j]
      <3>1. CASE waiting
        <4>1. Waiting(m) \ Waiting(z) = {p}
          BY <1>1, <1>7, <1>9, <3>1 DEF Waiting, PlaceInv
        <4>2. Told(m, z, good, p)
          BY <1>7, <1>9, <3>1 DEF Told, Kinds
        <4> QED  BY <1>7, <1>9, <3>1, <4>1, <4>2
      <3>2. CASE ~waiting
        <4>1. Waiting(m) = Waiting(z)
          BY <1>7, <1>9, <3>2 DEF Waiting
        <4> QED  BY <1>7, <1>9, <3>2, <4>1
      <3> QED  BY <3>1, <3>2
    <2> HIDE DEF good
    <2> QED  BY <1>9, <2>1, <2>2 DEF Moves
  <1>15. good \cap Acknowledged \subseteq Range(got)
    BY <1>6
  <1>16. \A j \in good : j = p /\ j \in Range(m.responses) /\ kind = "success"
    OBVIOUS
  <1> HIDE DEF good
  <1>17. Become(z) /\ OpsIn(z.commands) = OpsIn(m.commands) /\ z.buffered = m.buffered
    BY <1>9 DEF z
  <1>18. /\ AsyncInv'
         /\ \A j \in Ops : "success" \in Range(replies'[j]) =>
                "success" \in Range(replies[j]) \/ j \in good
    BY <1>13, <1>14, <1>15, <1>17, QueueStep
  <1>19. /\ m'.net = z.net /\ m'.commands = z.commands /\ m'.connected = z.connected
         /\ m'.responses = z.responses
    <2>1. m' = Reset(z)
      BY <1>17, BecomeIs
    <2> QED  BY <1>13, <2>1, ResetFine DEF Fields
  <1>20. p \in Publishes => p \notin Range(z.responses)
    BY <1>7, <1>9
  <1> QED  BY <1>9, <1>10, <1>16, <1>18, <1>19, <1>20 DEF p

LEMMA WriteCompleteStep ==
    ASSUME AsyncInv, WriteComplete
    PROVE  AsyncInv' /\ (Ordered => Ordered')
  <1> DEFINE w == m.net.pending[1]
             out == Append(m.net.out, Packet(OpType[w], w))
             n1 == [m.net EXCEPT !.out = out, !.pending = <<>>]
             n2 == [NewSocket EXCEPT !.broken = TRUE]
             x1 == [m EXCEPT !.net = n1]
             x2 == [m EXCEPT !.net = n2]
  <1>1. Fine(m) /\ Shape(m) /\ m.net \in Sockets /\ NetInv(m.net)
    BY InvSound DEF Fine, Shape, WireInv
  <1>2. /\ m.net.pending # <<>>
        /\ \/ Become(Finished(x1, "success")) /\ written' = written \cup {w}
           \/ Become(Finished(x2, "failure")) /\ UNCHANGED written
        /\ UNCHANGED <<stored, call, got, asked>>
    <2> HIDE DEF n2
    <2>1. [Write(m, w) EXCEPT !.net.pending = <<>>] = x1
      BY <1>1 DEF Write, Shape, Fields, Sockets
    <2>2. [m EXCEPT !.net = [NewSocket EXCEPT !.broken = TRUE]] = x2
      BY DEF n2
    <2> QED  BY <2>1, <2>2 DEF WriteComplete, Finished, Settled
  <1>3. w \in Ops /\ w \in Range(m.net.pending)
    <2>1. m.net.pending \in Seq(Ops)
      BY <1>1 DEF Sockets
    <2> QED  BY <1>2, <2>1, TailWithout
  <1>4. n1 \in Sockets /\ n1.out = out /\ n1.in = m.net.in /\ n1.pending = <<>>
    <2>1. Packet(OpType[w], w) \in Packets
      BY <1>3, AsyncAssumption, AnswerKinds DEF Packet, Packets, Ops
    <2>2. m.net.out \in Seq(Packets)
      BY <1>1 DEF Sockets
    <2>3. out \in Seq(Packets) /\ <<>> \in Seq(Ops)
      BY <2>1, <2>2, AppendPositions
    <2> HIDE DEF out
    <2> QED  BY <1>1, <2>3 DEF Sockets
  <1>5. w \notin OutOps(m.net) \cup InOps(m.net)
    BY <1>1, <1>3 DEF NetInv
  <1> HIDE DEF n1
  <1>6. NetInv(n1) /\ OnWire(n1) \subseteq OnWire(m.net) /\ InOps(n1) \subseteq InOps(m.net)
    BY <1>1, <1>3, <1>4, <1>5, WrittenNet DEF OnWire
  <1>7. n2 \in Sockets /\ NetInv(n2) /\ OnWire(n2) \subseteq OnWire(m.net) /\ InOps(n2) \subseteq InOps(m.net)
    <2>1. n2 \in Sockets /\ QuietNet(n2)
      BY NewSocketType
    <2> HIDE DEF n2
    <2> QED  BY <2>1, QuietWire DEF OnWire
  <1>8. written' \subseteq Ops
    BY <1>2, <1>3 DEF AsyncInv, OtherTypes
  <1> HIDE DEF n2, w, out
  <1> DEFINE p == m.pendingWrite
             Does(net, kind) ==
                 /\ AsyncInv'
                 /\ m'.net = net /\ m'.commands = m.commands /\ m'.connected = m.connected
                 /\ Range(m'.responses) \subseteq Range(m.responses)
                 /\ p \in Publishes => p \notin Range(m'.responses)
                 /\ \A j \in Ops : "success" \in Range(replies'[j]) =>
                        \/ "success" \in Range(replies[j])
                        \/ j = p /\ j \in Range(m.responses) /\ kind = "success"
  <1>9. ASSUME NEW net, NEW kind, Does(net, kind), Ordered, written \subseteq written',
               UNCHANGED <<call, got>>, kind = "success" => w \in written',
               OutAscends(net), OutOps(net) \subseteq OutOps(m.net) \cup {w},
               Range(net.pending) = {}
        PROVE  Ordered'
    <2>1. CleanInv /\ OrderInv
      BY <1>9 DEF Ordered
    <2>2. \A j \in Range(got) \cup OutOps(m.net) : j < w
      BY <1>3, <2>1 DEF OrderInv
    <2>3. \A j \in OpsIn(m.commands) : w < j
      BY <1>3, <2>1 DEF OrderInv
    <2>4. ASSUME NEW j \in Range(m'.responses), OpType[j] = "PUBLISH0"
          PROVE  FALSE
      <3>1. j \in Range(m.responses) /\ j \in Ops
        BY <1>1, <1>9, OpenTypes
      <3>2. p = j /\ j \in Publishes
        BY <2>1, <2>4, <3>1 DEF CleanInv, Publishes
      <3> QED  BY <1>9, <3>2
    <2>5. ASSUME NEW j \in Ops \ Acknowledged, "success" \in Range(replies'[j])
          PROVE  "success" \in Range(replies[j]) \/ j \in written'
      <3> SUFFICES ASSUME j \in Range(m.responses), kind = "success"
                   PROVE  j \in written'
        BY <1>9, <2>5
      <3>1. OpType[j] = "PUBLISH0"
        BY <2>5 DEF Acknowledged
      <3>2. m.connected
        BY <1>1, <1>3 DEF Fine, WireInv, OnWire
      <3>3. m.net.pending = <<j>>
        BY <2>1, <3>1, <3>2 DEF CleanInv
      <3>4. w = j
        BY <3>3 DEF w
      <3> QED  BY <1>9, <3>4
    <2> HIDE DEF p
    <2>6. m'.net = net /\ m'.commands = m.commands
      BY <1>9
    <2> QED  BY <1>3, <1>9, <2>2, <2>3, <2>4, <2>5, <2>6, OrderStep
  <1>10. CASE Become(Finished(x1, "success")) /\ written' = written \cup {w}
    <2>1. Does(n1, "success")
      BY <1>2, <1>4, <1>6, <1>8, <1>10, FinishedStep DEF Kinds
    <2> HIDE DEF Does, p
    <2>2. ASSUME Ordered PROVE Ordered'
      <3>1. OutAscends(m.net) /\ \A j \in OutOps(m.net) : j < w
        BY <1>3, <2>2 DEF Ordered, OrderInv
      <3>2. OutAscends(n1)
        BY <1>1, <1>3, <1>4, <3>1, WrittenOrder DEF out
      <3>3. OutOps(n1) = OutOps(m.net) \cup {w}
        BY <1>1, <1>3, <1>4, <1>5, WrittenNet DEF out
      <3>4. Range(n1.pending) = {}
        BY <1>4, RangeShort
      <3> QED  BY <1>2, <1>9, <1>10, <2>1, <2>2, <3>2, <3>3, <3>4
    <2> QED  BY <2>1, <2>2 DEF Does
  <1>11. CASE Become(Finished(x2, "failure")) /\ UNCHANGED written
    <2>1. Does(n2, "failure")
      BY <1>2, <1>7, <1>8, <1>11, FinishedStep DEF Kinds
    <2> HIDE DEF Does, p
    <2>2. ASSUME Ordered PROVE Ordered'
      <3>1. OutAscends(n2) /\ OutOps(n2) = {} /\ Range(n2.pending) = {}
        <4>1. n2 \in Sockets /\ QuietNet(n2)
          BY NewSocketType DEF n2
        <4> QED  BY <4>1, QuietNetOps
      <3> QED  BY <1>2, <1>9, <1>11, <2>1, <2>2, <3>1
    <2> QED  BY <2>1, <2>2 DEF Does
  <1> QED  BY <1>2, <1>10, <1>11

-----------------------------------------------------------------------------
(* The broker and the connection.                                          *)

\* A step that only takes packets off the connection or turns one into its answer.
LEMMA NetStep ==
    ASSUME AsyncInv, NEW net \in Sockets, NetInv(net), OnWire(net) \subseteq OnWire(m.net),
           m' = [m EXCEPT !.net = net], got' \in Seq(Ops), Range(got) \subseteq Range(got'),
           InOps(net) \subseteq Range(got'),
           UNCHANGED <<stored, call, replies, conns, written, asked>>
    PROVE  AsyncInv'
  <1>1. Fine(m) /\ Shape(m) /\ PlaceInv(m) /\ WireInv(m) /\ HeldInv(m)
    BY InvSound DEF Fine
  <1>2. Shape(m') /\ m'.net = net /\ \A f \in Fields \ {"net"} : m'[f] = m[f]
    BY <1>1 DEF Shape, Fields
  <1>3. /\ m'.commands = m.commands /\ m'.responses = m.responses /\ m'.outbound = m.outbound
        /\ m'.told = m.told /\ m'.toldConn = m.toldConn /\ m'.token = m.token
        /\ m'.pendingWrite = m.pendingWrite
        /\ m'.buffered = m.buffered /\ m'.connected = m.connected /\ m'.held = m.held
    BY <1>2 DEF Fields
  <1>4. Open(m)' = Open(m) /\ Waiting(m)' = Waiting(m) /\ OnWire(m.net)' \subseteq OnWire(m.net)
    BY <1>2, <1>3 DEF Open, Waiting
  <1>a. (Apart' <=> Apart) /\ AskedType'
    BY DEF AsyncInv, OtherTypes, AskedType, Apart
  <1>5. Fine(m)'
    <2>1. OrderedOps(m'.commands) /\ Distinct(m'.responses) /\ Distinct(m'.outbound)
      BY <1>1, <1>3 DEF PlaceInv
    <2>2. Apart => \A i \in Range(m'.responses) : OpType[i] = "PUBLISH1" => i \in Range(m'.outbound)
      BY <1>1, <1>3 DEF PlaceInv
    <2>3. \A i \in OnWire(m'.net) : m'.connected /\ (Apart => Waits(m', i))
      BY <1>1, <1>2, <1>3 DEF WireInv, Waits
    <2>4. HeldInv(m')
      BY <1>1, <1>2, <1>3 DEF HeldInv
    <2>5. Fine(m')
      BY <1>1, <1>2, <1>3, <2>1, <2>2, <2>3, <2>4, ShrinkFine
    <2> QED  BY <1>a, <2>5 DEF Fine, Shape, PlaceInv, TokenInv, WireInv, HeldInv, Open, Waits
  <1>6. OtherTypes'
    BY <1>3, <1>a DEF AsyncInv, OtherTypes
  <1>7. StoreInv'
    BY <1>3 DEF AsyncInv, StoreInv
  <1>8. CallInv'
    BY <1>3, <1>4, <1>a DEF AsyncInv, CallInv
  <1>9. ReadInv'
    BY <1>2, <1>3, <1>a DEF AsyncInv, ReadInv
  <1> QED  BY <1>5, <1>6, <1>7, <1>8, <1>9 DEF AsyncInv

LEMMA LinkDownStep ==
    ASSUME AsyncInv, LinkDown
    PROVE  AsyncInv' /\ Steady
  <1> DEFINE net == [m.net EXCEPT !.broken = TRUE, !.in = <<>>, !.out = <<>>]
  <1>1. Shape(m) /\ m.net \in Sockets /\ NetInv(m.net) /\ OtherTypes
    BY InvSound DEF Fine, Shape, WireInv, AsyncInv
  <1>2. /\ m' = [m EXCEPT !.net = net]
        /\ UNCHANGED <<stored, call, replies, conns, written, got, asked>>
    BY <1>1 DEF LinkDown, Shape, Fields, Sockets
  <1>3. net \in Sockets /\ net.in = <<>> /\ net.out = <<>> /\ net.pending = m.net.pending
    BY <1>1, RangeShort DEF Sockets
  <1> HIDE DEF net
  <1>4. OutOps(net) = {} /\ InOps(net) = {}
    BY <1>3, RangeShort DEF OutOps, InOps
  <1>5. NetInv(net) /\ OnWire(net) \subseteq OnWire(m.net)
    BY <1>1, <1>3, <1>4, RangeShort DEF NetInv, OnWire, OnceEach
  <1>6. AsyncInv'
    BY <1>1, <1>2, <1>3, <1>4, <1>5, NetStep DEF OtherTypes
  <1>7. Steady
    <2>1. /\ m'.commands = m.commands /\ m'.responses = m.responses /\ m'.net = net
          /\ m'.pendingWrite = m.pendingWrite /\ m'.connected = m.connected
      BY <1>1, <1>2 DEF Shape, Fields
    <2>2. OutAscends(net)
      BY <1>3, RangeShort DEF OutAscends
    <2>3. Quietly(m, m')
      BY <1>3, <1>4, <2>1, <2>2 DEF Quietly
    <2> QED  BY <1>2, <2>3 DEF Steady
  <1> QED  BY <1>6, <1>7

\* The first packet is read, and answered or not.
Reads(net, a, ans, nn) ==
    /\ net \in Sockets /\ NetInv(net) /\ net.out # <<>> /\ a \in Packets
    /\ a.op = Head(net.out).op
    /\ a.type = IF a.op = 0 THEN "CONNACK" ELSE AnswerOf(a.op)
    /\ ans = <<>> \/ (ans = <<a>> /\ (a.op # 0 => a.op \in Acknowledged))
    /\ nn = [net EXCEPT !.out = Tail(net.out), !.in = net.in \o ans]
HasRead(net, a, nn) ==
    /\ nn \in Sockets /\ NetInv(nn) /\ OnWire(nn) \subseteq OnWire(net)
    /\ InOps(nn) \subseteq InOps(net) \cup {a.op}

LEMMA AnsweredNet ==
    ASSUME NEW net, NEW a, NEW ans, NEW nn, Reads(net, a, ans, nn)
    PROVE  HasRead(net, a, nn)
  <1> USE DEF Reads, HasRead
  <1> DEFINE s == net.out
             r == net.in
             p == Head(s)
  <1>1. s \in Seq(Packets) /\ s # <<>> /\ OnceEach(s) /\ r \in Seq(Packets) /\ OnceEach(r)
    BY DEF Sockets, NetInv
  <1>2. /\ Tail(s) \in Seq(Packets) /\ p \in Packets /\ OnceEach(Tail(s))
        /\ \A n \in DOMAIN Tail(s) : \E k \in DOMAIN s : Tail(s)[n] = s[k]
        /\ \E k \in DOMAIN s : p = s[k]
        /\ {Tail(s)[n].op : n \in DOMAIN Tail(s)} \ {0} =
               ({s[n].op : n \in DOMAIN s} \ {0}) \ {p.op}
    BY <1>1, ChannelTail
  <1>3. p.op # 0 => p.op \in OutOps(net)
    BY <1>2 DEF OutOps
  <1>4. a.op = p.op /\ a.op \notin Range(net.pending)
    <2>1. net.pending \in Seq(Ops) /\ 0 \notin Ops
      BY DEF Sockets, Ops
    <2> QED  BY <1>3, <2>1, InRange DEF NetInv
  <1>5. CASE ans = <<>>
    <2>1. nn = [net EXCEPT !.out = Tail(s)]
      <3>1. r \o ans = r
        BY <1>1, <1>5, ConcatEmptySeq
      <3>2. nn = [net EXCEPT !.out = Tail(s), !.in = r]
        BY <3>1
      <3> QED  BY <3>2 DEF Sockets
    <2>2. nn \in Sockets /\ nn.out = Tail(s) /\ nn.in = r /\ nn.pending = net.pending
      BY <1>2, <2>1 DEF Sockets
    <2>3. InOps(nn) = InOps(net) /\ OutOps(nn) = OutOps(net) \ {a.op}
      <3>1. InOps(nn) = InOps(net) /\ OutOps(net) = {s[n].op : n \in DOMAIN s} \ {0}
        BY <2>2 DEF InOps, OutOps
      <3>2. OutOps(nn) = {Tail(s)[n].op : n \in DOMAIN Tail(s)} \ {0}
        BY <2>2 DEF OutOps
      <3> QED  BY <1>2, <1>4, <3>1, <3>2
    <2>4. \A n \in DOMAIN nn.out :
              nn.out[n].type = IF nn.out[n].op = 0 THEN "CONNECT" ELSE OpType[nn.out[n].op]
      BY <1>2, <2>2 DEF NetInv
    <2>5. NetInv(nn)
      BY <1>2, <2>2, <2>3, <2>4, ZenonT(40) DEF NetInv
    <2> QED  BY <2>2, <2>3, <2>5 DEF OnWire
  <1>6. CASE ans = <<a>> /\ (a.op # 0 => a.op \in Acknowledged)
    <2> DEFINE t == Append(r, a)
    <2>1. r \o ans = t
      BY <1>1, <1>6
    <2>2. a.op = 0 \/ a.op \notin {r[n].op : n \in DOMAIN r}
      BY <1>3, <1>4 DEF NetInv, InOps
    <2> HIDE DEF r
    <2>3. /\ t \in Seq(Packets) /\ OnceEach(t)
          /\ \A n \in DOMAIN t : t[n] = a \/ \E k \in DOMAIN r : t[n] = r[k]
          /\ {t[n].op : n \in DOMAIN t} \ {0} = ({r[n].op : n \in DOMAIN r} \cup {a.op}) \ {0}
      BY <1>1, <2>2, ChannelAppend
    <2> HIDE DEF t, s, p
    <2>4. nn = [net EXCEPT !.out = Tail(s), !.in = t]
      BY <2>1 DEF s, r
    <2>5. nn \in Sockets /\ nn.out = Tail(s) /\ nn.in = t /\ nn.pending = net.pending
      BY <1>2, <2>3, <2>4 DEF Sockets
    <2>6. OutOps(nn) = OutOps(net) \ {a.op}
      <3>1. OutOps(net) = {s[n].op : n \in DOMAIN s} \ {0}
        BY DEF OutOps, s
      <3>2. OutOps(nn) = {Tail(s)[n].op : n \in DOMAIN Tail(s)} \ {0}
        BY <2>5 DEF OutOps
      <3> QED  BY <1>2, <1>4, <3>1, <3>2
    <2>7. InOps(nn) = (InOps(net) \cup {a.op}) \ {0}
      <3>1. InOps(nn) = {t[n].op : n \in DOMAIN t} \ {0}
        BY <2>5 DEF InOps
      <3>2. InOps(net) = {r[n].op : n \in DOMAIN r} \ {0}
        BY DEF InOps, r
      <3> QED  BY <2>3, <3>1, <3>2
    <2>8. \A n \in DOMAIN nn.out :
              nn.out[n].type = IF nn.out[n].op = 0 THEN "CONNECT" ELSE OpType[nn.out[n].op]
      BY <1>2, <2>5 DEF NetInv, s
    <2>9. \A n \in DOMAIN nn.in :
              /\ nn.in[n].type = IF nn.in[n].op = 0 THEN "CONNACK" ELSE AnswerOf(nn.in[n].op)
              /\ nn.in[n].op # 0 => nn.in[n].op \in Acknowledged
      BY <1>6, <2>3, <2>5 DEF NetInv, r
    <2>10. /\ OutOps(nn) \cap InOps(nn) = {} /\ OutOps(nn) \cap Range(nn.pending) = {}
           /\ InOps(nn) \cap Range(nn.pending) = {}
      BY <1>4, <2>5, <2>6, <2>7 DEF NetInv
    <2>11. OnceEach(nn.out) /\ OnceEach(nn.in) /\ Len(nn.pending) <= 1
      BY <1>2, <2>3, <2>5 DEF NetInv
    <2>12. NetInv(nn)
      BY <2>8, <2>9, <2>10, <2>11 DEF NetInv
    <2> QED  BY <1>3, <1>4, <2>5, <2>6, <2>7, <2>12 DEF OnWire
  <1> QED  BY <1>5, <1>6

LEMMA BrokerReadsStep ==
    ASSUME AsyncInv, BrokerReads
    PROVE  AsyncInv' /\ (Ordered => Ordered')
  <1> DEFINE p == Head(m.net.out)
  <1>1. Fine(m) /\ Shape(m) /\ m.net \in Sockets /\ NetInv(m.net) /\ OtherTypes /\ ReadInv
    BY InvSound DEF Fine, Shape, WireInv, AsyncInv
  <1>2. /\ m.net.out # <<>> /\ got' = IF p.op = 0 THEN got ELSE Append(got, p.op)
        /\ UNCHANGED <<stored, call, replies, conns, written, asked>>
    BY DEF BrokerReads
  <1>3. p \in Packets /\ p.type = IF p.op = 0 THEN "CONNECT" ELSE OpType[p.op]
    <2>1. m.net.out \in Seq(Packets)
      BY <1>1 DEF Sockets
    <2>2. p \in Packets /\ \E k \in DOMAIN m.net.out : p = m.net.out[k]
      BY <1>1, <1>2, <2>1, ChannelTail DEF NetInv
    <2> QED  BY <1>1, <2>2 DEF NetInv
  <1>4. p.op = 0 \/ p.op \in Ops
    BY <1>3, AsyncAssumption DEF Packets, Ops
  <1>5. \E a \in Packets : \E ans :
            /\ a.op = p.op /\ a.type = IF a.op = 0 THEN "CONNACK" ELSE AnswerOf(a.op)
            /\ ans = <<>> \/ (ans = <<a>> /\ (a.op # 0 => a.op \in Acknowledged))
            /\ m' = [m EXCEPT !.net.out = Tail(@), !.net.in = @ \o ans]
    <2> DEFINE a1 == [p EXCEPT !.type = "CONNACK"]
               a2 == [p EXCEPT !.type = "CONNACK", !.ok = FALSE]
               a3 == [p EXCEPT !.type = "PUBACK"]
               a4(b) == [p EXCEPT !.type = "SUBACK", !.ok = b]
    <2>1. /\ a1 \in Packets /\ a1.op = p.op /\ a1.type = "CONNACK"
          /\ a2 \in Packets /\ a2.op = p.op /\ a2.type = "CONNACK"
          /\ a3 \in Packets /\ a3.op = p.op /\ a3.type = "PUBACK"
          /\ \A b \in BOOLEAN : a4(b) \in Packets /\ a4(b).op = p.op /\ a4(b).type = "SUBACK"
      BY <1>3 DEF Packets
    <2>2. /\ p.type = "CONNECT" => p.op = 0
          /\ p.op # 0 => p.type \in Types /\ (p.op \in Acknowledged <=> p.type # "PUBLISH0")
          /\ p.type = "PUBLISH1" => p.op # 0 /\ AnswerOf(p.op) = "PUBACK"
          /\ p.type \in {"SUBSCRIBE", "UNSUBSCRIBE"} => p.op # 0 /\ AnswerOf(p.op) = "SUBACK"
          /\ p.type = "PUBLISH0" => p.op # 0
      BY <1>3, <1>4, AnswerKinds DEF Types, AnswerOf
    <2>3. \/ p.type = "CONNECT" /\ m' = [m EXCEPT !.net.out = Tail(@), !.net.in = @ \o <<a1>>]
          \/ p.type = "CONNECT" /\ m' = [m EXCEPT !.net.out = Tail(@), !.net.in = @ \o <<a2>>]
          \/ p.type = "PUBLISH0" /\ m' = [m EXCEPT !.net.out = Tail(@), !.net.in = @ \o <<>>]
          \/ p.type = "PUBLISH1" /\ m' = [m EXCEPT !.net.out = Tail(@), !.net.in = @ \o <<a3>>]
          \/ \E b \in BOOLEAN : p.type \in {"SUBSCRIBE", "UNSUBSCRIBE"}
                 /\ m' = [m EXCEPT !.net.out = Tail(@), !.net.in = @ \o <<a4(b)>>]
      BY DEF BrokerReads
    <2> HIDE DEF p, a1, a2, a3, a4
    <2>4. CASE p.type = "PUBLISH0"
      <3> DEFINE a == [type |-> AnswerOf(p.op), op |-> p.op, ok |-> TRUE]
      <3>1. a \in Packets /\ a.op = p.op /\ a.op # 0 /\ a.type = AnswerOf(a.op)
        <4>1. p.op \in 0..NOps /\ AnswerOf(p.op) \in {"PUBACK", "SUBACK"}
          BY <1>3 DEF Packets, AnswerOf
        <4> QED  BY <2>2, <2>4, <4>1 DEF Packets
      <3>2. m' = [m EXCEPT !.net.out = Tail(@), !.net.in = @ \o <<>>]
        BY <2>3, <2>4
      <3> HIDE DEF a
      <3> QED  BY <3>1, <3>2
    <2>5. CASE p.type = "CONNECT"
      <3>1. p.op = 0
        BY <2>2, <2>5
      <3>2. CASE m' = [m EXCEPT !.net.out = Tail(@), !.net.in = @ \o <<a1>>]
        BY <2>1, <3>1, <3>2
      <3>3. CASE m' = [m EXCEPT !.net.out = Tail(@), !.net.in = @ \o <<a2>>]
        BY <2>1, <3>1, <3>3
      <3> QED  BY <2>3, <2>5, <3>2, <3>3
    <2>6. CASE p.type = "PUBLISH1"
      <3>1. m' = [m EXCEPT !.net.out = Tail(@), !.net.in = @ \o <<a3>>]
        BY <2>3, <2>6
      <3>2. a3.type = AnswerOf(a3.op) /\ a3.op # 0 /\ a3.op \in Acknowledged
        BY <2>1, <2>2, <2>6
      <3> QED  BY <2>1, <3>1, <3>2
    <2>7. CASE p.type \in {"SUBSCRIBE", "UNSUBSCRIBE"}
      <3>1. PICK b \in BOOLEAN : m' = [m EXCEPT !.net.out = Tail(@), !.net.in = @ \o <<a4(b)>>]
        BY <2>3, <2>7
      <3>2. a4(b).type = AnswerOf(a4(b).op) /\ a4(b).op # 0 /\ a4(b).op \in Acknowledged
        BY <2>1, <2>2, <2>7
      <3> QED  BY <2>1, <3>1, <3>2
    <2> QED  BY <2>3, <2>4, <2>5, <2>6, <2>7
  <1>6. PICK a, ans :
            /\ a \in Packets
            /\ a.op = p.op /\ a.type = IF a.op = 0 THEN "CONNACK" ELSE AnswerOf(a.op)
            /\ ans = <<>> \/ (ans = <<a>> /\ (a.op # 0 => a.op \in Acknowledged))
            /\ m' = [m EXCEPT !.net.out = Tail(@), !.net.in = @ \o ans]
    BY <1>5
  <1> DEFINE nn == [m.net EXCEPT !.out = Tail(m.net.out), !.in = m.net.in \o ans]
  <1>7. m' = [m EXCEPT !.net = nn]
    BY <1>1, <1>6 DEF Shape, Fields, Sockets
  <1> HIDE DEF nn
  <1>8. /\ nn \in Sockets /\ NetInv(nn) /\ OnWire(nn) \subseteq OnWire(m.net)
        /\ InOps(nn) \subseteq InOps(m.net) \cup {a.op}
    <2>1. Reads(m.net, a, ans, nn)
      BY <1>1, <1>2, <1>6 DEF nn, Reads
    <2>2. HasRead(m.net, a, nn)
      BY <2>1, AnsweredNet
    <2> QED  BY <2>2 DEF HasRead
  <1>9. got' \in Seq(Ops) /\ Range(got') = Range(got) \cup ({p.op} \ {0})
    <2>1. got \in Seq(Ops) /\ 0 \notin Ops
      BY <1>1 DEF OtherTypes, Ops
    <2> HIDE DEF p
    <2> QED  BY <1>2, <1>4, <2>1, AppendPositions
  <1>10. InOps(nn) \subseteq Range(got')
    BY <1>1, <1>6, <1>8, <1>9 DEF ReadInv, InOps
  <1>11. AsyncInv'
    BY <1>2, <1>7, <1>8, <1>9, <1>10, NetStep
  <1>12. ASSUME Ordered PROVE Ordered'
    <2>1. /\ m'.commands = m.commands /\ m'.responses = m.responses /\ m'.net = nn
          /\ m'.pendingWrite = m.pendingWrite /\ m'.connected = m.connected
      BY <1>1, <1>7 DEF Shape, Fields
    <2>2. nn.out = Tail(m.net.out) /\ nn.pending = m.net.pending
      BY <1>1 DEF nn, Sockets
    <2>3. OrderInv /\ CleanInv /\ CallInv /\ got \in Seq(Ops)
      BY <1>1, <1>12 DEF Ordered, AsyncInv, OtherTypes
    <2>4. /\ OutAscends(nn) /\ OutOps(nn) \subseteq OutOps(m.net)
          /\ p.op # 0 => p.op \in OutOps(m.net)
          /\ \A j \in OutOps(nn) : p.op < j
      BY <1>1, <1>2, <2>2, <2>3, ReadOrder DEF OrderInv
    <2> HIDE DEF p
    <2>5. CleanInv'
      BY <1>2, <2>1, <2>2, <2>3 DEF CleanInv
    <2>6. CASE p.op = 0
      BY <1>2, <2>1, <2>2, <2>3, <2>4, <2>5, <2>6 DEF Ordered, OrderInv
    <2>7. CASE p.op # 0
      <3>1. p.op \in Ops /\ p.op \in OutOps(m.net) /\ Range(got') = Range(got) \cup {p.op}
        BY <1>4, <1>9, <2>4, <2>7
      <3>2. \A j \in Range(got) : j < p.op
        BY <2>3, <3>1 DEF OrderInv
      <3>3. Ascends(got')
        BY <1>2, <2>3, <2>7, <3>1, <3>2, AscendsAppend DEF OrderInv
      <3>4. call[p.op] \in {"accepted", "orphan"}
        BY <2>3, <3>1 DEF CallInv, OnWire
      <3>5. OrderInv'
        BY <1>2, <2>1, <2>2, <2>3, <2>4, <3>1, <3>3, <3>4 DEF OrderInv
      <3> QED  BY <2>5, <3>5 DEF Ordered
    <2> QED  BY <2>6, <2>7
  <1> QED  BY <1>11, <1>12

-----------------------------------------------------------------------------
(* The application's operations.                                           *)

\* The message id given to an operation is no other's.
LEMMA AssignMsgIdFresh ==
    ASSUME Shape(m)
    PROVE  /\ AssignMsgId \in 0..MaxMsgId
           /\ AssignMsgId # 0 => \A j \in Open(m) : m.token[j] # AssignMsgId
  <1> DEFINE after(t) == (t - m.msgID - 1) % MaxMsgId
             free == (1..MaxMsgId) \ (UsedTokens \cup {m.msgID})
             A == {after(t) : t \in free}
             least(t) == \A u \in free : after(t) <= after(u)
  <1>1. MaxMsgId \in Nat \ {0} /\ m.msgID \in 0..MaxMsgId
    BY AsyncAssumption DEF Shape
  <1>2. \A j \in Open(m) : m.token[j] \in UsedTokens
    BY QueuedAre DEF Open, UsedTokens
  <1>3. CASE free = {}
    BY <1>1, <1>3 DEF AssignMsgId
  <1>4. CASE free # {}
    <2>1. \A t \in free : t \in Int /\ after(t) \in Nat
      BY <1>1
    <2> HIDE DEF free
    <2>2. A \subseteq Nat /\ A # {}
      BY <1>4, <2>1
    <2>3. Min(A) \in A /\ \A a \in A : Min(A) <= a
      BY <2>2, LeastElement
    <2> HIDE DEF after
    <2>4. PICK t \in free : least(t)
      BY <2>3
    <2>5. AssignMsgId = CHOOSE u \in free : least(u)
      BY <1>4 DEF AssignMsgId, free, after
    <2> HIDE DEF least
    <2>6. AssignMsgId \in free
      BY <2>4, <2>5
    <2>7. AssignMsgId \in 1..MaxMsgId /\ AssignMsgId \notin UsedTokens
      BY <2>6 DEF free
    <2> QED  BY <1>2, <2>7
  <1> QED  BY <1>3, <1>4

LEMMA AskStep ==
    ASSUME AsyncInv, NEW i \in Ops, Ask(i)
    PROVE  AsyncInv' /\ Steady
  <1> DEFINE t == IF i \in Acknowledged THEN AssignMsgId ELSE 0
             fate == IF (i \in Acknowledged /\ t = 0) \/ (i \in Publishes /\ BufferFull)
                     THEN "refused" ELSE "calling"
             held == {m.token[j] : j \in {k \in Ops : call[k] = "calling"}} \ {0}
  <1>1. Fine(m) /\ Shape(m) /\ PlaceInv(m) /\ TokenInv(m) /\ WireInv(m) /\ HeldInv(m)
    BY InvSound DEF Fine
  <1>2. OtherTypes /\ StoreInv /\ CallInv /\ ReadInv
    BY DEF AsyncInv
  <1>3. /\ call[i] = "new" /\ call' = [call EXCEPT ![i] = fate]
        /\ m' = IF t = 0 THEN m ELSE [m EXCEPT !.msgID = t, !.token[i] = t]
        /\ UNCHANGED <<stored, replies, conns, written, got>>
    BY DEF Ask
  <1>a. /\ AskedType'
        /\ Apart' => Apart
        /\ Apart' => (fate = "calling" => t \notin held)
    <2> DEFINE refused == (i \in Acknowledged /\ t = 0) \/ (i \in Publishes /\ BufferFull)
               v == asked.shared \/ (~refused /\ t \in held)
    <2>1. asked' = [asked EXCEPT !.shared = v]
      BY DEF Ask
    <2>2. fate = "calling" => ~refused
      OBVIOUS
    <2>3. AskedType
      BY <1>2 DEF OtherTypes
    <2> HIDE DEF v, refused, t, fate, held
    <2>4. asked'.shared = v /\ asked'.conn = asked.conn /\ asked' = [f \in {"conn", "other", "left", "shared"} |-> asked'[f]]
      BY <2>1, <2>3 DEF AskedType
    <2>5. AskedType'
      BY <2>3, <2>4 DEF AskedType
    <2>6. Apart' => ~v
      BY <2>4, Zenon DEF Apart
    <2> QED  BY <2>2, <2>5, <2>6, Zenon DEF v, Apart
  <1>4. /\ t \in 0..MaxMsgId
        /\ t # 0 => i \in Acknowledged
        /\ t # 0 => \A j \in Open(m) : m.token[j] # t
        /\ fate \in {"refused", "calling"}
        /\ fate = "calling" => (i \in Acknowledged => t # 0)
    <2>1. 0 \in 0..MaxMsgId
      BY AsyncAssumption
    <2> QED  BY <1>1, <2>1, AssignMsgIdFresh
  <1> HIDE DEF t, fate, held
  <1>5. i \notin Open(m) /\ i \notin OnWire(m.net)
    BY <1>2, <1>3 DEF CallInv
  <1>6. /\ Shape(m') /\ \A f \in Fields \ {"msgID", "token"} : m'[f] = m[f]
        /\ m'.token[i] = IF t = 0 THEN m.token[i] ELSE t
        /\ \A j \in Ops \ {i} : m'.token[j] = m.token[j]
    <2>1. CASE t = 0
      BY <1>1, <1>3, <2>1
    <2>2. CASE t # 0
      <3> DEFINE tok == [m.token EXCEPT ![i] = t]
      <3>1. m' = [m EXCEPT !.msgID = t, !.token = tok]
        BY <1>1, <1>3, <2>2 DEF Shape, Fields
      <3>2. /\ tok \in [Ops -> 0..MaxMsgId] /\ tok[i] = t
            /\ \A j \in Ops \ {i} : tok[j] = m.token[j]
        <4>1. m.token \in [Ops -> 0..MaxMsgId] /\ t \in 0..MaxMsgId
          BY <1>1, <1>4 DEF Shape
        <4> QED  BY <4>1
      <3> HIDE DEF tok
      <3>3. /\ DOMAIN m' = Fields /\ m' = [f \in Fields |-> m'[f]]
            /\ \A f \in Fields \ {"msgID", "token"} : m'[f] = m[f]
            /\ m'.msgID = t /\ m'.token = tok
        BY <1>1, <3>1 DEF Shape, Fields
      <3>4. Shape(m')
        <4>1. m'.msgID \in 0..MaxMsgId /\ m'.token \in [Ops -> 0..MaxMsgId]
          BY <1>4, <3>2, <3>3
        <4>2. /\ m'.connected = m.connected /\ m'.state = m.state /\ m'.should = m.should
              /\ m'.retrying = m.retrying /\ m'.now = m.now /\ m'.connect = m.connect
              /\ m'.disconnect = m.disconnect /\ m'.commands = m.commands
              /\ m'.buffered = m.buffered /\ m'.responses = m.responses
              /\ m'.outbound = m.outbound /\ m'.pendingWrite = m.pendingWrite
              /\ m'.net = m.net /\ m'.held = m.held /\ m'.told = m.told
              /\ m'.toldConn = m.toldConn
          BY <3>3 DEF Fields
        <4> QED  BY <1>1, <3>3, <4>1, <4>2 DEF Shape
      <3> QED  BY <2>2, <3>2, <3>3, <3>4
    <2> QED  BY <2>1, <2>2
  <1>7. /\ m'.commands = m.commands /\ m'.responses = m.responses /\ m'.outbound = m.outbound
        /\ m'.told = m.told /\ m'.toldConn = m.toldConn
        /\ m'.pendingWrite = m.pendingWrite /\ m'.net = m.net
        /\ m'.buffered = m.buffered /\ m'.connected = m.connected /\ m'.held = m.held
    BY <1>6 DEF Fields
  <1>8. Open(m') = Open(m) /\ Waiting(m') = Waiting(m) /\ Open(m) \subseteq Ops
    BY <1>1, <1>7, OpenTypes DEF Open, Waiting
  <1>9. \A j \in Open(m) : m'.token[j] = m.token[j]
    BY <1>5, <1>6, <1>8
  <1>10. Fine(m')
    <2>1. PlaceInv(m')
      BY <1>1, <1>7 DEF PlaceInv
    <2>2. TokenInv(m')
      <3>1. \A j \in Ops \ Acknowledged : m'.token[j] = 0
        <4>1. t = 0 => m'.token[i] = m.token[i]
          BY <1>6
        <4>2. \A j \in Ops \ {i} : m'.token[j] = m.token[j]
          BY <1>6
        <4> QED  BY <1>1, <1>4, <4>1, <4>2 DEF TokenInv
      <3> QED  BY <1>1, <1>8, <1>9, <3>1 DEF TokenInv
    <2>3. WireInv(m') /\ HeldInv(m')
      BY <1>1, <1>7 DEF WireInv, HeldInv, Waits
    <2> QED  BY <1>6, <2>1, <2>2, <2>3 DEF Fine
  <1>11. Fine(m)' /\ Open(m)' = Open(m) /\ Waiting(m)' = Waiting(m)
    <2>1. Fine(m)'
      BY <1>10, <1>a DEF Fine, Shape, PlaceInv, TokenInv, WireInv, HeldInv, Open, Waits
    <2> QED  BY <1>8, <2>1 DEF Open, Waiting
  <1>12. /\ call' \in [Ops -> {"new", "calling", "accepted", "refused", "dropped", "orphan"}]
         /\ call'[i] = fate /\ \A j \in Ops \ {i} : call'[j] = call[j]
    BY <1>2, <1>3, <1>4 DEF OtherTypes
  <1>13. OtherTypes'
    BY <1>2, <1>3, <1>7, <1>12, <1>a DEF OtherTypes
  <1>14. StoreInv'
    BY <1>2, <1>3, <1>7 DEF StoreInv
  <1>15. CallInv'
    <2>1. ASSUME NEW j \in Ops, NEW k \in Ops, j < k, call'[j] \in {"new", "calling"}
          PROVE  call'[k] \in {"new", "calling", "refused"}
      <3>1. call[j] \in {"new", "calling"}
        BY <1>3, <1>12, <2>1
      <3>2. call[k] \in {"new", "calling", "refused"}
        BY <1>2, <2>1, <3>1 DEF CallInv
      <3> QED  BY <1>4, <1>12, <3>2
    <2>2. \A j \in Open(m') \cup OnWire(m'.net) : call'[j] \in {"accepted", "orphan"}
      <3>1. Open(m) \cup OnWire(m.net) \subseteq Ops
        BY <1>1, OpenTypes
      <3> QED  BY <1>2, <1>5, <1>7, <1>8, <1>12, <3>1 DEF CallInv
    <2>3. m'.held.type = "SUBACK" => call'[m'.held.pack.op] \in {"accepted", "orphan"}
      <3>1. m.held.type = "SUBACK" => m.held.pack.op # i
        BY <1>2, <1>3 DEF CallInv
      <3> QED  BY <1>2, <1>3, <1>7, <1>12, <3>1 DEF CallInv, OtherTypes
    <2>0. Acknowledged \subseteq Ops
      BY DEF Acknowledged
    <2>4. ASSUME NEW j \in Acknowledged, call'[j] \notin {"new", "refused"}
          PROVE  m'.token[j] # 0
      <3>1. CASE j = i
        <4>1. t # 0
          BY <1>4, <1>12, <2>4, <3>1
        <4> QED  BY <1>6, <3>1, <4>1
      <3>2. CASE j # i
        BY <1>2, <1>6, <1>12, <2>0, <2>4, <3>2 DEF CallInv
      <3> QED  BY <3>1, <3>2
    <2>7. ASSUME Apart', NEW j \in Acknowledged, call[j] = "calling", fate = "calling",
                 i \in Acknowledged
          PROVE  j \in Ops \ {i} /\ m'.token[j] = m.token[j] /\ m.token[j] # t /\ m'.token[i] = t
      <3>1. j \in Ops /\ j # i /\ m.token[j] # 0
        BY <1>2, <1>3, <2>0, <2>7 DEF CallInv
      <3>2. m.token[j] \in held
        BY <2>7, <3>1 DEF held
      <3>3. t \notin held /\ t # 0
        BY <1>4, <1>a, <2>7
      <3> QED  BY <1>6, <3>1, <3>2, <3>3
    <2>8. ASSUME Apart', NEW j \in Acknowledged, call'[j] = "calling"
          PROVE  /\ \A k \in Open(m') : m'.token[k] # m'.token[j]
                 /\ \A k \in Acknowledged : call'[k] = "calling" /\ m'.token[k] = m'.token[j] => k = j
      <3>1. CASE j = i
        <4>1. fate = "calling" /\ t # 0 /\ m'.token[j] = t
          BY <1>4, <1>6, <1>12, <2>8, <3>1
        <4>2. \A k \in Acknowledged : call'[k] = "calling" /\ k # i => m'.token[k] # t
          BY <1>12, <2>0, <2>7, <2>8, <3>1, <4>1
        <4> QED  BY <1>4, <1>8, <1>9, <3>1, <4>1, <4>2
      <3>2. CASE j # i
        <4>1. j \in Ops /\ call[j] = "calling" /\ m'.token[j] = m.token[j]
          BY <1>6, <1>12, <2>0, <2>8, <3>2
        <4>2. \A k \in Open(m') : m'.token[k] # m'.token[j]
          BY <1>2, <1>8, <1>9, <1>a, <2>8, <4>1 DEF CallInv
        <4>3. ASSUME NEW k \in Acknowledged, call'[k] = "calling", m'.token[k] = m'.token[j]
              PROVE  k = j
          <5>1. CASE k = i
            <6>1. fate = "calling" /\ m.token[j] # t /\ m'.token[i] = t
              BY <1>12, <2>7, <2>8, <4>1, <4>3, <5>1
            <6> QED  BY <4>1, <4>3, <5>1, <6>1
          <5>2. CASE k # i
            <6>1. k \in Ops /\ call[k] = "calling" /\ m'.token[k] = m.token[k]
              BY <1>6, <1>12, <2>0, <4>3, <5>2
            <6> QED  BY <1>2, <1>a, <2>8, <4>1, <4>3, <6>1 DEF CallInv
          <5> QED  BY <5>1, <5>2
        <4> QED  BY <4>2, <4>3
      <3> QED  BY <3>1, <3>2
    <2>5. \A j \in Ops : call'[j] = "accepted" =>
              Len(replies'[j]) = IF j \in Waiting(m') THEN 0 ELSE 1
      BY <1>2, <1>3, <1>4, <1>8, <1>12 DEF CallInv
    <2>6. \A j \in Ops : call'[j] \in {"new", "calling", "refused"} => replies'[j] = <<>>
      BY <1>2, <1>3, <1>12 DEF CallInv
    <2> QED  BY <1>7, <1>11, <1>8, <2>1, <2>2, <2>3, <2>4, <2>5, <2>6, <2>8 DEF CallInv
  <1>16. ReadInv'
    BY <1>2, <1>3, <1>7, <1>a DEF ReadInv
  <1>17. Steady
    <2>1. Quietly(m, m')
      BY <1>7 DEF Quietly
    <2>2. \A j \in Ops : call[j] \notin {"new", "calling", "refused"} => call'[j] = call[j]
      BY <1>3, <1>12
    <2> QED  BY <1>3, <2>1, <2>2 DEF Steady
  <1> QED  BY <1>11, <1>13, <1>14, <1>15, <1>16, <1>17 DEF AsyncInv

\* An operation joins the queue, and d, if any, is dropped from it.
LEMMA QueuedStep ==
    ASSUME AsyncInv, NEW i \in Ops, call[i] = "calling",
           \A j \in 1..(i - 1) : call[j] \notin {"new", "calling"}, NEW c \in Seq(Commands), NEW b, NEW d,
           m' = [m EXCEPT !.commands = c, !.buffered = b],
           OrderedOps(c), OpsIn(c) = (OpsIn(m.commands) \cup {i}) \ {d},
           d = 0 \/ d \in OpsIn(m.commands) \cup {i},
           stored' \in Seq(Ops), Ascends(stored'), Range(stored') = OpsIn(c),
           b \in Int, b = Cardinality(OpsIn(c) \cap Publishes), b <= MaxBuffered,
           call' \in [Ops -> {"new", "calling", "accepted", "refused", "dropped", "orphan"}],
           call'[i] = IF i = d THEN "dropped" ELSE "accepted",
           \A j \in Ops \ {i, d} : call'[j] = call[j],
           d \in Ops \ {i} => call'[d] = IF call[d] = "accepted" THEN "dropped" ELSE call[d],
           UNCHANGED <<replies, conns, written, got, asked>>
    PROVE  AsyncInv' /\ (Ordered => Ordered')
  <1>1. Fine(m) /\ Shape(m) /\ PlaceInv(m) /\ TokenInv(m) /\ WireInv(m) /\ HeldInv(m)
    BY InvSound DEF Fine
  <1>2. OtherTypes /\ StoreInv /\ CallInv /\ ReadInv
    BY DEF AsyncInv
  <1>3. /\ m'.commands = c /\ m'.buffered = b
        /\ DOMAIN m' = Fields /\ m' = [f \in Fields |-> m'[f]]
        /\ \A f \in Fields \ {"commands", "buffered"} : m'[f] = m[f]
    BY <1>1 DEF Shape, Fields
  <1>4. /\ m'.responses = m.responses /\ m'.outbound = m.outbound /\ m'.token = m.token
        /\ m'.told = m.told /\ m'.toldConn = m.toldConn
        /\ m'.pendingWrite = m.pendingWrite /\ m'.net = m.net
        /\ m'.connected = m.connected /\ m'.held = m.held
    BY <1>3 DEF Fields
  <1>5. Shape(m')
    BY <1>1, <1>3 DEF Shape, Fields
  <1>6. i \notin Open(m) /\ i \notin OnWire(m.net)
    BY <1>2 DEF CallInv
  <1>7. d \in OpsIn(m.commands) => /\ call[d] \in {"accepted", "orphan"}
                                   /\ d \notin Range(m.responses) /\ d \notin Range(m.outbound)
                                   /\ d \notin OnWire(m.net)
    BY <1>1, <1>2 DEF CallInv, Open, PlaceInv, WireInv
  <1>8. 0 \notin Ops /\ OpsIn(m.commands) \subseteq Ops /\ Open(m) \subseteq Ops /\ OnWire(m.net) \subseteq Ops
    BY <1>1, OpenTypes
  <1>9. d \notin Open(m') /\ d \notin OnWire(m.net)
        /\ Open(m') \subseteq Open(m) \cup {i}
        /\ i \notin Range(m.responses) /\ i \notin Range(m.outbound)
    <2>1. Range(m.outbound) \subseteq Ops /\ Range(m.responses) \subseteq Ops
      BY <1>1, OpenTypes
    <2> QED  BY <1>3, <1>4, <1>6, <1>7, <1>8, <2>1 DEF Open
  <1>10. i \in Acknowledged =>
             /\ m.token[i] # 0
             /\ Apart => \A j \in Open(m) : m.token[j] # m.token[i]
    BY <1>2 DEF CallInv
  <1>a. (Apart' <=> Apart) /\ AskedType'
    BY <1>2 DEF OtherTypes, AskedType, Apart
  <1>11. m.held.type = "SUBACK" => m.held.pack.op # i /\ m.held.pack.op # d
    <2>1. m.held.type = "SUBACK" => call[m.held.pack.op] \in {"accepted", "orphan"}
      BY <1>2 DEF CallInv
    <2> QED  BY <1>1, <2>1 DEF HeldInv
  <1>12. call'[i] \in {"accepted", "dropped"} /\ (d \in Ops => call'[d] \in {"dropped", "orphan"})
    <2>1. CASE d = i
      BY <2>1
    <2>2. CASE d # i
      BY <1>7, <1>8, <2>2
    <2> QED  BY <2>1, <2>2
  <1>13. Fine(m')
    <2>1. PlaceInv(m')
      BY <1>1, <1>3, <1>4, <1>9 DEF PlaceInv
    <2>2. TokenInv(m')
      BY <1>1, <1>4, <1>9, <1>10 DEF TokenInv
    <2>3. WireInv(m')
      BY <1>1, <1>3, <1>4, <1>6 DEF WireInv, Waits
    <2>4. HeldInv(m')
      BY <1>1, <1>3, <1>4, <1>11 DEF HeldInv
    <2> QED  BY <1>5, <2>1, <2>2, <2>3, <2>4 DEF Fine
  <1>14. Fine(m)' /\ Open(m)' = Open(m') /\ Waiting(m)' = Waiting(m') /\ OpsIn(m.commands)' = OpsIn(c)
    <2>1. Fine(m)'
      BY <1>13, <1>a DEF Fine, Shape, PlaceInv, TokenInv, WireInv, HeldInv, Open, Waits
    <2> QED  BY <1>3, <2>1 DEF Open, Waiting
  <1>15. OtherTypes'
    BY <1>2, <1>4, <1>a DEF OtherTypes
  <1>16. StoreInv'
    BY <1>3 DEF StoreInv
  <1>17. CallInv'
    <2>1. ASSUME NEW j \in Ops, NEW k \in Ops, j < k, call'[j] \in {"new", "calling"}
          PROVE  call'[k] \in {"new", "calling", "refused"}
      <3>1. j # i /\ j # d
        BY <1>12, <2>1
      <3>2. call[j] \in {"new", "calling"}
        BY <2>1, <3>1
      <3>3. call[k] \in {"new", "calling", "refused"}
        BY <1>2, <2>1, <3>2 DEF CallInv
      <3>4. k # i
        <4>1. k = i => j \in 1..(i - 1)
          BY <2>1 DEF Ops
        <4> QED  BY <3>2, <4>1
      <3>5. k # d
        BY <1>7, <1>8, <3>3, <3>4
      <3> QED  BY <3>3, <3>4, <3>5
    <2>2. \A j \in Open(m') \cup OnWire(m'.net) : call'[j] \in {"accepted", "orphan"}
      <3> SUFFICES ASSUME NEW j \in Open(m') \cup OnWire(m.net)
                   PROVE  call'[j] \in {"accepted", "orphan"}
        BY <1>4
      <3>1. j # d /\ (j = i \/ j \in Open(m) \cup OnWire(m.net))
        BY <1>9
      <3>2. CASE j = i
        BY <3>1, <3>2
      <3>3. CASE j # i
        <4>1. call[j] \in {"accepted", "orphan"}
          BY <1>2, <3>1, <3>3 DEF CallInv
        <4> QED  BY <1>8, <3>1, <3>3, <4>1
      <3> QED  BY <3>2, <3>3
    <2>3. m'.held.type = "SUBACK" => call'[m'.held.pack.op] \in {"accepted", "orphan"}
      <3> SUFFICES ASSUME m.held.type = "SUBACK"
                   PROVE  call'[m.held.pack.op] \in {"accepted", "orphan"}
        BY <1>4
      <3>1. call[m.held.pack.op] \in {"accepted", "orphan"} /\ m.held.pack.op \in Ops
        <4>1. HeldType(m.held)
          BY <1>1 DEF Shape
        <4>2. m.held.pack \in Packets
          BY <4>1 DEF HeldType
        <4>3. m.held.pack.op \in 0..NOps /\ m.held.pack.op # 0
          BY <1>1, <4>2 DEF Packets, HeldInv
        <4> QED  BY <1>2, <4>3, AsyncAssumption, SMTT(30) DEF CallInv, Ops
      <3> QED  BY <1>11, <3>1
    <2>0. Acknowledged \subseteq Ops
      BY DEF Acknowledged
    <2>4. ASSUME NEW j \in Acknowledged, call'[j] \notin {"new", "refused"}
          PROVE  m'.token[j] # 0
      <3>1. call[j] \notin {"new", "refused"}
        BY <1>7, <1>8, <2>0, <2>4
      <3> QED  BY <1>2, <1>4, <3>1 DEF CallInv
    <2>7. \A j \in Acknowledged : call'[j] = "calling" => call[j] = "calling" /\ j # i
      BY <1>7, <1>8, <1>12, <2>0
    <2>8. ASSUME Apart, NEW j \in Acknowledged, call'[j] = "calling"
          PROVE  /\ \A k \in Open(m') : m.token[k] # m.token[j]
                 /\ \A k \in Acknowledged : call'[k] = "calling" /\ m.token[k] = m.token[j] => k = j
      <3>1. /\ call[j] = "calling" /\ j # i /\ m.token[j] # 0
            /\ \A k \in Open(m) : m.token[k] # m.token[j]
            /\ \A k \in Acknowledged : call[k] = "calling" /\ m.token[k] = m.token[j] => k = j
        BY <1>2, <2>7, <2>8 DEF CallInv
      <3>2. m.token[i] # m.token[j]
        <4>1. CASE i \in Acknowledged
          BY <3>1, <4>1
        <4>2. CASE i \notin Acknowledged
          <5>1. m.token[i] = 0
            BY <1>1, <4>2 DEF TokenInv
          <5> QED  BY <3>1, <5>1
        <4> QED  BY <4>1, <4>2
      <3> QED  BY <1>9, <2>7, <3>1, <3>2
    <2>5. ASSUME NEW j \in Ops, call'[j] = "accepted"
          PROVE  Len(replies'[j]) = IF j \in Waiting(m') THEN 0 ELSE 1
      <3>1. j # d
        BY <1>7, <2>5
      <3>2. CASE j = i
        <4>1. replies[j] = <<>>
          BY <1>2, <3>2 DEF CallInv
        <4>2. j \in Waiting(m')
          BY <1>3, <3>1, <3>2 DEF Waiting
        <4> QED  BY <4>1, <4>2
      <3>3. CASE j # i
        <4>1. call[j] = "accepted"
          BY <2>5, <3>1, <3>3
        <4>2. j \in Waiting(m') <=> j \in Waiting(m)
          BY <1>3, <1>4, <3>1, <3>3 DEF Waiting
        <4> QED  BY <1>2, <4>1, <4>2 DEF CallInv
      <3> QED  BY <3>2, <3>3
    <2>6. ASSUME NEW j \in Ops, call'[j] \in {"new", "calling", "refused"}
          PROVE  replies'[j] = <<>>
      <3>1. j # i /\ j # d
        BY <1>12, <2>6
      <3>2. call[j] \in {"new", "calling", "refused"}
        BY <2>6, <3>1
      <3> QED  BY <1>2, <3>2 DEF CallInv
    <2> QED  BY <1>4, <1>14, <1>a, <2>1, <2>2, <2>3, <2>4, <2>5, <2>6, <2>8 DEF CallInv
  <1>18. ReadInv'
    BY <1>2, <1>4, <1>a DEF ReadInv
  <1>19. ASSUME Ordered PROVE Ordered'
    <2>1. ASSUME NEW j \in Ops, call[j] \notin {"new", "calling", "refused"} PROVE j < i
      BY <1>2, <2>1 DEF CallInv, Ops
    <2>2. CleanInv /\ OrderInv /\ got \in Seq(Ops)
      BY <1>2, <1>19 DEF Ordered, OtherTypes
    <2>3. ASSUME NEW j \in Range(got)
          PROVE  j < i /\ call'[j] \notin {"new", "calling", "refused"}
      <3>1. j \in Ops /\ call[j] \notin {"new", "calling", "refused"}
        BY <2>2, <2>3, InRange DEF OrderInv
      <3>2. j < i /\ j # i
        BY <2>1, <3>1
      <3> QED  BY <1>12, <3>1, <3>2
    <2>4. \A j \in OutOps(m.net) \cup Range(m.net.pending) : j < i
      BY <1>2, <1>8, <2>1 DEF CallInv, OnWire
    <2>5. OpsIn(c) \subseteq OpsIn(m.commands) \cup {i}
      OBVIOUS
    <2>6. CleanInv'
      BY <1>4, <2>2 DEF CleanInv
    <2>7. OrderInv'
      BY <1>3, <1>4, <2>2, <2>3, <2>4, <2>5 DEF OrderInv
    <2> QED  BY <2>6, <2>7 DEF Ordered
  <1> QED  BY <1>14, <1>15, <1>16, <1>17, <1>18, <1>19 DEF AsyncInv

LEMMA QueuedPublishes ==
    ASSUME NEW S \in SUBSET Ops, NEW i \in Ops
    PROVE  /\ IsFiniteSet(S \cap Publishes) /\ Cardinality(S \cap Publishes) \in Nat
           /\ i \notin S => Cardinality((S \cup {i}) \cap Publishes) =
                  IF i \in Publishes THEN Cardinality(S \cap Publishes) + 1
                  ELSE Cardinality(S \cap Publishes)
           /\ i \in S => Cardinality((S \ {i}) \cap Publishes) =
                  IF i \in Publishes THEN Cardinality(S \cap Publishes) - 1
                  ELSE Cardinality(S \cap Publishes)
  <1>1. IsFiniteSet(Ops)
    BY AsyncAssumption, FS_Interval DEF Ops
  <1>2. IsFiniteSet(S \cap Publishes)
    BY <1>1, FS_Subset
  <1>3. Cardinality(S \cap Publishes) \in Nat
    BY <1>2, FS_CardinalityType
  <1>4. ASSUME i \notin S
        PROVE  Cardinality((S \cup {i}) \cap Publishes) =
                  IF i \in Publishes THEN Cardinality(S \cap Publishes) + 1
                  ELSE Cardinality(S \cap Publishes)
    <2>1. CASE i \in Publishes
      <3>1. (S \cup {i}) \cap Publishes = (S \cap Publishes) \cup {i}
        BY <2>1
      <3>2. Cardinality((S \cap Publishes) \cup {i}) = Cardinality(S \cap Publishes) + 1
        BY <1>2, <1>4, FS_AddElement
      <3> QED  BY <2>1, <3>1, <3>2
    <2>2. CASE i \notin Publishes
      <3>1. (S \cup {i}) \cap Publishes = S \cap Publishes
        BY <2>2
      <3> QED  BY <2>2, <3>1
    <2> QED  BY <2>1, <2>2
  <1>5. ASSUME i \in S
        PROVE  Cardinality((S \ {i}) \cap Publishes) =
                  IF i \in Publishes THEN Cardinality(S \cap Publishes) - 1
                  ELSE Cardinality(S \cap Publishes)
    <2>1. (S \ {i}) \cap Publishes = (S \cap Publishes) \ {i}
      OBVIOUS
    <2>2. Cardinality((S \cap Publishes) \ {i}) =
              IF i \in S \cap Publishes THEN Cardinality(S \cap Publishes) - 1
              ELSE Cardinality(S \cap Publishes)
      BY <1>2, FS_RemoveElement
    <2> QED  BY <1>5, <2>1, <2>2
  <1> QED  BY <1>2, <1>3, <1>4, <1>5

LEMMA AddCommandStep ==
    ASSUME AsyncInv, NEW i \in Ops, AddCommand(i)
    PROVE  AsyncInv' /\ (Ordered => Ordered')
  <1> DEFINE s == m.commands
             c == Append(s, OpCommand(i))
             x == [m EXCEPT !.commands = c]
             P == PublishPositions(x)
             old == OldestPublish(x)
             S == OpsIn(s)
             full == i \in Publishes /\ m.buffered >= MaxBuffered
  <1>1. Fine(m) /\ Shape(m) /\ PlaceInv(m)
    BY InvSound DEF Fine
  <1>2. OtherTypes /\ StoreInv /\ CallInv
    BY DEF AsyncInv
  <1>3. /\ call[i] = "calling" /\ \A j \in 1..(i - 1) : call[j] \notin {"new", "calling"}
        /\ UNCHANGED <<replies, conns, written, got, asked>>
    BY DEF AddCommand
  <1>4. /\ s \in Seq(Commands) /\ S \subseteq Ops /\ OrderedOps(s)
        /\ OpCommand(i) \in Commands /\ IsOp(OpCommand(i)) /\ OpCommand(i).op = i
    BY <1>1, OpenTypes, CommandKinds DEF Shape, PlaceInv
  <1>5. i \notin S /\ \A j \in S : j < i
    <2> SUFFICES ASSUME NEW j \in S PROVE j < i
      BY <1>4 DEF Ops
    <2>1. call[j] \in {"accepted", "orphan"}
      BY <1>2 DEF CallInv, Open
    <2> QED  BY <1>2, <1>3, <1>4, <2>1 DEF CallInv, Ops
  <1>6. c \in Seq(Commands) /\ OpsIn(c) = S \cup {i} /\ OrderedOps(c)
    BY <1>4, <1>5, OpsLast
  <1>7. /\ stored \in Seq(Ops) /\ Ascends(stored) /\ Range(stored) = S
        /\ m.buffered = Cardinality(S \cap Publishes) /\ m.buffered <= MaxBuffered
        /\ m.buffered \in Nat
    BY <1>2, <1>4, QueuedPublishes DEF StoreInv
  <1>8. /\ Append(stored, i) \in Seq(Ops) /\ Ascends(Append(stored, i))
        /\ Range(Append(stored, i)) = S \cup {i}
    <2> DEFINE t == Append(stored, i)
    <2>1. /\ t \in Seq(Ops) /\ DOMAIN t = DOMAIN stored \cup {Len(stored) + 1}
          /\ Len(stored) + 1 \notin DOMAIN stored
          /\ \A n \in DOMAIN stored : t[n] = stored[n] /\ n < Len(stored) + 1
          /\ t[Len(stored) + 1] = i
          /\ Range(t) = Range(stored) \cup {i}
          /\ Len(stored) \in Nat /\ DOMAIN stored = 1..Len(stored)
      BY <1>7, AppendPositions
    <2> HIDE DEF t
    <2>2. Ascends(t)
      BY <1>5, <1>7, AscendsAppend DEF t
    <2> QED  BY <1>7, <2>1, <2>2 DEF t
  <1>9. x.commands = c /\ Enqueue(m, i) = x
    BY <1>1 DEF Enqueue, Shape, Fields
  <1>10. Ops \subseteq Int /\ 0 \notin Ops /\ MaxBuffered \in Nat
    BY AsyncAssumption DEF Ops
  <1> HIDE DEF S, c
  <1>11. CASE ~full
    <2> DEFINE b == IF i \in Publishes THEN m.buffered + 1 ELSE m.buffered
    <2>1. /\ m' = IF i \in Publishes THEN [x EXCEPT !.buffered = @ + 1] ELSE x
          /\ stored' = Append(stored, i) /\ call' = [call EXCEPT ![i] = "accepted"]
      BY <1>9, <1>11 DEF AddCommand, PersistCommand
    <2>2. m' = [m EXCEPT !.commands = c, !.buffered = b]
      BY <1>1, <2>1 DEF Shape, Fields
    <2>3. b \in Int /\ b <= MaxBuffered /\ b = Cardinality((S \cup {i}) \cap Publishes)
      <3>1. Cardinality((S \cup {i}) \cap Publishes) = b
        BY <1>4, <1>5, <1>7, QueuedPublishes DEF S
      <3> QED  BY <1>7, <1>10, <1>11, <3>1
    <2> HIDE DEF b
    <2>4. OpsIn(c) = (S \cup {i}) \ {0}
      BY <1>4, <1>6, <1>10 DEF S
    <2>5. /\ call' \in [Ops -> {"new", "calling", "accepted", "refused", "dropped", "orphan"}]
          /\ call'[i] = "accepted" /\ \A j \in Ops \ {i} : call'[j] = call[j]
      BY <1>2, <2>1 DEF OtherTypes
    <2>6. /\ i # 0
          /\ call'[i] = IF i = 0 THEN "dropped" ELSE "accepted"
          /\ \A j \in Ops \ {i, 0} : call'[j] = call[j]
          /\ 0 \in Ops \ {i} => call'[0] = IF call[0] = "accepted" THEN "dropped" ELSE call[0]
      BY <1>10, <2>5
    <2>7. /\ stored' \in Seq(Ops) /\ Ascends(stored') /\ Range(stored') = OpsIn(c)
          /\ b = Cardinality(OpsIn(c) \cap Publishes)
      BY <1>6, <1>8, <2>1, <2>3
    <2> QED  BY <1>3, <1>6, <2>2, <2>3, <2>4, <2>5, <2>6, <2>7, QueuedStep DEF S
  <1>12. CASE full
    <2>1. /\ m' = DropOldest(x)
          /\ stored' = UnpersistDropped(Append(stored, i), old)
          /\ call' = [call EXCEPT ![i] = "accepted", ![old] =
                         IF @ = "accepted" \/ old = i THEN "dropped" ELSE @]
      BY <1>9, <1>12 DEF AddCommand, PersistCommand
    <2>2. P = {n \in DOMAIN c : IsOp(c[n]) /\ c[n].op \in Publishes}
      BY <1>9 DEF PublishPositions, OpPositions
    <2>3. P # {} /\ P \subseteq DOMAIN c
      <3>1. /\ c[Len(s) + 1] = OpCommand(i) /\ Len(s) + 1 \in DOMAIN c
        BY <1>4, AppendPositions DEF c
      <3> QED  BY <1>4, <1>12, <2>2, <3>1
    <2> HIDE DEF P
    <2>4. /\ Min(P) \in P /\ Min(P) \in DOMAIN c
          /\ Detach(c, P) \in Seq(Commands) /\ Without(Detach(c, P), c, Min(P))
      BY <1>6, <2>3, DetachProperties
    <2>5. IsOp(c[Min(P)]) /\ c[Min(P)].op \in Publishes /\ old = c[Min(P)].op
      BY <1>9, <2>2, <2>4 DEF OldestPublish, P
    <2> HIDE DEF old
    <2> DEFINE q == Detach(c, P)
    <2>6. /\ q \in Seq(Commands) /\ OrderedOps(q) /\ OpsIn(q) = (S \cup {i}) \ {old}
      BY <1>6, <2>4, <2>5, OpsWithout
    <2>7. old \in S \cup {i} /\ old \in Ops /\ old \in Publishes
      <3>1. old \in OpsIn(c)
        BY <2>4, <2>5 DEF OpsIn
      <3> QED  BY <1>4, <1>6, <2>5, <3>1 DEF S
    <2>8. DropOldest(x) = [m EXCEPT !.commands = q, !.buffered = m.buffered]
      <3>1. DropOldest(x) = [x EXCEPT !.commands = q]
        BY <1>1, <1>9 DEF DropOldest, P, Shape, Fields
      <3> HIDE DEF q
      <3> QED  BY <1>1, <3>1 DEF Shape, Fields
    <2> HIDE DEF q
    <2>9. m.buffered = Cardinality(((S \cup {i}) \ {old}) \cap Publishes)
      <3>1. Cardinality((S \cup {i}) \cap Publishes) = m.buffered + 1
        BY <1>4, <1>5, <1>7, <1>12, QueuedPublishes DEF S
      <3>2. Cardinality(((S \cup {i}) \ {old}) \cap Publishes) =
                Cardinality((S \cup {i}) \cap Publishes) - 1
        <4>1. S \cup {i} \in SUBSET Ops
          BY <1>4 DEF S
        <4> QED  BY <2>7, <4>1, QueuedPublishes
      <3> QED  BY <1>7, <3>1, <3>2
    <2>10. /\ stored' \in Seq(Ops) /\ Ascends(stored') /\ Range(stored') = (S \cup {i}) \ {old}
      <3> DEFINE t == Append(stored, i)
      <3>1. Distinct(t)
        <4>1. t \in Seq(Ops) /\ Ascends(t)
          BY <1>8
        <4> HIDE DEF t
        <4>2. DOMAIN t = 1..Len(t) /\ Len(t) \in Nat /\ \A n \in DOMAIN t : t[n] \in Ops
          BY <4>1, InRange
        <4>3. DOMAIN t \subseteq Int
          BY <4>2
        <4>4. \A n \in DOMAIN t : t[n] \in Int
          BY <1>10, <4>2
        <4> QED  BY <4>1, <4>3, <4>4 DEF Ascends, Distinct
      <3>2. Positions(t, old) \subseteq DOMAIN t
        BY DEF Positions
      <3>3. stored' = Detach(t, Positions(t, old))
        BY <2>1 DEF UnpersistDropped
      <3>4. t \in Seq(Ops) /\ Ascends(t) /\ Range(t) = S \cup {i}
        BY <1>8
      <3> HIDE DEF t
      <3>5. stored' \in Seq(Ops) /\ Ascends(stored')
        BY <1>10, <3>2, <3>3, <3>4, DetachProperties, ZenonT(40)
      <3>6. Range(stored') = Range(t) \ {old}
        BY <2>7, <3>1, <3>3, <3>4, DistinctPositions
      <3> QED  BY <3>4, <3>5, <3>6
    <2>11. /\ call' \in [Ops -> {"new", "calling", "accepted", "refused", "dropped", "orphan"}]
           /\ call'[i] = IF i = old THEN "dropped" ELSE "accepted"
           /\ \A j \in Ops \ {i, old} : call'[j] = call[j]
           /\ old \in Ops \ {i} =>
                  call'[old] = IF call[old] = "accepted" THEN "dropped" ELSE call[old]
      <3>1. CASE i = old
        BY <1>2, <2>1, <3>1 DEF OtherTypes
      <3>2. CASE i # old
        <4>1. DOMAIN call = Ops /\ call = [j \in Ops |-> call[j]]
          BY <1>2 DEF OtherTypes
        <4>2. /\ DOMAIN call' = Ops /\ call' = [j \in Ops |-> call'[j]]
              /\ \A j \in Ops \ {i, old} : call'[j] = call[j]
              /\ call'[i] = "accepted"
          BY <2>1, <2>7, <3>2, <4>1
        <4>3. call'[old] = IF call[old] = "accepted" THEN "dropped" ELSE call[old]
          BY <2>1, <2>7, <3>2, <4>1
        <4>5. call' \in [Ops -> {"new", "calling", "accepted", "refused", "dropped", "orphan"}]
          BY <1>2, <2>1 DEF OtherTypes
        <4> QED  BY <3>2, <4>2, <4>3, <4>5
      <3> QED  BY <3>1, <3>2
    <2>12. m' = [m EXCEPT !.commands = q, !.buffered = m.buffered]
      BY <2>1, <2>8
    <2>13. /\ m.buffered \in Int /\ m.buffered = Cardinality(OpsIn(q) \cap Publishes)
           /\ m.buffered <= MaxBuffered
      BY <1>7, <2>6, <2>9
    <2> QED  BY <1>3, <2>6, <2>7, <2>10, <2>11, <2>12, <2>13, QueuedStep, ZenonT(40) DEF S
  <1> QED  BY <1>11, <1>12

-----------------------------------------------------------------------------
(* processCommand on an operation.                                         *)

\* The operation at the head of the queue is the first one on the disk.
LEMMA HeadStored ==
    ASSUME Shape(m), OrderedOps(m.commands), StoreInv, m.commands # <<>>,
           IsOp(Head(m.commands))
    PROVE  LET i == Head(m.commands).op
               S == OpsIn(m.commands)
           IN  /\ i \in S /\ i \in Ops
               /\ Tail(m.commands) \in Seq(Commands) /\ OrderedOps(Tail(m.commands))
               /\ OpsIn(Tail(m.commands)) = S \ {i}
               /\ Tail(stored) \in Seq(Ops) /\ Ascends(Tail(stored))
               /\ Range(Tail(stored)) = S \ {i}
  <1> DEFINE s == m.commands
             i == Head(s).op
             S == OpsIn(s)
  <1>1. s \in Seq(Commands)
    BY DEF Shape
  <1>2. /\ Tail(s) \in Seq(Commands) /\ Without(Tail(s), s, 1)
        /\ 1 \in DOMAIN s /\ Head(s) = s[1] /\ \A a \in DOMAIN s : 1 <= a
    BY <1>1, TailWithout
  <1>3. OrderedOps(Tail(s)) /\ OpsIn(Tail(s)) = S \ {i}
    BY <1>1, <1>2, OpsWithout
  <1>4. S \subseteq Ops /\ i \in S
    BY <1>1, <1>2, OpsInType
  <1>5. \A j \in S : i <= j
    <2> SUFFICES ASSUME NEW j \in S PROVE i <= j
      OBVIOUS
    <2>1. PICK n \in DOMAIN s : IsOp(s[n]) /\ s[n].op = j
      BY DEF OpsIn
    <2>2. 1 <= n /\ n \in Int
      BY <1>1, <1>2, InRange
    <2>3. CASE n = 1
      BY <1>2, <1>4, <2>1, <2>3 DEF Ops
    <2>4. CASE 1 < n
      BY <1>2, <1>4, <2>1, <2>4 DEF OrderedOps, Ops
    <2> QED  BY <2>2, <2>3, <2>4
  <1>6. stored \in Seq(Ops) /\ Ascends(stored) /\ Range(stored) = S
    BY DEF StoreInv
  <1> HIDE DEF S, i
  <1>7. stored # <<>>
    BY <1>4, <1>6, RangeShort
  <1>8. /\ Tail(stored) \in Seq(Ops) /\ Without(Tail(stored), stored, 1)
        /\ 1 \in DOMAIN stored /\ stored[1] \in Range(stored)
        /\ \A a \in DOMAIN stored : 1 <= a
    BY <1>6, <1>7, TailWithout
  <1>9. Ops \subseteq Int
    BY DEF Ops
  <1>10. /\ Len(stored) \in Nat /\ DOMAIN stored = 1..Len(stored)
         /\ \A n \in DOMAIN stored : stored[n] \in Ops
         /\ \A e \in S : \E n \in DOMAIN stored : stored[n] = e
    BY <1>6, InRange
  <1>11. Distinct(stored)
    <2>1. DOMAIN stored \subseteq Int
      BY <1>10
    <2>2. \A n \in DOMAIN stored : stored[n] \in Int
      BY <1>9, <1>10
    <2> QED  BY <1>6, <2>1, <2>2 DEF Ascends, Distinct
  <1>12. stored[1] <= i
    <2>1. PICK n \in DOMAIN stored : stored[n] = i
      BY <1>4, <1>10
    <2>2. n = 1 \/ 1 < n
      BY <1>8, <1>10
    <2>3. stored[n] \in Int /\ stored[1] \in Int
      BY <1>8, <1>9, <1>10
    <2> QED  BY <1>6, <1>8, <2>1, <2>2, <2>3 DEF Ascends
  <1>13. stored[1] = i
    <2>1. stored[1] \in S
      BY <1>6, <1>8
    <2>2. i <= stored[1]
      BY <1>5, <2>1
    <2>3. stored[1] \in Int /\ i \in Int
      BY <1>4, <1>9, <2>1
    <2> QED  BY <1>12, <2>2, <2>3
  <1>14. Ascends(Tail(stored)) /\ Range(Tail(stored)) = S \ {i}
    <2> DEFINE t == Tail(stored)
    <2>1. t \in Seq(Ops) /\ Without(t, stored, 1)
      BY <1>8
    <2> HIDE DEF t
    <2>2. Ascends(t) /\ Range(t) = Range(stored) \ {stored[1]}
      BY <1>6, <1>8, <1>9, <1>11, <2>1, WithoutProperties
    <2> QED  BY <1>6, <1>13, <2>2 DEF t
  <1> QED  BY <1>2, <1>3, <1>4, <1>8, <1>14 DEF S, i

\* The structure after operation i has been taken from the queue: it waits for its
\* answer, or has been told; only a QoS 0 publish is told of a success here.
TakenAs(y, i, kind) ==
    /\ Shape(y) /\ y.commands = Tail(m.commands)
    /\ y.buffered = IF i \in Publishes THEN m.buffered - 1 ELSE m.buffered
    /\ Distinct(y.outbound)
    /\ Range(y.outbound) = IF OpType[i] = "PUBLISH1" THEN Range(m.outbound) \cup {i}
                           ELSE Range(m.outbound)
    /\ y.token = m.token /\ y.held = m.held /\ y.connected = m.connected
    /\ y.pendingWrite = m.pendingWrite \/ (y.pendingWrite = i /\ OpType[i] = "PUBLISH0")
    /\ NetInv(y.net) /\ OnWire(y.net) \subseteq OnWire(m.net) \cup {i}
    /\ InOps(y.net) \subseteq InOps(m.net)
    /\ Distinct(y.responses)
    /\ \/ Range(y.responses) = Range(m.responses) \cup {i} /\ y.told = m.told
       \/ /\ y.responses = m.responses
          /\ OpType[i] = "PUBLISH0" \/ i \notin OnWire(y.net)
          /\ y.told[i] = Append(m.told[i], kind) /\ \A j \in Ops \ {i} : y.told[j] = m.told[j]
    /\ kind = "failure" \/ (kind = "success" /\ OpType[i] = "PUBLISH0")

LEMMA TakenFine ==
    ASSUME AsyncInv, m.commands # <<>>, IsOp(Head(m.commands)), m.connected,
           NEW y, NEW i, i = Head(m.commands).op, NEW kind, TakenAs(y, i, kind)
    PROVE  /\ Fine(y)
           /\ Moves(m, y, IF kind = "success" THEN {i} ELSE {})
           /\ (IF kind = "success" THEN {i} ELSE {}) \cap Acknowledged = {}
  <1> DEFINE S == OpsIn(m.commands)
  <1>1. Fine(m) /\ Shape(m) /\ PlaceInv(m) /\ TokenInv(m) /\ WireInv(m) /\ HeldInv(m) /\ StoreInv
    BY InvSound DEF Fine, AsyncInv
  <1>2. OrderedOps(m.commands)
    BY <1>1 DEF PlaceInv
  <1>3. /\ i \in S /\ i \in Ops /\ OrderedOps(y.commands) /\ OpsIn(y.commands) = S \ {i}
    BY <1>1, <1>2, HeadStored DEF TakenAs
  <1> HIDE DEF S
  <1>4. i \notin Range(m.responses) /\ i \notin Range(m.outbound) /\ i \notin OnWire(m.net)
    BY <1>1, <1>3 DEF PlaceInv, WireInv, S
  <1>5. Open(y) \subseteq Open(m) /\ i \in Open(m) /\ Open(m) \subseteq Ops
    <2>1. Open(m) \subseteq Ops /\ i \in Open(m)
      BY <1>1, <1>3, OpenTypes DEF Open, S
    <2>2. /\ Range(y.responses) \subseteq Range(m.responses) \cup {i}
          /\ Range(y.outbound) \subseteq Range(m.outbound) \cup {i}
      BY DEF TakenAs
    <2>3. OpsIn(y.commands) \subseteq OpsIn(m.commands)
      BY <1>3 DEF S
    <2> QED  BY <2>1, <2>2, <2>3 DEF Open
  <1>6. Range(y.responses) \subseteq Range(m.responses) \cup {i}
        /\ Range(m.responses) \subseteq Range(y.responses)
        /\ Range(y.outbound) \subseteq Range(m.outbound) \cup {i}
        /\ Range(m.outbound) \subseteq Range(y.outbound)
    BY DEF TakenAs
  <1>7. PlaceInv(y)
    <2>1. \A j \in Range(y.outbound) : OpType[j] = "PUBLISH1"
      <3>1. Range(y.outbound) = IF OpType[i] = "PUBLISH1" THEN Range(m.outbound) \cup {i}
                                ELSE Range(m.outbound)
        BY DEF TakenAs
      <3>2. \A j \in Range(m.outbound) : OpType[j] = "PUBLISH1"
        BY <1>1 DEF PlaceInv
      <3> QED  BY <3>1, <3>2
    <2>2. Apart => \A j \in Range(y.responses) : OpType[j] = "PUBLISH1" => j \in Range(y.outbound)
      BY <1>1, <1>6 DEF PlaceInv, TakenAs
    <2>3. \A j \in OpsIn(y.commands) : j \notin Range(y.responses) /\ j \notin Range(y.outbound)
      BY <1>1, <1>3, <1>6 DEF PlaceInv, S
    <2>4. y.pendingWrite # 0 => OpType[y.pendingWrite] = "PUBLISH0"
      BY <1>1 DEF PlaceInv, TakenAs
    <2> QED  BY <1>3, <2>1, <2>2, <2>3, <2>4 DEF PlaceInv, TakenAs
  <1>8. TokenInv(y)
    <2>1. y.token = m.token
      BY DEF TakenAs
    <2> QED  BY <1>1, <1>5, <2>1 DEF TokenInv
  <1>9. WireInv(y)
    <2> SUFFICES ASSUME NEW j \in OnWire(y.net)
                 PROVE  y.connected /\ j \notin OpsIn(y.commands) /\ (Apart => Waits(y, j))
      BY DEF WireInv, TakenAs
    <2>1. CASE j = i
      <3>1. OpType[i] = "PUBLISH1" => i \in Range(y.outbound)
        BY DEF TakenAs
      <3>2. OpType[i] \in {"SUBSCRIBE", "UNSUBSCRIBE"} => i \in Range(y.responses)
        BY <2>1 DEF TakenAs
      <3> QED  BY <1>3, <2>1, <3>1, <3>2 DEF Waits, TakenAs
    <2>2. CASE j # i
      <3>1. j \in OnWire(m.net)
        BY <2>2 DEF TakenAs
      <3>2. j \notin S /\ (Apart => Waits(m, j))
        BY <1>1, <3>1 DEF WireInv, S
      <3> QED  BY <1>3, <1>6, <3>2 DEF Waits, TakenAs
    <2> QED  BY <2>1, <2>2
  <1>10. HeldInv(y)
    <2> SUFFICES ASSUME m.held.type = "SUBACK" PROVE HeldInv(y)
      BY DEF HeldInv, TakenAs
    <2>1. /\ m.held.pack.op # 0 /\ OpType[m.held.pack.op] \in {"SUBSCRIBE", "UNSUBSCRIBE"}
          /\ m.held.pack.op \notin S /\ m.held.pack.op \notin OnWire(m.net)
          /\ Apart => m.held.pack.op \in Range(m.responses)
      BY <1>1 DEF HeldInv, S
    <2>2. m.held.pack.op # i
      BY <1>3, <2>1
    <2>3. m.held.pack.op \notin OnWire(y.net) /\ m.held.pack.op \notin OpsIn(y.commands)
      BY <1>3, <2>1, <2>2 DEF TakenAs
    <2> QED  BY <1>6, <2>1, <2>3 DEF HeldInv, TakenAs
  <1>11. Fine(y)
    BY <1>7, <1>8, <1>9, <1>10 DEF Fine, TakenAs
  <1> DEFINE good == IF kind = "success" THEN {i} ELSE {}
  <1>12. Moves(m, y, good)
    <2>1. OnWire(y.net) \subseteq OnWire(m.net) \cup Open(m)
      BY <1>5 DEF TakenAs
    <2>2. Waiting(y) \subseteq Waiting(m)
      BY <1>3, <1>6 DEF Waiting, S
    <2>3. /\ \A j \in Waiting(m) \ Waiting(y) : Told(m, y, good, j)
          /\ \A j \in Ops \ (Waiting(m) \ Waiting(y)) : y.told[j] = m.told[j]
      <3>1. CASE Range(y.responses) = Range(m.responses) \cup {i} /\ y.told = m.told
        <4>1. Waiting(y) = Waiting(m)
          BY <1>3, <3>1 DEF Waiting, S
        <4> QED  BY <3>1, <4>1
      <3>2. CASE /\ y.responses = m.responses
                 /\ y.told[i] = Append(m.told[i], kind)
                 /\ \A j \in Ops \ {i} : y.told[j] = m.told[j]
        <4>1. Waiting(m) \ Waiting(y) = {i}
          BY <1>3, <1>4, <3>2 DEF Waiting, S
        <4>2. Told(m, y, good, i)
          BY <3>2 DEF Told, TakenAs
        <4> QED  BY <3>2, <4>1, <4>2
      <3> QED  BY <3>1, <3>2 DEF TakenAs
    <2> HIDE DEF good
    <2> QED  BY <1>5, <2>1, <2>2, <2>3 DEF Moves, TakenAs
  <1>13. good \cap Acknowledged = {}
    BY DEF TakenAs, Acknowledged
  <1> QED  BY <1>11, <1>12, <1>13

\* processCommand, once the operation is known to be taken as TakenAs says.
LEMMA TakenStep ==
    ASSUME AsyncInv, m.commands # <<>>, IsOp(Head(m.commands)), NEW z, NEW good,
           Fine(z), Moves(m, z, good), good \cap Acknowledged = {},
           OpsIn(z.commands) = OpsIn(Tail(m.commands)),
           z.buffered = IF Head(m.commands).op \in Publishes THEN m.buffered - 1 ELSE m.buffered,
           Become(z), stored' = Tail(stored), written' \subseteq Ops,
           UNCHANGED <<call, got, asked>>
    PROVE  /\ AsyncInv'
           /\ \A j \in Ops : "success" \in Range(replies'[j]) =>
                  "success" \in Range(replies[j]) \/ j \in good
  <1> DEFINE i == Head(m.commands).op
             S == OpsIn(m.commands)
  <1>1. Shape(m) /\ OrderedOps(m.commands) /\ StoreInv
    BY InvSound DEF Sound, AsyncInv
  <1>2. /\ i \in S /\ i \in Ops /\ OpsIn(z.commands) = S \ {i}
        /\ Tail(stored) \in Seq(Ops) /\ Ascends(Tail(stored))
        /\ Range(Tail(stored)) = S \ {i}
    BY <1>1, HeadStored
  <1>3. AskedKept
    BY DEF AsyncInv, OtherTypes, AskedType, AskedKept
  <1>4. /\ Fine(m)' /\ OtherTypes' /\ CallInv' /\ ReadInv'
        /\ m'.commands = z.commands /\ m'.buffered = z.buffered
        /\ \A j \in Ops : "success" \in Range(replies'[j]) =>
               "success" \in Range(replies[j]) \/ j \in good
    BY <1>3, BecomeStep
  <1> HIDE DEF i, S
  <1>5. z.buffered = Cardinality((S \ {i}) \cap Publishes) /\ z.buffered <= MaxBuffered
    <2>1. S \in SUBSET Ops
      BY <1>1, OpenTypes DEF S
    <2>2. m.buffered = Cardinality(S \cap Publishes) /\ m.buffered <= MaxBuffered
      BY <1>1 DEF StoreInv, S
    <2>3. Cardinality(S \cap Publishes) \in Nat
      BY <1>2, <2>1, QueuedPublishes
    <2>4. Cardinality((S \ {i}) \cap Publishes) =
              IF i \in Publishes THEN m.buffered - 1 ELSE m.buffered
      BY <1>2, <2>1, <2>2, QueuedPublishes
    <2>5. z.buffered = IF i \in Publishes THEN m.buffered - 1 ELSE m.buffered
      BY DEF i
    <2>6. MaxBuffered \in Nat
      BY AsyncAssumption
    <2> QED  BY <2>2, <2>3, <2>4, <2>5, <2>6
  <1>6. StoreInv'
    BY <1>2, <1>4, <1>5 DEF StoreInv
  <1> QED  BY <1>4, <1>6 DEF AsyncInv

\* What taking operation i from the queue does to the order of what is written: it
\* is appended to what is written, or it is the one partly written, or neither.
PutAs(y, i) ==
    /\ OpsIn(y.commands) \subseteq OpsIn(m.commands) \ {i}
    /\ OutAscends(m.net) /\ (\A j \in OutOps(m.net) : j < i) => OutAscends(y.net)
    /\ OutOps(y.net) \subseteq OutOps(m.net) \cup {i} /\ Range(y.net.pending) \subseteq {i}
    /\ i \in OutOps(y.net) => Range(y.net.pending) = {}
    /\ Range(y.responses) \subseteq Range(m.responses) \cup {i}
    /\ i \in Range(y.responses) /\ OpType[i] = "PUBLISH0" =>
           y.pendingWrite = i /\ y.net.pending = <<i>>

LEMMA TakenOrder ==
    ASSUME AsyncInv, m.commands # <<>>, IsOp(Head(m.commands)), m.connected,
           m.net.pending = <<>>, NEW i, i = Head(m.commands).op, NEW z, NEW good,
           Fine(z), Become(z), PutAs(z, i),
           UNCHANGED <<call, got>>, written \subseteq written', good \subseteq written',
           \A j \in Ops : "success" \in Range(replies'[j]) =>
               "success" \in Range(replies[j]) \/ j \in good
    PROVE  Ordered => Ordered'
  <1> SUFFICES ASSUME Ordered PROVE Ordered'
    OBVIOUS
  <1>1. Sound(m)
    BY InvSound
  <1>2. /\ i \in Ops /\ i \in OpsIn(m.commands)
        /\ \A j \in OpsIn(m.commands) : i <= j
    BY <1>1, DetachedFields
  <1>3. OpsIn(m.commands) \subseteq Ops
    BY <1>1, OpenTypes DEF Sound
  <1>4. \A j \in OpsIn(m.commands) \ {i} : i < j
    BY <1>2, <1>3 DEF Ops
  <1>5. \A j \in Range(got) \cup OutOps(m.net) : j < i
    BY <1>2 DEF Ordered, OrderInv
  <1>6. /\ m'.net = z.net /\ m'.commands = z.commands /\ m'.connected = z.connected
        /\ m'.responses = z.responses /\ m'.pendingWrite = z.pendingWrite
    <2>1. m' = Reset(z)
      BY BecomeIs
    <2> QED  BY <2>1, ResetFine DEF Fields
  <1>7. OutAscends(z.net)
    BY <1>5 DEF PutAs, Ordered, OrderInv
  <1>8. \A j \in Range(z.responses) : OpType[j] = "PUBLISH0" =>
            z.pendingWrite = j /\ z.net.pending = <<j>>
    <2> SUFFICES ASSUME NEW j \in Range(z.responses), OpType[j] = "PUBLISH0"
                 PROVE  z.pendingWrite = j /\ z.net.pending = <<j>>
      OBVIOUS
    <2>1. j \notin Range(m.responses)
      <3>1. m.net.pending # <<j>>
        OBVIOUS
      <3> QED  BY <3>1 DEF Ordered, CleanInv
    <2>2. j = i
      BY <2>1 DEF PutAs
    <2> QED  BY <2>2 DEF PutAs
  <1>9. \A j \in Ops \ Acknowledged : "success" \in Range(replies'[j]) =>
            "success" \in Range(replies[j]) \/ j \in written'
    OBVIOUS
  <1>10. /\ OpsIn(m'.commands) \subseteq OpsIn(m.commands)
         /\ \A j \in OpsIn(m'.commands) : i < j
    BY <1>4, <1>6 DEF PutAs
  <1>11. /\ OutOps(m'.net) \subseteq OutOps(m.net) \cup {i} /\ Range(m'.net.pending) \subseteq {i}
         /\ i \in OutOps(m'.net) => Range(m'.net.pending) = {}
    BY <1>6 DEF PutAs
  <1>12. /\ OutAscends(m'.net)
         /\ \A j \in Range(m'.responses) : OpType[j] = "PUBLISH0" =>
                m'.pendingWrite = j /\ (m'.connected => m'.net.pending = <<j>>)
    BY <1>6, <1>7, <1>8
  <1> QED  BY <1>2, <1>5, <1>9, <1>10, <1>11, <1>12, OrderStep

LEMMA DisconnectReply ==
    ASSUME NEW x, Shape(x), NEW i, NEW kind
    PROVE  Reply(DisconnectInternal(x), i, kind) = DisconnectInternal(Reply(x, i, kind))
  <1> DEFINE d == DisconnectCommand(TRUE)
             r == Reply(x, i, kind)
             told == [x.told EXCEPT ![i] = Append(x.told[i], kind)]
  <1>1. DOMAIN x = Fields /\ x = [f \in Fields |-> x[f]]
    BY DEF Shape
  <1>2. r = [x EXCEPT !.told = told]
    BY <1>1 DEF Reply, Fields
  <1>3. r.connected = x.connected /\ r.commands = x.commands
    BY <1>1, <1>2 DEF Fields
  <1>4. \A y : Started(y, d) = d
    BY DEF Started, DisconnectCommand
  <1> HIDE DEF d
  <1>5. CASE ~x.connected \/ Ignored(x)
    <2>1. DisconnectInternal(x) = x /\ DisconnectInternal(r) = r
      BY <1>3, <1>5 DEF DisconnectInternal, AddFirst, Ignored
    <2> QED  BY <2>1
  <1>6. CASE x.connected /\ ~Ignored(x)
    <2> DEFINE s == <<d>> \o x.commands
    <2>1. DisconnectInternal(x) = [x EXCEPT !.commands = s]
      BY <1>1, <1>4, <1>6 DEF DisconnectInternal, AddFirst, Fields, d
    <2>2. DisconnectInternal(r) = [r EXCEPT !.commands = s]
      <3>1. ~Ignored(r)
        BY <1>3, <1>6 DEF Ignored
      <3>2. DisconnectInternal(r) = [r EXCEPT !.commands = <<Started(r, d)>> \o @]
        BY <1>3, <1>6, <3>1 DEF DisconnectInternal, AddFirst, d
      <3> HIDE DEF r
      <3>3. <<Started(r, d)>> \o r.commands = s
        BY <1>3, <1>4
      <3>4. DOMAIN r = Fields
        BY <1>1, <1>2
      <3> QED  BY <3>2, <3>3, <3>4 DEF Fields
    <2> HIDE DEF s, told
    <2>3. Reply([x EXCEPT !.commands = s], i, kind) = [r EXCEPT !.commands = s]
      <3> DEFINE u == [x EXCEPT !.commands = s]
      <3>1. u.told = x.told /\ DOMAIN u = Fields
        BY <1>1 DEF Fields
      <3>2. Reply(u, i, kind) = [u EXCEPT !.told = told]
        BY <3>1 DEF Reply, told, Fields
      <3> QED  BY <1>1, <1>2, <3>2 DEF Fields
    <2> QED  BY <2>1, <2>2, <2>3
  <1> QED  BY <1>5, <1>6

LEMMA ProcessOpStep ==
    ASSUME AsyncInv, ProcessOp
    PROVE  AsyncInv' /\ (Ordered => Ordered')
  <1> DEFINE i == Head(m.commands).op
             t == Tail(m.commands)
             b == IF i \in Publishes THEN m.buffered - 1 ELSE m.buffered
             o == IF OpType[i] = "PUBLISH1" THEN Append(m.outbound, i) ELSE m.outbound
             pw == IF OpType[i] = "PUBLISH0" THEN i ELSE m.pendingWrite
             base == [m EXCEPT !.commands = t, !.buffered = b, !.outbound = o]
             r == Append(m.responses, i)
             n1 == [m.net EXCEPT !.out = Append(m.net.out, Packet(OpType[i], i))]
             n2 == [m.net EXCEPT !.pending = <<i>>]
             say(kind) == [m.told EXCEPT ![i] = Append(m.told[i], kind)]
             y1 == [base EXCEPT !.net = n1, !.told = say("success")]
             y2 == [base EXCEPT !.net = n1, !.responses = r]
             y3 == [base EXCEPT !.net = n2, !.pendingWrite = pw, !.responses = r]
             y4 == [base EXCEPT !.pendingWrite = pw, !.told = say("failure")]
  <1>1. Fine(m) /\ Shape(m) /\ PlaceInv(m) /\ WireInv(m) /\ OtherTypes /\ StoreInv
    BY InvSound DEF Fine, AsyncInv
  <1>2. /\ m.commands # <<>> /\ IsOp(Head(m.commands)) /\ m.connected /\ m.net.pending = <<>>
        /\ stored' = Tail(stored) /\ UNCHANGED <<call, got, asked>>
        /\ written' = written \cup {i} \/ UNCHANGED written
    BY DEF ProcessOp, Ready
  <1>3. /\ i \in OpsIn(m.commands) /\ i \in Ops /\ t \in Seq(Commands)
    <2>1. OrderedOps(m.commands)
      BY <1>1 DEF PlaceInv
    <2> QED  BY <1>1, <1>2, <2>1, HeadStored
  <1>4. i \notin Range(m.responses) /\ i \notin Range(m.outbound) /\ i \notin OnWire(m.net)
    BY <1>1, <1>3 DEF PlaceInv, WireInv
  <1>5. DOMAIN m = Fields /\ m = [f \in Fields |-> m[f]]
    BY <1>1 DEF Shape
  <1>6. Taken(m, i) = base
    BY <1>5 DEF Taken, Detached, Fields
  <1>7. \/ OpType[i] = "PUBLISH0" /\ Become(y1) /\ i \in written'
        \/ OpType[i] # "PUBLISH0" /\ Become(y2)
        \/ Become(y3)
        \/ Become(WriteFailed(base, i))
    <2>1. /\ Reply(Write(base, i), i, "success") = y1
          /\ Await(Write(base, i), i) = y2
          /\ Await(WritePartly(base, i), i) = y3
      <3> HIDE DEF t, b, o, i
      <3>1. base.net = m.net /\ base.told = m.told /\ base.responses = m.responses
            /\ base.pendingWrite = m.pendingWrite /\ DOMAIN base = Fields
        BY <1>5 DEF Fields
      <3> HIDE DEF base
      <3>2. DOMAIN m.net = {"out", "in", "pending", "broken"}
        BY <1>1 DEF Shape, Sockets
      <3>3. Reply(Write(base, i), i, "success") = y1
        BY <3>1, <3>2 DEF Reply, Write, Fields
      <3>4. Await(Write(base, i), i) = y2
        BY <3>1, <3>2 DEF Await, Write, Fields
      <3>5. Await(WritePartly(base, i), i) = y3
        BY <3>1, <3>2 DEF Await, WritePartly, Fields
      <3> QED  BY <3>3, <3>4, <3>5
    <2>2. \/ /\ Become(IF OpType[i] = "PUBLISH0" THEN Reply(Write(base, i), i, "success")
                       ELSE Await(Write(base, i), i))
             /\ written' = written \cup {i}
          \/ Become(Await(WritePartly(base, i), i))
          \/ Become(WriteFailed(base, i))
      <3> HIDE DEF base
      <3> QED  BY <1>6 DEF ProcessOp
    <2> HIDE DEF y1, y2, y3, base, i
    <2> QED  BY <2>1, <2>2
  <1>8. /\ b \in Int /\ o \in Seq(Ops) /\ Distinct(o) /\ pw \in 0..NOps
        /\ Range(o) = IF OpType[i] = "PUBLISH1" THEN Range(m.outbound) \cup {i} ELSE Range(m.outbound)
        /\ r \in Seq(Ops) /\ Distinct(r) /\ Range(r) = Range(m.responses) \cup {i}
    <2>1. m.buffered \in Int /\ m.pendingWrite \in 0..NOps /\ m.outbound \in Seq(Ops) /\ m.responses \in Seq(Ops)
      BY <1>1 DEF Shape
    <2>2. ASSUME NEW s \in Seq(Ops), Distinct(s), i \notin Range(s)
          PROVE  Append(s, i) \in Seq(Ops) /\ Distinct(Append(s, i)) /\ Range(Append(s, i)) = Range(s) \cup {i}
      <3> DEFINE a == Append(s, i)
      <3> HIDE DEF i
      <3>1. /\ a \in Seq(Ops) /\ DOMAIN a = DOMAIN s \cup {Len(s) + 1}
            /\ \A k \in DOMAIN s : a[k] = s[k]
            /\ a[Len(s) + 1] = i /\ Range(a) = Range(s) \cup {i}
        BY <1>3, AppendPositions
      <3>2. \A k \in DOMAIN s : s[k] \in Range(s)
        BY InRange
      <3> HIDE DEF a
      <3>3. Distinct(a)
        BY <2>2, <3>1, <3>2 DEF Distinct
      <3> QED  BY <3>1, <3>3 DEF a
    <2>3. Distinct(m.outbound) /\ Distinct(m.responses)
      BY <1>1 DEF PlaceInv
    <2> HIDE DEF i
    <2>4. r \in Seq(Ops) /\ Distinct(r) /\ Range(r) = Range(m.responses) \cup {i}
      BY <1>4, <2>1, <2>2, <2>3
    <2>5. /\ o \in Seq(Ops) /\ Distinct(o)
          /\ Range(o) = IF OpType[i] = "PUBLISH1" THEN Range(m.outbound) \cup {i} ELSE Range(m.outbound)
      <3>1. CASE OpType[i] = "PUBLISH1"
        BY <1>4, <2>1, <2>2, <2>3, <3>1
      <3>2. CASE OpType[i] # "PUBLISH1"
        BY <2>1, <2>3, <3>2
      <3> QED  BY <3>1, <3>2
    <2>6. b \in Int
      BY <2>1
    <2>7. pw \in 0..NOps
      BY <1>3, <2>1, AsyncAssumption DEF Ops
    <2> QED  BY <2>4, <2>5, <2>6, <2>7
  <1>9. ASSUME NEW kind \in Kinds
        PROVE  /\ say(kind) \in [Ops -> Seq(Kinds)] /\ say(kind)[i] = Append(m.told[i], kind)
               /\ \A j \in Ops \ {i} : say(kind)[j] = m.told[j]
    <2>1. m.told \in [Ops -> Seq(Kinds)] /\ Append(m.told[i], kind) \in Seq(Kinds)
      BY <1>1, <1>3, AppendPositions DEF Shape
    <2> HIDE DEF i
    <2> QED  BY <1>3, <2>1
  <1>10. /\ n1 \in Sockets /\ NetInv(n1) /\ OnWire(n1) \subseteq OnWire(m.net) \cup {i}
         /\ InOps(n1) \subseteq InOps(m.net) /\ OutOps(n1) = OutOps(m.net) \cup {i}
         /\ n1.pending = <<>>
         /\ OutAscends(m.net) /\ (\A j \in OutOps(m.net) : j < i) => OutAscends(n1)
    <2>1. m.net \in Sockets /\ NetInv(m.net)
      BY <1>1 DEF Shape, WireInv
    <2>2. i \notin OutOps(m.net) \cup InOps(m.net)
      BY <1>4 DEF OnWire
    <2>3. Packet(OpType[i], i) \in Packets
      BY <1>3, AsyncAssumption, AnswerKinds DEF Packet, Packets, Ops
    <2>4. n1 \in Sockets /\ n1.in = m.net.in /\ n1.pending = <<>>
          /\ n1.out = Append(m.net.out, Packet(OpType[i], i))
      <3>1. Append(m.net.out, Packet(OpType[i], i)) \in Seq(Packets)
        BY <2>1, <2>3, AppendPositions DEF Sockets
      <3> QED  BY <1>2, <2>1, <3>1 DEF Sockets
    <2> HIDE DEF n1, i
    <2>5. /\ NetInv(n1) /\ OnWire(n1) = OutOps(m.net) \cup {i} \cup InOps(m.net)
          /\ InOps(n1) = InOps(m.net) /\ OutOps(n1) = OutOps(m.net) \cup {i}
      BY <1>3, <2>1, <2>2, <2>4, WrittenNet
    <2>6. OutAscends(m.net) /\ (\A j \in OutOps(m.net) : j < i) => OutAscends(n1)
      BY <1>3, <2>1, <2>4, WrittenOrder
    <2> QED  BY <2>4, <2>5, <2>6 DEF OnWire
  <1>11. /\ n2 \in Sockets /\ NetInv(n2) /\ OnWire(n2) \subseteq OnWire(m.net) \cup {i}
         /\ InOps(n2) \subseteq InOps(m.net) /\ OutOps(n2) = OutOps(m.net)
         /\ n2.out = m.net.out /\ n2.pending = <<i>>
    <2>1. m.net \in Sockets /\ NetInv(m.net)
      BY <1>1 DEF Shape, WireInv
    <2> HIDE DEF i
    <2>0. i \notin OutOps(m.net) /\ i \notin InOps(m.net)
      BY <1>4 DEF OnWire
    <2>2. n2 \in Sockets /\ n2.in = m.net.in /\ n2.out = m.net.out /\ n2.pending = <<i>>
      <3>1. <<i>> \in Seq(Ops)
        BY <1>3, RangeShort
      <3> QED  BY <2>1, <3>1 DEF Sockets
    <2> HIDE DEF n2
    <2>3. OutOps(n2) = OutOps(m.net) /\ InOps(n2) = InOps(m.net) /\ Range(n2.pending) = {i} /\ Len(n2.pending) = 1
      BY <2>2, RangeShort DEF OutOps, InOps
    <2>4. NetInv(n2)
      BY <2>0, <2>1, <2>2, <2>3 DEF NetInv
    <2> QED  BY <2>2, <2>3, <2>4 DEF OnWire
  <1>12. NetInv(m.net) /\ OnWire(m.net) \subseteq OnWire(m.net) \cup {i} /\ i \notin OnWire(m.net)
    BY <1>1, <1>4 DEF WireInv
  <1>13. /\ y1.net = n1 /\ y1.told = say("success") /\ y1.responses = m.responses /\ y1.pendingWrite = m.pendingWrite
         /\ y2.net = n1 /\ y2.told = m.told /\ y2.responses = r /\ y2.pendingWrite = m.pendingWrite
         /\ y3.net = n2 /\ y3.told = m.told /\ y3.responses = r /\ y3.pendingWrite = pw
         /\ y4.net = m.net /\ y4.told = say("failure") /\ y4.responses = m.responses /\ y4.pendingWrite = pw
    <2> HIDE DEF i, t, b, o, pw, r, n1, n2, say
    <2> QED  BY <1>5 DEF Fields
  <1>14. \A y \in {y1, y2, y3, y4} :
             /\ y.commands = t /\ y.buffered = b /\ y.outbound = o
             /\ DOMAIN y = Fields /\ y = [f \in Fields |-> y[f]]
             /\ \A f \in Fields \ {"commands", "buffered", "outbound", "net", "told", "responses", "pendingWrite"} : y[f] = m[f]
    <2> HIDE DEF i, t, b, o, pw, r, n1, n2, say
    <2>1. \A z \in {y1} :
             /\ z.commands = t /\ z.buffered = b /\ z.outbound = o
             /\ DOMAIN z = Fields /\ z = [f \in Fields |-> z[f]]
             /\ \A f \in Fields \ {"commands", "buffered", "outbound", "net", "told", "responses", "pendingWrite"} : z[f] = m[f]
      BY <1>5 DEF Fields
    <2>2. \A z \in {y2} :
             /\ z.commands = t /\ z.buffered = b /\ z.outbound = o
             /\ DOMAIN z = Fields /\ z = [f \in Fields |-> z[f]]
             /\ \A f \in Fields \ {"commands", "buffered", "outbound", "net", "told", "responses", "pendingWrite"} : z[f] = m[f]
      BY <1>5 DEF Fields
    <2>3. \A z \in {y3} :
             /\ z.commands = t /\ z.buffered = b /\ z.outbound = o
             /\ DOMAIN z = Fields /\ z = [f \in Fields |-> z[f]]
             /\ \A f \in Fields \ {"commands", "buffered", "outbound", "net", "told", "responses", "pendingWrite"} : z[f] = m[f]
      BY <1>5 DEF Fields
    <2>4. \A z \in {y4} :
             /\ z.commands = t /\ z.buffered = b /\ z.outbound = o
             /\ DOMAIN z = Fields /\ z = [f \in Fields |-> z[f]]
             /\ \A f \in Fields \ {"commands", "buffered", "outbound", "net", "told", "responses", "pendingWrite"} : z[f] = m[f]
      BY <1>5 DEF Fields
    <2> HIDE DEF y1, y2, y3, y4
    <2> QED  BY <2>1, <2>2, <2>3, <2>4
  <1> HIDE DEF y1, y2, y3, y4, t, b, o, pw, r, n1, n2, say, base
  <1>15. ASSUME NEW y \in {y1, y2, y3, y4}, NEW kind \in Kinds,
                kind = "success" => OpType[i] = "PUBLISH0",
                y.net \in Sockets, NetInv(y.net), OnWire(y.net) \subseteq OnWire(m.net) \cup {i},
                InOps(y.net) \subseteq InOps(m.net),
                y.pendingWrite \in {m.pendingWrite, pw},
                \/ y.responses = r /\ y.told = m.told
                \/ /\ y.responses = m.responses /\ y.told = say(kind)
                   /\ OpType[i] = "PUBLISH0" \/ i \notin OnWire(y.net)
         PROVE  TakenAs(y, i, kind)
    <2>1. /\ y.commands = t /\ y.buffered = b /\ y.outbound = o
          /\ DOMAIN y = Fields /\ y = [f \in Fields |-> y[f]]
          /\ y.connected = m.connected /\ y.state = m.state /\ y.should = m.should
          /\ y.retrying = m.retrying /\ y.now = m.now /\ y.connect = m.connect
          /\ y.disconnect = m.disconnect /\ y.msgID = m.msgID /\ y.token = m.token
          /\ y.held = m.held /\ y.toldConn = m.toldConn
      BY <1>14 DEF Fields
    <2>2. y.told \in [Ops -> Seq(Kinds)] /\ y.responses \in Seq(Ops) /\ Distinct(y.responses)
      BY <1>1, <1>8, <1>9, <1>15 DEF Shape, PlaceInv
    <2>3. y.pendingWrite \in 0..NOps
      BY <1>1, <1>8, <1>15 DEF Shape
    <2>4. Shape(y)
      BY <1>1, <1>3, <1>8, <1>15, <2>1, <2>2, <2>3 DEF Shape
    <2>5. y.pendingWrite = m.pendingWrite \/ (y.pendingWrite = i /\ OpType[i] = "PUBLISH0")
      BY <1>15 DEF pw
    <2>6. /\ y.commands = Tail(m.commands)
          /\ y.buffered = IF i \in Publishes THEN m.buffered - 1 ELSE m.buffered
      BY <2>1 DEF t, b
    <2>7. kind = "failure" \/ (kind = "success" /\ OpType[i] = "PUBLISH0")
      BY <1>15 DEF Kinds
    <2>8. \/ Range(y.responses) = Range(m.responses) \cup {i} /\ y.told = m.told
          \/ /\ y.responses = m.responses
             /\ OpType[i] = "PUBLISH0" \/ i \notin OnWire(y.net)
             /\ y.told[i] = Append(m.told[i], kind) /\ \A j \in Ops \ {i} : y.told[j] = m.told[j]
      BY <1>8, <1>9, <1>15
    <2> HIDE DEF i
    <2> QED  BY <1>8, <1>15, <2>1, <2>2, <2>4, <2>5, <2>6, <2>7, <2>8 DEF TakenAs
  <1>16. written' \subseteq Ops
    BY <1>1, <1>2, <1>3 DEF OtherTypes
  <1>17. ASSUME NEW y, NEW kind, TakenAs(y, i, kind), PutAs(y, i), Become(y),
                kind = "success" => i \in written'
         PROVE  AsyncInv' /\ (Ordered => Ordered')
    <2>1. /\ Fine(y) /\ Moves(m, y, IF kind = "success" THEN {i} ELSE {})
          /\ (IF kind = "success" THEN {i} ELSE {}) \cap Acknowledged = {}
      BY <1>2, <1>17, TakenFine
    <2>2. /\ OpsIn(y.commands) = OpsIn(Tail(m.commands))
          /\ y.buffered = IF Head(m.commands).op \in Publishes THEN m.buffered - 1 ELSE m.buffered
      BY <1>17 DEF TakenAs
    <2> DEFINE good == IF kind = "success" THEN {i} ELSE {}
    <2>3. /\ Fine(y) /\ Moves(m, y, good) /\ good \cap Acknowledged = {}
          /\ good \subseteq written'
      BY <1>17, <2>1
    <2> HIDE DEF good
    <2>4. /\ AsyncInv'
          /\ \A j \in Ops : "success" \in Range(replies'[j]) =>
                 "success" \in Range(replies[j]) \/ j \in good
      <3> HIDE DEF i
      <3> QED  BY <1>2, <1>16, <1>17, <2>2, <2>3, TakenStep
    <2>5. i = Head(m.commands).op /\ written \subseteq written'
      BY <1>2
    <2> HIDE DEF i
    <2> QED  BY <1>2, <1>17, <2>3, <2>4, <2>5, TakenOrder
  <1>22. /\ OpsIn(t) = OpsIn(m.commands) \ {i} /\ Range(m.net.pending) = {}
          /\ i \notin OutOps(m.net)
    <2>1. OpsIn(t) = OpsIn(m.commands) \ {i}
      BY <1>1, <1>2, HeadStored DEF i, t, PlaceInv
    <2> HIDE DEF i
    <2> QED  BY <1>2, <1>4, <2>1, RangeShort DEF OnWire
  <1>18. CASE OpType[i] = "PUBLISH0" /\ Become(y1) /\ i \in written'
    <2>1. TakenAs(y1, i, "success")
      BY <1>10, <1>13, <1>15, <1>18 DEF Kinds
    <2>2. PutAs(y1, i)
      BY <1>4, <1>10, <1>13, <1>14, <1>22, RangeShort DEF PutAs
    <2> QED  BY <1>17, <1>18, <2>1, <2>2
  <1>19. CASE OpType[i] # "PUBLISH0" /\ Become(y2)
    <2>1. TakenAs(y2, i, "failure")
      BY <1>10, <1>13, <1>15 DEF Kinds
    <2>2. PutAs(y2, i)
      BY <1>8, <1>10, <1>13, <1>14, <1>22, <1>19, RangeShort DEF PutAs
    <2> QED  BY <1>17, <1>19, <2>1, <2>2
  <1>20. CASE Become(y3)
    <2>1. TakenAs(y3, i, "failure")
      BY <1>11, <1>13, <1>15 DEF Kinds
    <2>2. PutAs(y3, i)
      <3>1. /\ y3.commands = t /\ y3.net = n2 /\ y3.responses = r /\ y3.pendingWrite = pw
            /\ Range(y3.net.pending) = {i}
        BY <1>11, <1>13, <1>14, RangeShort, ZenonT(40)
      <3>2. OutAscends(m.net) => OutAscends(n2)
        BY <1>11 DEF OutAscends
      <3>3. OpType[i] = "PUBLISH0" => pw = i
        BY DEF pw
      <3> HIDE DEF i
      <3> QED  BY <1>8, <1>11, <1>22, <3>1, <3>2, <3>3 DEF PutAs
    <2> QED  BY <1>17, <1>20, <2>1, <2>2
  <1>21. CASE Become(WriteFailed(base, i))
    <2>1. TakenAs(y4, i, "failure")
      <3>1. m.net \in Sockets
        BY <1>1 DEF Shape
      <3> QED  BY <1>12, <1>13, <1>15, <3>1 DEF Kinds
    <2>2. Fine(y4) /\ Moves(m, y4, {})
      <3>1. Fine(y4) /\ Moves(m, y4, IF "failure" = "success" THEN {i} ELSE {})
        BY <1>2, <2>1, TakenFine
      <3>2. (IF "failure" = "success" THEN {i} ELSE {}) = {}
        OBVIOUS
      <3> QED  BY <3>1, <3>2
    <2>3. WriteFailed(base, i) = DisconnectInternal(y4)
      <3> DEFINE u == [base EXCEPT !.pendingWrite = pw]
      <3>1. WriteFailed(base, i) = Reply(DisconnectInternal(u), i, "failure")
        <4>1. base.pendingWrite = m.pendingWrite
          BY <1>5 DEF base, Fields
        <4> QED  BY <4>1 DEF WriteFailed, pw
      <3>2. Reply(u, i, "failure") = y4
        <4>1. DOMAIN base = Fields /\ base.told = m.told
          BY <1>5 DEF base, Fields
        <4> QED  BY <4>1 DEF Reply, y4, say, Fields
      <3>3. Shape(u)
        <4>1. DOMAIN base = Fields /\ base = [f \in Fields |-> base[f]]
              /\ base.commands = t /\ base.buffered = b /\ base.outbound = o
              /\ \A f \in Fields \ {"commands", "buffered", "outbound"} : base[f] = m[f]
          BY <1>5 DEF base, Fields
        <4>2. /\ DOMAIN u = Fields /\ u = [f \in Fields |-> u[f]]
              /\ u.commands = t /\ u.buffered = b /\ u.outbound = o /\ u.pendingWrite = pw
              /\ \A f \in Fields \ {"commands", "buffered", "outbound", "pendingWrite"} : u[f] = m[f]
          BY <4>1 DEF Fields
        <4> HIDE DEF u
        <4>3. /\ u.connected = m.connected /\ u.state = m.state /\ u.should = m.should
              /\ u.retrying = m.retrying /\ u.now = m.now /\ u.connect = m.connect
              /\ u.disconnect = m.disconnect /\ u.msgID = m.msgID /\ u.token = m.token
              /\ u.held = m.held /\ u.toldConn = m.toldConn /\ u.told = m.told
              /\ u.responses = m.responses /\ u.net = m.net
          BY <4>2 DEF Fields
        <4> QED  BY <1>1, <1>3, <1>8, <4>2, <4>3 DEF Shape
      <3> HIDE DEF u
      <3>4. Reply(DisconnectInternal(u), i, "failure") = DisconnectInternal(Reply(u, i, "failure"))
        BY <3>3, DisconnectReply
      <3> QED  BY <3>1, <3>2, <3>4
    <2>4. Sound(y4)
      BY <2>2 DEF Fine, Sound, PlaceInv
    <2> DEFINE z == DisconnectInternal(y4)
    <2>5. Controls(y4, z) /\ Quietly(y4, z)
      BY <2>4, DisconnectInternalControls, ControlQuietly
    <2> HIDE DEF z
    <2>6. /\ Fine(z) /\ Moves(m, z, {})
          /\ OpsIn(z.commands) = OpsIn(y4.commands) /\ z.buffered = y4.buffered
      BY <1>1, <2>2, <2>5, ThenControls
    <2>7. /\ OpsIn(z.commands) = OpsIn(Tail(m.commands))
          /\ z.buffered = IF Head(m.commands).op \in Publishes THEN m.buffered - 1 ELSE m.buffered
      BY <2>1, <2>6 DEF TakenAs
    <2>8. Become(z)
      BY <1>21, <2>3 DEF z
    <2>9. /\ AsyncInv'
          /\ \A j \in Ops : "success" \in Range(replies'[j]) =>
                 "success" \in Range(replies[j]) \/ j \in {}
      <3> HIDE DEF i
      <3> QED  BY <1>2, <1>16, <2>6, <2>7, <2>8, TakenStep
    <2>10. PutAs(z, i)
      <3>1. /\ OpsIn(z.commands) \subseteq OpsIn(t) /\ OutOps(z.net) \subseteq OutOps(m.net)
            /\ Range(z.net.pending) = {} /\ Range(z.responses) \subseteq Range(m.responses)
            /\ OutAscends(m.net) => OutAscends(z.net)
        BY <1>13, <1>14, <1>22, <2>5 DEF Quietly
      <3> HIDE DEF i
      <3> QED  BY <1>4, <1>22, <3>1 DEF PutAs
    <2>11. i = Head(m.commands).op /\ written \subseteq written'
      BY <1>2
    <2> HIDE DEF i
    <2> QED  BY <1>2, <2>6, <2>8, <2>9, <2>10, <2>11, TakenOrder
  <1> QED  BY <1>7, <1>18, <1>19, <1>20, <1>21

-----------------------------------------------------------------------------
(* The end of a process and the start of the next.                         *)

LEMMA FinitePublishes ==
    ASSUME NEW S \in SUBSET Ops
    PROVE  /\ IsFiniteSet(S \cap Publishes) /\ Cardinality(S \cap Publishes) \in Nat
           /\ \A T \in SUBSET S : Cardinality(T \cap Publishes) <= Cardinality(S \cap Publishes)
  <1>1. IsFiniteSet(Ops)
    BY AsyncAssumption, FS_Interval DEF Ops
  <1>2. IsFiniteSet(S \cap Publishes)
    BY <1>1, FS_Subset
  <1>3. Cardinality(S \cap Publishes) \in Nat
    BY <1>2, FS_CardinalityType
  <1>4. ASSUME NEW T \in SUBSET S
        PROVE  Cardinality(T \cap Publishes) <= Cardinality(S \cap Publishes)
    <2>1. T \cap Publishes \in SUBSET (S \cap Publishes)
      OBVIOUS
    <2> QED  BY <1>2, <2>1, FS_Subset
  <1> QED  BY <1>2, <1>3, <1>4

LEMMA CountPositions ==
    ASSUME NEW s \in Seq(Ops), Ascends(s)
    PROVE  /\ Distinct(s)
           /\ Cardinality({n \in DOMAIN s : s[n] \in Publishes}) =
                  Cardinality(Range(s) \cap Publishes)
  <1> DEFINE D == {n \in DOMAIN s : s[n] \in Publishes}
             T == Range(s) \cap Publishes
             f == [n \in D |-> s[n]]
  <1>1. /\ Len(s) \in Nat /\ DOMAIN s = 1..Len(s) /\ Range(s) \subseteq Ops
        /\ \A n \in DOMAIN s : s[n] \in Range(s) /\ s[n] \in Ops
        /\ \A e \in Range(s) : \E n \in DOMAIN s : s[n] = e
    BY InRange
  <1>2. Distinct(s)
    <2>1. DOMAIN s \subseteq Int
      BY <1>1
    <2>2. \A n \in DOMAIN s : s[n] \in Int
      BY <1>1 DEF Ops
    <2> QED  BY <2>1, <2>2 DEF Ascends, Distinct
  <1>3. IsFiniteSet(D)
    <2>1. IsFiniteSet(1..Len(s))
      BY <1>1, FS_Interval
    <2>2. D \in SUBSET (1..Len(s))
      BY <1>1
    <2> QED  BY <2>1, <2>2, FS_Subset
  <1>4. f \in Bijection(D, T)
    <2>1. f \in [D -> T]
      BY <1>1
    <2>2. \A a, b \in D : f[a] = f[b] => a = b
      BY <1>2 DEF Distinct
    <2>3. \A t \in T : \E n \in D : f[n] = t
      BY <1>1
    <2>4. DOMAIN f = D
      OBVIOUS
    <2> HIDE DEF f, D, T
    <2> QED  BY <2>1, <2>2, <2>3, <2>4 DEF Bijection, Injection, Surjection, IsInjective
  <1>5. ExistsBijection(D, T)
    BY <1>4 DEF ExistsBijection
  <1> HIDE DEF D, T
  <1>6. Cardinality(T) = Cardinality(D)
    BY <1>3, <1>5, FS_Bijection
  <1> QED  BY <1>2, <1>6 DEF D, T

\* MQTTAsync_create with the commands s on the disk.
Restores(y, s, o, told, toldConn) ==
    /\ s \in Seq(Ops) /\ Ascends(s) /\ Range(s) \subseteq OpsIn(m.commands)
    /\ o \in {m.outbound, <<>>} /\ told \in [Ops -> Seq(Kinds)]
    /\ toldConn \in [1..MaxConnects -> Seq(Kinds)]
    /\ y = [RestoreCommands(s) EXCEPT !.outbound = o, !.told = told, !.toldConn = toldConn]
IsRestored(y, s, o, told, toldConn) ==
    /\ Fine(y) /\ y.told = told /\ y.toldConn = toldConn
    /\ OpsIn(y.commands) = Range(s)
    /\ y.buffered = Cardinality(Range(s) \cap Publishes)
    /\ y.responses = <<>> /\ y.outbound = o /\ y.token = m.token
    /\ OnWire(y.net) = {} /\ InOps(y.net) = {} /\ y.held = Nothing

LEMMA RestoredQueue ==
    ASSUME NEW s \in Seq(Ops)
    PROVE  [n \in DOMAIN s |-> RestoreCommand(s[n])] \in Seq(Commands)
  <1> DEFINE k == Len(s)
             c == [n \in 1..k |-> RestoreCommand(s[n])]
  <1>1. k \in Nat /\ DOMAIN s = 1..k /\ \A n \in 1..k : s[n] \in Ops
    BY InRange
  <1>2. \A n \in 1..k : RestoreCommand(s[n]) \in Commands
    BY <1>1, CommandKinds DEF RestoreCommand
  <1> HIDE DEF k
  <1>3. c \in Seq(Commands)
    <2> DEFINE e(n) == RestoreCommand(s[n])
    <2>1. \A n \in 1..k : e(n) \in Commands
      BY <1>2
    <2> HIDE DEF e
    <2>2. [n \in 1..k |-> e(n)] \in [1..k -> Commands]
      BY <2>1
    <2>3. [n \in 1..k |-> e(n)] \in Seq(Commands)
      BY <1>1, <2>2
    <2> QED  BY <2>3 DEF e
  <1>4. [n \in DOMAIN s |-> RestoreCommand(s[n])] = c
    BY <1>1, Zenon
  <1> QED  BY <1>3, <1>4, Zenon

LEMMA RestoreFine ==
    ASSUME Fine(m), NEW y, NEW s, NEW o, NEW told, NEW toldConn, Restores(y, s, o, told, toldConn)
    PROVE  IsRestored(y, s, o, told, toldConn)
  <1> USE DEF Restores, IsRestored
  <1> DEFINE c == [n \in DOMAIN s |-> RestoreCommand(s[n])]
             b == Cardinality({n \in DOMAIN s : s[n] \in Publishes})
  <1>1. Shape(m) /\ PlaceInv(m) /\ TokenInv(m)
    BY DEF Fine
  <1>2. y = [Created EXCEPT !.commands = c, !.buffered = b, !.outbound = o, !.token = m.token,
                            !.told = told, !.toldConn = toldConn]
    BY ZenonT(40) DEF RestoreCommands, Created
  <1>3. /\ Len(s) \in Nat /\ DOMAIN s = 1..Len(s) /\ Range(s) \subseteq Ops
        /\ \A n \in DOMAIN s : s[n] \in Range(s) /\ s[n] \in Ops
        /\ \A e \in Range(s) : \E n \in DOMAIN s : s[n] = e
    BY InRange
  <1>4. /\ DOMAIN c = DOMAIN s
        /\ \A n \in DOMAIN c : c[n] = OpCommand(s[n])
        /\ \A n \in DOMAIN c : c[n] \in Commands /\ IsOp(c[n]) /\ c[n].op = s[n]
    BY <1>3, CommandKinds DEF RestoreCommand
  <1>5. c \in Seq(Commands)
    <2>1. s \in Seq(Ops)
      OBVIOUS
    <2>2. [n \in DOMAIN s |-> RestoreCommand(s[n])] \in Seq(Commands)
      BY ONLY <2>1, RestoredQueue
    <2> QED  BY ONLY <2>2 DEF c
  <1>6. b = Cardinality(Range(s) \cap Publishes) /\ b \in Int
    <2>1. b = Cardinality(Range(s) \cap Publishes)
      BY CountPositions
    <2>2. Range(s) \in SUBSET Ops
      BY <1>3
    <2>3. Cardinality(Range(s) \cap Publishes) \in Nat
      BY ONLY <2>2, FinitePublishes
    <2> HIDE DEF b
    <2> QED  BY ONLY <2>1, <2>3
  <1> HIDE DEF c, b
  <1>7. OpsIn(c) = Range(s)
    <2>1. OpsIn(c) \subseteq Range(s)
      BY <1>3, <1>4 DEF OpsIn
    <2>2. ASSUME NEW e \in Range(s) PROVE e \in OpsIn(c)
      <3>1. PICK n \in DOMAIN s : s[n] = e
        BY <1>3
      <3>2. n \in DOMAIN c /\ IsOp(c[n]) /\ c[n].op = e
        BY <1>4, <3>1
      <3> QED  BY <3>2 DEF OpsIn
    <2> QED  BY <2>1, <2>2
  <1>8. OrderedOps(c)
    BY <1>4 DEF OrderedOps, Ascends
  <1>9. /\ DOMAIN y = Fields /\ y = [f \in Fields |-> y[f]]
        /\ y.commands = c /\ y.buffered = b /\ y.outbound = o /\ y.token = m.token
        /\ y.told = told /\ y.toldConn = toldConn
        /\ y.connected = FALSE /\ y.state = "NOT_IN_PROGRESS" /\ y.should = FALSE
        /\ y.retrying = FALSE /\ y.now = FALSE
        /\ y.connect = ConnectCommand(0) /\ y.disconnect = DisconnectCommand(TRUE)
        /\ y.responses = <<>> /\ y.pendingWrite = 0 /\ y.msgID = 0
        /\ y.net = NewSocket /\ y.held = Nothing
    BY <1>2, ZenonT(40) DEF Created, Fields
  <1>10. /\ ConnectCommand(0) \in ConnectCommands /\ DisconnectCommand(TRUE) \in DisconnectCommands
         /\ HeldType(Nothing) /\ Nothing.type = "NONE" /\ 0 \in 0..MaxMsgId /\ 0 \in 0..NOps
    BY AsyncAssumption DEF ConnectCommand, ConnectCommands, DisconnectCommand, DisconnectCommands,
                           HeldType, Nothing
  <1>11. o \in Seq(Ops) /\ <<>> \in Seq(Ops) /\ Range(<<>>) = {} /\ DOMAIN <<>> = {}
    BY <1>1, RangeShort DEF Shape
  <1>12. Shape(y)
    <2>1. y.state \in States /\ (y.connected => y.state \in {"NOT_IN_PROGRESS", "DISCONNECTING"})
      BY <1>9 DEF States
    <2>2. m.token \in [Ops -> 0..MaxMsgId]
      BY <1>1 DEF Shape
    <2> QED  BY <1>5, <1>6, <1>9, <1>10, <1>11, <2>1, <2>2, NewSocketType DEF Shape
  <1>13. Distinct(o) /\ Range(o) \subseteq Range(m.outbound) /\ Distinct(<<>>)
    BY <1>1, <1>11 DEF PlaceInv, Distinct
  <1>14. PlaceInv(y)
    BY <1>1, <1>7, <1>8, <1>9, <1>11, <1>13 DEF PlaceInv
  <1>15. Open(y) \subseteq Open(m)
    BY <1>7, <1>9, <1>11, <1>13 DEF Open
  <1>16. TokenInv(y)
    BY <1>1, <1>9, <1>15 DEF TokenInv
  <1>17. NetInv(y.net) /\ OnWire(y.net) = {} /\ InOps(y.net) = {}
    <2>1. NetInv(NewSocket) /\ OnWire(NewSocket) = {}
      BY NewSocketType, QuietWire
    <2> QED  BY <1>9, <2>1 DEF OnWire
  <1>18. WireInv(y) /\ HeldInv(y)
    BY <1>9, <1>10, <1>17 DEF WireInv, HeldInv
  <1> QED  BY <1>6, <1>7, <1>9, <1>12, <1>14, <1>16, <1>17, <1>18 DEF Fine

LEMMA CrashStep ==
    ASSUME AsyncInv, Crash
    PROVE  AsyncInv' /\ Steady
  <1> DEFINE s == stored'
             S == OpsIn(m.commands)
  <1>1. Fine(m) /\ Shape(m) /\ OrderedOps(m.commands) /\ OtherTypes /\ StoreInv /\ CallInv /\ ReadInv
    BY InvSound DEF AsyncInv, Sound
  <1>2. /\ s = stored \/ (m.commands # <<>> /\ IsOp(Head(m.commands)) /\ s = Tail(stored))
        /\ m' = RestoreCommands(s)
        /\ call' = [i \in Ops |-> CASE call[i] = "calling" -> "refused"
                                    [] call[i] = "accepted" /\ replies[i] = <<>> -> "orphan"
                                    [] OTHER -> call[i]]
        /\ asked' = [asked EXCEPT !.conn = 0]
        /\ UNCHANGED <<replies, conns, written, got>>
    BY DEF Crash, Ready
  <1>3. s \in Seq(Ops) /\ Ascends(s) /\ Range(s) \subseteq S
    <2>1. CASE s = stored
      BY <1>1, <2>1 DEF StoreInv
    <2>2. CASE m.commands # <<>> /\ IsOp(Head(m.commands)) /\ s = Tail(stored)
      <3>1. Tail(stored) \in Seq(Ops) /\ Ascends(Tail(stored)) /\ Range(Tail(stored)) \subseteq S
        BY <1>1, <2>2, HeadStored
      <3> QED  BY <2>2, <3>1
    <2> QED  BY <1>2, <2>1, <2>2
  <1> HIDE DEF s, S
  <1>4. m' = [RestoreCommands(s) EXCEPT !.outbound = m.outbound, !.told = NoReplies,
                                        !.toldConn = NoConnReplies]
    <2> DEFINE r == RestoreCommands(s)
    <2>1. DOMAIN r = Fields /\ r = [f \in Fields |-> r[f]]
          /\ r.outbound = m.outbound /\ r.told = NoReplies /\ r.toldConn = NoConnReplies
      BY ZenonT(40) DEF RestoreCommands, Created, Fields
    <2> HIDE DEF r
    <2>2. r = [r EXCEPT !.outbound = m.outbound, !.told = NoReplies, !.toldConn = NoConnReplies]
      BY <2>1 DEF Fields
    <2> QED  BY <1>2, <2>2 DEF r
  <1>5. NoReplies \in [Ops -> Seq(Kinds)] /\ NoConnReplies \in [1..MaxConnects -> Seq(Kinds)]
    BY RangeShort DEF NoReplies, NoConnReplies
  <1>6. /\ Fine(m') /\ m'.told = NoReplies /\ m'.toldConn = NoConnReplies
        /\ OpsIn(m'.commands) = Range(s)
        /\ m'.buffered = Cardinality(Range(s) \cap Publishes)
        /\ m'.responses = <<>> /\ m'.outbound = m.outbound /\ m'.token = m.token
        /\ OnWire(m'.net) = {} /\ InOps(m'.net) = {} /\ m'.held = Nothing
    <2>1. Restores(m', s, m.outbound, NoReplies, NoConnReplies)
      BY <1>3, <1>4, <1>5 DEF S, Restores
    <2>2. IsRestored(m', s, m.outbound, NoReplies, NoConnReplies)
      BY <1>1, <2>1, RestoreFine
    <2> QED  BY <2>2 DEF IsRestored
  <1>a. (Apart' <=> Apart) /\ AskedType'
    <2>1. AskedType
      BY <1>1 DEF OtherTypes
    <2>2. /\ asked' = [f \in {"conn", "other", "left", "shared"} |-> asked'[f]]
          /\ asked'.conn = 0 /\ asked'.shared = asked.shared
      BY <1>2, <2>1 DEF AskedType
    <2> QED  BY <2>2 DEF AskedType, Apart
  <1>7. /\ Fine(m)' /\ Open(m)' \subseteq Open(m) /\ Waiting(m)' \subseteq Waiting(m)
        /\ OpsIn(m.commands)' = Range(s)
        /\ OnWire(m.net)' = {} /\ InOps(m.net)' = {} /\ (m.held.type)' = "NONE"
    <2>1. Fine(m)'
      BY <1>6, <1>a DEF Fine, Shape, PlaceInv, TokenInv, WireInv, HeldInv, Open, Waits
    <2>2. Range(m'.responses) = {}
      BY <1>6, RangeShort
    <2> QED  BY <1>3, <1>6, <2>1, <2>2 DEF Open, Waiting, Nothing, S
  <1>8. ASSUME NEW i \in Ops
        PROVE  /\ call[i] = "calling" => call'[i] = "refused"
               /\ call[i] = "accepted" => call'[i] = IF replies[i] = <<>> THEN "orphan" ELSE "accepted"
               /\ call[i] \notin {"calling", "accepted"} => call'[i] = call[i]
               /\ call'[i] \in {"new", "calling", "accepted", "refused", "dropped", "orphan"}
    <2>1. call[i] \in {"new", "calling", "accepted", "refused", "dropped", "orphan"}
      BY <1>1 DEF OtherTypes
    <2> QED  BY <1>2, <2>1
  <1>9. OtherTypes'
    <2>1. call' \in [Ops -> {"new", "calling", "accepted", "refused", "dropped", "orphan"}]
      BY <1>2, <1>8
    <2> QED  BY <1>1, <1>2, <1>6, <1>a, <2>1 DEF OtherTypes
  <1>10. StoreInv'
    <2>1. Cardinality(S \cap Publishes) \in Nat /\ Cardinality(Range(s) \cap Publishes) \in Nat
      BY <1>1, <1>3, OpenTypes, FinitePublishes DEF S
    <2>2. Cardinality(Range(s) \cap Publishes) <= Cardinality(S \cap Publishes)
      BY <1>1, <1>3, OpenTypes, FinitePublishes DEF S
    <2>3. Cardinality(S \cap Publishes) <= MaxBuffered
      BY <1>1 DEF StoreInv, S
    <2>4. Cardinality(Range(s) \cap Publishes) <= MaxBuffered
      BY <2>1, <2>2, <2>3, AsyncAssumption
    <2> QED  BY <1>3, <1>6, <2>4 DEF StoreInv, s
  <1>11. CallInv'
    <2>1. ASSUME NEW i \in Ops, NEW j \in Ops, i < j, call'[i] \in {"new", "calling"}
          PROVE  call'[j] \in {"new", "calling", "refused"}
      <3>1. call[i] \in {"new", "calling"}
        BY <1>8, <2>1
      <3>2. call[j] \in {"new", "calling", "refused"}
        BY <1>1, <2>1, <3>1 DEF CallInv
      <3> QED  BY <1>8, <3>2
    <2>2. ASSUME NEW i \in Open(m)'
          PROVE  call'[i] \in {"accepted", "orphan"}
      <3>1. i \in Open(m) /\ i \in Ops
        BY <1>1, <1>7, OpenTypes
      <3>2. call[i] \in {"accepted", "orphan"}
        BY <1>1, <3>1 DEF CallInv
      <3> QED  BY <1>8, <3>1, <3>2
    <2>3. \A i \in Acknowledged : call'[i] # "calling"
      BY <1>8 DEF Acknowledged
    <2>6. \A i \in Acknowledged : call'[i] \notin {"new", "refused"} => m'.token[i] # 0
      <3> SUFFICES ASSUME NEW i \in Acknowledged, call'[i] \notin {"new", "refused"}
                   PROVE  m.token[i] # 0
        BY <1>6
      <3>1. i \in Ops /\ call[i] \notin {"new", "refused"}
        BY <1>8 DEF Acknowledged
      <3> QED  BY <1>1, <3>1 DEF CallInv
    <2>4. ASSUME NEW i \in Ops, call'[i] = "accepted"
          PROVE  Len(replies'[i]) = IF i \in Waiting(m)' THEN 0 ELSE 1
      <3>1. call[i] = "accepted" /\ replies[i] # <<>>
        BY <1>8, <2>4
      <3>2. Len(replies[i]) = IF i \in Waiting(m) THEN 0 ELSE 1
        BY <1>1, <3>1 DEF CallInv
      <3>3. replies[i] \in Seq(Kinds)
        BY <1>1 DEF OtherTypes
      <3>4. Len(replies[i]) # 0
        BY <3>1, <3>3
      <3> QED  BY <1>2, <1>7, <3>2, <3>4
    <2>5. \A i \in Ops : call'[i] \in {"new", "calling", "refused"} => replies'[i] = <<>>
      BY <1>1, <1>2, <1>8 DEF CallInv
    <2> QED  BY <1>7, <2>1, <2>2, <2>3, <2>4, <2>5, <2>6 DEF CallInv
  <1>12. ReadInv'
    BY <1>1, <1>2, <1>7, <1>a DEF ReadInv
  <1>13. Steady
    <2>1. Quietly(m, m')
      BY <1>3, <1>6, EmptyQuietly DEF S
    <2>2. \A j \in Ops : call[j] \notin {"new", "calling", "refused"} =>
              call'[j] \notin {"new", "calling", "refused"}
      BY <1>8
    <2> QED  BY <1>2, <2>1, <2>2 DEF Steady
  <1> QED  BY <1>7, <1>9, <1>10, <1>11, <1>12, <1>13 DEF AsyncInv


LEMMA QueuePositions ==
    ASSUME NEW s \in Seq(Commands), OrderedOps(s), NEW i \in Ops
    PROVE  Cardinality(Positions(s, OpCommand(i))) = IF i \in OpsIn(s) THEN 1 ELSE 0
  <1> DEFINE P == Positions(s, OpCommand(i))
  <1>1. /\ Len(s) \in Nat /\ DOMAIN s = 1..Len(s) /\ \A n \in DOMAIN s : s[n] \in Commands
    BY InRange
  <1>2. IsOp(OpCommand(i)) /\ OpCommand(i).op = i /\ i \in Nat
    BY CommandKinds
  <1>3. \A n \in P : n \in DOMAIN s /\ s[n] = OpCommand(i)
    BY DEF Positions
  <1>4. CASE i \notin OpsIn(s)
    <2>1. \A n \in P : i \in OpsIn(s)
      BY <1>2, <1>3 DEF OpsIn
    <2>2. P = {}
      BY <1>4, <2>1
    <2> HIDE DEF P
    <2>3. Cardinality(P) = 0
      BY <2>2, FS_EmptySet
    <2> QED  BY <1>4, <2>3 DEF P
  <1>5. CASE i \in OpsIn(s)
    <2>1. PICK n \in DOMAIN s : IsOp(s[n]) /\ s[n].op = i
      BY <1>5 DEF OpsIn
    <2>2. s[n] = OpCommand(i)
      BY <1>1, <2>1, CommandKinds
    <2>3. ASSUME NEW k \in P PROVE k = n
      <3>1. k \in DOMAIN s /\ IsOp(s[k]) /\ s[k].op = i
        BY <1>2, <1>3
      <3>2. ~(k < n) /\ ~(n < k)
        BY <1>2, <2>1, <3>1 DEF OrderedOps
      <3> QED  BY <1>1, <2>1, <3>1, <3>2
    <2>4. n \in P
      BY <2>1, <2>2 DEF Positions
    <2>5. P = {n}
      BY <2>3, <2>4
    <2> HIDE DEF P
    <2>6. Cardinality(P) = 1
      BY <2>5, FS_Singleton
    <2> QED  BY <1>5, <2>6 DEF P
  <1> QED  BY <1>4, <1>5

\* What MQTTAsync_destroy tells: a failure for each operation that waits.
Ended == FreeCommands(FreeResponses(CloseSession(m)))

LEMMA EndedFields ==
    ASSUME Fine(m), m.told = NoReplies
    PROVE  /\ Ended.outbound \in {m.outbound, <<>>} /\ Ended.toldConn = m.toldConn
           /\ Ended.told = [i \in Ops |-> IF i \in Waiting(m) THEN <<"failure">> ELSE <<>>]
  <1> DEFINE y == CloseSession(m)
             z == FreeResponses(y)
             e == FreeCommands(z)
  <1>1. /\ Shape(m) /\ PlaceInv(m) /\ Sound(m)
        /\ \A i \in OpsIn(m.commands) : i \notin Range(m.responses)
    BY DEF Fine, PlaceInv, Sound
  <1>2. /\ Sound(y) /\ Shape(y) /\ Control(m, y)
        /\ y.commands = m.commands /\ y.toldConn = m.toldConn
    BY <1>1, CloseSessionControls DEF Controls, Sound, Fields
  <1>3. y.outbound \in {m.outbound, <<>>}
    BY <1>2 DEF Control, Kept, Cleared
  <1>4. \A i \in Ops : m.told[i] = <<>>
    BY DEF NoReplies
  <1> HIDE DEF y
  <1>5. \A i \in Ops : y.told[i] \o Failures(Positions(y.responses, i)) =
            IF i \in Range(m.responses) THEN <<"failure">> ELSE <<>>
    <2>1. Append(<<>>, "failure") = <<"failure">>
      OBVIOUS
    <2> SUFFICES ASSUME NEW i \in Ops
                 PROVE  y.told[i] \o Failures(Positions(y.responses, i)) =
                            IF i \in Range(m.responses) THEN <<"failure">> ELSE <<>>
      OBVIOUS
    <2>2. y.told[i] \o Failures(Positions(y.responses, i)) =
              IF i \in Range(y.responses) THEN Append(y.told[i], "failure") ELSE y.told[i]
      BY <1>2, FreedTold
    <2>3. CASE Kept(m, y)
      BY <1>4, <2>1, <2>2, <2>3 DEF Kept
    <2>4. CASE Cleared(m, y)
      BY <1>4, <2>1, <2>2, <2>4, RangeShort DEF Cleared
    <2> QED  BY <1>2, <2>3, <2>4 DEF Control
  <1>6. /\ z.commands = m.commands /\ z.outbound = y.outbound /\ z.toldConn = m.toldConn
        /\ z.told = [i \in Ops |-> IF i \in Range(m.responses) THEN <<"failure">> ELSE <<>>]
        /\ DOMAIN z = Fields
    <2> DEFINE t == [i \in Ops |-> y.told[i] \o Failures(Positions(y.responses, i))]
    <2>1. t = [i \in Ops |-> IF i \in Range(m.responses) THEN <<"failure">> ELSE <<>>]
      BY <1>5
    <2>2. z = [y EXCEPT !.responses = <<>>, !.told = t]
      BY DEF FreeResponses
    <2> HIDE DEF t, z
    <2>3. DOMAIN y = Fields
      BY <1>2 DEF Shape
    <2> QED  BY <1>2, <2>1, <2>2, <2>3 DEF Fields
  <1> HIDE DEF z
  <1>7. \A i \in Ops : z.told[i] \o Failures(Positions(m.commands, OpCommand(i))) =
            IF i \in Waiting(m) THEN <<"failure">> ELSE <<>>
    <2> SUFFICES ASSUME NEW i \in Ops
                 PROVE  z.told[i] \o Failures(Positions(m.commands, OpCommand(i))) =
                            IF i \in Waiting(m) THEN <<"failure">> ELSE <<>>
      OBVIOUS
    <2> DEFINE F == Failures(Positions(m.commands, OpCommand(i)))
    <2>1. F = IF i \in OpsIn(m.commands) THEN <<"failure">> ELSE <<>>
      <3>1. m.commands \in Seq(Commands) /\ OrderedOps(m.commands)
        BY <1>1 DEF Shape, PlaceInv
      <3>2. Cardinality(Positions(m.commands, OpCommand(i))) =
                IF i \in OpsIn(m.commands) THEN 1 ELSE 0
        BY ONLY <3>1, i \in Ops, QueuePositions
      <3> QED  BY <3>2 DEF Failures
    <2>2. z.told[i] = IF i \in Range(m.responses) THEN <<"failure">> ELSE <<>>
      BY <1>6
    <2>3. i \in Waiting(m) <=> i \in OpsIn(m.commands) \/ i \in Range(m.responses)
      BY DEF Waiting
    <2> HIDE DEF F
    <2>4. <<>> \o <<>> = <<>> /\ <<"failure">> \o <<>> = <<"failure">>
          /\ <<>> \o <<"failure">> = <<"failure">>
      OBVIOUS
    <2>5. CASE i \in OpsIn(m.commands)
      <3>1. i \notin Range(m.responses)
        BY <1>1, <2>5
      <3> QED  BY <2>1, <2>2, <2>3, <2>4, <2>5, <3>1 DEF F
    <2>6. CASE i \notin OpsIn(m.commands)
      BY <2>1, <2>2, <2>3, <2>4, <2>6 DEF F
    <2> QED  BY <2>5, <2>6
  <1>8. /\ e.outbound = y.outbound /\ e.toldConn = m.toldConn
        /\ e.told = [i \in Ops |-> IF i \in Waiting(m) THEN <<"failure">> ELSE <<>>]
    <2> DEFINE t == [i \in Ops |-> z.told[i] \o Failures(Positions(m.commands, OpCommand(i)))]
    <2>1. t = [i \in Ops |-> IF i \in Waiting(m) THEN <<"failure">> ELSE <<>>]
      BY <1>7
    <2>2. e = [z EXCEPT !.commands = <<>>, !.told = t]
      BY <1>6 DEF FreeCommands
    <2> HIDE DEF t, e
    <2> QED  BY <1>6, <2>1, <2>2 DEF Fields
  <1>9. e = Ended
    BY DEF Ended, y, z
  <1> HIDE DEF e
  <1> QED  BY <1>3, <1>8, <1>9

LEMMA DestroyStep ==
    ASSUME AsyncInv, Destroy
    PROVE  AsyncInv' /\ Steady
  <1> DEFINE S == OpsIn(m.commands)
             y == [RestoreCommands(stored) EXCEPT !.outbound = Ended.outbound,
                                                  !.told = Ended.told,
                                                  !.toldConn = Ended.toldConn]
  <1>1. Fine(m) /\ Shape(m) /\ OtherTypes /\ StoreInv /\ CallInv /\ ReadInv
    BY InvSound DEF AsyncInv, Fine
  <1>2. /\ Become(y)
        /\ call' = [i \in Ops |-> IF i \in S THEN "orphan" ELSE call[i]]
        /\ \A i \in Ops : call[i] # "calling"
        /\ asked' = [asked EXCEPT !.conn = 0]
        /\ UNCHANGED <<stored, written, got>>
    BY QueuedAre DEF Destroy, Ended
  <1>3. /\ Ended.outbound \in {m.outbound, <<>>} /\ Ended.toldConn = m.toldConn
        /\ Ended.told = [i \in Ops |-> IF i \in Waiting(m) THEN <<"failure">> ELSE <<>>]
    BY <1>1, EndedFields DEF OtherTypes
  <1>4. IsRestored(y, stored, Ended.outbound, Ended.told, Ended.toldConn)
    <2>1. Ended.told \in [Ops -> Seq(Kinds)]
      <3>1. <<"failure">> \in Seq(Kinds) /\ <<>> \in Seq(Kinds)
        BY RangeShort DEF Kinds
      <3>2. \A i \in Ops : (IF i \in Waiting(m) THEN <<"failure">> ELSE <<>>) \in Seq(Kinds)
        BY <3>1
      <3> QED  BY <1>3, <3>2
    <2>2. Ended.toldConn \in [1..MaxConnects -> Seq(Kinds)]
      BY <1>1, <1>3 DEF Shape
    <2>3. stored \in Seq(Ops) /\ Ascends(stored) /\ Range(stored) \subseteq OpsIn(m.commands)
      BY <1>1 DEF StoreInv
    <2>4. Restores(y, stored, Ended.outbound, Ended.told, Ended.toldConn)
      BY <1>3, <2>1, <2>2, <2>3 DEF Restores
    <2> HIDE DEF y
    <2> QED  BY <1>1, <2>4, RestoreFine
  <1> HIDE DEF y, S
  <1>5. /\ Fine(y) /\ y.told = Ended.told /\ y.toldConn = m.toldConn
        /\ OpsIn(y.commands) = Range(stored)
        /\ y.buffered = Cardinality(Range(stored) \cap Publishes)
        /\ y.responses = <<>> /\ y.outbound \in {m.outbound, <<>>} /\ y.token = m.token
        /\ OnWire(y.net) = {} /\ InOps(y.net) = {} /\ y.held = Nothing
    BY <1>3, <1>4 DEF IsRestored
  <1>6. /\ m' = Reset(y)
        /\ replies' = [i \in Ops |->
               IF call[i] = "accepted" THEN replies[i] \o y.told[i] ELSE replies[i]]
        /\ conns' = [k \in 1..MaxConnects |-> conns[k] \o m.toldConn[k]]
    <2>1. conns' = [k \in 1..MaxConnects |-> conns[k] \o y.toldConn[k]]
      BY <1>2, BecomeIs
    <2>2. m' = Reset(y)
      BY <1>2, BecomeIs
    <2>3. replies' = [i \in Ops |->
              IF call[i] = "accepted" THEN replies[i] \o y.told[i] ELSE replies[i]]
      BY ONLY <1>2, BecomeIs
    <2> QED  BY <1>5, <2>1, <2>2, <2>3
  <1>7. /\ Fine(m') /\ m'.told = NoReplies /\ m'.toldConn = NoConnReplies
        /\ OpsIn(m'.commands) = S
        /\ m'.buffered = Cardinality(S \cap Publishes)
        /\ m'.responses = <<>> /\ m'.outbound \in {m.outbound, <<>>} /\ m'.token = m.token
        /\ OnWire(m'.net) = {} /\ InOps(m'.net) = {} /\ m'.held = Nothing
    <2>1. /\ Fine(Reset(y)) /\ Reset(y).told = NoReplies /\ Reset(y).toldConn = NoConnReplies
          /\ \A f \in Fields \ {"told", "toldConn"} : Reset(y)[f] = y[f]
      BY <1>5, ResetFine
    <2>2. Range(stored) = S
      BY <1>1 DEF StoreInv, S
    <2> QED  BY <1>5, <1>6, <2>1, <2>2 DEF Fields
  <1>a. (Apart' <=> Apart) /\ AskedType'
    <2>1. AskedType
      BY <1>1 DEF OtherTypes
    <2>2. /\ asked' = [f \in {"conn", "other", "left", "shared"} |-> asked'[f]]
          /\ asked'.conn = 0 /\ asked'.shared = asked.shared
      BY <1>2, <2>1 DEF AskedType
    <2> QED  BY <2>2 DEF AskedType, Apart
  <1>8. /\ Fine(m)' /\ Open(m)' \subseteq Open(m) /\ Waiting(m)' = S /\ S \subseteq Waiting(m)
        /\ OpsIn(m.commands)' = S
        /\ OnWire(m.net)' = {} /\ InOps(m.net)' = {} /\ (m.held.type)' = "NONE"
    <2>1. Fine(m)'
      BY <1>7, <1>a DEF Fine, Shape, PlaceInv, TokenInv, WireInv, HeldInv, Open, Waits
    <2>2. Range(m'.responses) = {} /\ Range(m'.outbound) \subseteq Range(m.outbound)
      BY <1>7, RangeShort
    <2> QED  BY <1>7, <2>1, <2>2 DEF Open, Waiting, Nothing, S
  <1>9. ASSUME NEW i \in Ops
        PROVE  /\ i \in S => call'[i] = "orphan"
               /\ i \notin S => call'[i] = call[i]
               /\ call'[i] \in {"new", "calling", "accepted", "refused", "dropped", "orphan"}
    <2>1. call[i] \in {"new", "calling", "accepted", "refused", "dropped", "orphan"}
      BY <1>1 DEF OtherTypes
    <2> QED  BY <1>2, <2>1
  <1>10. ASSUME NEW i \in Ops
         PROVE  /\ call[i] = "accepted" /\ i \in Waiting(m) =>
                       replies'[i] = Append(replies[i], "failure")
                /\ ~(call[i] = "accepted" /\ i \in Waiting(m)) => replies'[i] = replies[i]
                /\ replies[i] \in Seq(Kinds)
    <2>1. replies[i] \in Seq(Kinds)
      BY <1>1 DEF OtherTypes
    <2>2. replies[i] \o <<>> = replies[i]
      BY <2>1
    <2>3. replies[i] \o <<"failure">> = Append(replies[i], "failure")
      BY <2>1, AppendIsConcat DEF Kinds
    <2>4. y.told[i] = IF i \in Waiting(m) THEN <<"failure">> ELSE <<>>
      BY <1>3, <1>5
    <2>5. replies'[i] = IF call[i] = "accepted" THEN replies[i] \o y.told[i] ELSE replies[i]
      BY <1>6
    <2> QED  BY <2>1, <2>2, <2>3, <2>4, <2>5
  <1>11. OtherTypes'
    <2>1. call' \in [Ops -> {"new", "calling", "accepted", "refused", "dropped", "orphan"}]
      BY <1>2, <1>9
    <2>3. replies' \in [Ops -> Seq(Kinds)]
      <3>1. \A i \in Ops : replies'[i] \in Seq(Kinds)
        <4> SUFFICES ASSUME NEW i \in Ops PROVE replies'[i] \in Seq(Kinds)
          OBVIOUS
        <4>1. replies[i] \in Seq(Kinds) /\ "failure" \in Kinds
          BY <1>10 DEF Kinds
        <4>2. Append(replies[i], "failure") \in Seq(Kinds)
          BY <4>1
        <4> QED  BY <1>10, <4>1, <4>2
      <3> QED  BY <1>6, <3>1
    <2>4. conns' \in [1..MaxConnects -> Seq(Kinds)]
      <3>1. ASSUME NEW k \in 1..MaxConnects PROVE conns'[k] \in Seq(Kinds)
        <4>1. conns[k] \in Seq(Kinds) /\ m.toldConn[k] \in Seq(Kinds)
          BY <1>1 DEF OtherTypes, Shape
        <4> QED  BY <1>6, <4>1
      <3> QED  BY <1>6, <3>1
    <2> QED  BY <1>1, <1>2, <1>7, <1>a, <2>1, <2>3, <2>4 DEF OtherTypes
  <1>12. StoreInv'
    BY <1>1, <1>2, <1>7 DEF StoreInv, S
  <1>13. CallInv'
    <2>1. ASSUME NEW i \in Ops, NEW j \in Ops, i < j, call'[i] \in {"new", "calling"}
          PROVE  call'[j] \in {"new", "calling", "refused"}
      <3>1. call[i] \in {"new", "calling"}
        BY <1>9, <2>1
      <3>2. call[j] \in {"new", "calling", "refused"}
        BY <1>1, <2>1, <3>1 DEF CallInv
      <3>3. j \notin S
        BY <1>1, <3>2 DEF CallInv, Open, S
      <3> QED  BY <1>9, <3>2, <3>3
    <2>2. ASSUME NEW i \in Open(m)'
          PROVE  call'[i] \in {"accepted", "orphan"}
      <3>1. i \in Open(m) /\ i \in Ops
        BY <1>1, <1>8, OpenTypes
      <3>2. call[i] \in {"accepted", "orphan"}
        BY <1>1, <3>1 DEF CallInv
      <3> QED  BY <1>9, <3>1, <3>2
    <2>3. \A i \in Acknowledged : call'[i] # "calling"
      BY <1>2, <1>9 DEF Acknowledged
    <2>6. \A i \in Acknowledged : call'[i] \notin {"new", "refused"} => m'.token[i] # 0
      <3> SUFFICES ASSUME NEW i \in Acknowledged, call'[i] \notin {"new", "refused"}
                   PROVE  m.token[i] # 0
        BY <1>7
      <3>1. i \in Ops
        BY DEF Acknowledged
      <3>2. i \in S => call[i] \in {"accepted", "orphan"}
        BY <1>1 DEF CallInv, Open, S
      <3>3. call[i] \notin {"new", "refused"}
        BY <1>9, <3>1, <3>2
      <3> QED  BY <1>1, <3>3 DEF CallInv
    <2>4. ASSUME NEW i \in Ops, call'[i] = "accepted"
          PROVE  Len(replies'[i]) = IF i \in Waiting(m)' THEN 0 ELSE 1
      <3>1. call[i] = "accepted" /\ i \notin S
        BY <1>9, <2>4
      <3>2. Len(replies[i]) = IF i \in Waiting(m) THEN 0 ELSE 1
        BY <1>1, <3>1 DEF CallInv
      <3>3. Len(Append(replies[i], "failure")) = Len(replies[i]) + 1
        BY <1>10
      <3>4. i \notin Waiting(m)'
        BY <1>8, <3>1
      <3>5. CASE i \in Waiting(m)
        <4>1. replies'[i] = Append(replies[i], "failure")
          BY <1>10, <3>1, <3>5
        <4>2. Len(replies'[i]) = 1
          BY <3>2, <3>3, <3>5, <4>1
        <4> QED  BY <3>4, <4>2
      <3>6. CASE i \notin Waiting(m)
        <4>1. replies'[i] = replies[i]
          BY <1>10, <3>6
        <4> QED  BY <3>2, <3>4, <3>6, <4>1
      <3> QED  BY <3>5, <3>6
    <2>5. ASSUME NEW i \in Ops, call'[i] \in {"new", "calling", "refused"}
          PROVE  replies'[i] = <<>>
      <3>1. call[i] \in {"new", "calling", "refused"}
        BY <1>9, <2>5
      <3>2. replies[i] = <<>>
        BY <1>1, <3>1 DEF CallInv
      <3> QED  BY <1>10, <3>1, <3>2
    <2> QED  BY <1>8, <2>1, <2>2, <2>3, <2>4, <2>5, <2>6 DEF CallInv
  <1>14. ASSUME NEW i \in Ops, "success" \in Range(replies'[i])
         PROVE  "success" \in Range(replies[i])
    <2>1. Range(Append(replies[i], "failure")) = Range(replies[i]) \cup {"failure"}
      <3>1. replies[i] \in Seq(Kinds) /\ "failure" \in Kinds
        BY <1>10 DEF Kinds
      <3> QED  BY ONLY <3>1, AppendPositions
    <2>2. replies'[i] \in {replies[i], Append(replies[i], "failure")}
      BY <1>10
    <2>3. CASE replies'[i] = replies[i]
      BY ONLY <1>14, <2>3
    <2>4. CASE replies'[i] = Append(replies[i], "failure")
      <3>1. "success" \in Range(replies[i]) \cup {"failure"}
        BY ONLY <1>14, <2>1, <2>4
      <3> QED  BY ONLY <3>1
    <2> QED  BY ONLY <2>2, <2>3, <2>4
  <1>15. ReadInv'
    <2>1. ASSUME Apart, NEW i \in Acknowledged, "success" \in Range(replies'[i])
          PROVE  i \in Range(got)
      <3>1. i \in Ops
        BY DEF Acknowledged
      <3> QED  BY <1>1, <1>14, <2>1, <3>1 DEF ReadInv
    <2> QED  BY <1>2, <1>8, <1>a, <2>1 DEF ReadInv
  <1>16. Steady
    <2>1. Quietly(m, m')
      BY <1>7, EmptyQuietly DEF S
    <2>2. \A j \in Ops : call[j] \notin {"new", "calling", "refused"} =>
              call'[j] \notin {"new", "calling", "refused"}
      BY <1>9
    <2> QED  BY <1>2, <1>14, <2>1, <2>2 DEF Steady
  <1> QED  BY <1>8, <1>11, <1>12, <1>13, <1>15, <1>16 DEF AsyncInv

-----------------------------------------------------------------------------
(* The invariant of the specification.                                     *)

LEMMA AsyncInit ==
    ASSUME Init
    PROVE  AsyncInv
  <1> USE DEF Init
  <1>1. /\ Range(<<>>) = {} /\ DOMAIN <<>> = {} /\ <<>> \in Seq(Ops) /\ <<>> \in Seq(Commands)
        /\ <<>> \in Seq(Kinds) /\ Len(<<>>) = 0
    BY RangeShort
  <1>2. /\ DOMAIN m = Fields /\ m = [f \in Fields |-> m[f]]
        /\ m.commands = <<>> /\ m.buffered = 0 /\ m.outbound = <<>> /\ m.token = [i \in Ops |-> 0]
        /\ m.told = NoReplies /\ m.toldConn = NoConnReplies
        /\ m.connected = FALSE /\ m.state = "NOT_IN_PROGRESS" /\ m.should = FALSE
        /\ m.retrying = FALSE /\ m.now = FALSE
        /\ m.connect = ConnectCommand(0) /\ m.disconnect = DisconnectCommand(TRUE)
        /\ m.responses = <<>> /\ m.pendingWrite = 0 /\ m.msgID = 0
        /\ m.net = NewSocket /\ m.held = Nothing
    BY DEF Created, Fields
  <1>3. /\ ConnectCommand(0) \in ConnectCommands /\ DisconnectCommand(TRUE) \in DisconnectCommands
        /\ HeldType(Nothing) /\ Nothing.type = "NONE" /\ 0 \in 0..MaxMsgId /\ 0 \in 0..NOps
    BY AsyncAssumption DEF ConnectCommand, ConnectCommands, DisconnectCommand, DisconnectCommands,
                           HeldType, Nothing
  <1>4. NoReplies \in [Ops -> Seq(Kinds)] /\ NoConnReplies \in [1..MaxConnects -> Seq(Kinds)]
    BY <1>1 DEF NoReplies, NoConnReplies
  <1>5. Shape(m)
    <2> HIDE DEF Init
    <2>1. m.state \in States /\ (m.connected => m.state \in {"NOT_IN_PROGRESS", "DISCONNECTING"})
      BY <1>2 DEF States
    <2>2. m.token \in [Ops -> 0..MaxMsgId]
      BY <1>2, <1>3
    <2>3. m.connected \in BOOLEAN
      BY <1>2
    <2>4. m.should \in BOOLEAN /\ m.retrying \in BOOLEAN /\ m.now \in BOOLEAN
      <3>1. m = Created
        BY DEF Init
      <3>2. /\ Created.should \in BOOLEAN /\ Created.retrying \in BOOLEAN
            /\ Created.now \in BOOLEAN
        BY DEF Created
      <3> QED  BY ONLY <3>1, <3>2
    <2>5. /\ m.connect \in ConnectCommands /\ m.disconnect \in DisconnectCommands
          /\ m.buffered \in Int /\ m.pendingWrite \in 0..NOps /\ m.msgID \in 0..MaxMsgId
      <3>1. m.connect = ConnectCommand(0) /\ m.disconnect = DisconnectCommand(TRUE)
        BY <1>2
      <3>2. m.connect \in ConnectCommands /\ m.disconnect \in DisconnectCommands
        BY ONLY <1>3, <3>1, Zenon
      <3>3. m.buffered = 0 /\ m.pendingWrite = 0 /\ m.msgID = 0
        BY <1>2
      <3> QED  BY ONLY <1>3, <3>2, <3>3
    <2>6. m.net \in Sockets /\ HeldType(m.held)
      BY <1>2, <1>3, NewSocketType
    <2>7. /\ m.told \in [Ops -> Seq(Kinds)] /\ m.toldConn \in [1..MaxConnects -> Seq(Kinds)]
          /\ m.commands \in Seq(Commands) /\ m.responses \in Seq(Ops) /\ m.outbound \in Seq(Ops)
      BY <1>1, <1>2, <1>4
    <2>8. DOMAIN m = Fields /\ m = [f \in Fields |-> m[f]]
      BY <1>2
    <2> QED  BY <2>1, <2>2, <2>3, <2>4, <2>5, <2>6, <2>7, <2>8 DEF Shape
  <1>6. OpsIn(m.commands) = {}
    BY <1>1, <1>2 DEF OpsIn
  <1>7. Open(m) = {} /\ Waiting(m) = {}
    BY <1>1, <1>2, <1>6 DEF Open, Waiting
  <1>8. PlaceInv(m)
    <2>1. Distinct(<<>>) /\ OrderedOps(<<>>)
      BY <1>1 DEF Distinct, OrderedOps
    <2> QED  BY <1>1, <1>2, <1>6, <2>1 DEF PlaceInv
  <1>9. TokenInv(m)
    BY <1>2, <1>7 DEF TokenInv
  <1>10. NetInv(m.net) /\ OnWire(m.net) = {} /\ InOps(m.net) = {}
    <2>1. NetInv(NewSocket) /\ OnWire(NewSocket) = {}
      BY NewSocketType, QuietWire
    <2> QED  BY <1>2, <2>1 DEF OnWire
  <1>11. Fine(m)
    BY <1>2, <1>3, <1>5, <1>8, <1>9, <1>10 DEF WireInv, HeldInv, Fine
  <1>12. /\ \A i \in Ops : call[i] = "new" /\ replies[i] = <<>>
         /\ written = {} /\ got = <<>> /\ asked.conn = 0 /\ stored = <<>>
    BY DEF NoReplies
  <1>13. OtherTypes
    <2>1. AskedType
      BY DEF AskedType
    <2>2. call \in [Ops -> {"new", "calling", "accepted", "refused", "dropped", "orphan"}]
      OBVIOUS
    <2> QED  BY <1>1, <1>2, <1>4, <2>1, <2>2 DEF OtherTypes
  <1>14. StoreInv
    <2>1. Ascends(<<>>)
      BY <1>1 DEF Ascends
    <2>2. Cardinality({} \cap Publishes) = 0
      <3>1. {} \cap Publishes = {}
        OBVIOUS
      <3> QED  BY <3>1, FS_EmptySet
    <2>3. 0 <= MaxBuffered
      BY AsyncAssumption
    <2> QED  BY <1>1, <1>2, <1>6, <1>12, <2>1, <2>2, <2>3 DEF StoreInv
  <1>15. CallInv
    BY <1>2, <1>3, <1>7, <1>10, <1>12 DEF CallInv, Acknowledged
  <1>16. ReadInv
    <2>1. \A i \in Acknowledged : "success" \notin Range(replies[i])
      BY <1>1, <1>12 DEF Acknowledged
    <2> QED  BY <1>2, <1>3, <1>10, <2>1 DEF ReadInv
  <1> QED  BY <1>11, <1>13, <1>14, <1>15, <1>16 DEF AsyncInv

LEMMA AsyncStutters ==
    ASSUME AsyncInv, UNCHANGED vars
    PROVE  AsyncInv'
  <1> USE DEF AsyncInv, vars
  <1>a. Apart' <=> Apart
    BY DEF Apart
  <1>1. Fine(m)'
    <2>1. Fine(m')
      BY Zenon
    <2> QED  BY <1>a, <2>1 DEF Fine, Shape, PlaceInv, TokenInv, WireInv, HeldInv, Open, Waits
  <1>2. OtherTypes'
    BY DEF OtherTypes, AskedType
  <1>3. StoreInv'
    BY DEF StoreInv
  <1>4. CallInv'
    BY <1>a DEF CallInv, Open, Waiting
  <1>5. ReadInv'
    BY <1>a DEF ReadInv
  <1> QED  BY <1>1, <1>2, <1>3, <1>4, <1>5

LEMMA AsyncNext ==
    ASSUME AsyncInv, [Next]_vars
    PROVE  AsyncInv'
  <1>1. CASE Connect
    BY <1>1, ConnectStep
  <1>2. CASE Reconnect
    BY <1>2, ReconnectStep
  <1>3. CASE Disconnect
    BY <1>3, DisconnectStep
  <1>4. CASE Destroy
    BY <1>4, DestroyStep
  <1>5. ASSUME NEW i \in Ops, Ask(i) PROVE AsyncInv'
    BY <1>5, AskStep
  <1>6. ASSUME NEW i \in Ops, AddCommand(i) PROVE AsyncInv'
    BY <1>6, AddCommandStep
  <1>7. CASE ProcessConnect
    BY <1>7, ProcessConnectStep
  <1>8. CASE ProcessDisconnect
    BY <1>8, ProcessDisconnectStep
  <1>9. CASE ProcessOp
    BY <1>9, ProcessOpStep
  <1>10. CASE CheckTimeouts
    BY <1>10, CheckTimeoutsStep
  <1>11. CASE TcpComplete
    BY <1>11, TcpCompleteStep
  <1>12. CASE ReadPacket
    BY <1>12, ReadPacketStep
  <1>13. CASE HandlePuback
    BY <1>13, HandlePubackStep
  <1>14. CASE ReadError
    BY <1>14, ReadErrorStep
  <1>15. CASE HandlePacket
    BY <1>15, HandlePacketStep
  <1>16. CASE WriteComplete
    BY <1>16, WriteCompleteStep
  <1>17. CASE BrokerReads
    BY <1>17, BrokerReadsStep
  <1>18. CASE LinkDown
    BY <1>18, LinkDownStep
  <1>19. CASE TimePasses
    BY <1>19, TimePassesStep
  <1>20. CASE Crash
    BY <1>20, CrashStep
  <1>21. CASE KeepAliveClose
    BY <1>21, KeepAliveCloseStep
  <1>22. CASE UNCHANGED vars
    BY <1>22, AsyncStutters
  <1> QED  BY <1>1, <1>2, <1>3, <1>4, <1>5, <1>6, <1>7, <1>8, <1>9, <1>10, <1>11, <1>12, <1>13,
              <1>14, <1>15, <1>16, <1>17, <1>18, <1>19, <1>20, <1>21, <1>22
              DEF Next, Application, SendThread, ReceiveThread

\* Everything the invariant says holds in every state, whatever the size of the
\* instance and the options of the client.
THEOREM AsyncInvariant == Spec => []AsyncInv
  <1>1. Init => AsyncInv
    BY AsyncInit
  <1>2. AsyncInv /\ [Next]_vars => AsyncInv'
    BY AsyncNext
  <1> QED  BY <1>1, <1>2, PTL DEF Spec

-----------------------------------------------------------------------------
(* What follows from the invariant.                                        *)

\* Nothing is written, read or answered before the application starts.
LEMMA OrderedInit ==
    ASSUME Init
    PROVE  Ordered
  <1>1. /\ Range(<<>>) = {} /\ DOMAIN <<>> = {} /\ <<>> \in Seq(Ops) /\ <<>> \in Seq(Commands)
        /\ <<>> \in Seq(Kinds)
    BY RangeShort
  <1>2. /\ m.commands = <<>> /\ m.responses = <<>> /\ m.net = NewSocket
        /\ got = <<>> /\ \A i \in Ops : replies[i] = <<>>
    BY DEF Init, Created, NoReplies
  <1>3. m.net \in Sockets /\ QuietNet(m.net)
    BY <1>2, NewSocketType
  <1>4. OutOps(m.net) = {} /\ Range(m.net.pending) = {} /\ OutAscends(m.net)
    BY <1>3, QuietNetOps
  <1>5. OpsIn(m.commands) = {} /\ Range(m.responses) = {} /\ Range(got) = {} /\ DOMAIN got = {}
    BY <1>1, <1>2 DEF OpsIn
  <1>6. \A i \in Ops : "success" \notin Range(replies[i])
    BY <1>1, <1>2
  <1>7. CleanInv
    BY <1>5, <1>6 DEF CleanInv
  <1>8. OrderInv
    BY <1>4, <1>5 DEF OrderInv, Ascends
  <1> QED  BY <1>7, <1>8 DEF Ordered

\* Every step keeps the order: most of them put nothing new on the wire, and the
\* others are AddCommand, ProcessOp, WriteComplete and BrokerReads.
LEMMA OrderedNext ==
    ASSUME AsyncInv, Ordered, [Next]_vars
    PROVE  Ordered'
  <1>1. OtherTypes
    BY DEF AsyncInv
  <1>2. ASSUME Steady PROVE Ordered'
    BY <1>1, <1>2, SteadyKeeps
  <1>3. CASE Connect \/ Reconnect \/ Disconnect \/ Destroy
    BY <1>2, <1>3, ConnectStep, ReconnectStep, DisconnectStep, DestroyStep
  <1>4. ASSUME NEW i \in Ops, Ask(i) PROVE Ordered'
    BY <1>2, <1>4, AskStep
  <1>5. ASSUME NEW i \in Ops, AddCommand(i) PROVE Ordered'
    BY <1>5, AddCommandStep
  <1>6. CASE ProcessConnect \/ ProcessDisconnect \/ CheckTimeouts
    BY <1>2, <1>6, ProcessConnectStep, ProcessDisconnectStep, CheckTimeoutsStep
  <1>7. CASE ProcessOp
    BY <1>7, ProcessOpStep
  <1>8. CASE TcpComplete \/ ReadPacket \/ HandlePuback \/ ReadError \/ KeepAliveClose
    BY <1>2, <1>8, TcpCompleteStep, ReadPacketStep, HandlePubackStep, ReadErrorStep,
       KeepAliveCloseStep
  <1>9. CASE HandlePacket
    BY <1>2, <1>9, HandlePacketStep
  <1>10. CASE WriteComplete
    BY <1>10, WriteCompleteStep
  <1>11. CASE BrokerReads
    BY <1>11, BrokerReadsStep
  <1>12. CASE LinkDown \/ TimePasses \/ Crash
    BY <1>2, <1>12, LinkDownStep, TimePassesStep, CrashStep
  <1>13. CASE UNCHANGED vars
    BY <1>13 DEF vars, Ordered, CleanInv, OrderInv
  <1> QED  BY <1>3, <1>4, <1>5, <1>6, <1>7, <1>8, <1>9, <1>10, <1>11, <1>12, <1>13
              DEF Next, Application, SendThread, ReceiveThread

\* The order of the requests is kept from the application to the broker, and a
\* QoS 0 publish waits for nothing but the rest of its own bytes.
THEOREM AsyncOrdered == Spec => [](AsyncInv /\ Ordered)
  <1>1. Init => AsyncInv /\ Ordered
    BY AsyncInit, OrderedInit
  <1>2. AsyncInv /\ Ordered /\ [Next]_vars => (AsyncInv /\ Ordered)'
    BY AsyncNext, OrderedNext
  <1> QED  BY <1>1, <1>2, PTL DEF Spec

LEMMA InvSuccess ==
    ASSUME AsyncInv, Ordered
    PROVE  SuccessIsReal
  BY DEF Apart, AsyncInv, ReadInv, Ordered, CleanInv, Acknowledged, SuccessIsReal

LEMMA InvInOrder ==
    ASSUME AsyncInv, Ordered
    PROVE  InOrder
  BY DEF Ordered, OrderInv, Ascends, InOrder

LEMMA InvTypes ==
    ASSUME AsyncInv
    PROVE  TypeOK
  <1>1. /\ Fine(m) /\ Shape(m) /\ OtherTypes /\ StoreInv
    BY InvSound DEF AsyncInv
  <1>2. m.buffered \in 0..MaxBuffered
    <2>1. OpsIn(m.commands) \in SUBSET Ops
      BY <1>1, OpenTypes
    <2>2. Cardinality(OpsIn(m.commands) \cap Publishes) \in Nat
      BY ONLY <2>1, FinitePublishes
    <2> QED  BY <1>1, <2>2, AsyncAssumption DEF StoreInv
  <1>3. /\ m.connected \in BOOLEAN /\ m.state \in States
        /\ m.connected => m.state \in {"NOT_IN_PROGRESS", "DISCONNECTING"}
    BY <1>1 DEF Shape
  <1> QED  BY <1>1, <1>2, <1>3 DEF OtherTypes, StoreInv, States, Kinds, TypeOK

LEMMA InvOneReply ==
    ASSUME AsyncInv
    PROVE  OneReply
  <1>1. /\ Fine(m) /\ Shape(m) /\ OtherTypes /\ CallInv /\ PlaceInv(m)
    BY InvSound DEF AsyncInv, Fine
  <1> SUFFICES ASSUME NEW i \in Ops, call[i] = "accepted"
               PROVE  Places(i) + Len(replies[i]) = 1
    BY DEF OneReply
  <1>2. Len(replies[i]) = IF i \in Waiting(m) THEN 0 ELSE 1
    BY <1>1 DEF CallInv
  <1>3. Cardinality(Positions(m.commands, OpCommand(i))) = IF i \in OpsIn(m.commands) THEN 1 ELSE 0
    BY <1>1, QueuePositions DEF Shape, PlaceInv
  <1>4. Cardinality(Positions(m.responses, i)) = IF i \in Range(m.responses) THEN 1 ELSE 0
    BY <1>1, DistinctPositions DEF Shape, PlaceInv
  <1>5. i \in OpsIn(m.commands) => i \notin Range(m.responses)
    BY <1>1 DEF PlaceInv
  <1>6. i \in Waiting(m) <=> i \in OpsIn(m.commands) \/ i \in Range(m.responses)
    BY DEF Waiting
  <1> QED  BY <1>2, <1>3, <1>4, <1>5, <1>6 DEF Places

LEMMA InvTokens ==
    ASSUME AsyncInv
    PROVE  TokensUnique
  BY QueuedAre DEF Apart, AsyncInv, Fine, TokenInv, Open, TokensUnique

LEMMA InvComplete ==
    ASSUME AsyncInv
    PROVE  CompleteIsAnswered
  <1>1. /\ Fine(m) /\ OtherTypes /\ CallInv /\ PlaceInv(m)
    BY DEF AsyncInv, Fine
  <1> SUFFICES ASSUME Apart
               PROVE  \A i \in Publishes \cap Acknowledged :
                          call[i] = "accepted" /\ IsComplete(i) => replies[i] # <<>>
    BY DEF CompleteIsAnswered, Apart
  <1> SUFFICES ASSUME NEW i \in Publishes \cap Acknowledged, call[i] = "accepted", IsComplete(i)
               PROVE  replies[i] # <<>>
    OBVIOUS
  <1>2. i \in Ops /\ OpType[i] = "PUBLISH1"
    BY DEF Publishes, Acknowledged
  <1>3. i \notin OpsIn(m.commands) /\ i \notin Range(m.outbound)
    BY QueuedAre DEF IsComplete
  <1>4. i \notin Range(m.responses)
    BY <1>1, <1>2, <1>3 DEF PlaceInv
  <1>5. Len(replies[i]) = 1
    BY <1>1, <1>2, <1>3, <1>4 DEF CallInv, Waiting
  <1>6. replies[i] \in Seq(Kinds)
    BY <1>1, <1>2 DEF OtherTypes
  <1> QED  BY <1>5, <1>6

\* The queue and the disk, both in ascending order of the same operations, match
\* place by place.
LEMMA InvStore ==
    ASSUME AsyncInv
    PROVE  StoreMatchesQueue
  <1> DEFINE s == m.commands
             at == [a \in DOMAIN stored |-> CHOOSE n \in OpPositions(m) : s[n].op = stored[a]]
  <1>1. /\ Shape(m) /\ OrderedOps(s) /\ StoreInv /\ s \in Seq(Commands)
        /\ stored \in Seq(Ops) /\ Ascends(stored) /\ Range(stored) = OpsIn(s)
    BY InvSound DEF AsyncInv, Fine, PlaceInv, StoreInv, Shape
  <1>2. /\ Len(s) \in Nat /\ DOMAIN s = 1..Len(s) /\ \A n \in DOMAIN s : s[n] \in Commands
        /\ Len(stored) \in Nat /\ DOMAIN stored = 1..Len(stored)
        /\ \A a \in DOMAIN stored : stored[a] \in Range(stored) /\ stored[a] \in Ops
        /\ \A e \in Range(stored) : \E a \in DOMAIN stored : stored[a] = e
    <2>1. /\ Len(s) \in Nat /\ DOMAIN s = 1..Len(s) /\ \A n \in DOMAIN s : s[n] \in Commands
      BY <1>1, InRange
    <2>2. /\ Len(stored) \in Nat /\ DOMAIN stored = 1..Len(stored)
          /\ \A a \in DOMAIN stored : stored[a] \in Range(stored) /\ stored[a] \in Ops
          /\ \A e \in Range(stored) : \E a \in DOMAIN stored : stored[a] = e
      BY <1>1, InRange
    <2> QED  BY <2>1, <2>2
  <1>3. /\ OpPositions(m) \subseteq DOMAIN s /\ \A n \in OpPositions(m) : IsOp(s[n])
        /\ \A n \in OpPositions(m) : s[n].op \in Range(stored) /\ s[n] = OpCommand(s[n].op)
                                     /\ s[n].op \in Ops
        /\ \A e \in Range(stored) : \E n \in OpPositions(m) : s[n].op = e
        /\ \A a, b \in OpPositions(m) : a < b => s[a].op < s[b].op
    <2>1. OpPositions(m) \subseteq DOMAIN s /\ \A n \in OpPositions(m) : IsOp(s[n])
      BY DEF OpPositions
    <2>2. \A n \in OpPositions(m) : s[n] = OpCommand(s[n].op) /\ s[n].op \in Ops
      BY <1>2, <2>1, CommandKinds
    <2>3. OpsIn(s) = {s[n].op : n \in OpPositions(m)}
      BY DEF OpsIn, OpPositions
    <2>4. \A a, b \in OpPositions(m) : a < b => s[a].op < s[b].op
      BY <1>1, <2>1 DEF OrderedOps
    <2> QED  BY <1>1, <2>1, <2>2, <2>3, <2>4
  <1>4. /\ DOMAIN at = DOMAIN stored
        /\ \A a \in DOMAIN stored : at[a] \in OpPositions(m) /\ s[at[a]].op = stored[a]
    BY <1>2, <1>3
  <1> HIDE DEF at
  <1>5. \A n \in OpPositions(m) : n \in Int
    BY <1>2, <1>3
  <1>6. \A e \in Ops : e \in Int
    BY DEF Ops
  <1>7. ASSUME NEW a \in OpPositions(m), NEW b \in OpPositions(m), s[a].op = s[b].op
        PROVE  a = b
    <2>1. s[a].op \in Int
      BY <1>3, <1>6
    <2>2. ~(a < b) /\ ~(b < a)
      BY <1>3, <1>7, <2>1
    <2> QED  BY <1>5, <2>2
  <1>8. OpPositions(m) = Range(at)
    <2>1. \A a \in DOMAIN at : at[a] \in OpPositions(m)
      BY <1>4
    <2>2. ASSUME NEW n \in OpPositions(m) PROVE \E a \in DOMAIN at : at[a] = n
      <3>1. PICK a \in DOMAIN stored : stored[a] = s[n].op
        BY <1>2, <1>3
      <3>2. at[a] = n
        BY <1>4, <1>7, <3>1
      <3> QED  BY <1>4, <3>1, <3>2
    <2> QED  BY <2>1, <2>2 DEF Range
  <1>9. ASSUME NEW a \in DOMAIN stored, NEW b \in DOMAIN stored, a < b
        PROVE  at[a] < at[b]
    <2>1. stored[a] < stored[b] /\ stored[a] \in Int /\ stored[b] \in Int
      BY <1>1, <1>2, <1>6, <1>9 DEF Ascends
    <2>2. /\ at[a] \in OpPositions(m) /\ at[b] \in OpPositions(m)
          /\ s[at[a]].op = stored[a] /\ s[at[b]].op = stored[b]
      BY <1>4
    <2>3. at[a] # at[b]
      BY <2>1, <2>2
    <2>4. ~(at[b] < at[a])
      <3>1. at[b] < at[a] => stored[b] < stored[a]
        BY <1>3, <2>2
      <3> QED  BY <2>1, <3>1
    <2> QED  BY <1>5, <2>2, <2>3, <2>4
  <1>10. \A a \in DOMAIN stored : s[at[a]] = OpCommand(stored[a])
    BY <1>3, <1>4
  <1>11. at \in [DOMAIN stored -> OpPositions(m)]
    <2>1. at = [a \in DOMAIN stored |-> at[a]]
      BY DEF at
    <2> QED  BY <1>4, <2>1
  <1>12. m.buffered = Cardinality({n \in DOMAIN stored : stored[n] \in Publishes})
    BY <1>1, CountPositions DEF StoreInv
  <1> QED  BY <1>8, <1>9, <1>10, <1>11, <1>12 DEF StoreMatchesQueue

-----------------------------------------------------------------------------
(* The theorems.                                                           *)

\* The values the structures of MQTTAsync.c take, and that noBufferedMessages
\* stays between 0 and maxBufferedMessages.
THEOREM AsyncTypes == Spec => []TypeOK
  <1>1. AsyncInv => TypeOK
    BY InvTypes
  <1> QED  BY <1>1, AsyncInvariant, PTL

\* MQTTAsync_processCommand, MQTTAsync_freeResponses, MQTTAsync_writeComplete and
\* the receive thread between them call exactly one of onSuccess and onFailure for
\* each operation that was accepted, and never one twice.
THEOREM AsyncOneReply == Spec => []OneReply
  <1>1. AsyncInv => OneReply
    BY InvOneReply
  <1> QED  BY <1>1, AsyncInvariant, PTL

\* MQTTAsync_assignMsgId gives no id that a command, an outbound message or a
\* response has, however long the session, through restarts and for any number of
\* callers between MQTTAsync_assignMsgId and MQTTAsync_addCommand: two operations
\* in the client share an id only after two such callers have held the same one.
THEOREM AsyncTokens == Spec => []TokensUnique
  <1>1. AsyncInv => TokensUnique
    BY InvTokens
  <1> QED  BY <1>1, AsyncInvariant, PTL

\* MQTTAsync_persistCommand and MQTTAsync_unpersistCommand keep on the disk what is
\* in MQTTAsync_commands, through full buffers, crashes and restarts.
THEOREM AsyncStore == Spec => []StoreMatchesQueue
  <1>1. AsyncInv => StoreMatchesQueue
    BY InvStore
  <1> QED  BY <1>1, AsyncInvariant, PTL

\* A QoS 1 publication that MQTTAsync_isComplete reports complete has had its
\* callback, while no two callers have held the same message id.
THEOREM AsyncComplete == Spec => []CompleteIsAnswered
  <1>1. AsyncInv => CompleteIsAnswered
    BY InvComplete
  <1> QED  BY <1>1, AsyncInvariant, PTL

\* onSuccess of MQTTAsync_processCommand and of MQTTAsync_writeComplete is called
\* only for a QoS 0 publish that was written, and onSuccess of the receive thread
\* only for an operation the broker has read, while no two callers have held the
\* same message id.
THEOREM AsyncSuccess == Spec => []SuccessIsReal
  <1>1. Spec => [](AsyncInv /\ Ordered)
    BY AsyncOrdered
  <1>2. AsyncInv /\ Ordered => SuccessIsReal
    BY InvSuccess
  <1> QED  BY <1>1, <1>2, PTL

\* MQTTAsync_processCommand, the one packet half written and the closing of the
\* socket between them let no operation overtake an earlier one and none be read
\* twice, through buffers that drop their oldest publish, failed writes,
\* reconnections and restarts.
THEOREM AsyncInOrder == Spec => []InOrder
  <1>1. Spec => [](AsyncInv /\ Ordered)
    BY AsyncOrdered
  <1>2. AsyncInv /\ Ordered => InOrder
    BY InvInOrder
  <1> QED  BY <1>1, <1>2, PTL
=============================================================================
