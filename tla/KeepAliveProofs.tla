--------------------------- MODULE KeepAliveProofs ---------------------------
(***************************************************************************)
(* The keep-alive for every interval, time between checks, latency and     *)
(* stall that the assumption allows: a live connection is kept, a live     *)
(* server hears from the client in time, and a dead one is noticed within  *)
(* DetectionTime unless the check is stuck.                                *)
(***************************************************************************)
EXTENDS KeepAlive, TLAPS

USE KeepAliveAssumption DEF Gap

\* MQTTClient_writeContinue: the age of a pending write ends with the write.
LEMMA ContinueEffect ==
    ASSUME TypeOK, Continue
    PROVE  /\ connected = 1 /\ pending = 1 /\ server = 1 /\ sinceSent' = 0
           /\ (pending' = 0 /\ stall' = 0) \/ (pending' = 1 /\ stall' = stall)
           /\ UNCHANGED <<flags, sinceReceived, sincePing, sinceDue, sinceCheck, partials,
                          cut, server, sinceDeath>>
  <1>1. stall * 0 = 0 /\ stall * 1 = stall
    BY DEF TypeOK
  <1>2. stall' = stall * pending' /\ (pending' = 0 \/ pending' = 1)
    BY Zenon DEF Continue
  <1>3. (pending' = 0 /\ stall' = 0) \/ (pending' = 1 /\ stall' = stall)
    BY <1>1, <1>2, Zenon
  <1>4. UNCHANGED <<flags, sinceReceived, sincePing, sinceDue, sinceCheck, partials,
                    cut, server, sinceDeath>>
    BY Zenon DEF Continue
  <1> QED  BY <1>3, <1>4, Zenon DEF Continue

\* The types alone: connected and the flags are bits, ages stay below the bounds
\* that the guards of Tick set.
LEMMA TypeStep == TypeOK /\ [Next]_vars => TypeOK'
  <1> SUFFICES ASSUME TypeOK, [Next]_vars PROVE TypeOK'
    OBVIOUS
  <1> USE DEF TypeOK, flags, ages
  <1>1. CASE Tick
    BY <1>1 DEF Tick
  <1>2. CASE Check
    BY <1>2 DEF Check, Keepalive, AwaitPing, Overdue, SendPing, NoteDue, CloseSession, Nothing
  <1>3. CASE Send
    BY <1>3 DEF Send
  <1>4. CASE Continue
    BY <1>4, ContinueEffect
  <1>5. CASE Receive
    BY <1>5 DEF Receive
  <1>6. CASE HandlePingresps
    BY <1>6 DEF HandlePingresps
  <1>7. CASE Die
    BY <1>7 DEF Die
  <1>8. CASE UNCHANGED vars
    BY <1>8 DEF vars
  <1> QED  BY <1>1, <1>2, <1>3, <1>4, <1>5, <1>6, <1>7, <1>8 DEF Next

\* MQTTProtocol_keepalive and the handlers around it keep every flag a bit, every age
\* a time and the age of the last check within the time between two checks.
THEOREM KeepAliveTypeCorrect == Spec => []TypeOK
  <1>1. Init => TypeOK
    BY DEF Init, TypeOK
  <1> QED  BY <1>1, TypeStep, PTL DEF Spec

-----------------------------------------------------------------------------
(* What the flags say of each other.                                       *)

\* A ping is noted only while none is outstanding, and behind a packet that was
\* partly written; a pending write is such a packet.
FlagsInv ==
    /\ ping_due = 1 => ping_outstanding = 0 /\ partials > 0
    /\ pending = 1 => partials > 0
    /\ pending = 0 => stall = 0
    /\ server = 1 => sinceDeath = 0

LEMMA FlagsStep == TypeOK /\ FlagsInv /\ [Next]_vars => FlagsInv'
  <1> SUFFICES ASSUME TypeOK, FlagsInv, [Next]_vars PROVE FlagsInv'
    OBVIOUS
  <1> USE DEF TypeOK, FlagsInv, flags, ages
  <1>1. CASE Tick
    BY <1>1 DEF Tick
  <1>2. CASE Check
    BY <1>2 DEF Check, Keepalive, AwaitPing, Overdue, SendPing, NoteDue, CloseSession, Nothing
  <1>3. CASE Send
    BY <1>3 DEF Send
  <1>4. CASE Continue
    BY <1>4, ContinueEffect
  <1>5. CASE Receive \/ HandlePingresps \/ Die
    BY <1>5 DEF Receive, HandlePingresps, Die
  <1>6. CASE UNCHANGED vars
    BY <1>6 DEF vars
  <1> QED  BY <1>1, <1>2, <1>3, <1>4, <1>5, <1>6 DEF Next

-----------------------------------------------------------------------------
(* A live server.                                                          *)

\* While the server lives a PINGREQ is answered in time; and a ping noted behind the
\* only packet that was held up is either young, as that packet is, or something was
\* received after it, or since the last check at which a ping would have been sent
\* instead.
AliveInv ==
    server = 1 =>
        /\ ping_outstanding = 1 => sincePing <= Latency
        /\ cut = 0 /\ partials <= 1 => connected = 1
        /\ ping_due = 1 /\ partials <= 1 =>
              \/ pending = 1 /\ sinceDue <= stall
              \/ pending = 0 /\ sinceDue <= Interval + sinceCheck
              \/ pending = 0 /\ sinceReceived < Interval + sinceCheck
              \/ pending = 0 /\ sinceReceived < sinceDue

LEMMA AliveStep == TypeOK /\ FlagsInv /\ AliveInv /\ [Next]_vars => AliveInv'
  <1> SUFFICES ASSUME TypeOK, FlagsInv, AliveInv, [Next]_vars PROVE AliveInv'
    OBVIOUS
  <1> USE DEF TypeOK, FlagsInv, AliveInv, flags, ages
  <1>1. CASE Tick
    BY <1>1 DEF Tick
  <1>2. CASE Check
    <2> SUFFICES ASSUME server = 1 PROVE AliveInv'
      BY <1>2 DEF Check
    <2>1. CASE ping_outstanding = 1
      BY <1>2, <2>1 DEF Check, Keepalive, AwaitPing, Nothing
    <2>2. CASE ping_outstanding = 0 /\ ping_due = 1 /\ sinceDue >= Grace
      BY <1>2, <2>2 DEF Check, Keepalive, Overdue, CloseSession, Nothing
    <2>3. CASE ping_outstanding = 0 /\ ~(ping_due = 1 /\ sinceDue >= Grace) /\ pending = 0
      <3>1. \/ SendPing
            \/ Nothing /\ sinceReceived < Interval
        BY <1>2, <2>3 DEF Check, Keepalive
      <3>2. CASE SendPing
        BY <1>2, <2>3, <3>2 DEF Check, SendPing, CloseSession
      <3>3. CASE Nothing /\ sinceReceived < Interval
        BY <1>2, <2>3, <3>3 DEF Check, Nothing
      <3> QED  BY <3>1, <3>2, <3>3
    <2>4. CASE ping_outstanding = 0 /\ ~(ping_due = 1 /\ sinceDue >= Grace) /\ pending = 1
      BY <1>2, <2>4 DEF Check, Keepalive, NoteDue, Nothing
    <2> QED  BY <2>1, <2>2, <2>3, <2>4
  <1>3. CASE Send
    BY <1>3 DEF Send
  <1>4. CASE Continue
    BY <1>4, ContinueEffect
  <1>5. CASE Receive \/ HandlePingresps \/ Die
    BY <1>5 DEF Receive, HandlePingresps, Die
  <1>6. CASE UNCHANGED vars
    BY <1>6 DEF vars
  <1> QED  BY <1>1, <1>2, <1>3, <1>4, <1>5, <1>6 DEF Next

\* MQTTProtocol_keepalive never closes the connection to a server that answers a
\* PINGREQ within Latency and takes pending data within MaxStall, for all times with
\* Latency + Gap and Interval + Gap below one and a half intervals, as long as at most
\* one packet was held up and that was not the PINGREQ.
THEOREM AliveConnectionKept == Spec => []AliveKept
  <1>1. Init => FlagsInv /\ AliveInv
    BY DEF Init, FlagsInv, AliveInv
  <1>2. AliveInv => AliveKept
    BY DEF AliveInv, AliveKept
  <1> QED  BY <1>1, <1>2, KeepAliveTypeCorrect, FlagsStep, AliveStep, PTL DEF Spec

\* Without a packet held up nothing is sent for at most an interval, or for the time
\* the last PINGREQ took, when a check comes round.
HearsInv ==
    connected = 1 /\ server = 1 /\ partials = 0 =>
        /\ ping_outstanding = 1 => sinceSent <= sincePing
        /\ ping_outstanding = 0 =>
              sinceSent < Interval + sinceCheck \/ sinceSent <= Latency + sinceCheck

LEMMA HearsStep == TypeOK /\ FlagsInv /\ AliveInv /\ HearsInv /\ [Next]_vars => HearsInv'
  <1> SUFFICES ASSUME TypeOK, FlagsInv, AliveInv, HearsInv, [Next]_vars PROVE HearsInv'
    OBVIOUS
  <1> USE DEF TypeOK, FlagsInv, AliveInv, HearsInv, flags, ages
  <1>1. CASE Tick
    BY <1>1 DEF Tick
  <1>2. CASE Check
    BY <1>2 DEF Check, Keepalive, AwaitPing, Overdue, SendPing, NoteDue, CloseSession, Nothing
  <1>3. CASE Send
    BY <1>3 DEF Send
  <1>4. CASE Continue
    BY <1>4, ContinueEffect
  <1>5. CASE Receive \/ HandlePingresps \/ Die
    BY <1>5 DEF Receive, HandlePingresps, Die
  <1>6. CASE UNCHANGED vars
    BY <1>6 DEF vars
  <1> QED  BY <1>1, <1>2, <1>3, <1>4, <1>5, <1>6 DEF Next

\* "The client will ensure that at least one message travels across the network within
\* each keep alive period": with no write held up, MQTTProtocol_keepalive sends a
\* PINGREQ before the server gives up after one and a half intervals.
THEOREM ServerHearsInTime == Spec => []ServerHears
  <1>1. Init => FlagsInv /\ AliveInv /\ HearsInv
    BY DEF Init, FlagsInv, AliveInv, HearsInv
  <1>2. TypeOK /\ AliveInv /\ HearsInv => ServerHears
    BY DEF TypeOK, AliveInv, HearsInv, ServerHears
  <1> QED  BY <1>1, <1>2, KeepAliveTypeCorrect, FlagsStep, AliveStep, HearsStep, PTL DEF Spec

-----------------------------------------------------------------------------
(* A dead server.                                                          *)

\* How far detection has come.  A ping that is outstanding was sent in time after the
\* death, and is waited for no longer than Grace; with nothing pending a ping is sent
\* as soon as nothing was received for an interval; with a write pending one is noted
\* once nothing was sent for an interval; and a noted one closes the session after
\* Grace.  Each of these is over only when a check comes round.
DeadInv ==
    connected = 1 /\ server = 0 =>
        /\ sinceDeath <= sinceReceived
        /\ ping_outstanding = 1 =>
              /\ sinceDeath < sincePing + Interval + Gap
              /\ sincePing < Grace + sinceCheck \/ sinceDeath < Grace + sinceCheck
        /\ ping_outstanding = 0 /\ pending = 0 /\ ~Stuck => sinceDeath < Interval + sinceCheck
        /\ ping_outstanding = 0 /\ pending = 1 /\ ping_due = 0 =>
              /\ sinceDeath < sinceSent + Interval + Gap
              /\ sinceSent < Interval + sinceCheck \/ sinceDeath < Interval + sinceCheck
        /\ ping_outstanding = 0 /\ pending = 1 /\ ping_due = 1 /\ ~Stuck =>
              /\ sinceDeath < sinceDue + 2 * Interval + 2 * Gap
              /\ sinceDue < Grace + sinceCheck \/ sinceDeath < Interval + sinceCheck

LEMMA DeadStep == TypeOK /\ FlagsInv /\ DeadInv /\ [Next]_vars => DeadInv'
  <1> SUFFICES ASSUME TypeOK, FlagsInv, DeadInv, [Next]_vars PROVE DeadInv'
    OBVIOUS
  <1> USE DEF TypeOK, FlagsInv, DeadInv, Stuck, flags, ages
  <1>1. CASE Tick
    BY <1>1 DEF Tick
  <1>2. CASE Check
    <2> SUFFICES ASSUME server = 0 PROVE DeadInv'
      BY <1>2 DEF Check
    <2>1. CASE ping_outstanding = 1
      BY <1>2, <2>1 DEF Check, Keepalive, AwaitPing, CloseSession, Nothing
    <2>2. CASE ping_outstanding = 0 /\ ping_due = 1 /\ sinceDue >= Grace
      BY <1>2, <2>2 DEF Check, Keepalive, Overdue, CloseSession, Nothing
    <2>3. CASE ping_outstanding = 0 /\ ~(ping_due = 1 /\ sinceDue >= Grace) /\ pending = 0
      BY <1>2, <2>3 DEF Check, Keepalive, SendPing, NoteDue, CloseSession, Nothing
    <2>4. CASE ping_outstanding = 0 /\ ~(ping_due = 1 /\ sinceDue >= Grace) /\ pending = 1
      BY <1>2, <2>4 DEF Check, Keepalive, NoteDue, Nothing
    <2> QED  BY <2>1, <2>2, <2>3, <2>4
  <1>3. CASE Send
    BY <1>3 DEF Send
  <1>4. CASE Continue
    BY <1>4, ContinueEffect
  <1>5. CASE Receive \/ HandlePingresps \/ Die
    BY <1>5 DEF Receive, HandlePingresps, Die
  <1>6. CASE UNCHANGED vars
    BY <1>6 DEF vars
  <1> QED  BY <1>1, <1>2, <1>3, <1>4, <1>5, <1>6 DEF Next

\* MQTTProtocol_keepalive closes the connection to a dead server within two intervals,
\* the grace of one and a half and three checks of its death, whatever is sent and only
\* partly written meanwhile, unless a ping noted earlier has got it stuck.
THEOREM DeadServerDetected == Spec => []DeadDetected
  <1>1. Init => FlagsInv /\ DeadInv
    BY DEF Init, FlagsInv, DeadInv
  <1>2. TypeOK /\ DeadInv => DeadDetected
    BY DEF TypeOK, DeadInv, DeadDetected, DetectionTime, Stuck
  <1> QED  BY <1>1, <1>2, KeepAliveTypeCorrect, FlagsStep, DeadStep, PTL DEF Spec
=============================================================================
