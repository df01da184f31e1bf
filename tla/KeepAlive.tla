----------------------------- MODULE KeepAlive ------------------------------
(***************************************************************************)
(* The keep-alive of a connection: MQTTProtocol_keepalive, called from the *)
(* retry loop of MQTTClient_cycle and MQTTAsync_cycle, the times that      *)
(* sending and receiving leave in the network handle, and the PINGRESP     *)
(* handler, against a server that answers until it dies.                   *)
(*                                                                         *)
(* Time is counted in ticks and a time stamp of the code is kept as its    *)
(* age: sinceSent is now - net.lastSent.  The age of a time stamp the code *)
(* does not look at (lastPing without a PINGREQ outstanding, ping_due_time *)
(* without ping_due) is kept at 0.  Flags are 0 or 1, as in the code.      *)
(***************************************************************************)
EXTENDS Integers

CONSTANTS
    Interval,     \* keepAliveInterval, not 0
    Grace,        \* one and a half of it
    RetryLoop,    \* retryLoopIntervalms
    CycleTime,    \* longest time between two cycles of the thread that reads
    Latency,      \* longest time a live server takes to answer a PINGREQ
    MaxStall,     \* longest time a live server takes for a pending write
    MaxPartials,  \* bound: packets only partly written
    Horizon       \* bound: how long a noted ping is followed

\* The longest time between two keep-alive checks.
Gap == RetryLoop + CycleTime

\* How long a dead server may stay unnoticed: nothing received for an interval, then
\* nothing sent behind a packet that is stuck for another one, then the grace of the
\* ping noted; each is over only at the next check.
DetectionTime == 2 * Interval + Grace + 3 * Gap

ASSUME KeepAliveAssumption ==
    /\ Interval \in Nat \ {0} /\ Grace \in Nat /\ 2 * Grace = 3 * Interval
    /\ RetryLoop \in Nat /\ CycleTime \in Nat
    /\ Latency \in Nat /\ Latency + Gap < Grace
    /\ MaxStall \in Nat /\ MaxStall <= Interval
    /\ MaxPartials \in Nat
    /\ Interval + Gap < Grace
    /\ Horizon \in Nat /\ Horizon > Grace + Gap

VARIABLES
    connected,         \* client->connected
    ping_outstanding,  \* a PINGREQ has not been answered
    ping_due,          \* a PINGREQ could not be sent
    sinceSent,         \* age of net.lastSent
    sinceReceived,     \* age of net.lastReceived
    sincePing,         \* age of net.lastPing
    sinceDue,          \* age of ping_due_time
    sinceCheck,        \* age of the last check
    pending,           \* the socket has a pending write
    stall,             \* age of the pending write, while the server lives
    partials,          \* how many packets were only partly written
    cut,               \* 1 if a PINGREQ was one of them
    server,            \* 1 while the server lives
    sinceDeath         \* age of its death

flags == <<connected, ping_outstanding, ping_due>>
ages == <<sinceSent, sinceReceived, sincePing, sinceDue, sinceCheck, stall, sinceDeath>>
vars == <<flags, ages, pending, partials, cut, server>>

\* A connection whose CONNACK has just been read.
Init ==
    /\ connected = 1 /\ ping_outstanding = 0 /\ ping_due = 0
    /\ sinceSent = 0 /\ sinceReceived = 0 /\ sincePing = 0 /\ sinceDue = 0
    /\ sinceCheck = 0 /\ stall = 0 /\ sinceDeath = 0
    /\ pending = 0 /\ partials = 0 /\ cut = 0 /\ server = 1

-----------------------------------------------------------------------------

\* A tick.  The thread that reads comes round in time; while it lives, the server
\* answers a PINGREQ and takes pending data in time.
Tick ==
    /\ connected = 1
    /\ sinceCheck < Gap
    /\ server = 1 /\ ping_outstanding = 1 => sincePing < Latency
    /\ server = 1 /\ pending = 1 => stall < MaxStall
    /\ sinceDue < Horizon
    /\ sinceSent' = sinceSent + 1
    /\ sinceReceived' = sinceReceived + 1
    /\ sincePing' = sincePing + ping_outstanding
    /\ sinceDue' = sinceDue + ping_due
    /\ sinceCheck' = sinceCheck + 1
    /\ stall' = IF server = 1 /\ pending = 1 THEN stall + 1 ELSE stall
    /\ sinceDeath' = IF server = 0 THEN sinceDeath + 1 ELSE 0
    /\ UNCHANGED <<flags, pending, partials, cut, server>>

\* MQTTProtocol_closeSession
CloseSession ==
    /\ connected' = 0 /\ ping_outstanding' = 0 /\ ping_due' = 0
    /\ sincePing' = 0 /\ sinceDue' = 0
    /\ UNCHANGED sinceSent

Nothing == UNCHANGED <<flags, sinceSent, sincePing, sinceDue, partials, cut>>

\* MQTTPacket_send_pingreq, on a socket with nothing pending.  The write to a
\* server that is gone may fail, one to a live server may be partial: anything
\* but a complete write closes the session.
SendPing ==
    \/ /\ ping_due' = 0 /\ ping_outstanding' = 1
       /\ sincePing' = 0 /\ sinceSent' = 0 /\ sinceDue' = 0
       /\ UNCHANGED <<connected, partials, cut>>
    \/ server = 0 /\ CloseSession /\ UNCHANGED <<partials, cut>>
    \/ /\ partials < MaxPartials
       /\ partials' = partials + 1 /\ cut' = 1
       /\ CloseSession

\* Mutant: every check that finds the socket busy counts.
NoteDueCounts ==
    /\ ping_due' = ping_due + 1 /\ sinceDue' = 0
    /\ UNCHANGED <<connected, ping_outstanding, sinceSent, sincePing, partials, cut>>
NoteDue ==
    IF ping_due = 0
    THEN /\ ping_due' = 1 /\ sinceDue' = 0
         /\ UNCHANGED <<connected, ping_outstanding, sinceSent, sincePing, partials, cut>>
    ELSE Nothing

\* The part of MQTTProtocol_keepalive for a PINGREQ not answered.  Something
\* received meanwhile may be a large packet with the PINGRESP behind it.
AwaitPing ==
    IF sincePing >= Grace /\ sinceReceived >= Grace
    THEN CloseSession /\ UNCHANGED <<partials, cut>>
    ELSE Nothing

\* The part for a PINGREQ that has been due for too long.
\* Mutant: what was received since then does not count.
OverdueCloses == CloseSession /\ UNCHANGED <<partials, cut>>
Overdue ==
    IF sinceDue <= sinceReceived THEN CloseSession /\ UNCHANGED <<partials, cut>> ELSE Nothing

\* Mutant: with nothing sent for an interval, a ping only if nothing came in.
KeepaliveReceivedOnly ==
    IF ping_outstanding = 1 THEN AwaitPing
    ELSE IF ping_due = 1 /\ sinceDue >= Grace THEN Overdue
    ELSE IF sinceReceived >= Interval /\ pending = 0 THEN SendPing
    ELSE Nothing
\* Mutant: only what was sent counts.
KeepaliveSentOnly ==
    IF ping_outstanding = 1 THEN AwaitPing
    ELSE IF ping_due = 1 /\ sinceDue >= Grace THEN Overdue
    ELSE IF sinceSent >= Interval
    THEN IF pending = 0 THEN SendPing ELSE NoteDue
    ELSE Nothing
Keepalive ==
    IF ping_outstanding = 1 THEN AwaitPing
    ELSE IF ping_due = 1 /\ sinceDue >= Grace THEN Overdue
    ELSE IF sinceSent >= Interval
    THEN IF pending = 0 THEN SendPing ELSE NoteDue
    ELSE IF sinceReceived >= Interval /\ pending = 0 THEN SendPing
    ELSE Nothing

\* MQTTClient_retry, MQTTAsync_retry: the check is made when its interval is over.
Check ==
    /\ connected = 1 /\ sinceCheck >= RetryLoop
    /\ Keepalive
    /\ sinceCheck' = 0
    /\ UNCHANGED <<sinceReceived, stall, sinceDeath, pending, server>>

-----------------------------------------------------------------------------

\* MQTTPacket_send, MQTTPacket_sends: a packet is written, or partly written; the
\* time of the last send is only set in the first case.
Send ==
    /\ connected = 1 /\ pending = 0
    /\ \/ sinceSent' = 0 /\ UNCHANGED <<pending, partials>>
       \/ /\ partials < MaxPartials
          /\ partials' = partials + 1
          /\ pending' = 1
          /\ UNCHANGED sinceSent
    /\ UNCHANGED <<flags, sinceReceived, sincePing, sinceDue, sinceCheck, stall, cut, server,
                   sinceDeath>>

\* MQTTClient_writeContinue and MQTTClient_writeComplete: a live server takes more
\* of a pending packet, or the rest of it.
Continue ==
    /\ connected = 1 /\ pending = 1 /\ server = 1
    /\ sinceSent' = 0
    /\ pending' \in {0, 1}
    /\ stall' = stall * pending'
    /\ UNCHANGED <<flags, sinceReceived, sincePing, sinceDue, sinceCheck, partials, cut,
                   server, sinceDeath>>

\* MQTTPacket_Factory: a packet, or a part of one, has been read.
Receive ==
    /\ connected = 1 /\ server = 1
    /\ sinceReceived' = 0
    /\ UNCHANGED <<flags, sinceSent, sincePing, sinceDue, sinceCheck, stall, pending,
                   partials, cut, server, sinceDeath>>

\* MQTTProtocol_handlePingresps
HandlePingresps ==
    /\ connected = 1 /\ server = 1 /\ ping_outstanding = 1
    /\ ping_outstanding' = 0 /\ sincePing' = 0
    /\ sinceReceived' = 0
    /\ UNCHANGED <<connected, ping_due, sinceSent, sinceDue, sinceCheck, stall,
                   pending, partials, cut, server, sinceDeath>>

\* External: the server dies, or the network to it does.
Die ==
    /\ server = 1 /\ connected = 1
    /\ server' = 0 /\ sinceDeath' = 0 /\ stall' = 0
    /\ UNCHANGED <<flags, sinceSent, sinceReceived, sincePing, sinceDue, sinceCheck,
                   pending, partials, cut>>

Next ==
    Tick \/ Check \/ Send \/ Continue \/ Receive \/ HandlePingresps \/ Die

Spec == Init /\ [][Next]_vars

-----------------------------------------------------------------------------

TypeOK ==
    /\ connected \in 0..1 /\ ping_outstanding \in 0..1 /\ ping_due \in 0..1
    /\ pending \in 0..1 /\ cut \in 0..1 /\ server \in 0..1
    /\ sinceSent \in Nat /\ sinceReceived \in Nat /\ sincePing \in Nat
    /\ sinceDue \in 0..Horizon /\ sinceCheck \in 0..Gap /\ stall \in 0..MaxStall
    /\ sinceDeath \in Nat /\ partials \in 0..MaxPartials

\* The keep-alive never closes the connection to a server that answers in time,
\* whatever is sent and received, also when one packet was held up in between.  Two
\* that are held up one after the other can leave ping_due set for too long.
AliveKept == server = 1 /\ cut = 0 /\ partials <= 1 => connected = 1

\* MQTTProtocol_keepalive is stuck: ping_due is only cleared by a PINGREQ, once it
\* is Grace old no PINGREQ is sent any more, and as something came in after it was
\* set, the session is not closed either.
Stuck ==
    /\ ping_due = 1 /\ sinceDue > sinceReceived
    /\ sinceDue >= Grace \/ pending = 1

\* A dead server is noticed in bounded time, unless the check is stuck.
DeadDetected ==
    connected = 1 /\ server = 0 /\ ~Stuck => sinceDeath <= DetectionTime

\* MQTTClient.h: "The keep alive interval enables the client to detect when the
\* server is no longer available": a dead server is noticed in bounded time.
ServerLossDetected ==
    connected = 1 /\ server = 0 => sinceDeath <= DetectionTime

\* "The client will ensure that at least one message travels across the network
\* within each keep alive period": as long as no write was held up, a live server
\* hears from the client before it gives up after one and a half intervals.
ServerHears ==
    connected = 1 /\ server = 1 /\ partials = 0 => sinceSent < Grace
=============================================================================
