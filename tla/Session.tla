------------------------------ MODULE Session -------------------------------
(***************************************************************************)
(* A session of the synchronous client that survives connections and, with *)
(* the file persistence of MQTTPersistenceDefault.c, the process: QoS 1    *)
(* and 2 messages in both directions, the records kept of them on disk,    *)
(* the retry after a reconnect, packets only partly written and the        *)
(* acknowledgements queued meanwhile (MQTT 3.1.1, cleansession as chosen). *)
(*                                                                         *)
(* A crash may hit between any two writes to the disk of one handler, and  *)
(* inside a write: pstput empties the file before it writes it.  A handler *)
(* is therefore given by the states of the disk it passes through, see     *)
(* Perform.  A failed write to the socket is a write followed by LinkDown: *)
(* what was written is lost with the connection.                           *)
(***************************************************************************)
EXTENDS Integers, Sequences, FiniteSets, SequencesExt

CONSTANTS
    NOut,            \* number of messages the application publishes
    OutQos,          \* QoS of each of them
    NIn,             \* number of messages the broker has for the client
    InQos,           \* QoS of each of them
    MaxMsgId,        \* MAX_MSG_ID
    LastIds,         \* the last message id used by exchanges that are complete
    MaxInflight,     \* maxInflightMessages
    SeqnoLimit,      \* PERSISTENCE_SEQNO_LIMIT
    CleanSession,    \* the cleansession option
    MaxMessages,     \* bound: messages published, by both sides together
    MaxDelays,       \* bound: packets only partly written and resends after a delay
    MaxCrashes,      \* bound: crashes of the process
    MaxBreaks        \* bound: connections lost

ASSUME SessionAssumption ==
    /\ NOut \in Nat /\ OutQos \in [1..NOut -> {1, 2}]
    /\ NIn \in Nat /\ InQos \in [1..NIn -> {1, 2}]
    /\ MaxInflight \in Nat \ {0} /\ MaxMsgId \in Nat /\ MaxMsgId > MaxInflight
    /\ LastIds \subseteq 0..MaxMsgId
    /\ SeqnoLimit \in Nat \ {0}
    /\ CleanSession \in BOOLEAN
    /\ {MaxMessages, MaxDelays, MaxCrashes, MaxBreaks} \subseteq Nat

VARIABLES
    mem,          \* the memory of the client process, see Created
    disk,         \* its persistence directory, see EmptyDisk
    toBroker,     \* packets on the connection
    toClient,
    bpub,         \* broker: QoS 2 messages of the client awaiting PUBREL, by id
    bout,         \* broker: its unacknowledged publications to the client
    sentIn,       \* broker: how many of its messages it has published so far
    phase,        \* what the application knows of each message it published
    distributed,  \* how often the broker distributed each of them
    arrived,      \* messages handed to messageArrived
    reused,       \* history: an id was given out while packets of its last use were about
    torn,         \* history: kinds of records a crash cut short as they were rewritten
    leftover,     \* history: acks queued on a connection were still queued on the next
    partials, crashes, breaks, retries   \* how often each has happened

clientVars == <<mem, disk, phase, arrived>>
brokerVars == <<bpub, bout, sentIn, distributed>>
vars == <<mem, disk, toBroker, toClient, bpub, bout, sentIn, phase, distributed,
          arrived, reused, torn, leftover, partials, crashes, breaks, retries>>

Messages == 1..NOut
Ids == 1..MaxMsgId

\* Functions from keys to messages: records of the store, by id or number.
Put(f, k, v) == [x \in DOMAIN f \cup {k} |-> IF x = k THEN v ELSE f[x]]
Without(f, k) == [x \in DOMAIN f \ {k} |-> f[x]]

\* The numbers in S in ascending order.
Ascending(S) ==
    CHOOSE f \in [1..Cardinality(S) -> S] :
        \A i, j \in 1..Cardinality(S) : i < j => f[i] < f[j]

\* The keys s-<id>, sc-<id>, r-<id> and q-<number> of the store.  Files that a
\* crash left cut short: ids of s- and sc-, and the message Garbage of a q-.
Garbage == 0
EmptyDisk == [sent |-> <<>>, pubrel |-> {}, rcvd |-> <<>>, queue |-> <<>>,
              badSent |-> {}, badPubrel |-> {}]

\* The client structure after MQTTClient_create, with nothing to restore.
Created ==
    [up |-> TRUE, connected |-> FALSE,
     partial |-> <<>>,     \* the packet only partly written, if any
     msgID |-> 0,
     outbound |-> <<>>,    \* outboundMsgs: [id, msg, next]
     inbound |-> <<>>,     \* inboundMsgs: QoS 2 messages by id
     acks |-> <<>>,        \* outboundQueue: acknowledgements not yet written
     queue |-> <<>>,       \* messageQueue: [seqno, msg]
     seqno |-> 0,          \* qentry_seqno
     csent |-> 0,          \* connect_sent
     ccount |-> 0]         \* connect_count

Down == [Created EXCEPT !.up = FALSE]

Init ==
    /\ \E id \in LastIds : mem = [Created EXCEPT !.msgID = id]
    /\ disk = EmptyDisk
    /\ toBroker = <<>> /\ toClient = <<>>
    /\ bpub = <<>> /\ bout = <<>> /\ sentIn = 0
    /\ phase = [n \in Messages |-> "new"]
    /\ distributed = [n \in Messages |-> 0]
    /\ arrived = <<>>
    /\ reused = FALSE /\ leftover = FALSE /\ torn = {}
    /\ partials = 0 /\ crashes = 0 /\ breaks = 0 /\ retries = 0

-----------------------------------------------------------------------------

Packet(type, id, msg) == [type |-> type, id |-> id, msg |-> msg]
Ack(type, id) == Packet(type, id, 0)

\* MQTTPersistence_putPacket: a PUBLISH about to be sent, a PUBREL about to be
\* sent, a QoS 2 PUBLISH just read.
PutSent(d, id, msg) == [d EXCEPT !.sent = Put(@, id, msg)]
PutPubrel(d, id) == [d EXCEPT !.pubrel = @ \cup {id}]
PutReceived(d, id, msg) == [d EXCEPT !.rcvd = Put(@, id, msg)]

\* pstput between fopen, which empties the file, and fclose, which has written
\* it: the record is not there any more, or not yet.  Only pcontainskey, asked
\* for s- and sc-, still finds the file.
TearSent(d, id) == [d EXCEPT !.sent = Without(@, id), !.badSent = @ \cup {id}]
TearPubrel(d, id) == [d EXCEPT !.pubrel = @ \ {id}, !.badPubrel = @ \cup {id}]
TearReceived(d, id) == [d EXCEPT !.rcvd = Without(@, id)]
TearQueueEntry(d, seqno) == [d EXCEPT !.queue = Put(@, seqno, Garbage)]

\* MQTTPersistence_remove: the disk after each removal.
RemoveSent(d, id) ==
    LET d1 == [d EXCEPT !.sent = Without(@, id)]
    IN  <<d1, [d1 EXCEPT !.pubrel = @ \ {id}]>>
RemoveReceived(d, id) == [d EXCEPT !.rcvd = Without(@, id)]

\* Mutant: the queue entry is not stored.
PersistQueueEntryForgotten(d, seqno, msg) == d
PersistQueueEntry(d, seqno, msg) == [d EXCEPT !.queue = Put(@, seqno, msg)]
\* Mutant: a delivered entry stays on the disk.
UnpersistQueueEntryForgotten(d, seqno) == d
UnpersistQueueEntry(d, seqno) == [d EXCEPT !.queue = Without(@, seqno)]
NextSeqno(seqno) == IF seqno + 1 = SeqnoLimit THEN 0 ELSE seqno + 1

\* clearUnix passes the bare names it reads in the client's directory to lstat
\* and remove, which look for them in the working directory: nothing goes.
PersistenceClear(d) == d

\* The process dies, with d on the disk; the records of whole were complete.
CrashWith(whole, d) ==
    /\ crashes < MaxCrashes
    /\ crashes' = crashes + 1
    /\ disk' = d
    /\ mem' = Down
    /\ torn' = torn \cup (IF DOMAIN whole.sent \cap d.badSent # {} THEN {"sent"} ELSE {})
                    \cup (IF whole.pubrel \cap d.badPubrel # {} THEN {"pubrel"} ELSE {})
    /\ UNCHANGED partials

CrashIn(disks) ==
    /\ \E i \in DOMAIN disks : CrashWith(disk, disks[i])
    /\ UNCHANGED toBroker

MoreDelays == partials + retries < MaxDelays

\* A handler takes the disk through the states in disks, then leaves memory m
\* and the written packets on the connection; or it crashes on the way.
Perform(disks, m, written) ==
    \/ /\ disk' = Last(disks)
       /\ mem' = m
       /\ toBroker' = toBroker \o written
       /\ partials' = partials + (IF mem.partial = <<>> THEN Len(m.partial) ELSE 0)
       /\ UNCHANGED <<crashes, torn>>
    \/ CrashIn(disks)

\* One packet is written whole, or in part and then kept until the socket
\* takes the rest (SocketBuffer_pendingWrite, external).
Send(disks, m, p) ==
    \/ Perform(disks, m, <<p>>)
    \/ MoreDelays /\ Perform(disks, [m EXCEPT !.partial = <<p>>], <<>>)

\* An acknowledgement waits behind a packet that is only partly written.
SendAck(disks, m, p) ==
    IF m.partial # <<>>
    THEN Perform(disks, [m EXCEPT !.acks = Append(@, p)], <<>>)
    ELSE Send(IF p.type = "PUBREL"
              THEN disks \o <<TearPubrel(Last(disks), p.id), PutPubrel(Last(disks), p.id)>>
              ELSE disks,
              m, p)

Connected == mem.up /\ mem.connected

OutIds == {mem.outbound[i].id : i \in DOMAIN mem.outbound}

\* Mutant: ids in flight are not skipped.
AssignMsgIdUnchecked == (mem.msgID % MaxMsgId) + 1

\* MQTTProtocol_assignMsgId: the next id, in cyclic order, not in outboundMsgs.
AssignMsgId ==
    LET after(i) == (i - mem.msgID - 1) % MaxMsgId
    IN  CHOOSE i \in Ids \ OutIds : \A j \in Ids \ OutIds : after(i) <= after(j)

\* The ids of the client's exchanges that something is left of: a PUBLISH or
\* PUBREL on the connection, partly written or queued, an answer of the broker,
\* a PUBREL on the disk, a message the broker keeps.  MQTTProtocol_assignMsgId looks at none of them.
Sending == {"PUBLISH", "PUBREL"}
Answering == {"PUBACK", "PUBREC", "PUBCOMP"}
IdsInTransit ==
    {p.id : p \in {q \in Range(toBroker \o mem.partial \o mem.acks) : q.type \in Sending}
                  \cup {q \in Range(toClient) : q.type \in Answering}}
        \cup disk.pubrel \cup DOMAIN bpub

MoreMessages == Cardinality({n \in Messages : phase[n] # "new"}) + sentIn < MaxMessages

\* MQTTClient_publish5 with MQTTProtocol_startPublish.
Publish(n) ==
    /\ Connected
    /\ MoreMessages
    /\ phase[n] = "new"
    /\ n > 1 => phase[n - 1] # "new"
    /\ Len(mem.outbound) < MaxInflight
    /\ mem.partial = <<>>
    /\ LET id == AssignMsgId
           next == IF OutQos[n] = 2 THEN "PUBREC" ELSE "PUBACK"
           m == [mem EXCEPT !.msgID = id,
                            !.outbound = Append(@, [id |-> id, msg |-> n, next |-> next])]
       IN  Send(<<disk, TearSent(disk, id), PutSent(disk, id, n)>>, m, Packet("PUBLISH", id, n))
    /\ phase' = [phase EXCEPT ![n] = IF mem'.up THEN "accepted" ELSE "submitted"]
    /\ reused' = (reused \/ AssignMsgId \in IdsInTransit)
    /\ UNCHANGED <<toClient, brokerVars, arrived, breaks, retries, leftover>>

-----------------------------------------------------------------------------

Received == Head(toClient)

Reads(type) ==
    /\ Connected
    /\ toClient # <<>>
    /\ Received.type = type
    /\ toClient' = Tail(toClient)
    /\ UNCHANGED <<brokerVars, arrived, breaks, retries, reused, leftover>>

\* Protocol_processPublication: the message joins messageQueue and the disk.
Enqueue(m, msg) ==
    LET n == NextSeqno(m.seqno)
    IN  [m EXCEPT !.seqno = n, !.queue = Append(@, [seqno |-> n, msg |-> msg])]

\* MQTTPacket_Factory stores a QoS 2 message before the handler sees it.
HandlePublishes ==
    /\ Reads("PUBLISH")
    /\ LET id == Received.id
           msg == Received.msg
       IN  IF InQos[msg] = 1
           THEN LET m == Enqueue(mem, msg)
                IN  SendAck(<<disk, TearQueueEntry(disk, m.seqno),
                              PersistQueueEntry(disk, m.seqno, msg)>>, m, Ack("PUBACK", id))
           ELSE SendAck(<<disk, TearReceived(disk, id), PutReceived(disk, id, msg)>>,
                        [mem EXCEPT !.inbound = Put(@, id, msg)], Ack("PUBREC", id))
    /\ UNCHANGED phase

\* Mutant: the message stays in inboundMsgs.
HandlePubrelsKeeps ==
    /\ Reads("PUBREL")
    /\ LET id == Received.id
       IN  IF id \in DOMAIN mem.inbound
           THEN LET m == Enqueue(mem, mem.inbound[id])
                IN  SendAck(<<disk, PersistQueueEntry(disk, m.seqno, mem.inbound[id])>>,
                            m, Ack("PUBCOMP", id))
           ELSE SendAck(<<disk>>, mem, Ack("PUBCOMP", id))
    /\ UNCHANGED phase

\* An unknown id is answered as well.
HandlePubrels ==
    /\ Reads("PUBREL")
    /\ LET id == Received.id
       IN  IF id \in DOMAIN mem.inbound
           THEN LET msg == mem.inbound[id]
                    m == Enqueue([mem EXCEPT !.inbound = Without(@, id)], msg)
                    d == PersistQueueEntry(disk, m.seqno, msg)
                IN  SendAck(<<disk, TearQueueEntry(disk, m.seqno), d, RemoveReceived(d, id)>>,
                            m, Ack("PUBCOMP", id))
           ELSE SendAck(<<disk>>, mem, Ack("PUBCOMP", id))
    /\ UNCHANGED phase

\* The entry of outboundMsgs an acknowledgement is for.
Matching(id, next) ==
    {i \in DOMAIN mem.outbound : mem.outbound[i].id = id /\ mem.outbound[i].next = next}

\* PUBACK and PUBCOMP end an exchange; deliveryComplete is then called.
HandleCompletion(type) ==
    /\ Reads(type)
    /\ IF Matching(Received.id, type) = {}
       THEN /\ Perform(<<disk>>, mem, <<>>)
            /\ UNCHANGED phase
       ELSE \E i \in Matching(Received.id, type) :
                /\ Perform(<<disk>> \o RemoveSent(disk, Received.id),
                           [mem EXCEPT !.outbound = RemoveAt(@, i)], <<>>)
                /\ phase' = [phase EXCEPT ![mem.outbound[i].msg] =
                                IF mem'.up THEN "confirmed" ELSE @]

\* PUBREL is sent "under all circumstances", and stored before it is sent.
HandlePubrecs ==
    /\ Reads("PUBREC")
    /\ LET hit == Matching(Received.id, "PUBREC")
           m == [mem EXCEPT !.outbound =
                    [i \in DOMAIN @ |-> IF i \in hit THEN [@[i] EXCEPT !.next = "PUBCOMP"] ELSE @[i]]]
       IN  SendAck(<<disk>>, m, Ack("PUBREL", Received.id))
    /\ UNCHANGED phase

\* The background thread calls messageArrived, then drops the entry.
Deliver ==
    /\ Connected
    /\ mem.queue # <<>>
    /\ arrived' = Append(arrived, Head(mem.queue).msg)
    /\ Perform(<<disk, UnpersistQueueEntry(disk, Head(mem.queue).seqno)>>,
               [mem EXCEPT !.queue = Tail(@)], <<>>)
    /\ UNCHANGED <<toClient, brokerVars, phase, breaks, retries, reused, leftover>>

\* The disk once the first k of these packets are stored: each PUBREL again, and
\* each PUBLISH, whose record is what it was.
Stored(d, packets, k) ==
    [d EXCEPT !.pubrel = @ \cup {packets[i].id : i \in {j \in 1..k : packets[j].type = "PUBREL"}}]

\* The process dies in pstput for one of the packets, the ones before it being
\* stored and written.
CrashInPut(d, earlier, packets) ==
    \E k \in {i \in DOMAIN packets : packets[i].type \in Sending} :
        LET before == Stored(d, packets, k - 1)
        IN  /\ CrashWith(before, IF packets[k].type = "PUBREL"
                                 THEN TearPubrel(before, packets[k].id)
                                 ELSE TearSent(before, packets[k].id))
            /\ toBroker' = earlier \o SubSeq(packets, 1, k - 1)

\* The socket takes the rest of the pending packet; MQTTProtocol_writeAvailable
\* then writes the queued acknowledgements.  When one of them is written only
\* in part the loop ends, and ListEmpty drops those behind it.
WriteAvailable ==
    /\ Connected
    /\ mem.partial # <<>>
    /\ \/ \E k \in IF MoreDelays THEN 0..Len(mem.acks) ELSE {Len(mem.acks)} :
              LET stuck == IF k < Len(mem.acks) THEN <<mem.acks[k + 1]>> ELSE <<>>
              IN  /\ partials' = partials + Len(stuck)
                  /\ toBroker' = toBroker \o mem.partial \o SubSeq(mem.acks, 1, k)
                  /\ mem' = [mem EXCEPT !.partial = stuck, !.acks = <<>>]
                  /\ disk' = Stored(disk, mem.acks, k + Len(stuck))
                  /\ UNCHANGED <<crashes, torn>>
       \/ CrashInPut(disk, toBroker \o mem.partial, mem.acks)
    /\ UNCHANGED <<toClient, brokerVars, phase, arrived, breaks, retries, reused, leftover>>

-----------------------------------------------------------------------------

\* (For QoS 1 next is always PUBACK.)
Resend(e) == IF e.next = "PUBCOMP" THEN Ack("PUBREL", e.id) ELSE Packet("PUBLISH", e.id, e.msg)

Resends(m, indexes) == [i \in DOMAIN indexes |-> Resend(m.outbound[indexes[i]])]

\* MQTTProtocol_retries stores and writes the entries with these indexes (in
\* ascending order) until one is written only in part: a PUBREL then closes the
\* session.  counted is TRUE for a retry on connect, which counts in
\* connect_sent.
RetryOutcomes(m, indexes, counted) ==
    LET n == Len(indexes)
        packets == Resends(m, indexes)
        after(k, stuck) ==
            [m |-> [m EXCEPT !.csent = IF counted THEN @ + k ELSE @,
                             !.partial = IF stuck THEN <<packets[k]>> ELSE <<>>,
                             !.connected = ~(stuck /\ packets[k].type = "PUBREL")],
             partials |-> partials + (IF stuck THEN 1 ELSE 0),
             written |-> SubSeq(packets, 1, IF stuck THEN k - 1 ELSE k),
             stored |-> k]
    IN  {after(n, FALSE)} \cup {after(k, TRUE) : k \in IF MoreDelays THEN 1..n ELSE {}}

AllIndexes(m) == [i \in DOMAIN m.outbound |-> i]

\* MQTTClient_cleanSession.
CleanedMemory(m) ==
    [m EXCEPT !.outbound = <<>>, !.inbound = <<>>, !.queue = <<>>, !.msgID = 0]

Discard == [n \in Messages |->
               IF \E i \in DOMAIN mem.outbound : mem.outbound[i].msg = n
               THEN "discarded" ELSE phase[n]]

\* A successful connect: the session is cleaned if the option says so, else
\* every message in flight is stored and sent again.  The broker resumes its own
\* session.
\* outboundQueue is not emptied: acknowledgements queued on the last connection
\* stay, to be written on this one.
Connect ==
    /\ mem.up
    /\ ~mem.connected
    /\ LET m == [mem EXCEPT !.connected = TRUE, !.partial = <<>>]
           m1 == IF CleanSession THEN CleanedMemory(m) ELSE m
           m2 == IF m1.outbound = <<>> THEN m1 ELSE [m1 EXCEPT !.ccount = Len(m1.outbound)]
           d == IF CleanSession THEN PersistenceClear(disk) ELSE disk
           packets == Resends(m2, AllIndexes(m2))
       IN  \/ \E r \in RetryOutcomes(m2, AllIndexes(m2), TRUE) :
                 /\ mem' = r.m
                 /\ partials' = r.partials
                 /\ toBroker' = r.written
                 /\ disk' = Stored(d, packets, r.stored)
                 /\ UNCHANGED <<crashes, torn>>
           \/ CrashInPut(d, <<>>, packets)
    /\ phase' = IF CleanSession THEN Discard ELSE phase
    /\ bout' = IF CleanSession THEN <<>> ELSE bout
    /\ bpub' = IF CleanSession THEN <<>> ELSE bpub
    /\ toClient' = [i \in DOMAIN bout' |-> IF bout'[i].next = "PUBCOMP"
                                           THEN Ack("PUBREL", bout'[i].id)
                                           ELSE Packet("PUBLISH", bout'[i].id, bout'[i].msg)]
    /\ leftover' = (leftover \/ mem.acks # <<>>)
    /\ UNCHANGED <<sentIn, distributed, arrived, breaks, retries, reused>>

\* MQTTClient_retry.  With retryInterval 0 it continues the retry of the last
\* connect, from the first message, as long as connect_sent is behind; and,
\* connect_sent never being reset, it resends old messages once it is ahead.
PeriodicRetry ==
    /\ Connected
    /\ mem.partial = <<>>
    /\ mem.outbound # <<>>
    /\ mem.csent # mem.ccount
    /\ LET continues == mem.csent < mem.ccount
       IN  /\ IF continues THEN retries' = retries
              ELSE MoreDelays /\ retries' = retries + 1
           /\ \E S \in IF continues THEN {DOMAIN mem.outbound}
                            ELSE (SUBSET DOMAIN mem.outbound) \ {{}} :
              LET packets == Resends(mem, Ascending(S))
              IN  \/ \E r \in RetryOutcomes(mem, Ascending(S), continues) :
                        /\ mem' = r.m
                        /\ partials' = r.partials
                        /\ toBroker' = toBroker \o r.written
                        /\ disk' = Stored(disk, packets, r.stored)
                        /\ UNCHANGED <<crashes, torn>>
                  \/ CrashInPut(disk, toBroker, packets)
    /\ UNCHANGED <<toClient, brokerVars, phase, arrived, breaks, reused, leftover>>

\* The connection is lost and the session closed; queued acks stay queued.
LinkDown ==
    /\ Connected
    /\ breaks < MaxBreaks
    /\ breaks' = breaks + 1
    /\ LET m == [mem EXCEPT !.connected = FALSE, !.partial = <<>>]
       IN  mem' = IF CleanSession THEN CleanedMemory(m) ELSE m
    /\ disk' = IF CleanSession THEN PersistenceClear(disk) ELSE disk
    /\ phase' = IF CleanSession THEN Discard ELSE phase
    /\ UNCHANGED <<toBroker, toClient, brokerVars, arrived, partials, crashes, retries, reused, torn, leftover>>

Crash ==
    /\ mem.up
    /\ CrashIn(<<disk>>)
    /\ UNCHANGED <<toClient, brokerVars, phase, arrived, breaks, retries, reused, leftover>>

\* MQTTPersistence_wrapMsgID: the list, in order of ids, starts after the
\* largest gap, the gap around MAX_MSG_ID unless another one is larger.
WrapMsgID(s) ==
    LET gap(i) == IF i = 1 THEN MaxMsgId - Last(s).id + s[1].id ELSE s[i].id - s[i - 1].id
        first == CHOOSE i \in DOMAIN s : \A j \in DOMAIN s :
                     gap(i) > gap(j) \/ (gap(i) = gap(j) /\ i <= j)
    IN  IF s = <<>> THEN s ELSE SubSeq(s, first, Len(s)) \o SubSeq(s, 1, first - 1)

\* Mutant: the PUBREL record is not looked for.
RestorePacketsNoPubrel(d) ==
    LET ids == Ascending(DOMAIN d.sent)
        next(msg) == IF OutQos[msg] = 1 THEN "PUBACK" ELSE "PUBREC"
    IN  WrapMsgID([i \in DOMAIN ids |->
                      [id |-> ids[i], msg |-> d.sent[ids[i]], next |-> next(d.sent[ids[i]])]])

\* Mutant: packets are not restored.
RestorePacketsNone(d) == <<>>

\* MQTTPersistence_restorePackets: PUBLISH records in order of their ids.  (Of a
\* QoS 1 message the handlers never look at nextMessageType.)
RestorePackets(d) ==
    LET ids == Ascending(DOMAIN d.sent)
        next(id) == IF OutQos[d.sent[id]] = 1 THEN "PUBACK"
                    ELSE IF id \in d.pubrel THEN "PUBCOMP" ELSE "PUBREC"
    IN  WrapMsgID([i \in DOMAIN ids |->
                      [id |-> ids[i], msg |-> d.sent[ids[i]], next |-> next(ids[i])]])

\* MQTTPersistence_restoreMessageQueue: in order of the numbers in the keys.
RestoreMessageQueue(d) ==
    LET numbers == Ascending(DOMAIN d.queue)
    IN  [i \in DOMAIN numbers |-> [seqno |-> numbers[i], msg |-> d.queue[numbers[i]]]]

\* A q- file cut short is read past its end, and whatever stands there is the
\* entry; or its length cannot be allocated, and the entry is skipped and its
\* file kept.  (Or the process dies of it: a Restart and a Crash.)
ReadableQueues(d) ==
    {[d EXCEPT !.queue = Restrict(@, DOMAIN @ \ S)] :
        S \in SUBSET {k \in DOMAIN d.queue : d.queue[k] = Garbage}}

\* The process starts again and calls MQTTClient_create.  Files of s- and sc- cut
\* short are removed as they are met, as are PUBRELs without a PUBLISH; found is
\* whether such a file is looked for before it is met.  (A crash in the middle of
\* this is a Restart and a Crash: what is left to remove the next one removes.)
Restart ==
    /\ ~mem.up
    /\ \E found \in BOOLEAN, readable \in ReadableQueues(disk) :
           LET of(S) == IF found THEN S ELSE {}
           IN  /\ mem' = [Created EXCEPT
                             !.outbound = RestorePackets([disk EXCEPT !.pubrel = @ \cup of(disk.badPubrel)]),
                             !.inbound = disk.rcvd,
                             !.queue = RestoreMessageQueue(readable),
                             !.seqno = Max(DOMAIN readable.queue \cup {0})]
               /\ disk' = [disk EXCEPT
                              !.pubrel = @ \cap (DOMAIN disk.sent \cup of(disk.badSent)),
                              !.badSent = {}, !.badPubrel = {}]
    /\ UNCHANGED <<toBroker, toClient, brokerVars, phase, arrived, partials, crashes, breaks, retries, reused, torn, leftover>>

-----------------------------------------------------------------------------
(* The broker's side of the session (external).                            *)

BrokerReads(type) ==
    /\ toBroker # <<>>
    /\ Head(toBroker).type = type
    /\ toBroker' = Tail(toBroker)
    /\ UNCHANGED <<clientVars, sentIn, partials, crashes, breaks, retries, reused, torn, leftover>>

Answer(type) == toClient' = Append(toClient, Ack(type, Head(toBroker).id))
Distribute(n) == distributed' = [distributed EXCEPT ![n] = @ + 1]

\* QoS 2 is distributed when its PUBREL comes; an id already known is repeated.
BrokerPublish ==
    /\ BrokerReads("PUBLISH")
    /\ LET p == Head(toBroker)
       IN  IF OutQos[p.msg] = 1
           THEN Answer("PUBACK") /\ Distribute(p.msg) /\ UNCHANGED bpub
           ELSE /\ Answer("PUBREC")
                /\ bpub' = IF p.id \in DOMAIN bpub THEN bpub ELSE Put(bpub, p.id, p.msg)
                /\ UNCHANGED distributed
    /\ UNCHANGED bout

BrokerPubrel ==
    /\ BrokerReads("PUBREL")
    /\ Answer("PUBCOMP")
    /\ LET id == Head(toBroker).id
       IN  IF id \in DOMAIN bpub
           THEN Distribute(bpub[id]) /\ bpub' = Without(bpub, id)
           ELSE UNCHANGED <<distributed, bpub>>
    /\ UNCHANGED bout

BrokerCompletion(type) ==
    /\ BrokerReads(type)
    /\ LET done == {i \in DOMAIN bout : bout[i].id = Head(toBroker).id /\ bout[i].next = type}
       IN  IF done = {} THEN UNCHANGED bout ELSE \E i \in done : bout' = RemoveAt(bout, i)
    /\ UNCHANGED <<toClient, bpub, distributed>>

BrokerPubrec ==
    /\ BrokerReads("PUBREC")
    /\ Answer("PUBREL")
    /\ bout' = [i \in DOMAIN bout |-> IF bout[i].id = Head(toBroker).id /\ bout[i].next = "PUBREC"
                                      THEN [bout[i] EXCEPT !.next = "PUBCOMP"] ELSE bout[i]]
    /\ UNCHANGED <<bpub, distributed>>

BrokerSend ==
    /\ Connected
    /\ sentIn < NIn
    /\ MoreMessages
    /\ sentIn' = sentIn + 1
    /\ Len(bout) < MaxMsgId
    /\ LET used == {bout[i].id : i \in DOMAIN bout}
           id == Min(Ids \ used)
           next == IF InQos[sentIn'] = 2 THEN "PUBREC" ELSE "PUBACK"
       IN  /\ bout' = Append(bout, [id |-> id, msg |-> sentIn', next |-> next])
           /\ toClient' = Append(toClient, Packet("PUBLISH", id, sentIn'))
    /\ UNCHANGED <<clientVars, toBroker, bpub, distributed, partials, crashes, breaks, retries, reused, torn, leftover>>

-----------------------------------------------------------------------------

ClientStep ==
    \/ HandlePublishes \/ HandlePubrels \/ HandlePubrecs
    \/ HandleCompletion("PUBACK") \/ HandleCompletion("PUBCOMP")
    \/ Deliver \/ WriteAvailable

BrokerStep ==
    \/ BrokerPublish \/ BrokerPubrel \/ BrokerPubrec
    \/ BrokerCompletion("PUBACK") \/ BrokerCompletion("PUBCOMP")

Next ==
    \/ \E n \in Messages : Publish(n)
    \/ ClientStep \/ Connect \/ Restart \/ PeriodicRetry
    \/ BrokerStep \/ BrokerSend
    \/ LinkDown \/ Crash

\* The background thread and the broker keep running, the application connects
\* again and starts again after a crash.  It need not publish.
Fairness ==
    /\ WF_vars(ClientStep)
    /\ WF_vars(Deliver)
    /\ WF_vars(Connect)
    /\ WF_vars(Restart)
    /\ WF_vars(PeriodicRetry)
    /\ WF_vars(BrokerStep)
    /\ WF_vars(BrokerSend)

Spec == Init /\ [][Next]_vars /\ Fairness
-----------------------------------------------------------------------------
(* Properties.                                                             *)

TypeOK ==
    /\ mem.up \in BOOLEAN /\ mem.connected \in BOOLEAN
    /\ mem.msgID \in 0..MaxMsgId
    /\ OutIds \subseteq Ids /\ Len(mem.outbound) = Cardinality(OutIds)
    /\ Len(mem.outbound) <= MaxInflight
    /\ DOMAIN mem.inbound \subseteq Ids
    /\ Len(mem.partial) <= 1
    /\ DOMAIN disk.sent \subseteq Ids /\ disk.pubrel \subseteq Ids
    /\ DOMAIN disk.rcvd \subseteq Ids /\ DOMAIN disk.queue \subseteq 0..(SeqnoLimit - 1)
    /\ mem.up => disk.badSent = {} /\ disk.badPubrel = {}
    /\ phase \in [Messages -> {"new", "submitted", "accepted", "confirmed", "discarded"}]

\* Exchanges of the client and the broker may no longer match: an id was given out
\* again too early, or the record that a PUBREL was sent is gone.
Confused == reused \/ "pubrel" \in torn

\* The specification of what the session promises: MQTTClient_publish,
\* the retries and the restore of persisted packets implement Delivery.
Abstract == INSTANCE Delivery WITH confused <- Confused
ImplementsDelivery == Abstract!DeliverySpec

\* A message from the broker whose acknowledgement the broker has taken is with
\* the application, or on the disk in the queue for it: processPublication
\* persists the queue entry before PUBACK and PUBCOMP are written.  Not so once
\* acknowledgements queued on one connection are written on the next: they are for
\* messages acknowledged again meanwhile, and the broker may have given an id to
\* another message, which the second acknowledgement then ends.
AcknowledgedIsKept ==
    ~leftover =>
        \A n \in 1..sentIn :
            \/ \E i \in DOMAIN bout : bout[i].msg = n
            \/ \E i \in DOMAIN arrived : arrived[i] = n
            \/ \E k \in DOMAIN disk.queue : disk.queue[k] = n

Undamaged(queue) == SelectSeq(queue, LAMBDA e : e.msg # Garbage)

\* A crash now would lose nothing the client works on: what a restart reads from
\* the disk are the messages in flight and, in the same order, the queue for the
\* application.  Until the first crash the messages in flight come back in the
\* order they were published in, although their ids have wrapped (wrapMsgID).
\* After it they need not: MQTTClient_create begins again with id 1.
Recoverable ==
    mem.up =>
        /\ {<<e.id, e.msg>> : e \in Range(RestorePackets(disk))}
             = {<<e.id, e.msg>> : e \in Range(mem.outbound)}
        /\ crashes = 0 => [i \in DOMAIN RestorePackets(disk) |-> RestorePackets(disk)[i].id]
                             = [i \in DOMAIN mem.outbound |-> mem.outbound[i].id]
        /\ disk.rcvd = mem.inbound
        /\ Undamaged(RestoreMessageQueue(disk)) = Undamaged(mem.queue)

\* Every message publish reported as successful has been distributed, and every
\* message of the broker has arrived.
SettledOut == \A n \in Messages : phase[n] \in {"accepted", "confirmed"} => distributed[n] > 0
SettledIn == \A n \in 1..sentIn : \E i \in DOMAIN arrived : arrived[i] = n

\* Whatever crashes and lost connections intervene, the session settles again:
\* what publish reported as successful is distributed, and what the broker sent
\* arrives.  The former is not promised once a packet was written only in part:
\* MQTTProtocol_retries stops there, and may not continue with the other messages
\* found on reconnect, because connect_sent is not reset and can already equal
\* connect_count.  Nor is it promised once a crash hit pstput as it wrote the
\* record of a message in flight again, before the message was sent again on
\* reconnect: what is left of the record is removed on restart.  The latter is not
\* promised once acknowledgements of one connection were written on the next (see
\* AcknowledgedIsKept).
Delivers ==
    []<>((SettledIn \/ leftover) /\ (SettledOut \/ partials > 0 \/ "sent" \in torn))

\* Lost connections, repeated PUBLISH and PUBREL packets and late or queued acks
\* never hand a QoS 2 message of the broker to the application twice, as long as
\* the process lives: HandlePubrels forgets the id when it queues the message.
\* (A crash between storing the queue entry and removing the received record, or
\* between the callback and the removal of the entry, does repeat it.)
ArrivesOnce ==
    crashes = 0 => \A i, j \in DOMAIN arrived : (arrived[i] = arrived[j] /\ InQos[arrived[i]] = 2) => i = j

\* "QoS2, Exactly once: The message is always delivered exactly once"
\* (MQTTClient.h:1597), for which the store is there: at most once, even though
\* the process crashes, as long as ids are not taken for one another.  It is not
\* so: a PUBREL is stored again before it is sent again on reconnect, pstput
\* empties the file first, and with the record gone the message is published anew.
ExactlyOnce == ~reused => \A n \in Messages : OutQos[n] = 2 => distributed[n] <= 1

=============================================================================
