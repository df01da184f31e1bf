------------------------------ MODULE Benchmark ------------------------------
(***************************************************************************)
(* One process of the MQTT benchmark (src/mqtt.c) on top of the Paho       *)
(* client: main, the subscriber threads Subs, the publisher threads Pubs,  *)
(* and the callbacks delivered and msgarrvd that the library's background  *)
(* thread runs.  The threads share the three semaphores and the plain      *)
(* variables deliveredtoken, it and rtt_ts; this module is about their     *)
(* interleavings.                                                          *)
(*                                                                         *)
(* A process is started by the deployment scripts with at most one topic   *)
(* per list (--pub=topic, --sub=topic); the command line accepts several,  *)
(* and starts one thread for each of them on the first topic.              *)
(***************************************************************************)
EXTENDS PahoClient

CONSTANT MAX_ITER   \* the --iterations argument

ASSUME IterAssumption == MAX_ITER \in Nat

VARIABLES
    mpc,            \* control state of main
    sub_tid,        \* the thread created last in each of main's two loops
    pub_tid,
    stop_publish,   \* the semaphores
    done_receiving,
    qos1_pubmutex,
    deliveredtoken, \* token of the last message confirmed
    it,             \* msgarrvd's counter of messages on the data topic
    allocated,      \* rtt_ts # NULL
    recorded,       \* the indices of rtt_ts written since it was allocated
    proc            \* "run", or how the process ended

semVars == <<stop_publish, done_receiving, qos1_pubmutex>>
sampleVars == <<it, allocated, recorded>>
mainVars == <<mpc, sub_tid, pub_tid, proc>>
appVars == <<mainVars, semVars, deliveredtoken, sampleVars>>
vars == <<netVars, brokerVars, clientVars, appVars>>

\* The states of main from the point where summary_stats starts.
Summarised == {"summary", "join_pubs", "disconnect", "stopping", "destroy"}
MainStates == {"spawn_subs", "spawn_pubs", "join_subs"} \cup Summarised

ThreadStates ==
    {"idle", "start", "ask", "wait", "answered", "timedout", "stop_exit", "exit",
     "receiving", "post_stop", "reset", "publish", "stop_spin", "spin", "sleep",
     "exited"}

Init ==
    /\ BrokerInit
    /\ ClientInit
    /\ mpc = "spawn_subs"
    /\ sub_tid = NULL
    /\ pub_tid = NULL
    /\ stop_publish = 0
    /\ done_receiving = 0
    /\ qos1_pubmutex = 1
    /\ deliveredtoken = -1
    /\ it = 0
    /\ allocated = FALSE
    /\ recorded = {}
    /\ proc = "run"

-----------------------------------------------------------------------------
(* The callbacks, on the background thread.                                 *)

\* delivered: waits, with the library's mutex held, until the publisher has
\* acknowledged the token before, then publishes this one.
Delivered ==
    /\ runpc = "delivered"
    /\ qos1_pubmutex > 0
    /\ qos1_pubmutex' = qos1_pubmutex - 1
    /\ deliveredtoken' = dt
    /\ runpc' = "dispatch"
    /\ UNCHANGED <<netVars, brokerVars, sessionVars, waitVars, running, tostop, got,
                   rc, dt, qe, threadVars, mainVars, stop_publish, done_receiving,
                   sampleVars>>

\* Bound: it stops counting at MAX_ITER + 1.  The code compares it with MAX_ITER
\* only, so all larger values behave alike until it wraps at 2^32.
Count == it' = IF it > MAX_ITER THEN it ELSE it + 1

\* Mutants of Sample: done_receiving is posted with the last sample instead of
\* after it, or never.
SamplePostsEarly ==
    /\ Count
    /\ recorded' = IF it < MAX_ITER THEN recorded \cup {it} ELSE recorded
    /\ done_receiving' = IF it = MAX_ITER - 1 THEN done_receiving + 1 ELSE done_receiving
    /\ UNCHANGED stop_publish

SampleNeverPosts ==
    /\ Count
    /\ recorded' = IF it < MAX_ITER THEN recorded \cup {it} ELSE recorded
    /\ UNCHANGED <<stop_publish, done_receiving>>

\* msgarrvd on the data topic: MAX_ITER samples are recorded, and the message
\* after them ends the subscription.
Sample ==
    /\ Count
    /\ recorded' = IF it < MAX_ITER THEN recorded \cup {it} ELSE recorded
    /\ done_receiving' = IF it = MAX_ITER THEN done_receiving + 1 ELSE done_receiving
    /\ UNCHANGED stop_publish

\* msgarrvd on the topic pubkill.
Pubkill ==
    /\ stop_publish' = stop_publish + 1
    /\ UNCHANGED <<it, recorded, done_receiving>>

\* msgarrvd runs without the library's mutex, frees the message and returns 1.
MsgArrived ==
    /\ runpc = "callback"
    /\ IF qe = "pubkill" THEN Pubkill ELSE Sample
    /\ runpc' = "after"
    /\ UNCHANGED <<netVars, brokerVars, sessionVars, waitVars, running, tostop, got,
                   rc, dt, qe, threadVars, mainVars, qos1_pubmutex, deliveredtoken,
                   allocated>>

\* The background thread: MQTTClient_run and the callbacks it makes.
BackgroundStep ==
    \/ RunStep /\ UNCHANGED appVars
    \/ Delivered
    \/ MsgArrived

-----------------------------------------------------------------------------
(* subscribe_thread and publish_thread.                                     *)

\* A thread changes its own pc and call, and nothing else of the library.
Goto(t, label) == pc' = [pc EXCEPT ![t] = label] /\ UNCHANGED call
Calls(t, ack) ==
    /\ pc' = [pc EXCEPT ![t] = "ask"]
    /\ call' = [call EXCEPT ![t] = ack]

LocalStep ==
    UNCHANGED <<netVars, brokerVars, sessionVars, waitVars, runVars, msgid, seen, mainVars>>

\* Mutant of Calloc: subscribe_thread forgets to allocate the buffers.
CallocForgotten(t) ==
    /\ pc[t] = "start"
    /\ Calls(t, "SUBACK")
    /\ LocalStep
    /\ UNCHANGED <<semVars, deliveredtoken, sampleVars>>

\* subscribe_thread starts: the buffers are allocated, then SUBSCRIBE (SUBS[0]).
Calloc(t) ==
    /\ pc[t] = "start"
    /\ allocated' = TRUE
    /\ recorded' = {}
    /\ Calls(t, "SUBACK")
    /\ LocalStep
    /\ UNCHANGED <<semVars, deliveredtoken, it>>

\* sem_wait (&done_receiving)
DoneReceiving(t) ==
    /\ pc[t] = "receiving"
    /\ done_receiving > 0
    /\ done_receiving' = done_receiving - 1
    /\ Goto(t, "post_stop")
    /\ LocalStep
    /\ UNCHANGED <<stop_publish, qos1_pubmutex, deliveredtoken, sampleVars>>

\* Mutants of PostStop: the subscriber ends without UNSUBSCRIBE, or unsubscribes
\* without telling the publisher to stop.
PostStopNoUnsubscribe(t) ==
    /\ pc[t] = "post_stop"
    /\ stop_publish' = stop_publish + 1
    /\ Goto(t, "exited")
    /\ LocalStep
    /\ UNCHANGED <<done_receiving, qos1_pubmutex, deliveredtoken, sampleVars>>

PostStopNoPost(t) ==
    /\ pc[t] = "post_stop"
    /\ Calls(t, "UNSUBACK")
    /\ LocalStep
    /\ UNCHANGED <<semVars, deliveredtoken, sampleVars>>

\* sem_post (&stop_publish), then UNSUBSCRIBE (SUBS[0])
PostStop(t) ==
    /\ pc[t] = "post_stop"
    /\ stop_publish' = stop_publish + 1
    /\ Calls(t, "UNSUBACK")
    /\ LocalStep
    /\ UNCHANGED <<done_receiving, qos1_pubmutex, deliveredtoken, sampleVars>>

\* deliveredtoken = 0 at the head of the publishing loop
ResetToken(t) ==
    /\ pc[t] = "reset"
    /\ deliveredtoken' = 0
    /\ Goto(t, "publish")
    /\ LocalStep
    /\ UNCHANGED <<semVars, sampleVars>>

\* Mutant of Acknowledge: qos1_pubmutex is not posted.
AcknowledgeNoPost(t) ==
    /\ pc[t] = "spin"
    /\ deliveredtoken = msgid[t]
    /\ Goto(t, "sleep")
    /\ LocalStep
    /\ UNCHANGED <<semVars, deliveredtoken, sampleVars>>

\* The busy wait for this message's token ends, and the callback may report the
\* next one.
Acknowledge(t) ==
    /\ pc[t] = "spin"
    /\ deliveredtoken = msgid[t]
    /\ qos1_pubmutex' = qos1_pubmutex + 1
    /\ Goto(t, "sleep")
    /\ LocalStep
    /\ UNCHANGED <<stop_publish, done_receiving, deliveredtoken, sampleVars>>

\* Mutants of TryStop: the semaphore is decremented whatever its value, the
\* publisher takes the post and goes on, or ends without UNSUBSCRIBE.
TryStopUnchecked(t) ==
    /\ pc[t] = "sleep"
    /\ stop_publish' = stop_publish - 1
    /\ IF stop_publish > 0 THEN Calls(t, "UNSUBACK") ELSE Goto(t, "reset")
    /\ LocalStep
    /\ UNCHANGED <<done_receiving, qos1_pubmutex, deliveredtoken, sampleVars>>

TryStopGoesOn(t) ==
    /\ pc[t] = "sleep"
    /\ stop_publish' = IF stop_publish > 0 THEN stop_publish - 1 ELSE stop_publish
    /\ Goto(t, "reset")
    /\ LocalStep
    /\ UNCHANGED <<done_receiving, qos1_pubmutex, deliveredtoken, sampleVars>>

TryStopNoUnsubscribe(t) ==
    /\ pc[t] = "sleep"
    /\ IF stop_publish > 0
       THEN stop_publish' = stop_publish - 1 /\ Goto(t, "exited")
       ELSE Goto(t, "reset") /\ UNCHANGED stop_publish
    /\ LocalStep
    /\ UNCHANGED <<done_receiving, qos1_pubmutex, deliveredtoken, sampleVars>>

\* sem_trywait(&stop_publish) at the foot of the loop: once it succeeds the thread
\* goes on to UNSUBSCRIBE (pubkill).
TryStop(t) ==
    /\ pc[t] = "sleep"
    /\ IF stop_publish > 0
       THEN /\ stop_publish' = stop_publish - 1
            /\ Calls(t, "UNSUBACK")
       ELSE /\ Goto(t, "reset")
            /\ UNCHANGED stop_publish
    /\ LocalStep
    /\ UNCHANGED <<done_receiving, qos1_pubmutex, deliveredtoken, sampleVars>>

\* The topic a thread subscribes to, and where it goes on after its calls.
TopicOf(t) == IF t \in Subs THEN "topic" ELSE "pubkill"
AfterCall(t) ==
    IF call[t] = "UNSUBACK" THEN "exited" ELSE IF t \in Subs THEN "receiving" ELSE "reset"

LibraryCall(t) ==
    \/ Ask(t, TopicOf(t))
    \/ AskError(t)
    \/ NotConnected(t)
    \/ Wait(t)
    \/ Timeout(t)
    \/ Answered(t, AfterCall(t))
    \/ Unanswered(t)
    \/ Stopped(t, "stop_exit", "exit")
    \/ Publish(t)
    \/ PublishError(t)
    \/ Stopped(t, "stop_spin", "spin")

\* exit(EXIT_FAILURE)
ExitFailure(t) ==
    /\ pc[t] = "exit"
    /\ proc' = "failed"
    /\ UNCHANGED <<netVars, brokerVars, clientVars, mpc, sub_tid, pub_tid, semVars,
                   deliveredtoken, sampleVars>>

ThreadStep(t) ==
    \/ LibraryCall(t) /\ UNCHANGED appVars
    \/ Calloc(t)
    \/ DoneReceiving(t)
    \/ PostStop(t)
    \/ ResetToken(t)
    \/ Acknowledge(t)
    \/ TryStop(t)
    \/ ExitFailure(t)

-----------------------------------------------------------------------------
(* main after MQTTClient_connect and sem_init.                              *)

SpawnSub(t) ==
    /\ mpc = "spawn_subs"
    /\ t \in Subs
    /\ pc[t] = "idle"
    /\ sub_tid' = t
    /\ Goto(t, "start")
    /\ UNCHANGED <<netVars, brokerVars, sessionVars, waitVars, runVars, msgid, seen, mpc,
                   pub_tid, proc, semVars, deliveredtoken, sampleVars>>

SpawnPub(t) ==
    /\ mpc = "spawn_pubs"
    /\ t \in Pubs
    /\ pc[t] = "idle"
    /\ pub_tid' = t
    /\ Calls(t, "SUBACK")
    /\ UNCHANGED <<netVars, brokerVars, sessionVars, waitVars, runVars, msgid, seen, mpc,
                   sub_tid, proc, semVars, deliveredtoken, sampleVars>>

\* main leaves one of its loops or calls.  The join loops wait for the thread
\* created last only, however many there are.
Advance(from, to, done) ==
    /\ mpc = from
    /\ done
    /\ mpc' = to
    /\ UNCHANGED <<netVars, brokerVars, clientVars, sub_tid, pub_tid, proc, semVars,
                   deliveredtoken, sampleVars>>

\* After the publishers main destroys the three semaphores the threads still wait on
\* and post to, which POSIX leaves undefined.  glibc's sem_destroy, the one the program
\* is built with, writes nothing, and the semaphores go on working: no step of the model.
SubsSpawned == Advance("spawn_subs", "spawn_pubs", \A t \in Subs : pc[t] # "idle")
PubsSpawned == Advance("spawn_pubs", "join_subs", \A t \in Pubs : pc[t] # "idle")
JoinSubs == Advance("join_subs", "summary", \A t \in Subs : t = sub_tid => pc[t] = "exited")
SummaryStats == Advance("summary", "join_pubs", TRUE)
JoinPubs == Advance("join_pubs", "disconnect", \A t \in Pubs : t = pub_tid => pc[t] = "exited")

\* MQTTClient_disconnect(client, 10000): waits for the messages in flight, then
\* closes the session and stops the background thread.
Disconnect ==
    /\ mpc = "disconnect"
    /\ MutexFree
    /\ \/ ~connected
       \/ inboundMsgs = {} /\ outboundMsgs = {}
       \/ "timeout" \in Faults
    /\ CloseSession
    /\ Stop
    /\ mpc' = IF MustStop THEN "stopping" ELSE "destroy"
    /\ UNCHANGED <<link, brokerVars, waitVars, running, runpc, got, rc, dt, qe, threadVars,
                   sub_tid, pub_tid, proc, semVars, deliveredtoken, sampleVars>>

BackgroundStopped == Advance("stopping", "destroy", ~running)

\* MQTTClient_destroy, and main returns.
Destroy ==
    /\ mpc = "destroy"
    /\ proc' = "returned"
    /\ UNCHANGED <<netVars, brokerVars, clientVars, mpc, sub_tid, pub_tid, semVars,
                   deliveredtoken, sampleVars>>

MainStep ==
    \/ \E t \in Subs : SpawnSub(t)
    \/ SubsSpawned
    \/ \E t \in Pubs : SpawnPub(t)
    \/ PubsSpawned
    \/ JoinSubs
    \/ SummaryStats
    \/ JoinPubs
    \/ Disconnect
    \/ BackgroundStopped
    \/ Destroy

-----------------------------------------------------------------------------
ProcessStep ==
    \/ MainStep
    \/ \E t \in Threads : ThreadStep(t)
    \/ BackgroundStep

\* The broker and the other nodes matter as long as the connection is open.
OutsideStep ==
    /\ connected
    /\ BrokerStep \/ EnvironmentStep
    /\ UNCHANGED <<clientVars, appVars>>

Ended == proc # "run" /\ UNCHANGED vars

Next ==
    \/ proc = "run" /\ (ProcessStep \/ OutsideStep)
    \/ Ended

Spec == Init /\ [][Next]_vars

\* Every thread is scheduled and the broker answers.  Fairness is strong for the
\* threads that compete for mqttclient_mutex: it is free again and again, for
\* long, while the publishers sleep MSG_INTERVAL and the background thread waits
\* for input, so a thread waiting for it is not overtaken for ever.
Fairness ==
    /\ SF_vars(proc = "run" /\ MainStep)
    /\ \A t \in Threads : SF_vars(proc = "run" /\ ThreadStep(t))
    /\ WF_vars(proc = "run" /\ BackgroundStep)
    /\ WF_vars(proc = "run" /\ connected /\ BrokerStep /\ UNCHANGED <<clientVars, appVars>>)

FairSpec == Spec /\ Fairness

-----------------------------------------------------------------------------
(* Safety.                                                                  *)

\* Every variable of the process keeps its type; in particular no semaphore of
\* mqtt.c or of the library is ever taken below zero.
TypeOK ==
    /\ BrokerTypeOK
    /\ connected \in BOOLEAN
    /\ msgID \in 0..MAX_MSG_ID
    /\ outboundMsgs \subseteq [msgid : 1..MAX_MSG_ID, nextMessageType : NextMessageTypes]
    /\ inboundMsgs \subseteq [msgid : Nat, topic : Topics]
    /\ messageQueue \in Seq(Topics)
    /\ pack \in Packs \cup {NULL}
    /\ sem \in [AckTypes -> Nat]
    /\ call_mutex \in [AckTypes -> Threads \cup {NULL}]
    /\ running \in BOOLEAN
    /\ tostop \in BOOLEAN
    /\ runpc \in RunStates
    /\ got \in Packs \cup {NULL}
    /\ rc \in {"COMPLETE", "SOCKET_ERROR"}
    /\ dt \in Nat
    /\ qe \in Topics
    /\ pc \in [Threads -> ThreadStates]
    /\ call \in [Threads -> AckTypes]
    /\ msgid \in [Threads -> 0..MAX_MSG_ID]
    /\ seen \in [Threads -> Packs \cup {NULL}]
    /\ mpc \in MainStates
    /\ sub_tid \in Subs \cup {NULL}
    /\ pub_tid \in Pubs \cup {NULL}
    /\ stop_publish \in Nat
    /\ done_receiving \in Nat
    /\ qos1_pubmutex \in Nat
    /\ deliveredtoken \in Nat \cup {-1}
    /\ it \in 0..(MAX_ITER + 1)
    /\ allocated \in BOOLEAN
    /\ recorded \subseteq 0..(MAX_ITER - 1)
    /\ proc \in {"run", "failed", "returned"}

\* When main reads rtt_ts in summary_stats, all MAX_ITER samples have been
\* recorded, and msgarrvd, which may still run on the background thread, writes
\* none of them any more.  With one subscriber thread this holds whatever fails.
SummaryComplete ==
    mpc \in Summarised /\ Subs # {} =>
        allocated /\ recorded = 0..(MAX_ITER - 1) /\ it > MAX_ITER

\* msgarrvd never writes a sample through the NULL pointer that rtt_ts is before
\* a subscriber thread allocates it.
SampleHasBuffer == runpc = "callback" /\ qe = "topic" => allocated

\* The callback delivered never has to wait: it would do so with the library's
\* mutex held, and stop every other thread.  True with one publisher thread.
AckNeverBlocks == runpc = "delivered" => qos1_pubmutex > 0

\* A publisher leaves its busy wait only for its own message: the one it waits
\* for is confirmed end to end (PUBACK, or PUBCOMP at QoS 2) and is gone from the
\* messages in flight when deliveredtoken shows its token.
ConfirmedWhenDelivered ==
    \A t \in Pubs :
        pc[t] = "spin" /\ deliveredtoken = msgid[t] => msgid[t] \notin InUse

\* A subscribe or unsubscribe call reads from m->pack, without the mutex, the
\* acknowledgement of its own request and not that of another thread's.
OwnAck ==
    \A t \in Threads :
        pc[t] = "answered" =>
            seen[t] # NULL /\ seen[t].type = call[t] /\ seen[t].id = msgid[t]

\* While msgarrvd works on a message without the mutex, and until MQTTClient_run
\* has removed its entry, nobody empties the queue: emptyMessageQueue frees the
\* same topic, payload and message that msgarrvd reads and frees.
CallbackOwnsEntry == runpc \in {"callback", "after"} => messageQueue # <<>>

-----------------------------------------------------------------------------
(* Liveness, for FairSpec.                                                  *)

\* A process that subscribes to what it publishes ends by itself: the sample
\* buffer fills, the subscriber stops the publisher, and main returns.
Terminates == <>(proc = "returned")

\* Once the message after the last sample has arrived, the process ends.
EndsOnceFull == (it > MAX_ITER) ~> (proc = "returned")

\* Once a pubkill message has been received, the process ends.
StopsOnKill == (stop_publish > 0) ~> (proc = "returned")

\* Once a pubkill message has been received, every publisher thread ends, if only
\* because the process does.
KillStopsPublishers ==
    (stop_publish > 0) ~> (proc # "run" \/ \A t \in Pubs : pc[t] = "exited")

-----------------------------------------------------------------------------
(* The inductive invariant behind SummaryComplete and SampleHasBuffer.      *)

\* The packets that do not ask for the data topic, and those that do not carry it.
NotAsking == {p \in Packets : p.type = "SUBSCRIBE" => p.topic # "topic"}
NotCarrying == {p \in Packets : p.type = "PUBLISH" => p.topic # "topic"}

\* No publication on the data topic is on its way to msgarrvd.
NoData ==
    /\ "topic" \notin bsubs
    /\ toBroker \in Seq(NotAsking)
    /\ toClient \in Seq(NotCarrying)
    /\ \A m \in inboundMsgs : m.topic # "topic"
    /\ messageQueue \in Seq({"pubkill"})
    /\ runpc = "callback" => qe # "topic"

\* No subscriber thread has allocated the buffers yet.
NotStarted == \A t \in Subs : pc[t] \in {"idle", "start"}

\* Data arrives only after a subscriber thread has allocated the buffers.
StartInv ==
    /\ NotStarted => NoData /\ it = 0
    /\ ~NotStarted => allocated

\* The samples are the first it, up to MAX_ITER, and the subscriber learns of the
\* end through done_receiving only after the last.
SampleInv ==
    /\ recorded = {i \in 0..(MAX_ITER - 1) : i < it}
    /\ done_receiving > 0 => it > MAX_ITER
    /\ \A t \in Subs :
            /\ pc[t] = "post_stop" \/ call[t] = "UNSUBACK" => it > MAX_ITER
            /\ pc[t] = "exited" => call[t] = "UNSUBACK"

\* Each thread runs its own routine, and main joins the subscriber it started.
ThreadInv ==
    /\ \A t \in Subs :
            /\ pc[t] \notin {"reset", "publish", "stop_spin", "spin", "sleep"}
            /\ pc[t] # "idle" => sub_tid = t
            /\ mpc # "spawn_subs" => pc[t] # "idle"
            /\ mpc \in Summarised => pc[t] = "exited"
    /\ \A t \in Pubs : pc[t] \notin {"start", "receiving", "post_stop"}

\* What every step of a process with at most one subscriber thread preserves.
SummaryInv == TypeOK /\ StartInv /\ SampleInv /\ ThreadInv

OneSubscriber == \A s, t \in Subs : s = t
=============================================================================
