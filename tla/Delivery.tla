------------------------------ MODULE Delivery ------------------------------
(***************************************************************************)
(* What a persistent session promises for the messages an application      *)
(* publishes with QoS 1 or 2, whatever crashes and connections come in     *)
(* between: a message MQTTClient_publish has reported as successful can    *)
(* still be distributed, a QoS 2 message is distributed at most once, and  *)
(* deliveryComplete is called only for a message that was distributed.     *)
(* It promises this until the exchanges of the two sides may no longer     *)
(* match: packets of two exchanges can be taken for one another, MQTT      *)
(* having no name for an exchange but its message id, or the record that a *)
(* PUBREL was sent is lost in a crash that hit while it was written again. *)
(* The specification has no client, no connection and no store: Session is *)
(* shown to implement it.                                                  *)
(***************************************************************************)
EXTENDS Naturals

CONSTANTS
    NOut,     \* number of messages the application publishes
    OutQos    \* QoS of each of them

VARIABLES
    phase,        \* what the application knows of each message
    distributed,  \* how often the broker has distributed each message
    confused      \* exchanges of the client and the broker may not match

Messages == 1..NOut

DeliveryInit ==
    /\ phase = [n \in Messages |-> "new"]
    /\ distributed = [n \in Messages |-> 0]
    /\ confused = FALSE

\* MQTTClient_publish returns success, or the process crashes inside it.
Publishes(n) ==
    /\ phase[n] = "new"
    /\ \E p \in {"submitted", "accepted"} : phase' = [phase EXCEPT ![n] = p]
    /\ confused' \in {confused, TRUE}
    /\ UNCHANGED distributed

Distributes(n) ==
    /\ phase[n] # "new"
    /\ OutQos[n] = 2 => distributed[n] = 0
    /\ distributed' = [distributed EXCEPT ![n] = @ + 1]
    /\ UNCHANGED <<phase, confused>>

Confirms(n) ==
    /\ phase[n] \in {"submitted", "accepted"}
    /\ distributed[n] > 0
    /\ phase' = [phase EXCEPT ![n] = "confirmed"]
    /\ UNCHANGED <<distributed, confused>>

\* A crash in the middle of rewriting a PUBREL record.
Confuses ==
    /\ confused' = TRUE
    /\ UNCHANGED <<phase, distributed>>

\* After that anything can happen to the messages.
Anything == confused /\ confused'

DeliveryNext ==
    \/ \E n \in Messages : Publishes(n) \/ Distributes(n) \/ Confirms(n)
    \/ Confuses
    \/ Anything

DeliverySpec == DeliveryInit /\ [][DeliveryNext]_<<phase, distributed, confused>>
=============================================================================
