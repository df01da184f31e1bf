----------------------------- MODULE MCSession ------------------------------
(***************************************************************************)
(* Session with messages of both QoS in both directions: two of one side   *)
(* and one of the other, as MaxMessages = 3 allows.                        *)
(***************************************************************************)
EXTENDS Session

MCOutQos == <<1, 2>>
MCInQos == <<2, 1>>

\* One QoS 2 message of the application, for the run torn_record.
MCOneQos2 == <<2>>
MCNoMessages == <<>>
=============================================================================
