------------------------------ MODULE MCAsync -------------------------------
(***************************************************************************)
(* Async with operations of every kind.                                    *)
(***************************************************************************)
EXTENDS Async

MCOpType == <<"PUBLISH1", "PUBLISH0", "SUBSCRIBE">>
=============================================================================
