--------------------------- MODULE MCMessageBroker ---------------------------
(***************************************************************************)
(* MessageBroker for TLC.                                                  *)
(***************************************************************************)
EXTENDS MessageBroker
=============================================================================
