---------------------------- MODULE MCEchoClient ----------------------------
(* Instances of EchoClient for TLC. *)
EXTENDS EchoClient

CONSTANTS news, chat

=============================================================================
