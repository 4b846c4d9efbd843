------------------------------- MODULE MCChat --------------------------------
(***************************************************************************)
(* A small instance of the chat server: Chat.cfg gives the constants their *)
(* values.                                                                 *)
(***************************************************************************)
EXTENDS ChatOrder
=============================================================================
