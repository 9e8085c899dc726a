------------------------------ MODULE MCInbox -------------------------------
(* The inbox of one session, small enough for TLC.                         *)
EXTENDS Inbox
=============================================================================
