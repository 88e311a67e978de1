------------------------------- MODULE MCDns --------------------------------
EXTENDS Dns

(* The two servers of the push handler. *)
MCNames == {"oauth2.googleapis.com", "fcm.googleapis.com"}
=============================================================================
