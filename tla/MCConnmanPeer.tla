---------------------------- MODULE MCConnmanPeer ----------------------------
(* Model-checking instance of the connman peer; the .cfg files bind the   *)
(* constants.                                                              *)
EXTENDS ConnmanPeer
====
