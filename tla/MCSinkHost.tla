----------------------------- MODULE MCSinkHost -----------------------------
(* Model-checking instance of the sink application; the .cfg files bind   *)
(* the bounds and pick the lines the user types.                           *)
EXTENDS SinkHost

(* Every kind of line: the three commands, a command without newline and *)
(* an unknown word.                                                        *)
MCAllLines == AllLines

(* Only a command. *)
MCPlayOnly == {"play\n"}
====
