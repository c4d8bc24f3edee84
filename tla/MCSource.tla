------------------------------ MODULE MCSource ------------------------------
(* Model-checking instance of the source engine against a well-behaved    *)
(* sink: the bounds on host and sink-user calls are set in the .cfg files. *)
EXTENDS Source

====
