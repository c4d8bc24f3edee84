--------------------------- MODULE MCSinkStreaming ---------------------------
(* Model-checking instance of the sink's Streaming state against a source *)
(* that sends triggers and answers in order; bounds are in the .cfg files. *)
EXTENDS SinkStreaming
====
