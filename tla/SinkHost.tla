------------------------------ MODULE SinkHost ------------------------------
(***************************************************************************)
(* The sink test application (src/sink/main.cpp, src/sink/sink.cpp): a     *)
(* GLib main loop with a watch on standard input and an RTSP connection    *)
(* managed by MiracBroker.  The broker (not in the source tree) calls      *)
(* on_connected once the connection is up and got_message for every       *)
(* message on it; the user types lines that parse_input_and_call_sink      *)
(* turns into Play/Pause/Teardown calls on the wfd::Sink engine, which     *)
(* on_connected creates.  The engine itself is SinkStreaming's subject;    *)
(* here it is the sequence of calls it receives.                           *)
(***************************************************************************)
EXTENDS Naturals, Sequences, SequencesExt

CONSTANTS
  MaxInputs,     \* items the user's terminal produces
  MaxMessages,   \* RTSP messages the broker delivers
  InputLines,    \* lines the user may type
  EarlyInput     \* whether the user may type before the connection is up

ASSUME MaxInputs \in Nat /\ MaxMessages \in Nat /\ EarlyInput \in BOOLEAN

(* What g_io_channel_read_line can return: a line (G_IO_STATUS_NORMAL),   *)
(* end of input (G_IO_STATUS_EOF) or a read error (G_IO_STATUS_ERROR).     *)
(* A line keeps its terminator; the last line of a file may have none.    *)
AllLines == {"play\n", "pause\n", "teardown\n", "play", "stop\n"}
ASSUME InputLines \subseteq AllLines
InputItems == InputLines \cup {"EOF", "ERR"}

VARIABLES
  wfd_sink,   \* wfd_sink_ (and media_manager_) have been created
  running,    \* the main loop runs (g_main_loop_quit not yet called)
  watch,      \* the standard-input watch is installed
  stdin,      \* what the terminal has produced and the handler not read
  engine,     \* the calls the wfd::Sink engine has received, in order
  fault,      \* "null": a call through the null wfd_sink_
  msgs,       \* messages the broker has delivered
  typedLog,   \* history: every item the terminal produced, in order
  nread       \* history: how many of them the handler has consumed

vars == <<wfd_sink, running, watch, stdin, engine, fault, msgs, typedLog, nread>>

EngineCalls == {"Start", "RTSPDataReceived", "Play", "Pause", "Teardown"}

-----------------------------------------------------------------------------
(* sink.cpp *)

(* Sink::Play/Pause/Teardown forward to wfd_sink_ without a check. *)
CallSink(c) ==
  IF wfd_sink THEN /\ engine' = Append(engine, c) /\ UNCHANGED fault
  ELSE /\ fault' = "null" /\ UNCHANGED engine

(* Sink::on_connected: a media manager for the peer, the engine, Start. *)
OnConnected ==
  /\ running /\ ~wfd_sink /\ fault = "none"
  /\ wfd_sink' = TRUE
  /\ engine' = Append(engine, "Start")
  /\ UNCHANGED <<running, watch, stdin, fault, msgs, typedLog, nread>>

(* Sink::got_message: the broker hands over a message of the connection. *)
GotMessage ==
  /\ running /\ wfd_sink /\ fault = "none"
  /\ msgs < MaxMessages
  /\ msgs' = msgs + 1
  /\ engine' = Append(engine, "RTSPDataReceived")
  /\ UNCHANGED <<wfd_sink, running, watch, stdin, fault, typedLog, nread>>

-----------------------------------------------------------------------------
(* main.cpp *)

(* The method parse_input_and_call_sink calls for a line, if any: only    *)
(* the exact strings "teardown\n", "pause\n", "play\n" are commands.      *)
Command == [l \in {"teardown\n", "pause\n", "play\n"} |->
              CASE l = "teardown\n" -> "Teardown"
                [] l = "pause\n"    -> "Pause"
                [] l = "play\n"     -> "Play"]

(* parse_input_and_call_sink: a known command is called on the sink, an   *)
(* unknown line is reported on stdout and ignored.                         *)
ParseInputAndCallSink(l) ==
  IF l \in DOMAIN Command THEN CallSink(Command[l])
  ELSE UNCHANGED <<engine, fault>>

(* Mutant: the handler returns false after a line, removing its watch. *)
UserInputHandlerOnce ==
  /\ running /\ watch /\ fault = "none"
  /\ stdin # <<>>
  /\ \/ /\ Head(stdin) \in InputLines
        /\ stdin' = Tail(stdin) /\ nread' = nread + 1
        /\ ParseInputAndCallSink(Head(stdin))
        /\ watch' = FALSE
     \/ /\ Head(stdin) = "ERR"
        /\ watch' = FALSE
        /\ UNCHANGED <<stdin, nread, engine, fault>>
     \/ /\ Head(stdin) = "EOF"
        /\ UNCHANGED <<watch, stdin, nread, engine, fault>>
  /\ UNCHANGED <<wfd_sink, running, msgs, typedLog>>

(* _user_input_handler, run by the main loop while standard input is     *)
(* readable.  A line is consumed and parsed, and the watch kept (true).   *)
(* A read error removes the watch (false).  At end of input the handler   *)
(* returns true and consumes nothing: the channel stays readable.         *)
UserInputHandler ==
  /\ running /\ watch /\ fault = "none"
  /\ stdin # <<>>
  /\ \/ /\ Head(stdin) \in InputLines
        /\ stdin' = Tail(stdin) /\ nread' = nread + 1
        /\ ParseInputAndCallSink(Head(stdin))
        /\ UNCHANGED watch
     \/ /\ Head(stdin) = "ERR"
        /\ watch' = FALSE
        /\ UNCHANGED <<stdin, nread, engine, fault>>
     \/ /\ Head(stdin) = "EOF"
        /\ UNCHANGED <<watch, stdin, nread, engine, fault>>
  /\ UNCHANGED <<wfd_sink, running, msgs, typedLog>>

(* _sig_handler on SIGINT/SIGTERM: g_main_loop_quit; main then returns.  *)
SigHandler ==
  /\ running
  /\ running' = FALSE
  /\ UNCHANGED <<wfd_sink, watch, stdin, engine, fault, msgs, typedLog, nread>>

-----------------------------------------------------------------------------
(* The user's terminal: lines, then possibly end of input or an error.    *)
Type(i) ==
  /\ Len(typedLog) < MaxInputs
  /\ EarlyInput \/ wfd_sink
  /\ \A j \in DOMAIN typedLog : typedLog[j] \in InputLines
  /\ stdin' = Append(stdin, i)
  /\ typedLog' = Append(typedLog, i)
  /\ UNCHANGED <<wfd_sink, running, watch, engine, fault, msgs, nread>>

(* Nothing left to do: the loop has quit, the process died, or it idles. *)
Idle ==
  /\ ~running \/ fault # "none"
     \/ (wfd_sink /\ msgs = MaxMessages /\ Len(typedLog) = MaxInputs)
  /\ UNCHANGED vars

(* main: gst_init, the sink application, the main loop with its signal    *)
(* handlers and the standard-input watch, then g_main_loop_run.           *)
Init ==
  /\ wfd_sink = FALSE /\ running = TRUE /\ watch = TRUE
  /\ stdin = <<>> /\ engine = <<>> /\ fault = "none" /\ msgs = 0
  /\ typedLog = <<>> /\ nread = 0

Next ==
  \/ OnConnected
  \/ GotMessage
  \/ UserInputHandler
  \/ SigHandler
  \/ \E i \in InputItems : Type(i)
  \/ Idle

(* GLib dispatches every source that is ready; the broker delivers what   *)
(* arrives.  Neither the user nor a signal is assumed.                     *)
Fairness ==
  /\ WF_vars(OnConnected)
  /\ WF_vars(GotMessage)
  /\ WF_vars(UserInputHandler)

Spec == Init /\ [][Next]_vars /\ Fairness

-----------------------------------------------------------------------------
(* Properties *)

TypeOK ==
  /\ wfd_sink \in BOOLEAN /\ running \in BOOLEAN /\ watch \in BOOLEAN
  /\ stdin \in Seq(InputItems) /\ typedLog \in Seq(InputItems)
  /\ engine \in Seq(EngineCalls)
  /\ fault \in {"none", "null"}
  /\ msgs \in 0..MaxMessages /\ nread \in 0..Len(typedLog)

(* The process never calls through the null wfd_sink_: Sink::Play/Pause/ *)
(* Teardown are only reached once on_connected has created the engine.    *)
NoFault == fault = "none"

(* Every line the user types is eventually read by the input handler,    *)
(* unless the main loop has quit: the watch stays installed after a line  *)
(* and is only dropped on a read error, which comes after the lines.      *)
LineUnread(k) ==
  k \in DOMAIN typedLog /\ typedLog[k] \in InputLines /\ nread < k
InputServed ==
  \A k \in 1..MaxInputs : LineUnread(k) ~> (nread >= k \/ ~running)

====
