---------------------------- MODULE SinkStreaming ----------------------------
(***************************************************************************)
(* The sink's Streaming state (src/wfd/sink/streaming_state.cpp) on one    *)
(* RTSP connection to a source, from the moment the sink's state machine   *)
(* has entered Streaming.                                                  *)
(*                                                                         *)
(*   Streaming = sequence  Teardown, with optionals Play, Pause, M3, M4,    *)
(*               M7Opt, M8Opt, M9Opt                                       *)
(*   Teardown  = sequence  TD_M5 (receive a TEARDOWN trigger), M8Sender     *)
(*   Play      = sequence  PL_M5 (receive a PLAY trigger), M7Sender         *)
(*   Pause     = sequence  PA_M5 (receive a PAUSE trigger), M9Sender        *)
(*   M3, M4    = receivers of capability re-negotiation (GET/SET_PARAMETER)*)
(*   M7Opt, M8Opt, M9Opt = optional senders of the user's PLAY, TEARDOWN,  *)
(*               PAUSE                                                     *)
(* The sink's state machine and its Play/Pause/Teardown API are not in the *)
(* source tree; they are modelled from the spec, like SourceImpl: the root *)
(* is a sequence whose current state is Streaming, a user command takes    *)
(* the next cseq, asks CanSend and sends.  The source is an environment:   *)
(* it sends PLAY/PAUSE/TEARDOWN triggers (SET_PARAMETER M5) and answers    *)
(* the sink's requests in order.                                           *)
(***************************************************************************)
EXTENDS Naturals, Sequences, SequencesExt

CONSTANTS
  MaxTriggers,      \* trigger requests the source sends
  MaxUserCalls,     \* Play/Pause/Teardown calls of the sink's user
  TriggerMethods,   \* trigger methods the source may send
  ReplyOutcomes     \* what HandleReply may make of a source reply

ASSUME MaxTriggers \in Nat /\ MaxUserCalls \in Nat
ASSUME TriggerMethods \subseteq {"PLAY", "PAUSE", "TEARDOWN"}
ASSUME ReplyOutcomes \subseteq BOOLEAN /\ TRUE \in ReplyOutcomes

VARIABLES
  cur, armed, queue, tbs, send_cseq, mm, fault, \* the handler tree (see MessageHandler)
  toSink,      \* source -> sink messages in flight
  toSource,    \* sink -> source messages in flight
  srcCseq,     \* next cseq of a source request
  srcPend,     \* cseqs of source triggers not yet answered, oldest first
  triggers,    \* triggers the source has sent
  userCalls,   \* user commands so far
  unanswered,  \* history: cseqs of sink requests whose reply the sink has not read
  asked,       \* history: per method, triggers read and user commands sent
  issued       \* history: per method, requests the sink has sent

handlerVars == <<cur, armed, queue, tbs, send_cseq, mm, fault>>
peerVars == <<srcCseq, srcPend, triggers>>
vars == <<handlerVars, toSink, toSource, peerVars, userCalls, unanswered, asked, issued>>

Commands == {"PLAY", "PAUSE", "TEARDOWN"}

Req(method, id, trig, c, uid) ==
  [kind |-> "req", method |-> method, id |-> id, trig |-> trig, cseq |-> c, uid |-> uid]
Rep(c, ok) == [kind |-> "rep", cseq |-> c, ok |-> ok]

CSeqs == Nat \ {0}
Msgs == [kind : {"req"}, method : Commands \cup {"SET_PARAMETER", "GET_PARAMETER"},
         id : {"none", "M3", "M4", "M5", "M7", "M8", "M9"},
         trig : Commands \cup {"none"}, cseq : CSeqs, uid : Nat]
        \cup [kind : {"rep"}, cseq : CSeqs, ok : BOOLEAN]

-----------------------------------------------------------------------------
(* The steps of streaming_state.cpp.  mm is the sink media manager's       *)
(* session id, set before Streaming ("abc" here: non-empty).               *)

(* M5Handler<method>: the trigger method each instance is built for. *)
TriggerOf == [h \in {"TD_M5", "PL_M5", "PA_M5"} |->
  CASE h = "TD_M5" -> "TEARDOWN" [] h = "PL_M5" -> "PLAY" [] h = "PA_M5" -> "PAUSE"]

(* Mutant: the trigger method is not compared. *)
M5HandlerCanHandleAny(h, m) == m.kind = "req" /\ m.id = "M5"
M5HandlerCanHandle(h, m) ==
  m.kind = "req" /\ m.id = "M5" /\ m.trig = TriggerOf[h]
M5HandlerHandleMessage(m, x) == [ok |-> TRUE, mm |-> x]

M7SenderCreateMessage(c) == Req("PLAY", "M7", "none", c, c)
M7SenderHandleReply(m, x) == [ok |-> m.ok, mm |-> x]
M8SenderCreateMessage(c) == Req("TEARDOWN", "M8", "none", c, c)
M8SenderHandleReply(m, x) == [ok |-> x # "" /\ m.ok, mm |-> x]
M9SenderCreateMessage(c) == Req("PAUSE", "M9", "none", c, c)
M9SenderHandleReply(m, x) == [ok |-> m.ok, mm |-> x]
OptionalSenderHandleReply(m, x) == [ok |-> m.ok, mm |-> x]
CapabilityHandleMessage(m, x) == [ok |-> TRUE, mm |-> x]

SinkHandlers == {"Root", "Streaming", "Teardown", "TD_M5", "M8Sender",
                 "Play", "PL_M5", "M7Sender", "Pause", "PA_M5", "M9Sender",
                 "M3", "M4", "M7Opt", "M8Opt", "M9Opt"}

PlayHandlerChildren == <<"PL_M5", "M7Sender">>
TeardownHandlerChildren == <<"TD_M5", "M8Sender">>
PauseHandlerChildren == <<"PA_M5", "M9Sender">>
StreamingStateChildren == <<"Teardown">>
StreamingStateOptionals == <<"Play", "Pause", "M3", "M4", "M7Opt", "M8Opt", "M9Opt">>

SinkKind == [h \in SinkHandlers |->
  CASE h \in {"Root", "Teardown", "Play", "Pause"}   -> "seq"
    [] h = "Streaming"                               -> "opt"
    [] h \in {"M7Sender", "M8Sender", "M9Sender"}    -> "sender"
    [] h \in {"M7Opt", "M8Opt", "M9Opt"}             -> "osender"
    [] OTHER                                         -> "receiver"]

SinkChildren == [h \in SinkHandlers |->
  CASE h = "Root"      -> <<"Streaming">>
    [] h = "Streaming" -> StreamingStateChildren
    [] h = "Teardown"  -> TeardownHandlerChildren
    [] h = "Play"      -> PlayHandlerChildren
    [] h = "Pause"     -> PauseHandlerChildren
    [] OTHER           -> <<>>]

SinkOptionals == [h \in SinkHandlers |->
  IF h = "Streaming" THEN StreamingStateOptionals ELSE <<>>]

(* MessageReceiver<id> / OptionalMessageSender<id>: the step id. *)
SinkAccepts(h, m) ==
  CASE h \in {"TD_M5", "PL_M5", "PA_M5"} -> M5HandlerCanHandle(h, m)
    [] h = "M3"    -> m.kind = "req" /\ m.id = "M3"
    [] h = "M4"    -> m.kind = "req" /\ m.id = "M4"
    [] h = "M7Opt" -> m.kind = "req" /\ m.id = "M7"
    [] h = "M8Opt" -> m.kind = "req" /\ m.id = "M8"
    [] h = "M9Opt" -> m.kind = "req" /\ m.id = "M9"

SinkCreateMessage(h, c) ==
  CASE h = "M7Sender" -> M7SenderCreateMessage(c)
    [] h = "M8Sender" -> M8SenderCreateMessage(c)
    [] h = "M9Sender" -> M9SenderCreateMessage(c)

SinkHandleReply(h, m, x) ==
  CASE h = "M7Sender" -> M7SenderHandleReply(m, x)
    [] h = "M8Sender" -> M8SenderHandleReply(m, x)
    [] h = "M9Sender" -> M9SenderHandleReply(m, x)
    [] OTHER          -> OptionalSenderHandleReply(m, x)

SinkHandleMessage(h, m, x) ==
  IF h \in {"TD_M5", "PL_M5", "PA_M5"} THEN M5HandlerHandleMessage(m, x)
  ELSE CapabilityHandleMessage(m, x)

(* The sink engine's own observer callbacks do nothing. *)
SinkOnCompleted(s) == s
SinkOnError(s) == s

H == INSTANCE MessageHandler WITH
       Handlers <- SinkHandlers, Root <- "Root", NoHandler <- "null",
       NoUid <- 0, Kind <- SinkKind, Children <- SinkChildren,
       Optionals <- SinkOptionals, CreateMessage <- SinkCreateMessage,
       HandleReply <- SinkHandleReply, HandleMessage <- SinkHandleMessage,
       Accepts <- SinkAccepts, RootOnCompleted <- SinkOnCompleted,
       RootOnError <- SinkOnError

-----------------------------------------------------------------------------
(* The sink engine *)

(* The step id of a received request: a SET_PARAMETER carrying a trigger  *)
(* is an M5, another SET_PARAMETER an M4, a GET_PARAMETER an M3.           *)
SinkRequestId(m) ==
  CASE m.method = "SET_PARAMETER" /\ m.trig # "none" -> "M5"
    [] m.method = "SET_PARAMETER" -> "M4"
    [] m.method = "GET_PARAMETER" -> "M3"
    [] OTHER -> "none"

CommandId == [c \in Commands |-> CASE c = "PLAY" -> "M7" [] c = "PAUSE" -> "M9" [] c = "TEARDOWN" -> "M8"]

St == [cur |-> cur, armed |-> armed, queue |-> queue, tbs |-> tbs,
       cseq |-> send_cseq, out |-> <<>>, mm |-> mm, fault |-> fault]

IsRequest(m) == m.kind = "req"

(* Commit the state r a call into the tree returned; its messages go on    *)
(* the wire.  'answered' is the cseq of the reply consumed (0 for none);   *)
(* 'asking' the method a consumed trigger or a user command asks for.      *)
Apply(r, answered, asking) ==
  LET sentReqs == SelectSeq(r.out, IsRequest) IN
  /\ cur' = r.cur /\ armed' = r.armed /\ queue' = r.queue /\ tbs' = r.tbs
  /\ send_cseq' = r.cseq /\ mm' = r.mm /\ fault' = r.fault
  /\ toSource' = toSource \o r.out
  /\ unanswered' = SelectSeq(unanswered, LAMBDA c : c # answered)
                   \o [i \in DOMAIN sentReqs |-> sentReqs[i].cseq]
  /\ asked' = IF asking \in Commands THEN [asked EXCEPT ![asking] = @ + 1] ELSE asked
  /\ issued' = [c \in Commands |-> issued[c] +
                  Len(SelectSeq(sentReqs, LAMBDA q : q.method = c))]

Alive == fault = "none"

(* One message from the source, routed through the tree. *)
MessageParsed ==
  /\ Alive
  /\ toSink # <<>>
  /\ toSink' = Tail(toSink)
  /\ LET m  == Head(toSink)
         pm == IF m.kind = "req" THEN [m EXCEPT !.id = SinkRequestId(m)] ELSE m
     IN  Apply(H!HandleH("Root", pm, St),
               IF m.kind = "rep" THEN m.cseq ELSE 0,
               IF m.kind = "req" THEN m.trig ELSE "none")
  /\ UNCHANGED <<peerVars, userCalls>>

(* The user's Play/Pause/Teardown: the next cseq is taken, CanSend asked  *)
(* and the request sent, or the command refused.                          *)
UserCommand(c) ==
  /\ Alive
  /\ userCalls < MaxUserCalls
  /\ userCalls' = userCalls + 1
  /\ LET m  == Req(c, CommandId[c], "none", send_cseq, send_cseq)
         s0 == [St EXCEPT !.cseq = @ + 1]
         v  == H!CanSendH("Root", m, s0)
     IN  Apply(IF v = "crash" THEN H!Crash(s0, "null")
               ELSE IF v = "yes" THEN H!SendH("Root", m, s0)
               ELSE s0, 0, IF v = "yes" THEN c ELSE "none")
  /\ UNCHANGED <<toSink, peerVars>>

-----------------------------------------------------------------------------
(* The source, as an environment: it triggers, and answers in order. *)

SourceTrigger(t) ==
  /\ triggers < MaxTriggers
  /\ triggers' = triggers + 1
  /\ toSink' = Append(toSink, Req("SET_PARAMETER", "none", t, srcCseq, 0))
  /\ srcPend' = Append(srcPend, srcCseq)
  /\ srcCseq' = srcCseq + 1
  /\ UNCHANGED <<handlerVars, toSource, userCalls, unanswered, asked, issued>>

SourceAnswer ==
  /\ toSource # <<>> /\ Head(toSource).kind = "req"
  /\ toSource' = Tail(toSource)
  /\ \E ok \in ReplyOutcomes : toSink' = Append(toSink, Rep(Head(toSource).cseq, ok))
  /\ UNCHANGED <<handlerVars, peerVars, userCalls, unanswered, asked, issued>>

SourceGotReply ==
  /\ toSource # <<>> /\ Head(toSource).kind = "rep"
  /\ srcPend # <<>>
  /\ toSource' = Tail(toSource)
  /\ srcPend' = Tail(srcPend)
  /\ UNCHANGED <<handlerVars, toSink, srcCseq, triggers, userCalls, unanswered, asked, issued>>

Quiescent ==
  /\ ~Alive \/ (toSink = <<>> /\ toSource = <<>>)
  /\ UNCHANGED vars

-----------------------------------------------------------------------------
(* The sink's state machine has just entered Streaming: its Start has     *)
(* started the mandatory Teardown sequence and every optional handler.    *)
(* send_cseq_ is past the requests of the earlier states.                 *)
FirstCSeq == 3

Init ==
  /\ LET s == H!StartH("Root", [H!Constructed("abc") EXCEPT !.cseq = FirstCSeq]) IN
     /\ cur = s.cur /\ armed = s.armed /\ queue = s.queue /\ tbs = s.tbs
     /\ send_cseq = s.cseq /\ mm = s.mm /\ fault = s.fault
  /\ toSink = <<>> /\ toSource = <<>>
  /\ srcCseq = 1 /\ srcPend = <<>> /\ triggers = 0
  /\ userCalls = 0
  /\ unanswered = <<>>
  /\ asked = [c \in Commands |-> 0]
  /\ issued = [c \in Commands |-> 0]

Next ==
  \/ MessageParsed
  \/ \E c \in Commands : UserCommand(c)
  \/ \E t \in TriggerMethods : SourceTrigger(t)
  \/ SourceAnswer
  \/ SourceGotReply
  \/ Quiescent

(* Each end's event loop reads every message that arrives (weak fairness, *)
(* with the enabling condition written out as in Source).                 *)
Delivery == MessageParsed \/ SourceAnswer \/ SourceGotReply
DeliveryEnabled ==
  \/ Alive /\ toSink # <<>>
  \/ toSource # <<>> /\ (Head(toSource).kind = "req" \/ srcPend # <<>>)
Fairness == <>[]DeliveryEnabled => []<><<Delivery>>_vars

Spec == Init /\ [][Next]_vars /\ Fairness

-----------------------------------------------------------------------------
(* Properties *)

TypeOK ==
  /\ cur \in [SinkHandlers -> SinkHandlers \cup {"null"}]
  /\ armed \in [SinkHandlers -> BOOLEAN]
  /\ queue \in [SinkHandlers -> Seq(CSeqs)]
  /\ tbs \in [SinkHandlers -> Nat]
  /\ send_cseq \in CSeqs
  /\ fault \in {"none", "assert", "null"}
  /\ toSink \in Seq(Msgs) /\ toSource \in Seq(Msgs)
  /\ srcCseq \in CSeqs /\ srcPend \in Seq(CSeqs)
  /\ triggers \in 0..MaxTriggers /\ userCalls \in 0..MaxUserCalls
  /\ unanswered \in Seq(CSeqs)
  /\ asked \in [Commands -> Nat] /\ issued \in [Commands -> Nat]

(* Streaming is running: the sink is alive and its Streaming state has    *)
(* not been reset by an error.                                             *)
Running == Alive /\ cur["Streaming"] # "null"

(* Reset of the root engine is total (spec section 5, and what          *)
(* SourceImpl::OnTimerEvent relies on): whatever the session has reached, *)
(* Reset through the current handlers, the optional sets and the senders  *)
(* leaves every handler as freshly constructed: no current handler, no    *)
(* armed receiver, no queued cseq, no to_be_send_.  It needs every        *)
(* handler that OnCompleted/OnError left behind to have been reset, since *)
(* Reset only follows current handlers and optional sets.                  *)
ResetRestoresFresh == H!ResetClears("Root", St)

(* While Streaming runs, the cseqs in the senders' queues (sequenced and  *)
(* optional) are exactly those of the sink's requests not yet answered.    *)
PendingMatchesWire ==
  Running =>
    /\ UNION {ToSet(queue[h]) : h \in SinkHandlers} = ToSet(unanswered)
    /\ SumFunction([h \in SinkHandlers |-> Len(queue[h])]) = Len(unanswered)

(* The sink sends a PLAY, PAUSE or TEARDOWN only as often as triggers of  *)
(* that method arrived or its user asked for one: M5Handler<method> lets   *)
(* only its own trigger start the matching sender.                         *)
IssuesOnlyAsked == \A c \in Commands : issued[c] <= asked[c]

(* No sender of the sink waits for ever: there is no reply timeout        *)
(* (MessageSenderBase::Send, "TODO : Add timeout check for reply"), so a    *)
(* cseq pushed on a sender's cseq_queue_ must eventually be popped by the  *)
(* reply routed back to it, or the queue cleared by the Reset of an       *)
(* error, unless the sink dies.                                            *)
SendersReleased ==
  \A h \in SinkHandlers : queue[h] # <<>> ~> (queue[h] = <<>> \/ ~Alive)

(* Every reply the source reads answers its oldest outstanding trigger.   *)
SourceRepliesCorrelate ==
  [][ (toSource # <<>> /\ Head(toSource).kind = "rep" /\ toSource' = Tail(toSource))
        => (srcPend # <<>> /\ Head(toSource).cseq = Head(srcPend)) ]_vars

(* Every trigger the source sends is eventually answered by the sink.     *)
TriggerCSeqs == 1..MaxTriggers
Outstanding(c) == \E i \in DOMAIN srcPend : srcPend[i] = c
TriggersAnswered == \A c \in TriggerCSeqs : Outstanding(c) ~> ~Outstanding(c)

====
