------------------------------- MODULE Source -------------------------------
(***************************************************************************)
(* The Wi-Fi Display source engine (src/wfd/source/*: SourceImpl and its    *)
(* SourceStateMachine) on one RTSP connection to a sink.                    *)
(*                                                                         *)
(* SourceStateMachine is a MessageSequenceHandler over the states          *)
(*   Init      = sequence  M1 (send OPTIONS), M2 (receive OPTIONS)          *)
(*   CapNeg    = sequence  M3 (send GET_PARAMETER), M4 (send SET_PARAMETER) *)
(*   Session   = sequence  M5 (send SETUP trigger), M6 (receive SETUP),     *)
(*               M7 (receive PLAY), with optional M8 (receive TEARDOWN)    *)
(*   Streaming = sequence  S_M8 (receive TEARDOWN), with optional S_M7      *)
(*               (receive PLAY), S_M9 (receive PAUSE) and S_M5 (send the    *)
(*               host's PLAY/PAUSE/TEARDOWN triggers)                       *)
(* The handler machinery is the MessageHandler module instantiated with    *)
(* this tree.  The sink is an environment that follows the WFD exchange:   *)
(* it answers every request in order, sends OPTIONS after answering M1,    *)
(* SETUP after a SETUP trigger, PLAY after the SETUP reply, the request a  *)
(* PLAY/PAUSE/TEARDOWN trigger asks for, and, once playing, requests of    *)
(* its own user.  The TCP connection is one FIFO per direction.            *)
(***************************************************************************)
EXTENDS Naturals, Sequences, SequencesExt

CONSTANTS
  MaxApiCalls,    \* calls of Source::Play/Pause/Teardown by the host
  MaxSinkCalls,   \* PLAY/PAUSE/TEARDOWN requests started by the sink's user
  ReplyOutcomes,  \* what HandleReply may make of a sink reply: {TRUE} or {TRUE, FALSE}
  AddressReuse,   \* whether a new M5 may be allocated where a sent message was freed
  SinkUserMethods \* requests the sink's user may start once streaming

ASSUME MaxApiCalls \in Nat /\ MaxSinkCalls \in Nat
ASSUME ReplyOutcomes \subseteq BOOLEAN /\ TRUE \in ReplyOutcomes
ASSUME AddressReuse \in BOOLEAN
ASSUME SinkUserMethods \subseteq {"PLAY", "PAUSE", "TEARDOWN", "SET_PARAMETER", "GET_PARAMETER"}

VARIABLES
  cur, armed, queue, tbs, send_cseq, mm, fault, \* the handler tree (see MessageHandler)
  started,     \* Source::Start has been called by the host
  apiCalls,    \* host calls of Play/Pause/Teardown so far
  s2k,         \* source -> sink messages in flight
  k2s,         \* sink -> source messages in flight
  sinkCseq,    \* next cseq of a sink request
  sinkPend,    \* sink requests not yet answered, oldest first
  sinkUp,      \* the sink got its PLAY answered: the session streams
  sinkDone,    \* the sink got its TEARDOWN answered and closed
  sinkCalls,   \* requests started by the sink's user so far
  unanswered,  \* history: cseqs of source requests whose reply the source has not read
  sentKinds    \* history: kinds of requests the source has sent

handlerVars == <<cur, armed, queue, tbs, send_cseq, mm, fault>>
sinkVars == <<sinkCseq, sinkPend, sinkUp, sinkDone, sinkCalls>>
vars == <<handlerVars, started, apiCalls, s2k, k2s, sinkVars, unanswered, sentKinds>>

-----------------------------------------------------------------------------
(* Messages.  A request carries its RTSP method, its step id (M1..M16,     *)
(* assigned by the creator or by InitializeRequestId on receipt), the      *)
(* trigger method of an M5, its cseq and the identity of the C++ object    *)
(* (uid) that SequencedMessageSender::CanSend compares.  A reply carries   *)
(* its cseq and whether it is one the step's HandleReply accepts.          *)

Methods == {"OPTIONS", "GET_PARAMETER", "SET_PARAMETER", "SETUP", "PLAY",
            "PAUSE", "TEARDOWN"}
RequestIds == {"UNKNOWN", "M1", "M2", "M3", "M4", "M5", "M6", "M7", "M8",
               "M9", "M10", "M11", "M12", "M13", "M14", "M15", "M16"}
Triggers == {"none", "SETUP", "PLAY", "PAUSE", "TEARDOWN"}
MMStates == {"none", "READY", "PLAYING", "PAUSED", "abort"}

Req(method, id, trig, c, uid) ==
  [kind |-> "req", method |-> method, id |-> id, trig |-> trig, cseq |-> c, uid |-> uid]
Rep(c, ok) == [kind |-> "rep", cseq |-> c, ok |-> ok]

CSeqs == Nat \ {0}
Msgs == [kind : {"req"}, method : Methods, id : RequestIds \cup {"none"},
         trig : Triggers, cseq : CSeqs, uid : Nat]
        \cup [kind : {"rep"}, cseq : CSeqs, ok : BOOLEAN]

-----------------------------------------------------------------------------
(* DesktopMediaManager: the gstreamer pipeline state ("none" before       *)
(* SetSinkRtpPorts creates it).  Play, Pause and Teardown assert that the  *)
(* pipeline exists and IsPaused dereferences it: without it the process    *)
(* dies ("abort").                                                          *)
NoPipeline == "none"   \* the constructor leaves gst_pipeline_ null
IsPaused(x) == x # "PLAYING"
SetSinkRtpPorts == "READY"
PipelineSet(x, st) == IF x = NoPipeline THEN "abort" ELSE st
DesktopPlay(x) == PipelineSet(x, "PLAYING")
DesktopPause(x) == PipelineSet(x, "PAUSED")
DesktopTeardown(x) == PipelineSet(x, "READY")

(* The steps of the source (init_state.cpp, cap_negotiation_state.cpp,    *)
(* wfd_session_state.cpp).  HandleReply/HandleMessage yield whether the   *)
(* step succeeded and the media manager state after it.                   *)
M1CreateMessage(c) == Req("OPTIONS", "M1", "none", c, c)
M1HandleReply(m, x) == [ok |-> m.ok, mm |-> x]
M2HandleMessage(m, x) == [ok |-> TRUE, mm |-> x]

M3CreateMessage(c) == Req("GET_PARAMETER", "M3", "none", c, c)
(* Mutant: the ports are accepted without creating the pipeline. *)
M3HandleReplyNoPipeline(m, x) == [ok |-> m.ok, mm |-> x]
M3HandleReply(m, x) ==
  IF m.ok THEN [ok |-> TRUE, mm |-> SetSinkRtpPorts] ELSE [ok |-> FALSE, mm |-> x]
M4CreateMessage(c) == Req("SET_PARAMETER", "M4", "none", c, c)
M4HandleReply(m, x) == [ok |-> m.ok, mm |-> x]

M5CreateMessage(c) == Req("SET_PARAMETER", "M5", "SETUP", c, c)
M5HandleReply(m, x) == [ok |-> m.ok, mm |-> x]
M6HandleMessage(m, x) == [ok |-> TRUE, mm |-> x]
M7HandleMessage(m, x) ==
  IF x = NoPipeline THEN [ok |-> FALSE, mm |-> "abort"]
  ELSE IF IsPaused(x) THEN [ok |-> TRUE, mm |-> DesktopPlay(x)] ELSE [ok |-> FALSE, mm |-> x]
M8HandleMessage(m, x) == [ok |-> TRUE, mm |-> DesktopTeardown(x)]
M9HandleMessage(m, x) == [ok |-> TRUE, mm |-> DesktopPause(x)]
TriggerHandleReply(m, x) == [ok |-> m.ok, mm |-> x]

(* The tree built by the constructors of the states. *)
SourceHandlers == {"Root", "Init", "M1", "M2", "CapNeg", "M3", "M4",
                   "Session", "M5", "M6", "M7", "M8",
                   "Streaming", "S_M8", "S_M7", "S_M9", "S_M5"}
SourceStateMachineChildren == <<"Init", "CapNeg", "Session", "Streaming">>
InitStateChildren == <<"M1", "M2">>
CapNegotiationStateChildren == <<"M3", "M4">>
WfdSessionStateChildren == <<"M5", "M6", "M7">>
WfdSessionStateOptionals == <<"M8">>
StreamingStateChildren == <<"S_M8">>
StreamingStateOptionals == <<"S_M7", "S_M9", "S_M5">>

SourceKind == [h \in SourceHandlers |->
  CASE h \in {"Root", "Init", "CapNeg"}   -> "seq"
    [] h \in {"Session", "Streaming"}     -> "opt"
    [] h \in {"M1", "M3", "M4", "M5"}     -> "sender"
    [] h = "S_M5"                         -> "osender"
    [] OTHER                              -> "receiver"]

SourceChildren == [h \in SourceHandlers |->
  CASE h = "Root"      -> SourceStateMachineChildren
    [] h = "Init"      -> InitStateChildren
    [] h = "CapNeg"    -> CapNegotiationStateChildren
    [] h = "Session"   -> WfdSessionStateChildren
    [] h = "Streaming" -> StreamingStateChildren
    [] OTHER           -> <<>>]

SourceOptionals == [h \in SourceHandlers |->
  CASE h = "Session"   -> WfdSessionStateOptionals
    [] h = "Streaming" -> StreamingStateOptionals
    [] OTHER           -> <<>>]

(* MessageReceiver<id> and OptionalMessageSender<id> take requests whose  *)
(* step id is theirs.                                                      *)
StepId == [h \in {"M2", "M6", "M7", "M8", "S_M8", "S_M7", "S_M9", "S_M5"} |->
  CASE h = "M2" -> "M2" [] h = "M6" -> "M6"
    [] h \in {"M7", "S_M7"} -> "M7" [] h \in {"M8", "S_M8"} -> "M8"
    [] h = "S_M9" -> "M9" [] h = "S_M5" -> "M5"]
SourceAccepts(h, m) == m.kind = "req" /\ m.id = StepId[h]

SourceCreateMessage(h, c) ==
  CASE h = "M1" -> M1CreateMessage(c) [] h = "M3" -> M3CreateMessage(c)
    [] h = "M4" -> M4CreateMessage(c) [] h = "M5" -> M5CreateMessage(c)

SourceHandleReply(h, m, x) ==
  CASE h = "M1" -> M1HandleReply(m, x) [] h = "M3" -> M3HandleReply(m, x)
    [] h = "M4" -> M4HandleReply(m, x) [] h = "M5" -> M5HandleReply(m, x)
    [] h = "S_M5" -> TriggerHandleReply(m, x)

SourceHandleMessage(h, m, x) ==
  CASE h = "M2" -> M2HandleMessage(m, x) [] h = "M6" -> M6HandleMessage(m, x)
    [] h \in {"M7", "S_M7"} -> M7HandleMessage(m, x)
    [] h \in {"M8", "S_M8"} -> M8HandleMessage(m, x)
    [] h = "S_M9" -> M9HandleMessage(m, x)

(* SourceImpl::OnCompleted and SourceImpl::OnError do nothing. *)
SourceImplOnCompleted(s) == s
SourceImplOnError(s) == s

H == INSTANCE MessageHandler WITH
       Handlers <- SourceHandlers, Root <- "Root", NoHandler <- "null",
       NoUid <- 0, Kind <- SourceKind, Children <- SourceChildren,
       Optionals <- SourceOptionals, CreateMessage <- SourceCreateMessage,
       HandleReply <- SourceHandleReply, HandleMessage <- SourceHandleMessage,
       Accepts <- SourceAccepts, RootOnCompleted <- SourceImplOnCompleted,
       RootOnError <- SourceImplOnError

-----------------------------------------------------------------------------
(* SourceImpl *)

(* InitializeRequestId: the step id of a received request from its method; *)
(* a SET_PARAMETER with none of the listed properties leaves the id        *)
(* uninitialised (any value), a GET_PARAMETER is refused (dropped).        *)
InitializeRequestId(m) ==
  CASE m.method = "OPTIONS"       -> {"M2"}
    [] m.method = "SETUP"         -> {"M6"}
    [] m.method = "PLAY"          -> {"M7"}
    [] m.method = "TEARDOWN"      -> {"M8"}
    [] m.method = "PAUSE"         -> {"M9"}
    [] m.method = "SET_PARAMETER" -> RequestIds
    [] OTHER                      -> {}

CreateM5(c, trig, uid) == Req("SET_PARAMETER", "M5", trig, c, uid)

St == [cur |-> cur, armed |-> armed, queue |-> queue, tbs |-> tbs,
       cseq |-> send_cseq, out |-> <<>>, mm |-> mm, fault |-> fault]

RequestKind(m) ==
  CASE m.id = "M1" -> "OPTIONS"
    [] m.id = "M3" -> "GET_PARAMETER"
    [] m.id = "M4" -> "SET_PARAMETER"
    [] m.trig = "SETUP" -> "TRIGGER_SETUP"
    [] OTHER -> "TRIGGER"

IsRequest(m) == m.kind = "req"

(* Commit the state r a call into the tree returned; its messages go on    *)
(* the wire.  'answered' is the cseq of the reply the call consumed (0 for *)
(* none), for the history.                                                  *)
Apply(r, answered) ==
  LET sentReqs == SelectSeq(r.out, IsRequest) IN
  /\ cur' = r.cur /\ armed' = r.armed /\ queue' = r.queue /\ tbs' = r.tbs
  /\ send_cseq' = r.cseq /\ mm' = r.mm /\ fault' = r.fault
  /\ s2k' = s2k \o r.out
  /\ unanswered' = SelectSeq(unanswered, LAMBDA c : c # answered)
                   \o [i \in DOMAIN sentReqs |-> sentReqs[i].cseq]
  /\ sentKinds' = sentKinds \cup {RequestKind(sentReqs[i]) : i \in DOMAIN sentReqs}

Alive == started /\ fault = "none" /\ mm # "abort"

(* Source::Start, called by the host once the connection is up. *)
Start ==
  /\ ~started
  /\ started' = TRUE
  /\ Apply(H!StartH("Root", St), 0)
  /\ UNCHANGED <<apiCalls, k2s, sinkVars>>

(* RTSPDataReceived -> MessageParsed: one message from the sink. *)
MessageParsed ==
  /\ Alive
  /\ k2s # <<>>
  /\ k2s' = Tail(k2s)
  /\ LET m == Head(k2s)
         parsed == IF m.kind = "rep" THEN {m}
                   ELSE {[m EXCEPT !.id = id] : id \in InitializeRequestId(m)}
     IN  \/ /\ parsed = {}
            /\ UNCHANGED <<handlerVars, s2k, unanswered, sentKinds>>
         \/ \E pm \in parsed :
              Apply(H!HandleH("Root", pm, St), IF m.kind = "rep" THEN m.cseq ELSE 0)
  /\ UNCHANGED <<started, apiCalls, sinkVars>>

(* SetParameter objects that sequenced senders created, sent and freed,   *)
(* and whose address their to_be_send_ still holds.                        *)
FreedSetParameters ==
  {tbs[h] : h \in {g \in SourceHandlers : SourceKind[g] = "sender" /\
                      SourceCreateMessage(g, 1).method = "SET_PARAMETER"}} \ {0}

(* SourceStateMachine::GetNextCSeq: send_cseq_++ on the static counter the *)
(* senders' CreateMessage also advances.                                   *)
GetNextCSeq(s) == [s EXCEPT !.cseq = @ + 1]

(* Source::Play/Pause/Teardown: CreateM5 takes the next cseq whether or   *)
(* not the message is then sent.  The new message object may sit where a  *)
(* message freed after sending lay, which to_be_send_ still points to.    *)
ApiCall(trig) ==
  /\ Alive
  /\ apiCalls < MaxApiCalls
  /\ apiCalls' = apiCalls + 1
  /\ \E uid \in {send_cseq} \cup (IF AddressReuse THEN FreedSetParameters ELSE {}) :
       LET m  == CreateM5(send_cseq, trig, uid)
           s0 == GetNextCSeq(St)
           v  == H!CanSendH("Root", m, s0)
       IN  Apply(IF v = "crash" THEN H!Crash(s0, "null")
                 ELSE IF v = "yes" THEN H!SendH("Root", m, s0)
                 ELSE s0, 0)
  /\ UNCHANGED <<started, k2s, sinkVars>>

-----------------------------------------------------------------------------
(* The sink, as an environment following the WFD message exchange. *)

SinkReq(method, c) == Req(method, "none", "none", c, 0)

(* The request a sink sends after answering a source request. *)
FollowUp(m) ==
  CASE m.id = "M1" -> <<"OPTIONS">>
    [] m.id = "M5" -> <<m.trig>>
    [] OTHER       -> <<>>

SinkSends(methods) ==
  /\ k2s' = k2s \o [i \in DOMAIN methods |-> SinkReq(methods[i], sinkCseq + i - 1)]
  /\ sinkPend' = sinkPend \o [i \in DOMAIN methods |->
                               [method |-> methods[i], cseq |-> sinkCseq + i - 1]]
  /\ sinkCseq' = sinkCseq + Len(methods)

SinkAnswer ==
  /\ ~sinkDone
  /\ s2k # <<>> /\ Head(s2k).kind = "req"
  /\ s2k' = Tail(s2k)
  /\ \E ok \in ReplyOutcomes :
       LET m == Head(s2k)
           f == IF ok THEN FollowUp(m) ELSE <<>>
       IN  /\ k2s' = k2s \o <<Rep(m.cseq, ok)>>
                         \o [i \in DOMAIN f |-> SinkReq(f[i], sinkCseq + i - 1)]
           /\ sinkPend' = sinkPend \o [i \in DOMAIN f |->
                                        [method |-> f[i], cseq |-> sinkCseq + i - 1]]
           /\ sinkCseq' = sinkCseq + Len(f)
  /\ UNCHANGED <<handlerVars, started, apiCalls, sinkUp, sinkDone, sinkCalls,
                 unanswered, sentKinds>>

SinkGotReply ==
  /\ ~sinkDone
  /\ s2k # <<>> /\ Head(s2k).kind = "rep"
  /\ sinkPend # <<>>
  /\ s2k' = Tail(s2k)
  /\ LET method == Head(sinkPend).method
         ok     == Head(s2k).ok
     IN  /\ IF method = "SETUP" /\ ok
              THEN /\ k2s' = Append(k2s, SinkReq("PLAY", sinkCseq))
                   /\ sinkPend' = Append(Tail(sinkPend), [method |-> "PLAY", cseq |-> sinkCseq])
                   /\ sinkCseq' = sinkCseq + 1
              ELSE /\ sinkPend' = Tail(sinkPend)
                   /\ UNCHANGED <<k2s, sinkCseq>>
         /\ sinkUp' = (sinkUp \/ (method = "PLAY" /\ ok))
         /\ sinkDone' = (method = "TEARDOWN" /\ ok)
  /\ UNCHANGED <<handlerVars, started, apiCalls, sinkCalls, unanswered, sentKinds>>

(* After its TEARDOWN the sink has closed the connection. *)
SinkClosed ==
  /\ sinkDone
  /\ s2k # <<>>
  /\ s2k' = Tail(s2k)
  /\ UNCHANGED <<handlerVars, started, apiCalls, k2s, sinkVars, unanswered, sentKinds>>

SinkUser(method) ==
  /\ sinkUp /\ ~sinkDone
  /\ sinkCalls < MaxSinkCalls
  /\ sinkCalls' = sinkCalls + 1
  /\ k2s' = Append(k2s, SinkReq(method, sinkCseq))
  /\ sinkPend' = Append(sinkPend, [method |-> method, cseq |-> sinkCseq])
  /\ sinkCseq' = sinkCseq + 1
  /\ UNCHANGED <<handlerVars, started, apiCalls, s2k, sinkUp, sinkDone,
                 unanswered, sentKinds>>

(* Nothing in flight, or the source process has died: only the users or  *)
(* nobody can act.                                                         *)
Quiescent ==
  /\ fault # "none" \/ mm = "abort" \/ (s2k = <<>> /\ k2s = <<>>)
  /\ UNCHANGED vars

-----------------------------------------------------------------------------
(* MiracBrokerSource::on_connected: a new DesktopMediaManager, without a  *)
(* pipeline, and a new Source engine over it; Start follows as its own     *)
(* step, since nothing can be delivered before it.                         *)
OnConnected == H!Constructed(NoPipeline)

Init ==
  /\ LET s == OnConnected IN
     /\ cur = s.cur /\ armed = s.armed /\ queue = s.queue /\ tbs = s.tbs
     /\ send_cseq = s.cseq /\ mm = s.mm /\ fault = s.fault
  /\ started = FALSE
  /\ apiCalls = 0
  /\ s2k = <<>> /\ k2s = <<>>
  /\ sinkCseq = 1 /\ sinkPend = <<>>
  /\ sinkUp = FALSE /\ sinkDone = FALSE /\ sinkCalls = 0
  /\ unanswered = <<>>
  /\ sentKinds = {}

Next ==
  \/ Start
  \/ MessageParsed
  \/ \E t \in {"PLAY", "PAUSE", "TEARDOWN"} : ApiCall(t)
  \/ SinkAnswer
  \/ SinkGotReply
  \/ SinkClosed
  \/ \E method \in SinkUserMethods : SinkUser(method)
  \/ Quiescent

(* The host starts the engine once connected, and the event loops of the *)
(* two ends keep delivering the messages that have arrived: weak fairness  *)
(* of Start and of Delivery.  It is written out as <>[]ENABLED => []<>A,   *)
(* with the enabling conditions stated explicitly: every step of these    *)
(* actions consumes a message or sets started, so each is enabled exactly  *)
(* when its guard holds.                                                    *)
Delivery == MessageParsed \/ SinkAnswer \/ SinkGotReply \/ SinkClosed
DeliveryEnabled ==
  \/ Alive /\ k2s # <<>>
  \/ ~sinkDone /\ s2k # <<>> /\ (Head(s2k).kind = "req" \/ sinkPend # <<>>)
  \/ sinkDone /\ s2k # <<>>
Fairness ==
  /\ <>[](~started) => []<><<Start>>_vars
  /\ <>[]DeliveryEnabled => []<><<Delivery>>_vars

Spec == Init /\ [][Next]_vars /\ Fairness

-----------------------------------------------------------------------------
(* Properties *)

TypeOK ==
  /\ cur \in [SourceHandlers -> SourceHandlers \cup {"null"}]
  /\ armed \in [SourceHandlers -> BOOLEAN]
  /\ queue \in [SourceHandlers -> Seq(CSeqs)]
  /\ tbs \in [SourceHandlers -> Nat]
  /\ send_cseq \in CSeqs
  /\ mm \in MMStates
  /\ fault \in {"none", "assert", "null"}
  /\ started \in BOOLEAN /\ apiCalls \in 0..MaxApiCalls
  /\ s2k \in Seq(Msgs) /\ k2s \in Seq(Msgs)
  /\ sinkCseq \in CSeqs
  /\ sinkPend \in Seq([method : Methods, cseq : CSeqs])
  /\ sinkUp \in BOOLEAN /\ sinkDone \in BOOLEAN /\ sinkCalls \in 0..MaxSinkCalls
  /\ unanswered \in Seq(CSeqs)
  /\ sentKinds \subseteq {"OPTIONS", "GET_PARAMETER", "SET_PARAMETER",
                          "TRIGGER_SETUP", "TRIGGER"}

PhaseOf(h) ==
  CASE h = "null" -> "idle" [] h = "Init" -> "init" [] h = "CapNeg" -> "capneg"
    [] h = "Session" -> "setup" [] h = "Streaming" -> "streaming"

Session == INSTANCE WfdSession WITH phase <- PhaseOf(cur["Root"]), sent <- sentKinds

(* The source never crashes: no assert of the handler tree fails and no   *)
(* call goes through a null current_handler_ (message_handler.cpp).       *)
NoFault == fault = "none"

(* The engine implements the abstract session: SourceStateMachine moves   *)
(* through its states in order, one at a time, and every kind of request   *)
(* is first sent while the state owning it is current.                     *)
Refinement == Session!Spec

(* A state of the session is running: the process is alive, the root has *)
(* a current state and that state has not been reset by an error or by    *)
(* its completion.                                                         *)
Running == fault = "none" /\ cur["Root"] # "null" /\ cur[cur["Root"]] # "null"

(* Reset of the root engine is total (spec section 5, and what          *)
(* SourceImpl::OnTimerEvent relies on): whatever the session has reached, *)
(* Reset through the current handlers, the optional sets and the senders  *)
(* leaves every handler as freshly constructed: no current handler, no    *)
(* armed receiver, no queued cseq, no to_be_send_.  It needs every        *)
(* handler that OnCompleted/OnError left behind to have been reset, since *)
(* Reset only follows current handlers and optional sets.                  *)
ResetRestoresFresh == H!ResetClears("Root", St)

(* cseq correlation: as long as no error has reset the current state, the *)
(* cseqs waiting in the senders' queues are exactly those of the source's *)
(* requests whose reply it has not read, each in one queue.               *)
PendingMatchesWire ==
  Running =>
    /\ UNION {ToSet(queue[h]) : h \in SourceHandlers} = ToSet(unanswered)
    /\ SumFunction([h \in SourceHandlers |-> Len(queue[h])]) = Len(unanswered)

(* Every reply the sink reads answers its oldest outstanding request.     *)
SinkRepliesCorrelate ==
  [][ (s2k # <<>> /\ Head(s2k).kind = "rep" /\ ~sinkDone /\ s2k' = Tail(s2k))
        => (sinkPend # <<>> /\ Head(s2k).cseq = Head(sinkPend).cseq) ]_vars

(* With a sink that follows the exchange, the source reaches Streaming.   *)
SessionEstablished == <>(cur["Root"] = "Streaming")

(* The desktop pipeline is only used once it exists: the IsPaused/Play of *)
(* a PLAY, the Teardown of a TEARDOWN and the Pause of a PAUSE, whichever  *)
(* state's receiver takes them, all come after the M3 reply's             *)
(* SetSinkRtpPorts created the pipeline (DesktopMediaManager asserts it).  *)
PipelineBeforeUse == mm # "abort"

(* Every request the sink sends (OPTIONS, SETUP, PLAY, the requests the   *)
(* triggers ask for and its user's own) is eventually answered by the     *)
(* source: MessageReceiverBase::Handle replies to what it accepts.        *)
SinkCSeqs == 1..(3 + MaxSinkCalls + MaxApiCalls)
Outstanding(c) == \E i \in DOMAIN sinkPend : sinkPend[i].cseq = c
SinkRequestsAnswered == \A c \in SinkCSeqs : Outstanding(c) ~> ~Outstanding(c)

=============================================================================
