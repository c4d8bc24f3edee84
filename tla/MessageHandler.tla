--------------------------- MODULE MessageHandler ---------------------------
(***************************************************************************)
(* The composable handler machinery of src/wfd/common/message_handler.cpp: *)
(* MessageSequenceHandler, MessageSequenceWithOptionalSetHandler,          *)
(* MessageReceiverBase, MessageSenderBase and SequencedMessageSender.      *)
(*                                                                         *)
(* A handler tree is fixed when the engine is constructed; the module is   *)
(* instantiated with that tree (Kind, Children, Optionals) and with the    *)
(* per-step hooks (CreateMessage, HandleReply, HandleMessage, Accepts).    *)
(*                                                                         *)
(* The engine is single threaded: a call into the tree (Start, Reset,      *)
(* Send, Handle) runs to completion, including every OnCompleted/OnError   *)
(* callback it triggers and every Start/Reset those make.  Each operation  *)
(* is therefore an operator from a handler-state record s to the record    *)
(* after the call:                                                         *)
(*   s.cur[p]    current_handler_ of a composite p (NoHandler = nullptr)   *)
(*   s.armed[h]  wait_for_message_ of a receiver h                         *)
(*   s.queue[h]  cseq_queue_ of a sender h                                 *)
(*   s.tbs[h]    to_be_send_ of a sequenced sender (identity of the        *)
(*               message it created, NoUid = nullptr)                      *)
(*   s.cseq      MessageHandler::send_cseq_ (shared by every sender)       *)
(*   s.out       messages handed to SendRTSPData during the call           *)
(*   s.mm        state of the MediaManager collaborator                    *)
(*   s.fault     "none", or how the process died: "assert" (a failed      *)
(*               assert) or "null" (a call through a null                  *)
(*               current_handler_).  Nothing runs after a fault.           *)
(* A query (CanSend, CanHandle) yields "yes", "no" or "crash".             *)
(***************************************************************************)
EXTENDS Naturals, Sequences, SequencesExt

CONSTANTS
  Handlers,               \* the handlers of the tree
  Root,                   \* the top handler, observed by the engine
  NoHandler,              \* nullptr as a current_handler_
  NoUid,                  \* nullptr as to_be_send_
  Kind,                   \* [Handlers -> {"seq","opt","receiver","sender","osender"}]
  Children,               \* sequenced handlers of a composite, in order
  Optionals,              \* optional handlers of an "opt" composite, in order
  CreateMessage(_, _),    \* SequencedMessageSender::CreateMessage (h, cseq)
  HandleReply(_, _, _),   \* MessageSenderBase::HandleReply (h, reply, mm)
  HandleMessage(_, _, _), \* MessageReceiverBase::HandleMessage (h, request, mm)
  Accepts(_, _),          \* message identity a receiver / optional sender takes
  RootOnCompleted(_),     \* the engine's Observer::OnCompleted
  RootOnError(_)          \* the engine's Observer::OnError

Composites == {h \in Handlers : Kind[h] \in {"seq", "opt"}}
Members(p) == ToSet(Children[p]) \cup ToSet(Optionals[p])

(* AddSequencedHandler / AddOptionalHandler: every handler is owned by     *)
(* exactly one composite, registered once, and observed by it.             *)
WellFormedTree ==
  /\ Kind[Root] = "seq"
  /\ \A p \in Composites :
       /\ Children[p] # <<>>
       /\ IsInjective(Children[p]) /\ IsInjective(Optionals[p])
       /\ ToSet(Children[p]) \cap ToSet(Optionals[p]) = {}
       /\ Kind[p] = "seq" => Optionals[p] = <<>>
  /\ \A h \in Handlers \ {Root} : \E p \in Composites :
       /\ h \in Members(p)
       /\ \A q \in Composites \ {p} : h \notin Members(q)

ASSUME WellFormedTree

Observer(h) == CHOOSE p \in Composites : h \in Members(p)
Position(p, h) == CHOOSE i \in DOMAIN Children[p] : Children[p][i] = h

(* A freshly constructed tree: every current_handler_ null, receivers not *)
(* waiting, queues empty; send_cseq_ starts at 1.                          *)
Constructed(mm0) ==
  [cur   |-> [h \in Handlers |-> NoHandler],
   armed |-> [h \in Handlers |-> FALSE],
   queue |-> [h \in Handlers |-> <<>>],
   tbs   |-> [h \in Handlers |-> NoUid],
   cseq  |-> 1,
   out   |-> <<>>,
   mm    |-> mm0,
   fault |-> "none"]

Dead(s) == s.fault # "none"
Crash(s, why) == [s EXCEPT !.fault = why]
Verdict(b) == IF b THEN "yes" ELSE "no"

-----------------------------------------------------------------------------
(* Leaves that call nothing back.                                          *)

(* Mutant: Start forgets to set wait_for_message_. *)
RecvStartNoArm(h, s) == s
RecvStart(h, s) == [s EXCEPT !.armed[h] = TRUE]
RecvReset(h, s) == [s EXCEPT !.armed[h] = FALSE]
RecvCanHandle(h, m, s) == s.armed[h] /\ Accepts(h, m)

SenderReset(h, s) == [s EXCEPT !.queue[h] = <<>>]
SenderCanHandle(h, m, s) ==
  /\ m.kind = "rep"
  /\ s.queue[h] # <<>>
  /\ m.cseq = Head(s.queue[h])

(* Mutant: Reset leaves to_be_send_ pointing at the sent message. *)
SeqSenderResetKeepTbs(h, s) == SenderReset(h, s)
SeqSenderReset(h, s) == SenderReset(h, [s EXCEPT !.tbs[h] = NoUid])
(* Mutant: CanSend takes any request instead of the one it created. *)
SeqSenderCanSendAny(h, m, s) == m.kind = "req"
SeqSenderCanSend(h, m, s) == m.uid = s.tbs[h]

-----------------------------------------------------------------------------
RECURSIVE StartH(_, _), ResetH(_, _), CanSendH(_, _, _), SendH(_, _, _),
          CanHandleH(_, _, _), HandleH(_, _, _),
          NotifyCompleted(_, _), NotifyError(_, _),
          SeqStart(_, _), SeqReset(_, _), SeqCanSend(_, _, _),
          SeqSend(_, _, _), SeqCanHandle(_, _, _), SeqHandle(_, _, _),
          SeqOnCompleted(_, _, _), SeqOnError(_, _, _),
          StartEach(_, _), ResetEach(_, _),
          FirstCanSend(_, _, _), FirstCanHandle(_, _, _),
          OptStart(_, _), OptReset(_, _), OptCanSend(_, _, _), OptSend(_, _, _),
          OptCanHandle(_, _, _), OptHandle(_, _, _),
          OptOnCompleted(_, _, _), OptOnError(_, _, _),
          RecvHandle(_, _, _), SenderSend(_, _, _), SenderHandle(_, _, _),
          SeqSenderStart(_, _),
          RecvHandleNoCSeq(_, _, _),
          RecvHandleOwnCSeq(_, _, _), SenderHandleNoPop(_, _, _)

(* MessageSequenceHandler *)
SeqStart(p, s) ==
  IF s.cur[p] # NoHandler THEN s
  ELSE StartH(Head(Children[p]), [s EXCEPT !.cur[p] = Head(Children[p])])

SeqReset(p, s) ==
  IF s.cur[p] = NoHandler THEN s
  ELSE [ResetH(s.cur[p], s) EXCEPT !.cur[p] = NoHandler]

SeqCanSend(p, m, s) ==
  IF s.cur[p] = NoHandler THEN "crash" ELSE CanSendH(s.cur[p], m, s)

SeqSend(p, m, s) ==
  IF s.cur[p] = NoHandler THEN Crash(s, "null") ELSE SendH(s.cur[p], m, s)

SeqCanHandle(p, m, s) ==
  IF s.cur[p] = NoHandler THEN "crash" ELSE CanHandleH(s.cur[p], m, s)

SeqHandle(p, m, s) ==
  IF s.cur[p] = NoHandler THEN Crash(s, "null") ELSE HandleH(s.cur[p], m, s)

SeqOnCompleted(p, h, s) ==
  IF s.cur[p] # h THEN Crash(s, "assert")
  ELSE LET s1 == ResetH(h, s)
           i  == Position(p, h)
       IN  IF i = Len(Children[p]) THEN NotifyCompleted(p, s1)
           ELSE StartH(Children[p][i + 1],
                       [s1 EXCEPT !.cur[p] = Children[p][i + 1]])

SeqOnError(p, h, s) ==
  IF s.cur[p] # h THEN Crash(s, "assert")
  ELSE NotifyError(p, ResetH(h, s))

(* MessageSequenceWithOptionalSetHandler *)
StartEach(hs, s) ==
  IF hs = <<>> THEN s ELSE StartEach(Tail(hs), StartH(Head(hs), s))

ResetEach(hs, s) ==
  IF hs = <<>> THEN s ELSE ResetEach(Tail(hs), ResetH(Head(hs), s))

FirstCanSend(hs, m, s) ==
  IF hs = <<>> THEN [v |-> "no", h |-> NoHandler]
  ELSE LET v == CanSendH(Head(hs), m, s) IN
       IF v = "no" THEN FirstCanSend(Tail(hs), m, s) ELSE [v |-> v, h |-> Head(hs)]

FirstCanHandle(hs, m, s) ==
  IF hs = <<>> THEN [v |-> "no", h |-> NoHandler]
  ELSE LET v == CanHandleH(Head(hs), m, s) IN
       IF v = "no" THEN FirstCanHandle(Tail(hs), m, s) ELSE [v |-> v, h |-> Head(hs)]

OptStart(p, s) == StartEach(Optionals[p], SeqStart(p, s))

(* Mutant: only the sequence is reset, the optional set is forgotten. *)
OptResetSeqOnly(p, s) == SeqReset(p, s)

OptReset(p, s) == ResetEach(Optionals[p], SeqReset(p, s))

OptCanSend(p, m, s) ==
  LET f == FirstCanSend(Optionals[p], m, s) IN
  IF f.v = "no" THEN SeqCanSend(p, m, s) ELSE f.v

OptSend(p, m, s) ==
  LET f == FirstCanSend(Optionals[p], m, s)
      q == SeqCanSend(p, m, s)
  IN  IF f.v = "yes" THEN SendH(f.h, m, s)
      ELSE IF f.v = "crash" \/ q = "crash" THEN Crash(s, "null")
      ELSE IF q = "yes" THEN SeqSend(p, m, s)
      ELSE NotifyError(p, s)

OptCanHandle(p, m, s) ==
  LET q == SeqCanHandle(p, m, s) IN
  IF q # "no" THEN q ELSE FirstCanHandle(Optionals[p], m, s).v

OptHandle(p, m, s) ==
  LET q == SeqCanHandle(p, m, s)
      f == FirstCanHandle(Optionals[p], m, s)
  IN  IF q = "yes" THEN SeqHandle(p, m, s)
      ELSE IF q = "crash" \/ f.v = "crash" THEN Crash(s, "null")
      ELSE IF f.v = "yes" THEN HandleH(f.h, m, s)
      ELSE NotifyError(p, s)

OptOnCompleted(p, h, s) ==
  IF h \in ToSet(Optionals[p]) THEN StartH(h, ResetH(h, s))
  ELSE SeqOnCompleted(p, h, s)

OptOnError(p, h, s) == NotifyError(p, ResetH(h, s))

(* Mutants: the reply's cseq is left unset (0), or is taken from the      *)
(* engine's own send counter instead of the request.                      *)
RecvHandleNoCSeq(h, m, s) ==
  IF ~RecvCanHandle(h, m, s) THEN NotifyError(h, s)
  ELSE LET r  == HandleMessage(h, m, s.mm)
           s1 == [s EXCEPT !.armed[h] = FALSE, !.mm = r.mm]
       IN  IF ~r.ok THEN NotifyError(h, s1)
           ELSE NotifyCompleted(h, [s1 EXCEPT !.out = Append(@,
                  [kind |-> "rep", cseq |-> 0, ok |-> TRUE])])

RecvHandleOwnCSeq(h, m, s) ==
  IF ~RecvCanHandle(h, m, s) THEN NotifyError(h, s)
  ELSE LET r  == HandleMessage(h, m, s.mm)
           s1 == [s EXCEPT !.armed[h] = FALSE, !.mm = r.mm]
       IN  IF ~r.ok THEN NotifyError(h, s1)
           ELSE NotifyCompleted(h, [s1 EXCEPT !.out = Append(@,
                  [kind |-> "rep", cseq |-> s.cseq, ok |-> TRUE])])

(* MessageReceiverBase::Handle: the reply carries the request's cseq. *)
RecvHandle(h, m, s) ==
  IF ~RecvCanHandle(h, m, s) THEN NotifyError(h, s)
  ELSE LET r  == HandleMessage(h, m, s.mm)
           s1 == [s EXCEPT !.armed[h] = FALSE, !.mm = r.mm]
       IN  IF ~r.ok THEN NotifyError(h, s1)
           ELSE NotifyCompleted(h, [s1 EXCEPT !.out = Append(@,
                  [kind |-> "rep", cseq |-> m.cseq, ok |-> TRUE])])

(* MessageSenderBase::Send *)
SenderSend(h, m, s) ==
  IF CanSendH(h, m, s) # "yes" THEN NotifyError(h, s)
  ELSE [s EXCEPT !.queue[h] = Append(@, m.cseq), !.out = Append(@, m)]

(* Mutant: the answered cseq is not popped from cseq_queue_. *)
SenderHandleNoPop(h, m, s) ==
  IF CanHandleH(h, m, s) # "yes" THEN NotifyError(h, s)
  ELSE LET r  == HandleReply(h, m, s.mm)
           s1 == [s EXCEPT !.mm = r.mm]
           s2 == IF r.ok THEN s1 ELSE NotifyError(h, s1)
       IN  IF s2.queue[h] = <<>> THEN NotifyCompleted(h, s2) ELSE s2

(* MessageSenderBase::Handle: a rejected reply reports OnError, and the   *)
(* queue is tested afterwards whatever HandleReply returned.              *)
SenderHandle(h, m, s) ==
  IF CanHandleH(h, m, s) # "yes" THEN NotifyError(h, s)
  ELSE LET r  == HandleReply(h, m, s.mm)
           s1 == [s EXCEPT !.queue[h] = Tail(@), !.mm = r.mm]
           s2 == IF r.ok THEN s1 ELSE NotifyError(h, s1)
       IN  IF s2.queue[h] = <<>> THEN NotifyCompleted(h, s2) ELSE s2

(* SequencedMessageSender::Start: CreateMessage takes send_cseq_++.       *)
SeqSenderStart(h, s) ==
  LET m == CreateMessage(h, s.cseq) IN
  SenderSend(h, m, [s EXCEPT !.tbs[h] = m.uid, !.cseq = @ + 1])

-----------------------------------------------------------------------------
(* Virtual dispatch of the MessageHandler interface.  An OptionalMessage-  *)
(* Sender ("osender") has no Start of its own, resets its queue, and can   *)
(* send any request of its identity.                                       *)

StartH(h, s) ==
  IF Dead(s) THEN s ELSE
  CASE Kind[h] = "seq"      -> SeqStart(h, s)
    [] Kind[h] = "opt"      -> OptStart(h, s)
    [] Kind[h] = "receiver" -> RecvStart(h, s)
    [] Kind[h] = "sender"   -> SeqSenderStart(h, s)
    [] Kind[h] = "osender"  -> s

ResetH(h, s) ==
  IF Dead(s) THEN s ELSE
  CASE Kind[h] = "seq"      -> SeqReset(h, s)
    [] Kind[h] = "opt"      -> OptReset(h, s)
    [] Kind[h] = "receiver" -> RecvReset(h, s)
    [] Kind[h] = "sender"   -> SeqSenderReset(h, s)
    [] Kind[h] = "osender"  -> SenderReset(h, s)

CanSendH(h, m, s) ==
  CASE Kind[h] = "seq"      -> SeqCanSend(h, m, s)
    [] Kind[h] = "opt"      -> OptCanSend(h, m, s)
    [] Kind[h] = "receiver" -> "no"
    [] Kind[h] = "sender"   -> Verdict(SeqSenderCanSend(h, m, s))
    [] Kind[h] = "osender"  -> Verdict(Accepts(h, m))

SendH(h, m, s) ==
  IF Dead(s) THEN s ELSE
  CASE Kind[h] = "seq"      -> SeqSend(h, m, s)
    [] Kind[h] = "opt"      -> OptSend(h, m, s)
    [] Kind[h] = "receiver" -> s
    [] Kind[h] \in {"sender", "osender"} -> SenderSend(h, m, s)

CanHandleH(h, m, s) ==
  CASE Kind[h] = "seq"      -> SeqCanHandle(h, m, s)
    [] Kind[h] = "opt"      -> OptCanHandle(h, m, s)
    [] Kind[h] = "receiver" -> Verdict(RecvCanHandle(h, m, s))
    [] Kind[h] \in {"sender", "osender"} -> Verdict(SenderCanHandle(h, m, s))

HandleH(h, m, s) ==
  IF Dead(s) THEN s ELSE
  CASE Kind[h] = "seq"      -> SeqHandle(h, m, s)
    [] Kind[h] = "opt"      -> OptHandle(h, m, s)
    [] Kind[h] = "receiver" -> RecvHandle(h, m, s)
    [] Kind[h] \in {"sender", "osender"} -> SenderHandle(h, m, s)

(* observer_->OnCompleted(this) / observer_->OnError(this) *)
NotifyCompleted(h, s) ==
  IF Dead(s) THEN s
  ELSE IF h = Root THEN RootOnCompleted(s)
  ELSE IF Kind[Observer(h)] = "seq" THEN SeqOnCompleted(Observer(h), h, s)
  ELSE OptOnCompleted(Observer(h), h, s)

NotifyError(h, s) ==
  IF Dead(s) THEN s
  ELSE IF h = Root THEN RootOnError(s)
  ELSE IF Kind[Observer(h)] = "seq" THEN SeqOnError(Observer(h), h, s)
  ELSE OptOnError(Observer(h), h, s)

-----------------------------------------------------------------------------
(* Handlers that currently hold state of a running protocol step: a       *)
(* composite with a current handler, a waiting receiver, a sender with a  *)
(* message in flight or a created message.                                 *)
Busy(s) ==
  {h \in Handlers : \/ s.cur[h] # NoHandler
                    \/ s.armed[h]
                    \/ s.queue[h] # <<>>
                    \/ s.tbs[h] # NoUid}

(* MessageHandler::Reset of the root (what SourceImpl::OnTimerEvent calls) *)
(* leaves no handler holding protocol state: the tree is as constructed,    *)
(* apart from send_cseq_ and the media manager, which Reset does not touch. *)
ResetClears(root, s) == Dead(s) \/ Busy(ResetH(root, s)) = {}

=============================================================================
