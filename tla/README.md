# TLA+ models of the WDS Wi-Fi Display session engine

This directory holds TLA+ models of the RTSP control-session engine in `src/`.
TLC checks them. The models cover:
- the source side of a Wi-Fi Display (Miracast) session, in full, with the generic handler machinery it is built from;
- the sink's Streaming state over the same machinery;
- the sink test application's event loop;
- the Wi-Fi P2P peer that follows connman's view of a peer over D-Bus.

Where one side is the subject, the other is modelled as an environment that follows the WFD message exchange.

## 1. The system

| Part | Source | State it keeps | Operations |
|---|---|---|---|
| Handler machinery | `src/wfd/common/message_handler.cpp` | `current_handler_` per sequence composite; `wait_for_message_` per receiver; `cseq_queue_` per sender; `to_be_send_` per sequenced sender; the static `send_cseq_` | Start, Reset, CanSend, Send, CanHandle, Handle, OnCompleted, OnError |
| Source engine | `src/wfd/source/source.cpp` | the `SourceStateMachine` tree | Start, RTSPDataReceived/MessageParsed, Play, Pause, Teardown, OnTimerEvent |
| Source states | `init_state.cpp`, `cap_negotiation_state.cpp`, `wfd_session_state.cpp` | per-step handlers M1..M8 | CreateMessage, HandleReply, HandleMessage |
| Source Streaming state | not in `src/` (spec §4.7) | teardown receiver, PLAY/PAUSE receivers, trigger sender | as above |
| Desktop media manager | `src/desktop_source/desktop_media_manager.cpp` | the gstreamer pipeline state | SetSinkRtpPorts, Play, Pause, Teardown, IsPaused |
| Sink Streaming state | `src/wfd/sink/streaming_state.cpp` | Teardown/Play/Pause handler sequences, optional senders | as the machinery |
| Sink application | `src/sink/sink.cpp`, `src/sink/main.cpp` | `wfd_sink_`, the main loop, the standard-input watch | on_connected, got_message, Play/Pause/Teardown, the input and signal handlers |
| P2P peer (connman) | `src/p2p/connman-peer.cpp` | the D-Bus proxy `proxy_`; a copy of connman's `State` (`ready_`) and IPv4 `Remote`/`Local`; `observer_` | constructor, proxy_cb, proxy_signal_cb and its three setters, connect/disconnect and their callbacks, destructor |
| Source host | `src/desktop_source/mirac_broker_source.cpp` | `media_manager_`, `wfd_source_` | on_connected, got_message, on_connect_timeout |
| CLI, gst pipelines | `src/mirac_network/gst-test.cpp`, `src/sink/gst_sink_media_manager.cpp` | gstreamer | I/O |

### How the parts interact

The engine is a tree of handlers.
- A *sequence* composite runs its children one after another.
- A *sequence-with-optional-set* composite also keeps optional handlers armed for its whole life.
- The leaves are *receivers*, which answer one request, and *senders*, which send a request and wait for its reply by cseq.

Everything is single-threaded. The host calls into the engine: `Start`, an inbound message, `Play`, `Pause` or `Teardown`. That call runs to completion, including every `OnCompleted`/`OnError` callback up the tree and every `Start`/`Reset` those callbacks make. The source tree is:

```
Root (sequence)
 ├ Init       (sequence)          M1 send OPTIONS, M2 receive OPTIONS
 ├ CapNeg     (sequence)          M3 send GET_PARAMETER, M4 send SET_PARAMETER
 ├ Session    (seq + optional)    M5 send SETUP trigger, M6 receive SETUP, M7 receive PLAY | optional M8 receive TEARDOWN
 └ Streaming  (seq + optional)    S_M8 receive TEARDOWN | optional S_M7 PLAY, S_M9 PAUSE, S_M5 host triggers
```

### What is hard here

None of these cases is reached by the scenario tests:
- the `OnError`/`OnCompleted` cascades, which reset parts of the tree while a call is still running inside them;
- the asymmetric routing of the optional-set composite, which checks optionals first when sending and the sequence first when handling;
- host commands arriving between inbound messages at any step;
- the peer's requests interleaving with the source's own;
- cseq correlation through FIFO queues;
- what happens after an error, or after the session ends.

## 2. Modules

- **`MessageHandler.tla`** models the handler machinery. It is parameterised by the tree (`Kind`, `Children`, `Optionals`) and by the per-step hooks, which are operator constants. Each C++ method is an operator from a handler-state record to the record after the call:
  - `cur` is `current_handler_`;
  - `armed` is `wait_for_message_`;
  - `queue` is `cseq_queue_`;
  - `tbs` is `to_be_send_`;
  - `cseq` is `send_cseq_`;
  - `out` holds the messages written;
  - `mm` is the media manager;
  - `fault` records an assert or a null dereference.

  The methods are mutually `RECURSIVE`. Queries (`CanSend`, `CanHandle`) return `"yes"`, `"no"` or `"crash"`, because the sequence composite dereferences `current_handler_` without a check. A failed `assert` is a crash, as in the debug build. A null `current_handler_` is a crash in any build.
- **`Source.tla`** models the source engine and its environment:
  - It instantiates `MessageHandler` with the source tree and the M1..M9 hooks (`H == INSTANCE MessageHandler WITH ...`).
  - It adds `SourceImpl`: `InitializeRequestId`, `CreateM5`, and the actions `Start`, `MessageParsed` and `ApiCall(trig)`.
  - `Init` is the state `MiracBrokerSource::on_connected` creates (`OnConnected`): a fresh desktop media manager without a pipeline and a new engine over it. The host's `Start` call is the `Start` action. `GetNextCSeq` advances the `send_cseq_` shared with every sender.
  - `mm` is the desktop media manager's pipeline: `NoPipeline` until the M3 reply's `SetSinkRtpPorts` creates it READY. `DesktopPlay`, `DesktopPause` and `DesktopTeardown` are `DesktopMediaManager::Play/Pause/Teardown`, which assert that the pipeline exists. A failed assert, or `IsPaused` on a null pipeline, is `"abort"`, after which the source takes no step.
  - The TCP connection is modelled as two FIFOs, `s2k` and `k2s`.
  - The sink is an environment with four actions:
    - `SinkAnswer` answers the source's requests. It sends OPTIONS after M1, and after an M5 it sends the request that M5's trigger asks for.
    - `SinkGotReply` handles the replies to its own requests. It sends PLAY after the SETUP reply and marks the stream as playing.
    - `SinkClosed` discards what arrives after its TEARDOWN was answered.
    - `SinkUser` sends requests started by the sink's user once streaming.
  - `Quiescent` lets a finished or dead system stop without deadlock.
  - History variables record what is needed for checking: `unanswered` holds the cseqs of source requests whose reply has not been read, and `sentKinds` holds the kinds of request sent.
- **`WfdSession.tla`** is the abstract specification of a source session:
  - The phases run idle → init → capneg → setup → streaming, in order, one at a time.
  - Each request kind is first sent in the phase that owns it.
  - `Source` maps `cur["Root"]` to the phase and `sentKinds` to `sent`, and checks `Session!Spec` as the property `Refinement`.
- **`MCSource.tla`** is the model-checking instance. The `.cfg` files bind its constants.
- **`SinkStreaming.tla`** models the sink's Streaming state (`streaming_state.cpp`) over `MessageHandler`:
  - the tree is Root → Streaming; Streaming is an optional-set composite with the mandatory sequence Teardown (`TD_M5`, `M8Sender`) and the optionals Play (`PL_M5`, `M7Sender`), Pause (`PA_M5`, `M9Sender`), `M3`, `M4`, `M7Opt`, `M8Opt`, `M9Opt`;
  - `M5HandlerCanHandle` is `M5Handler<method>::CanHandle`: an M5 is accepted only by the receiver built for its trigger method;
  - the sink engine around the state (request classification, the user's Play/Pause/Teardown) is not in `src/` and is modelled from the spec: `SinkRequestId`, `MessageParsed`, `UserCommand`;
  - the source is an environment: `SourceTrigger` sends a PLAY/PAUSE/TEARDOWN trigger, `SourceAnswer` answers the sink's requests in order, `SourceGotReply` reads the sink's replies;
  - history variables: `unanswered` (cseqs of sink requests not yet answered), `asked` and `issued` (per method, triggers read or user commands sent, and requests the sink sent).
- **`SinkHost.tla`** models the sink application (`sink.cpp`, `main.cpp`):
  - `OnConnected` creates the media manager and the engine and starts it; `GotMessage` forwards a message; `CallSink` is `Sink::Play/Pause/Teardown`, which dereference `wfd_sink_` without a check;
  - `UserInputHandler` is `_user_input_handler`: a line is consumed and parsed by `ParseInputAndCallSink` (only the exact strings `"play\n"`, `"pause\n"`, `"teardown\n"` are commands), a read error removes the watch, end of input keeps it;
  - `SigHandler` quits the main loop; `Type` is the user's terminal;
  - the engine is the sequence of calls it receives.
- **`ConnmanPeer.tla`** models `P2P::Peer` (`connman-peer.cpp`), which stands apart from the RTSP engine: it tells a host whether a Wi-Fi P2P peer is usable.
  - `Init` is the constructor: `observer_` is set (the host sets it before the main loop runs), the addresses are empty, `proxy_` is `"unset"`, and `ready_` is any value of `InitialReady`, because the constructor never assigns it.
  - `ProxyCb` is `proxy_cb`: the asynchronous proxy creation fails (`proxy_` NULL, nothing else) or succeeds (the signal is connected and the observer reads `is_available()` at `on_initialized`).
  - `ProxySignalCb` dispatches the oldest PropertyChanged signal through `ProxySignal`: `State` goes to `StateChanged`, an IPv4 dictionary is folded (`FoldLeft`) entry by entry through `IPv4Entry` into `RemoteIpChanged`/`LocalIpChanged`. Each setter returns early on an equal value, reads the old availability, assigns, and `Notify` tells the observer if availability changed.
  - `Call` and `CallCb` are `connect`/`disconnect` and their callbacks, which only print; `Destroy` is `~Peer`, which tests and unreferences `proxy_`, unassigned before `proxy_cb`.
  - connman is the environment: `ConnmanState` and `ConnmanIPv4` change its peer and emit a signal to the proxy if it exists. `IsAvailable` (the header is not in `src/`) is an assumption, since neither the header nor `spec.md` defines it: ready with both addresses known. The properties compare it on the Peer's copy and on connman's peer alike, so they hold for any function of those fields.
  - `reports` records, in order, the availability the observer read at each notification.
- **`MCSinkStreaming.tla`**, **`MCSinkHost.tla`** and **`MCConnmanPeer.tla`** are their model-checking instances.

### Constants and bounds

| Constant | Meaning | Main run |
|---|---|---|
| `MaxApiCalls` | host calls of Play/Pause/Teardown | 2 |
| `MaxSinkCalls` | requests started by the sink's user | 2 |
| `ReplyOutcomes` | whether sink replies pass `HandleReply` (`{TRUE}` or `{TRUE, FALSE}`) | `{TRUE}` |
| `AddressReuse` | whether a new M5 may sit at a freed message's address | `FALSE` |
| `SinkUserMethods` | what the sink's user may send | PLAY, PAUSE, TEARDOWN, SET_PARAMETER |

Two calls from each side are enough for the cases the properties are about:
- a trigger while a sink request is in flight;
- two PLAYs;
- PAUSE then PLAY;
- a TEARDOWN followed by a late host command;
- a command that `CanSend` rejects, which still consumes a cseq.

Every session step is reached in every run, because the handshake needs no calls at all.

The bounds of the two engine runs were also raised once by hand to three calls on each side, with the same properties: `MCSource` with `MaxApiCalls = MaxSinkCalls = 3` (1,445,501 distinct states, 3 minutes) and `MCSinkStreaming` with `MaxTriggers = MaxUserCalls = 3` (902,029 distinct states, 1.5 minutes). Neither found an error. The kept cfgs use two calls, so that every mutant run stays short.

`SinkStreaming` starts when the sink enters Streaming. It is bounded by `MaxTriggers` (source triggers, 2), `MaxUserCalls` (the sink user's commands, 2), `TriggerMethods` (PLAY, PAUSE, TEARDOWN) and `ReplyOutcomes`. Two triggers and two commands cover several cases:
- a trigger and a user command of the same method in flight together;
- two triggers of one method;
- a TEARDOWN that resets Streaming while other requests are outstanding.

`ConnmanPeer` is bounded by `IPs` (two addresses), `MaxChanges` (4 changes by connman) and `MaxCalls` (1 connect or disconnect). Four changes let connman become ready, get addresses, swap them (a new remote equal to the old local) and go idle again, in any order relative to the signals' dispatch. `ProxyOutcomes` says whether the proxy creation may fail. `EarlyChanges` says whether connman may change the peer before the proxy exists, `InitialReady` which values the unassigned `ready_` may hold, and `MayDestroy` whether the host may delete the Peer.

`SinkHost` is bounded by `MaxInputs` (4 terminal items), `MaxMessages` (1) and `InputLines`. `EarlyInput` says whether the user may type before the connection is up. Four items cover all three commands, an unknown line, a command without its newline, and end of input or an error after lines.

### Fairness

The fairness assumptions are:
- weak fairness of `Start`, because the host starts the engine once connected;
- weak fairness of message delivery at both ends (`MessageParsed`, `SinkAnswer`, `SinkGotReply`, `SinkClosed`), because each end is driven by an event loop that reads every message that arrives.

Host commands and the sink user are not fair, since users may never act. In `SinkStreaming` the sink's `MessageParsed` and the source's `SourceAnswer` and `SourceGotReply` are fair, for the same reason. In `SinkHost`, `OnConnected`, `GotMessage` and `UserInputHandler` are weakly fair, because GLib dispatches every ready source; the user and the signals are not. In `ConnmanPeer`, `ProxyCb`, `ProxySignalCb` and `CallCb` are weakly fair, because the GLib main loop dispatches every completed D-Bus operation and every received signal; connman and the host are not. Fairness is written as `<>[]Enabled => []<><<A>>_vars`, with the enabling condition stated explicitly. Every step of these actions consumes a message or sets `started`, so the condition is exactly `ENABLED <<A>>_vars`. This equivalence was checked once with TLC, as an invariant, over the main run's state space.

## 3. Runs

| Run | cfg | Expect | What it shows |
|---|---|---|---|
| `source_session` | `MCSource.cfg` | pass | With a sink that follows the exchange, and host and sink-user commands interleaved, the source does the following. In every state it reaches, a `Reset` of the root would leave every handler as freshly constructed: no current handler, no armed receiver, no queued cseq, no `to_be_send_` (`ResetRestoresFresh`, the totality of `Reset` that spec section 5 asks for and `SourceImpl::OnTimerEvent` relies on). This needs every handler that `OnCompleted`/`OnError` left behind to have been reset. Its queued cseqs equal its unanswered requests (`PendingMatchesWire`). It refines `WfdSession` (`Refinement`). It answers the sink in order (`SinkRepliesCorrelate`). It calls the desktop pipeline only after the M3 reply has created it (`PipelineBeforeUse`). It also reaches Streaming (`SessionEstablished`). The sink's user also sends SET_PARAMETER requests, whose step id `InitializeRequestId` leaves uninitialised, so any id. GET_PARAMETER requests, which are dropped, appear in `dropped_request`. A dropped request leaves the source's state unchanged. |
| `rejected_reply` | `MCSourceRejectedReply.cfg` | violation | `NoFault`: a non-200 reply to M1 kills the process (finding 1). |
| `wedged_after_error` | `MCSourceWedged.cfg` | violation | `NoFault`: after an error, the next message crashes the process (finding 2). |
| `second_play` | `MCSourceSecondPlay.cfg` | violation | `SinkRequestsAnswered`: a PLAY while playing is never answered (finding 3). |
| `dropped_request` | `MCSourceDroppedRequest.cfg` | violation | `SinkRepliesCorrelate`: a dropped GET_PARAMETER desynchronises the sink's reply correlation (finding 4). |
| `address_reuse` | `MCSourceAddressReuse.cfg` | violation | `Refinement`: the dangling `to_be_send_` lets a PLAY trigger out before Streaming (finding 5). |
| `sink_streaming` | `MCSinkStreaming.cfg` | pass | With source triggers and the sink user's commands in any interleaving, the sink does the following. A `Reset` of the root would leave every handler as freshly constructed, also after a TEARDOWN or an error has reset Streaming while optional senders held queued cseqs (`ResetRestoresFresh`). Its queued cseqs equal its unanswered requests (`PendingMatchesWire`). It sends a PLAY, PAUSE or TEARDOWN only as often as asked (`IssuesOnlyAsked`). It answers the source's triggers in order (`SourceRepliesCorrelate`). No sender waits for ever: every cseq pushed on a `cseq_queue_` is later popped by its reply or cleared by a Reset, unless the sink dies (`SendersReleased`). There is no reply timeout in the code, so this liveness rests on the source answering and on the TCP connection, modelled as reliable and in order. |
| `second_trigger` | `MCSinkSecondTrigger.cfg` | violation | `TriggersAnswered`: a second PAUSE trigger while the first one's PAUSE is in flight is never answered (finding 6). |
| `sink_host` | `MCSinkHost.cfg` | pass | Once connected, every typed line is read (`InputServed`). |
| `early_command` | `MCSinkHostEarlyInput.cfg` | violation | `NoFault`: a command typed before the connection crashes the sink application (finding 7). |
| `connman_peer` | `MCConnmanPeer.cfg` | pass | connman changes the peer's state and addresses in any order, the proxy creation may fail, and the host may connect, disconnect and delete the Peer. Once every received signal is dispatched, the Peer's copy equals connman's peer (`InSync`). What the observer read last is always the Peer's availability, and every notification reports a real change of it (`ObserverTracksPeer`). The observer's view returns to connman's again and again (`ObserverConverges`). The run assumes `ready_` starts false and that connman changes nothing before the proxy exists. |
| `peer_initial_copy` | `MCConnmanPeerInitialCopy.cfg` | violation | `ObserverConverges`: connman becomes ready and gets its addresses before the asynchronous proxy creation finishes; `proxy_cb` reads none of it, the observer is told `FALSE`, and nothing corrects it (finding 8). `ready_` starts FALSE here, so the trace shows finding 8 alone. |

Every property of a passing run has a mutant in `PROJECT.json`: a plausible bug in the mapped code that TLC must catch. The mutants are:
- the reply's cseq left unset;
- the reply stamped with the engine's own counter;
- a `SequencedMessageSender::Reset` that keeps `to_be_send_`;
- a reply cseq that is not popped (it breaks both `PendingMatchesWire` and `SendersReleased`);
- `CanSend` accepting any request;
- a receiver that does not arm;
- an optional-set reset that forgets its optionals;
- an `M5Handler` that ignores the trigger method;
- an input handler that drops its watch after one line;
- an M3 reply that accepts the ports without creating the pipeline;
- a remote address compared with `local_host_`;
- a notification on every change, available or not;
- `was_available` read after `ready_` is assigned.

### Findings

1. **Both notifications after a rejected reply.** `MessageSenderBase::Handle` (`message_handler.cpp:272-277`) calls `OnError` when `HandleReply` fails. The error path resets the queue, so the queue-empty test then also calls `OnCompleted`. `MessageSequenceHandler::OnCompleted` asserts on a composite whose current handler is now null. Any non-200 reply to M1, M3, M4 or M5, or an M3 reply without client RTP ports, crashes the source. The spec requires exactly one notification and says this case yields `OnError`.
2. **No recovery after an error.** `MessageSequenceHandler::OnError` keeps `current_handler_` pointing at the reset child. `SourceImpl::OnError` is empty. The next inbound message goes through a null current handler.
3. **A second PLAY goes unanswered.** `M7Handler` returns `nullptr` when the pipeline already plays (see the FIXME at `wfd_session_state.cpp:76`). This happens when a host Play trigger and a sink user's PLAY race, or when the user presses play twice. The sink never gets a reply, and the session errors out.
4. **Unknown requests are dropped silently.** `MessageParsed` drops requests of unknown method, including GET_PARAMETER, without a reply (FIXME at `source.cpp:184`). The sink then receives the reply to its next request while it still waits for the dropped one.
5. **`to_be_send_` dangles.** It points at a message freed when `Send` returned. An M5 created by `Source::Play` at the same address is accepted by a waiting M4 or M5 sender.
6. **A repeated trigger wedges the sink.** The sink's Pause (likewise Play, Teardown) is a sequence: `M5Handler`, then the sender. While the sender waits for its reply, the sequence refuses a request. A second PAUSE trigger is then accepted by no handler. `MessageSequenceWithOptionalSetHandler::Handle` (`message_handler.cpp:175`) reports `OnError`, Streaming is reset, and the trigger is never answered.
7. **A command before the connection crashes the sink application.** `main` reads standard input from the start. `Sink::Play/Pause/Teardown` (`sink.cpp:42`) call through `wfd_sink_`, which `on_connected` creates only later.

8. **The Peer never reads connman's current properties.** `proxy_cb` (`connman-peer.cpp:116`, a TODO) connects to PropertyChanged and calls `on_initialized` without reading what connman already holds. A peer that became ready before the asynchronous proxy creation finished stays unavailable in the Peer's copy. The observer never learns it can connect.
The constructor (`connman-peer.cpp:171`) also leaves `ready_` uninitialised, and `state_changed` and `is_available` read it. `Init` lets it be any value of `InitialReady`, but both runs fix it to FALSE: a Peer reporting itself available from an indeterminate TRUE needs connman to hand out addresses without a State signal, which a real connman (association and configuration first) does not do. It is listed as a hazard, not as a finding.

Deleting a Peer before `proxy_cb` runs is also undefined: `~Peer` (`connman-peer.cpp:213`) tests and unreferences an unassigned `proxy_`, and `proxy_cb` still holds the raw `this`. `NoFault` fails as soon as `MayDestroy` lets `Destroy` precede `ProxyCb`. No code in `src/` creates or deletes a Peer, so no run claims a host does this; it is listed as a hazard.

## 4. Not modelled (yet) and the plan

The plan for later work, in order of importance:
1. A composition of the source's Streaming state with `SinkStreaming`, in place of the two environments. The source's Streaming state is not in `src/`, so this would rest on the spec.
2. Timeouts. `OnTimerEvent` (`source.cpp:128-131`) calls `HandleTimeoutEvent` and then `Reset`, but `HandleTimeoutEvent` is not in `src/`, and no code in `src/` creates a timer. A sender waits for its reply without a deadline (the TODO at `message_handler.cpp:254`). So `OnTimerEvent` is not an action. What its `Reset` does is checked anyway: `ResetRestoresFresh` applies `ResetH` to the root in every reachable state. That nothing restarts the machine after such a `Reset` is listed as a hazard and is not checked.
3. The sink's `M5Handler::CanHandle` dereferences the trigger property without a null check. Which requests reach it depends on the sink's request classification, which is not in `src/`; the model routes only SET_PARAMETERs that carry a trigger to M5. `M8Sender` requires a non-empty session; the session id is fixed and non-empty here.
4. The end-of-input behaviour of the sink's input handler: it returns true and keeps its watch. Whether that spins depends on GLib's polling of the descriptor, which is not modelled.
5. Not planned: gstreamer pipelines and the sink's media manager (`gst_sink_media_manager.cpp` forwards Play/Pause/Teardown to a pipeline that is not in `src/`, and none of the sink's Streaming handlers calls it); the rest of the source host (`mirac_broker_source.cpp`: its connect timeout only prints, and whether `on_connected` can run twice is decided by `MiracBroker`, which is not in `src/`; `on_connected` itself is `OnConnected` and `Start`); the `wds::MediaManager` interface header (`media_manager.h`), which declares the contracts but no behaviour; the gstreamer test tool `gst-test.cpp`; and message text parsing and serialisation. These are I/O or a codec boundary; messages are records here, following `Message` and `Request` of `message.h` (`Req`, `Rep`, `Methods`, `RequestIds`).

Payload contents (formats, codecs, ports) are abstracted to whether a reply passes `HandleReply`. An M3 reply that fails after `SetSinkRtpPorts` leaves the pipeline READY, but the engine dies on any failed reply (finding 1), so that difference is not kept. The `send_cseq_` counter is unbounded here. One shared counter hands out every cseq, so outstanding cseqs are distinct by construction; its `int` overflow would need 2^31 requests and is not reachable in a session. A reply that never comes is not modelled either: there is no timer in the source tree.
