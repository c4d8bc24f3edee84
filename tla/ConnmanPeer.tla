----------------------------- MODULE ConnmanPeer -----------------------------
(***************************************************************************)
(* A Wi-Fi P2P peer as seen through connman (src/p2p/connman-peer.cpp).    *)
(* P2P::Peer creates a D-Bus proxy for connman's net.connman.Peer object   *)
(* asynchronously; once the proxy exists (proxy_cb) it listens to          *)
(* PropertyChanged signals and keeps a copy of the peer's State (ready_)   *)
(* and of its IPv4 Remote and Local addresses, telling its observer when   *)
(* the peer's availability changes.  connman is the environment: it       *)
(* changes the peer and emits a signal to every subscribed proxy.  The     *)
(* host (not in the source tree) sets the observer before the main loop    *)
(* runs, may connect or disconnect once told the peer is initialised, and  *)
(* may delete the Peer.                                                    *)
(***************************************************************************)
EXTENDS Naturals, Sequences, SequencesExt

CONSTANTS
  IPs,            \* addresses connman may report
  MaxChanges,     \* changes connman makes to the peer
  MaxCalls,       \* Connect/Disconnect calls the host makes
  InitialReady,   \* values ready_ may hold: the constructor never sets it
  ProxyOutcomes,  \* whether g_dbus_proxy_new_for_bus succeeds
  EarlyChanges,   \* whether connman may change the peer before the proxy exists
  MayDestroy      \* whether the host may delete the Peer

ASSUME InitialReady \subseteq BOOLEAN /\ InitialReady # {}
ASSUME ProxyOutcomes \subseteq BOOLEAN /\ ProxyOutcomes # {}
ASSUME MaxChanges \in Nat /\ MaxCalls \in Nat /\ EarlyChanges \in BOOLEAN /\ MayDestroy \in BOOLEAN

NoIP == ""                                   \* an empty std::string
Addrs == IPs \cup {NoIP}
ConnmanStates == {"idle", "failure", "ready"} \* values of the State property

VARIABLES
  cm,        \* connman's peer: [state, remote, local]
  changes,   \* changes connman has made
  proxy,     \* proxy_: "unset" (never assigned), "ok", or "null" (creation failed)
  alive,     \* the Peer object exists
  peer,      \* [ready_, remote_host_, local_host_, observer_]
  signals,   \* PropertyChanged signals emitted to the proxy, not yet dispatched
  calls,     \* Connect/Disconnect calls in flight
  ncalls,    \* calls the host has made
  reports,   \* history: availability the observer read at on_initialized and
             \* at each on_availability_changed, in order
  fault      \* "none", or the undefined behaviour reached

vars == <<cm, changes, proxy, alive, peer, signals, calls, ncalls, reports, fault>>

-----------------------------------------------------------------------------
(* The peer's copy and its notifications.  Each operator takes and returns *)
(* o = [p |-> peer, r |-> reports].                                         *)

(* Peer::is_available (connman-peer.h, not in the source tree): the peer  *)
(* is usable once connman reports it ready with both addresses known.     *)
IsAvailable(p) == p.ready_ /\ p.remote_host_ # NoIP /\ p.local_host_ # NoIP

(* Mutant: the observer is told of every change, available or not. *)
NotifyAlways(p0, p1, r) ==
  IF ~p1.observer_ THEN r ELSE Append(r, IsAvailable(p1))

(* The tail of each setter: without an observer nothing more; otherwise   *)
(* on_availability_changed if is_available() changed, and the observer    *)
(* reads is_available() again.                                            *)
Notify(p0, p1, r) ==
  IF ~p1.observer_ THEN r
  ELSE IF IsAvailable(p0) # IsAvailable(p1) THEN Append(r, IsAvailable(p1))
  ELSE r

(* Mutant: was_available is read after ready_ has been assigned. *)
StateChangedLate(o, ready) ==
  IF o.p.ready_ = ready THEN o
  ELSE LET p1 == [o.p EXCEPT !.ready_ = ready] IN [p |-> p1, r |-> Notify(p1, p1, o.r)]

StateChanged(o, ready) ==
  IF o.p.ready_ = ready THEN o
  ELSE LET p1 == [o.p EXCEPT !.ready_ = ready] IN [p |-> p1, r |-> Notify(o.p, p1, o.r)]

(* Mutant: the new remote address is compared with local_host_. *)
RemoteIpChangedVsLocal(o, ip) ==
  IF ip = o.p.local_host_ THEN o
  ELSE LET p1 == [o.p EXCEPT !.remote_host_ = ip] IN [p |-> p1, r |-> Notify(o.p, p1, o.r)]

RemoteIpChanged(o, ip) ==
  IF ip = o.p.remote_host_ THEN o
  ELSE LET p1 == [o.p EXCEPT !.remote_host_ = ip] IN [p |-> p1, r |-> Notify(o.p, p1, o.r)]

LocalIpChanged(o, ip) ==
  IF ip = o.p.local_host_ THEN o
  ELSE LET p1 == [o.p EXCEPT !.local_host_ = ip] IN [p |-> p1, r |-> Notify(o.p, p1, o.r)]

(* Peer::proxy_signal_cb on one PropertyChanged signal: State is ready or  *)
(* not; IPv4 is a dictionary whose Remote and Local entries are applied in *)
(* its order.  Keys it does not carry are left as they were.               *)
IPv4Entry(o, e) ==
  IF e.key = "Remote" THEN RemoteIpChanged(o, e.ip)
  ELSE IF e.key = "Local" THEN LocalIpChanged(o, e.ip)
  ELSE o
ProxySignal(o, sig) ==
  IF sig.name = "State" THEN StateChanged(o, sig.state = "ready")
  ELSE FoldLeft(IPv4Entry, o, sig.dict)

-----------------------------------------------------------------------------
(* Actions of the Peer *)

O == [p |-> peer, r |-> reports]

(* Peer::proxy_cb: the asynchronous proxy creation finishes.  On failure   *)
(* proxy_ is set to NULL and nothing else happens; on success the signal   *)
(* handler is connected and the observer told on_initialized, at which     *)
(* it reads is_available().  The callback runs with the Peer's `this`,     *)
(* freed if the host has deleted it.                                       *)
ProxyCb ==
  /\ proxy = "unset" /\ fault = "none"
  /\ IF ~alive THEN fault' = "dangling_this" /\ UNCHANGED <<proxy, reports>>
     ELSE \E ok \in ProxyOutcomes :
            /\ proxy' = IF ok THEN "ok" ELSE "null"
            /\ reports' = IF ok /\ peer.observer_ THEN Append(reports, IsAvailable(peer))
                          ELSE reports
            /\ UNCHANGED fault
  /\ UNCHANGED <<cm, changes, alive, peer, signals, calls, ncalls>>

(* Peer::proxy_signal_cb, dispatched by the main loop for the oldest       *)
(* signal the proxy has received.                                          *)
ProxySignalCb ==
  /\ alive /\ fault = "none"
  /\ signals # <<>>
  /\ LET o1 == ProxySignal(O, Head(signals)) IN
     /\ peer' = o1.p /\ reports' = o1.r
  /\ signals' = Tail(signals)
  /\ UNCHANGED <<cm, changes, proxy, alive, calls, ncalls, fault>>

(* Peer::connect / Peer::disconnect: an asynchronous D-Bus call on proxy_. *)
(* The host calls them once it was told the peer is initialised.          *)
Call(method) ==
  /\ alive /\ fault = "none" /\ reports # <<>>
  /\ ncalls < MaxCalls /\ ncalls' = ncalls + 1
  /\ calls' = Append(calls, method)
  /\ UNCHANGED <<cm, changes, proxy, alive, peer, signals, reports, fault>>

(* Peer::connect_cb / disconnect_cb: the call finishes or fails; either    *)
(* way the callback only prints.  It does not use the Peer.                 *)
CallCb ==
  /\ calls # <<>> /\ fault = "none"
  /\ calls' = Tail(calls)
  /\ UNCHANGED <<cm, changes, proxy, alive, peer, signals, ncalls, reports, fault>>

(* Peer::~Peer: if (proxy_) g_clear_object(&proxy_).  Before proxy_cb,     *)
(* proxy_ was never assigned: it may read as NULL (nothing happens) or as *)
(* a stale pointer, unreferenced as an object.  With the proxy gone, no    *)
(* more signals are dispatched to the Peer.                                *)
Destroy ==
  /\ MayDestroy /\ alive /\ fault = "none"
  /\ alive' = FALSE
  /\ signals' = <<>>
  /\ IF proxy = "unset" THEN fault' \in {"none", "unref_garbage"} ELSE UNCHANGED fault
  /\ UNCHANGED <<cm, changes, proxy, peer, calls, ncalls, reports>>

-----------------------------------------------------------------------------
(* connman: it changes its peer and emits PropertyChanged to the proxy if  *)
(* the proxy exists and the Peer still listens.                            *)

Emit(sig) ==
  signals' = IF proxy = "ok" /\ alive THEN Append(signals, sig) ELSE signals

CanChange ==
  /\ changes < MaxChanges
  /\ EarlyChanges \/ proxy # "unset"

ConnmanState(st) ==
  /\ CanChange /\ st # cm.state
  /\ cm' = [cm EXCEPT !.state = st]
  /\ changes' = changes + 1
  /\ Emit([name |-> "State", state |-> st])
  /\ UNCHANGED <<proxy, alive, peer, calls, ncalls, reports, fault>>

(* New addresses: connman sends both entries, Remote first. *)
ConnmanIPv4(remote, local) ==
  /\ CanChange /\ <<remote, local>> # <<cm.remote, cm.local>>
  /\ cm' = [cm EXCEPT !.remote = remote, !.local = local]
  /\ changes' = changes + 1
  /\ Emit([name |-> "IPv4",
           dict |-> <<[key |-> "Remote", ip |-> remote], [key |-> "Local", ip |-> local]>>])
  /\ UNCHANGED <<proxy, alive, peer, calls, ncalls, reports, fault>>

Quiescent ==
  /\ fault # "none" \/ (signals = <<>> /\ calls = <<>> /\ proxy # "unset")
  /\ UNCHANGED vars

-----------------------------------------------------------------------------
(* Peer::Peer: observer_ NULL, the proxy requested; ready_ and proxy_ are  *)
(* not initialised, the address strings are empty.  The host then sets    *)
(* the observer before the main loop dispatches anything.  connman's peer  *)
(* starts idle without addresses.                                           *)
Init ==
  /\ cm = [state |-> "idle", remote |-> NoIP, local |-> NoIP]
  /\ changes = 0
  /\ proxy = "unset"
  /\ alive = TRUE
  /\ \E r \in InitialReady :
       peer = [ready_ |-> r, remote_host_ |-> NoIP, local_host_ |-> NoIP, observer_ |-> TRUE]
  /\ signals = <<>> /\ calls = <<>> /\ ncalls = 0 /\ reports = <<>>
  /\ fault = "none"

Next ==
  \/ ProxyCb
  \/ ProxySignalCb
  \/ \E m \in {"Connect", "Disconnect"} : Call(m)
  \/ CallCb
  \/ Destroy
  \/ \E st \in ConnmanStates : ConnmanState(st)
  \/ \E r, l \in IPs : ConnmanIPv4(r, l)
  \/ Quiescent

(* The GLib main loop dispatches every pending callback; connman and the   *)
(* host are not assumed to act.                                             *)
Fairness ==
  /\ WF_vars(ProxyCb)
  /\ WF_vars(ProxySignalCb)
  /\ WF_vars(CallCb)

Spec == Init /\ [][Next]_vars /\ Fairness

-----------------------------------------------------------------------------
(* Properties *)

TypeOK ==
  /\ cm \in [state : ConnmanStates, remote : Addrs, local : Addrs]
  /\ peer \in [ready_ : BOOLEAN, remote_host_ : Addrs, local_host_ : Addrs,
               observer_ : BOOLEAN]
  /\ proxy \in {"unset", "ok", "null"} /\ alive \in BOOLEAN
  /\ reports \in Seq(BOOLEAN) /\ calls \in Seq({"Connect", "Disconnect"})
  /\ changes \in 0..MaxChanges /\ ncalls \in 0..MaxCalls

(* connman's own view of the peer, read as Peer::is_available reads its copy. *)
ConnmanAvailable ==
  IsAvailable([ready_ |-> cm.state = "ready", remote_host_ |-> cm.remote,
               local_host_ |-> cm.local, observer_ |-> TRUE])

(* Once the Peer has dispatched every signal it received, its copy of     *)
(* State, Remote and Local is connman's: no change is lost or misapplied  *)
(* by the setters' early returns.                                          *)
InSync ==
  (alive /\ proxy = "ok" /\ signals = <<>>) =>
    /\ peer.ready_ = (cm.state = "ready")
    /\ peer.remote_host_ = cm.remote
    /\ peer.local_host_ = cm.local

(* The observer tracks the Peer exactly: from on_initialized on, what it  *)
(* read last is what is_available() returns now (no availability change   *)
(* of a setter goes unnotified), and every on_availability_changed tells  *)
(* it something new (no notification repeats the previous value).          *)
ObserverTracksPeer ==
  /\ (alive /\ proxy = "ok") => reports # <<>> /\ Last(reports) = IsAvailable(peer)
  /\ \A i \in 2..Len(reports) : reports[i] # reports[i - 1]

(* The observer's view of the peer is, again and again, connman's: what   *)
(* it last read equals whether connman's peer is available, unless the    *)
(* Peer is gone or its proxy could not be created.                         *)
ObserverConsistent ==
  \/ ~alive \/ proxy = "null" \/ fault # "none"
  \/ reports # <<>> /\ Last(reports) = ConnmanAvailable
ObserverConverges == []<>ObserverConsistent

(* The Peer never reaches undefined behaviour: no unreference of an       *)
(* unassigned proxy_, no callback on a deleted Peer.                       *)
NoFault == fault = "none"

====
