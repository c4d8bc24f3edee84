----------------------------- MODULE WfdSession -----------------------------
(***************************************************************************)
(* What a Wi-Fi Display source promises about one RTSP control session,    *)
(* independently of how its handlers are composed: it goes through the     *)
(* states Init, CapabilityNegotiation, SessionSetup and Streaming in that  *)
(* order, one at a time and never back, and each kind of request it sends  *)
(* is first sent in the state that owns it:                                *)
(*   Init        OPTIONS (M1)                                              *)
(*   CapNeg      GET_PARAMETER (M3), SET_PARAMETER (M4)                     *)
(*   Setup       SET_PARAMETER with trigger SETUP (M5)                      *)
(*   Streaming   SET_PARAMETER with trigger PLAY/PAUSE/TEARDOWN (M5)        *)
(***************************************************************************)
EXTENDS Naturals, Sequences

VARIABLES phase, sent

vars == <<phase, sent>>

Phases == <<"idle", "init", "capneg", "setup", "streaming">>
RequestKinds == {"OPTIONS", "GET_PARAMETER", "SET_PARAMETER",
                 "TRIGGER_SETUP", "TRIGGER"}

Owned(ph) ==
  CASE ph = "idle"      -> {}
    [] ph = "init"      -> {"OPTIONS"}
    [] ph = "capneg"    -> {"GET_PARAMETER", "SET_PARAMETER"}
    [] ph = "setup"     -> {"TRIGGER_SETUP"}
    [] ph = "streaming" -> {"TRIGGER"}

Rank(ph) == CHOOSE i \in DOMAIN Phases : Phases[i] = ph

TypeOK ==
  /\ phase \in {Phases[i] : i \in DOMAIN Phases}
  /\ sent \subseteq RequestKinds

Init ==
  /\ phase = "idle"
  /\ sent = {}

(* One step of the session: stay in the current state or enter the next  *)
(* one, and send requests owned by the state reached.                     *)
Step ==
  \E ph \in {phase} \cup {Phases[i] : i \in {Rank(phase) + 1} \cap DOMAIN Phases} :
    /\ phase' = ph
    /\ \E new \in SUBSET Owned(ph) : sent' = sent \cup new

Spec == Init /\ [][Step]_vars

=============================================================================
