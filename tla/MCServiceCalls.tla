--------------------------- MODULE MCServiceCalls ---------------------------
(* Instances of ServiceCalls: every service on its own, called either way,   *)
(* two services that contend for the endpoint, one of them answered from a   *)
(* timer, and a table that lacks a service.                                  *)
EXTENDS ServiceCalls, TLC

CONSTANTS c1, c2

MCCalls     == {c1, c2}
MCAsynchronous == {c2}
MCOffered   == {c1 :> s @@ c2 :> "none" : s \in DOMAIN Functions}
                 \cup {c1 :> "none" @@ c2 :> s : s \in DOMAIN Functions}
                 \cup {c1 :> s @@ c2 :> "Call" : s \in {"Browse", "Call"}}
MCSupported == DOMAIN ServiceTypes \ {"Cancel"}
=============================================================================
