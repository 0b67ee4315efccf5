------------------------------- MODULE Server -------------------------------
(***************************************************************************)
(* The whole prototype: it starts (module Listen), then serves connections *)
(* from its event loop (module Prototype).                                 *)
(***************************************************************************)
EXTENDS Prototype, Listen

state == <<vars, listen>>

ServerInit == Init /\ ListenInit

(* One turn of the loop, or what the web server does meanwhile.            *)
Serving(A) == step = "dispatch" /\ A /\ UNCHANGED listen

ServerNext == \/ ListenNext /\ UNCHANGED vars
              \/ Serving(Next)

ServerSpec == ServerInit /\ [][ServerNext]_state

(* main runs; the loop takes every event in the end; the web server reads. *)
FairServerSpec ==
  /\ ServerSpec
  /\ WF_state(main /\ UNCHANGED vars)
  /\ \A c \in Conn : WF_state(Serving(Event(c))) /\ WF_state(Serving(Receive(c)))
=============================================================================
