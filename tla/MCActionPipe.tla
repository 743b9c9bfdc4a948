---- MODULE MCActionPipe ----
(* ActionPipe for TLC: three requests and an event. *)
EXTENDS ActionPipe
====
