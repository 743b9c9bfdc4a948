---- MODULE MCRealtimeSession ----
(* RealtimeSession for TLC. *)
EXTENDS RealtimeSession
====
