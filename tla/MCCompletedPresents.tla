---- MODULE MCCompletedPresents ----
(* CompletedPresents for TLC; the cfg files give the constants. *)
EXTENDS CompletedPresents
====
