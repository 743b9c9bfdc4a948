---- MODULE MCCompletion ----
(* Completion for TLC: presents of an application, then presents of DWM. *)
EXTENDS Completion

AppAndDwm == <<1, 2>>
TwoThenOne == <<{1} \X {1} \X {FALSE}, {1} \X {1} \X {TRUE}, {2} \X {1} \X {FALSE}>>
====
