---- MODULE FrameChannel ----
(***************************************************************************)
(* What a backpressured frame ring promises to its one reader: an in-order,*)
(* exactly-once, bounded channel of frames.  Frames are numbered 0, 1, ... *)
(* in the order the service broadcasts them; a frame's number is also what *)
(* the reader can tell it apart by.                                        *)
(***************************************************************************)
EXTENDS Integers

CONSTANT Window     \* frames the producer may be ahead of the reader

VARIABLES sent,     \* frames published so far
          received, \* frames handed to the reader so far
          last      \* the frame handed over last (-1 before the first)

chanVars == <<sent, received, last>>

Init == sent = 0 /\ received = 0 /\ last = -1

Send ==
    /\ sent - received < Window
    /\ sent' = sent + 1
    /\ UNCHANGED <<received, last>>

\* The reader gets exactly the next frame: no gap, no repeat, no torn value.
Deliver ==
    /\ received < sent
    /\ received' = received + 1
    /\ last' = received
    /\ UNCHANGED sent

Next == Send \/ Deliver

Spec == Init /\ [][Next]_chanVars
====
