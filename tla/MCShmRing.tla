---- MODULE MCShmRing ----
\* TLC instances of the frame ring, and the mutants of its operations.
EXTENDS ShmRing
====
