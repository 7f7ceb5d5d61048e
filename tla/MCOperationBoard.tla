-------------------------- MODULE MCOperationBoard --------------------------
(* Instances of OperationBoard for TLC.                                     *)
EXTENDS OperationBoard

CONSTANTS admin, member, image, grid

\* Two drawings share an id: an id comes from a browser and nothing makes it unique.
ThreeStrokes == {[id |-> 1, bytes |-> 1], [id |-> 1, bytes |-> 2], [id |-> 2, bytes |-> 1]}

OneStroke == {[id |-> 1, bytes |-> 1]}
=============================================================================
