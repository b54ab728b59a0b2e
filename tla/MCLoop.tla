------------------------------- MODULE MCLoop -------------------------------
(* Small instances of the poll loop for TLC.                               *)
EXTENDS LoopProperties, TLC

CONSTANTS f1, f2, f3

TwoSockets   == {f1, f2}
ThreeSockets == {f1, f2, f3}

(* Descriptors are interchangeable.                                        *)
Symmetric == Permutations(Fd)
=============================================================================
