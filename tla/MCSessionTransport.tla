-------------------------- MODULE MCSessionTransport --------------------------
(* Small instances of SessionTransport; requests are interchangeable, and so *)
(* are works and clients.                                                    *)
EXTENDS SessionTransport, TLC

Symmetry == Permutations(Writers) \cup Permutations(Works) \cup Permutations(Readers)
===============================================================================
