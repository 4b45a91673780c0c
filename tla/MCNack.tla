------------------------------- MODULE MCNack -------------------------------
(* A small instance of NackStream: sequence numbers that wrap at packet 2,  *)
(* timestamps that wrap at packet 1, 20 ms packets, or 20 ms ones that      *)
(* become 10 ms ones in the middle of the stream.                           *)
EXTENDS NackStream

MCStreams == {[n \in 0..6 |-> 20 * n], [n \in 0..6 |-> IF n < 3 THEN 20 * n ELSE 30 + 10 * n]}
MCSizes == {0, 2, 4, 5}
=============================================================================
