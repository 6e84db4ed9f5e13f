--------------------------- MODULE MCEventStream ---------------------------
(* TLC instance of EventStream: worker-service with two instances.         *)
EXTENDS EventStream, TLC
CONSTANTS worker, w1, w2

OneService == (w1 :> worker) @@ (w2 :> worker)
=============================================================================
