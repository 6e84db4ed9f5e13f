------------------------ MODULE MCCallbackLifecycle ------------------------
(* TLC instances of CallbackLifecycle; no symmetry, as liveness is checked. *)
EXTENDS CallbackLifecycle, TLC
=============================================================================
