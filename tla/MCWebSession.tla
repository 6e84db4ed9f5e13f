------------------------------ MODULE MCWebSession -----------------------------
(* Model values for WebSession.                                                   *)
EXTENDS WebSession

CONSTANTS left, right, ann, bob
TwoTabs  == {left, right}
TwoUsers == {ann, bob}
================================================================================
