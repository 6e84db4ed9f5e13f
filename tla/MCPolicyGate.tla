---------------------------- MODULE MCPolicyGate ----------------------------
(* TLC instances of PolicyGate.                                             *)
EXTENDS PolicyGate

\* Midnight and half past ten in the evening; and the weekend from Friday on.
FewTimes == {0, 1350}
FewDays == {{5, 6}}
=============================================================================
