-------------------------------- MODULE MCPages --------------------------------
(* PageMachine with every component of the two consoles.                         *)
EXTENDS PageMachine, ProviderPages, WebPages

\* In a LET: the coverage counts of TLC would walk through a plain definition, and so
\* through all the tables, wherever PageMachine mentions Table.
BothConsoles == ProviderTable @@ WebTable
AllPages     == LET both == BothConsoles IN both
================================================================================
