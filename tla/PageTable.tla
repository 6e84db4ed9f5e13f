------------------------------- MODULE PageTable -------------------------------
(* How WebPages and ProviderPages describe a component.  A description names what
   differs from these defaults:  [need |-> {"form"}, slot |-> "saving"] @@ Call.  *)
EXTENDS Naturals, Sequences, TLC

(* Where and when a control works.
     need, bar    flags that must be on, off      idle   slots that must be free
     sees         queries that must be on screen  awaits and not being reloaded  *)
Anywhere == [need |-> {}, bar |-> {}, idle |-> {}, sees |-> {}, awaits |-> {}]

(* What an operation does.
     on, off   flags changed at once
     moves     queries whose parameters change    asks    queries fetched at once
     slot      busy slot taken until the answer   frees   answers that free it
     home      the dialog it stands in, which takes it along when it closes
     own       only the control of the held item is disabled
     writes    queries the server changes         blind   the status is not read
     spills    queries changed even by a refusal that comes half-way
     hopes     queries patched before the answer  undo    patches taken back
     okOn, okOff, okLoads, okPatch   on success   noOn, noOff, noLoads on failure *)
Plain ==
    [kind |-> "gesture", on |-> {}, off |-> {}, moves |-> {}, asks |-> {}, slot |-> "none",
     frees |-> "always", own |-> FALSE, items |-> {1}, writes |-> {}, spills |-> {}, blind |-> FALSE,
     hopes |-> {}, undo |-> {}, okOn |-> {}, okOff |-> {}, okLoads |-> {}, okPatch |-> {},
     home |-> "none", noOn |-> {}, noOff |-> {}, noLoads |-> {}] @@ Anywhere

Tap  == Plain
Call == [kind |-> "call"] @@ Plain

(* The commonest operations.                                                     *)
Show(d)   == [on |-> {d}] @@ Tap
Hide(d)   == [need |-> {d}, off |-> {d}] @@ Tap
Fetch(q)  == [asks |-> {q}] @@ Tap
Move(a, b) == [need |-> {a}, off |-> {a}, on |-> {b}] @@ Tap
Filter(q) == [moves |-> {q}, asks |-> {q}] @@ Tap

(* A component.
     start    flags on when it is mounted          loads    queries fetched then
     latest   queries whose superseded answers are dropped
     live     queries reloaded together when an event says that one was changed
     fails    <<query, flag>>: a failing load sets the flag
     wipes    <<query, flag>>: an answer resets the form behind the flag
     timers   flags that stand for a pending timer
     modals   flags of dialogs that cover the page
     inside   <<name, flag>>: a flag or query that is gone when the dialog closes
     requires <<operation, flag>>: what must be there when it is sent
   and what is claimed of it: single, leaky (slots), fresh (queries), drafts (flags),
   apart (steps of a wizard, one at a time), rests (<<flag, flag>>: the first is on
   only while the second is).                                                      *)
Component ==
    [start |-> {}, queries |-> {}, loads |-> {}, latest |-> {}, live |-> {}, fails |-> {},
     wipes |-> {}, timers |-> {}, inside |-> {}, requires |-> {}, modals |-> {}, single |-> {}, leaky |-> {}, fresh |-> {}, drafts |-> {},
     apart |-> {}, rests |-> {}, ops |-> <<>>]

(* A component that displays the queries qs, each answer replacing older ones.    *)
Reads(qs) == [queries |-> qs, loads |-> qs, latest |-> qs, fresh |-> qs] @@ Component

(* One of the parts ts is on screen at a time.                                   *)
Tabs(ts) == [t \in ts |-> [off |-> ts \ {t}] @@ Show(t)]

(* Operations ops of a dialog, open while the flag d is on; they are called by the
   names of the dialog and the control.                                          *)
Dialog(d, ops) ==
    [n \in {d \o "." \o o : o \in DOMAIN ops} |->
        LET op == ops[CHOOSE o \in DOMAIN ops : d \o "." \o o = n]
        IN [op EXCEPT !.need = @ \cup {d}, !.home = d]]

(* Operations ops of a part of the screen that is there under the conditions c.  *)
Within(c, ops) ==
    LET all == c @@ Anywhere
    IN [o \in DOMAIN ops |->
           [ops[o] EXCEPT !.need = @ \cup all.need, !.bar = @ \cup all.bar, !.idle = @ \cup all.idle,
                          !.sees = @ \cup all.sees, !.awaits = @ \cup all.awaits]]

(* The operations named in list are out of reach while a dialog of modals is open. *)
Covered(modals, list, ops) ==
    [o \in DOMAIN ops |-> IF o \in list THEN [ops[o] EXCEPT !.bar = @ \cup modals] ELSE ops[o]]
================================================================================
