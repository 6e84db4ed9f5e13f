------------------------------- MODULE MCWebChat -------------------------------
(* Model values for WebChat.                                                      *)
EXTENDS WebChat, TLC

CONSTANTS a, b
TwoConvs    == {a, b}
ConvSymmetry == Permutations(TwoConvs)

(* The unread counts decide nothing else, and finding a conversation does to the rest
   what creating it does, at any time: the run about the rest identifies states that
   differ in counts and look-ups alone.                                             *)
Uncounted == <<server, links, active, shown, known, posts, hydrates, uses, marks,
               {[l EXCEPT !.unread = FALSE] : l \in loads}>>
================================================================================
