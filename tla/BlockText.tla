------------------------------ MODULE BlockText ------------------------------
(***************************************************************************)
(* What readers of content_blocks rely on: a block, once stored, has its   *)
(* text for good, and the text changes when it is rewritten and never      *)
(* otherwise.                                                              *)
(***************************************************************************)
EXTENDS Naturals

CONSTANTS
  Blocks,   \* ids of blocks
  Texts,    \* what a block may hold
  None      \* no block of that id

VARIABLE text

Init == text = [b \in Blocks |-> None]

Store(b, t) ==
  /\ text[b] = None
  /\ text' = [text EXCEPT ![b] = t]

Rewrite(b, t) ==
  /\ text[b] # None
  /\ text' = [text EXCEPT ![b] = t]

Next == \E b \in Blocks, t \in Texts : Store(b, t) \/ Rewrite(b, t)

Spec == Init /\ [][Next]_text
=============================================================================
