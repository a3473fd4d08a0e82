---------------------------- MODULE MCActionLedger ----------------------------
(* Small instances of ActionLedger for TLC.                                *)
EXTENDS ActionLedger

call(n)         == [call |-> TRUE, secrets |-> {}, session |-> n, live |-> TRUE, of |-> 0]
leak(n, kinds)  == [call |-> TRUE, secrets |-> kinds, session |-> n, live |-> TRUE, of |-> 0]
output(c, n, kinds) == [call |-> FALSE, secrets |-> kinds, session |-> n, live |-> TRUE, of |-> c]

\* A call and its output that leaks; two calls that leak one kind in common.
LeakFeeds ==
  { <<call(1), output(1, 1, {1})>>,
    <<leak(1, {1}), leak(1, {1, 2})>> }
=============================================================================
