--------------------------- MODULE MCAlertDelivery ---------------------------
(* Small instances of AlertDelivery for TLC.                               *)
EXTENDS AlertDelivery

\* The second wait is longer than the first.
MCBackoff == [n \in 1..(MaxAttempts - 1) |-> n]

\* Rules that match every alert, or all but the first.
MCMatches == {Alerts, Alerts \ {1}}
MCAll     == {Alerts}
=============================================================================
