--------------------------- MODULE MCRateLimitScan ---------------------------
(* Small instances of RateLimitScan for TLC.                               *)
EXTENDS RateLimitScan

text(t)     == [kind |-> "text", at |-> t]
throttle(t) == [kind |-> "throttle", at |-> t]
apierror(t) == [kind |-> "apierror", at |-> t]

\* The text before its record and after it, a text of its own far from both,
\* two records of the same time.
MCJournals ==
  { <<text(1), throttle(1), text(5), text(9)>>,
    <<apierror(1), text(2), text(5), apierror(5)>>,
    <<text(1), text(5), throttle(5), throttle(5)>> }
=============================================================================
