---------------------------- MODULE MCApiTokens -----------------------------
(***************************************************************************)
(* An instance of ApiTokens for TLC.                                       *)
(***************************************************************************)
EXTENDS ApiTokens

\* Midnight, one second before the last two hours of the day, their beginning,
\* and the seconds around the next midnight.
MCInstants == {0, DAY - TTL - 1, DAY - TTL, DAY - 1, DAY, DAY + 1}
=============================================================================
