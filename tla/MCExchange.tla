----------------------------- MODULE MCExchange -----------------------------
(* Small instances of Exchange for TLC: two ids and two questions, so that *)
(* a message can fail to match in either way.                              *)
EXTENDS Exchange

CONSTANTS mine, other, asked, unasked

TwoIds == {mine, other}
TwoQuestions == {asked, unasked}

\* A context that expires first, one that cuts the TCP retry short, one that
\* does not matter.
SomeBudgets == {1, 3, 9}
=============================================================================
