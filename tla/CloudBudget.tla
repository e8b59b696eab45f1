----------------------------- MODULE CloudBudget -----------------------------
(***************************************************************************)
(* The money side of CloudCalls: what the two counters of the run row say  *)
(* about its invocations and receipts, in sums over the calls.             *)
(***************************************************************************)
EXTENDS CloudCalls, FiniteSetsExt

SumOver(S, f(_)) == MapThenSumSet(f, S)

SettledCalls == {c \in Calls : callState[c] = "settled"}

\* The counters of the run row always equal what its rows say: the reservations
\* of the open calls and the receipts of the settled ones, through crashes,
\* repeated settlement and changes of owner (admit(), settle()).
CountersMatchRows ==
  /\ reserved = SumOver(Open, LAMBDA c : Reserve[c])
  /\ used = SumOver(SettledCalls, LAMBDA c : units[c])
=============================================================================
