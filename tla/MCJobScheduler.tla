--------------------------- MODULE MCJobScheduler ---------------------------
(* Instances of the scheduler for TLC. *)
EXTENDS JobScheduler

CONSTANTS j1, j2

\* Two jobs of different markets, as postmarket_stock_cn and _hk, which the
\* default schedule starts at the same minute.
OwnMarket == [j \in {j1, j2} |-> j]

TwoAndOne == [j \in {j1, j2} |-> IF j = j1 THEN 2 ELSE 1]
=============================================================================
