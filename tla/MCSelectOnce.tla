---------------------------- MODULE MCSelectOnce ----------------------------
(* Two reserved-or-shared pools over three hosts for TLC. *)
EXTENDS SelectOnce

CONSTANTS h1, h2, h3

MCPoolPairs ==
  { [primary |-> {h1, h2, h3}, spill |-> {}],      \* no reservations
    [primary |-> {h1}, spill |-> {h2, h3}],        \* a reserved caller
    [primary |-> {h1, h2}, spill |-> {h3}],
    [primary |-> {}, spill |-> {}] }               \* every host reserved

MCOrders == { << >>, <<h1, h2>> }
MCCaps == {NoCap, 0}

=============================================================================
