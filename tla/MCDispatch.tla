----------------------------- MODULE MCDispatch -----------------------------
(* Two hosts that are shared, then one of them reserved, for TLC. *)
EXTENDS Dispatch

CONSTANTS h1, h2, acme, standard

Open == [hosts |-> {h1, h2}, overload |-> standard, reservations |-> << >>]

ReservedConfig ==
  [hosts |-> {h1, h2}, overload |-> standard,
   reservations |-> <<[orgs |-> {acme}, hosts |-> {h1}, overload |-> NilPolicy]>>]

Shrunk == [hosts |-> {h2}, overload |-> standard, reservations |-> << >>]

MCConfigs == {Open, ReservedConfig, Shrunk}



=============================================================================
