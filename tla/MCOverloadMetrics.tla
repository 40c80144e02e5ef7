------------------------- MODULE MCOverloadMetrics -------------------------
(***************************************************************************)
(* Configurations of two hosts: no reservation; the other host reserved,   *)
(* so that this one is shared and tracks two policies; this host reserved; *)
(* the guard off.                                                          *)
(***************************************************************************)
EXTENDS OverloadMetrics

Hosts == {"h", "g"}
Wide   == [waiting |-> 3, clear |-> 0, running |-> 0]
Narrow == [waiting |-> 2, clear |-> 2, running |-> 1]
Exact  == [waiting |-> 3, clear |-> 2, running |-> 0]
Off    == [waiting |-> 0, clear |-> 0, running |-> 0]

Model(policy, reservations) ==
  [hosts |-> Hosts, overload |-> policy, reservations |-> reservations]
For(org, host, policy) == [orgs |-> {org}, hosts |-> {host}, overload |-> policy]

MCConfigs == {Model(Wide, << >>),
              Model(Off, <<For("a", "g", Wide)>>),
              Model(Wide, <<For("a", "g", Narrow)>>),
              Model(Exact, <<For("a", "h", NilPolicy)>>),
              Model(NilPolicy, << >>)}

\* Two organizations reserve the host under different policies.
TwoPolicies == {Model(Off, <<For("a", "h", Wide), For("b", "h", Exact)>>)}
=============================================================================
