---------------------------- MODULE Reservations ----------------------------
(***************************************************************************)
(* Reservation pools of one model (Model.applyReservations and             *)
(* Model.ReservationPools in manager/manager.go).                          *)
(*                                                                         *)
(* A configuration c is a record                                           *)
(*   hosts         the configured hostnames                                *)
(*   overload      the model's own policy                                  *)
(*   reservations  a sequence of [orgs, hosts, overload]                   *)
(* NilPolicy is an absent overload block, NoOrg the empty org id.          *)
(***************************************************************************)
EXTENDS Integers, Sequences

CONSTANTS NilPolicy, NoOrg

\* Reservations that name org; those without orgs or hosts are skipped, and
\* so is the empty org id.
Naming(c, org) ==
  {i \in DOMAIN c.reservations :
     org # NoOrg /\ org \in c.reservations[i].orgs /\ c.reservations[i].hosts # {}}

\* reservedByOrg[org]: unknown hosts are dropped; {} when the org has none.
ReservedFor(c, org) ==
  UNION {c.reservations[i].hosts \cap c.hosts : i \in Naming(c, org)}

OrgsOf(c) == UNION {c.reservations[i].orgs : i \in DOMAIN c.reservations}

Reserved(c) == UNION {ReservedFor(c, org) : org \in OrgsOf(c)}

HasReservations(c) == Reserved(c) # {}

\* sharedHosts.
Shared(c) == c.hosts \ Reserved(c)

Last(S) == CHOOSE i \in S : \A j \in S : j <= i

\* policiesByOrg[org]: the last reservation that gave the org a known host.
PolicyFor(c, org) ==
  LET known == {i \in Naming(c, org) : c.reservations[i].hosts \cap c.hosts # {}}
      own   == c.reservations[Last(known)].overload
  IN  IF own = NilPolicy THEN c.overload ELSE own

\* reservationOverloads[host], then overloadForHostLocked: the last
\* reservation that lists the host decides, whoever it is for.
PolicyOfHost(c, host) ==
  LET listing == {i \in DOMAIN c.reservations :
                    /\ host \in c.reservations[i].hosts \cap c.hosts
                    /\ c.reservations[i].orgs \ {NoOrg} # {}}
  IN  IF listing = {} THEN c.overload
      ELSE LET own == c.reservations[Last(listing)].overload
           IN  IF own = NilPolicy THEN c.overload ELSE own

(***************************************************************************)
(* ReservationPools: what a caller may use, and under which policy.        *)
(* Without reservations there is no filter, which admits any host (anyHost *)
(* is the universe the nil filter stands for).                             *)
(***************************************************************************)
ReservationPools(c, org, anyHost) ==
  IF ~HasReservations(c)
  THEN [primary |-> anyHost, spill |-> {}, policy |-> c.overload]
  ELSE IF ReservedFor(c, org) # {}
  THEN [primary |-> ReservedFor(c, org), spill |-> Shared(c), policy |-> PolicyFor(c, org)]
  ELSE [primary |-> Shared(c), spill |-> {}, policy |-> c.overload]

=============================================================================
