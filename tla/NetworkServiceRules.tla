------------------------- MODULE NetworkServiceRules -------------------------
(***************************************************************************)
(* What reference/separan/network_services.py lets a DHCP or a DNS server  *)
(* be configured with, and which leases of the adapter it tells a program. *)
(*                                                                         *)
(* An address is its number in the neighbourhood of the server's subnet:   *)
(* 0 is the address of the network, the last one its broadcast address.    *)
(* A MAC address is a letter in either case; a DNS name also     *)
(* may end in a dot.                                                       *)
(*                                                                         *)
(* An operator named X_Mistake is X with one mistake in it; no action uses *)
(* it, it shows which property would notice.                               *)
(***************************************************************************)
EXTENDS Naturals, Sequences, FiniteSets, SequencesExt

CONSTANTS MaxLeases, MaxRecords,  \* capabilities: max_dhcp_server_leases, max_dns_server_records
          Broadcast,              \* the last address of the subnet
          DhcpConfigurations,     \* what a program passes; a reservation is <<mac, address>>
          RawLeases,              \* what the adapter reports, each lease <<mac, address>>
          DnsRecords              \* names, each <<name, spelling>>

ASSUME LimitsAssumption == MaxLeases \in Nat /\ MaxRecords \in Nat
ASSUME ServicesAssumption ==
  /\ Broadcast \in Nat \ {0}
  /\ DhcpConfigurations \subseteq [server : Nat, start : Nat, end : Nat, gateway : Nat,
                                   reservations : Seq(STRING \X Nat)]
  /\ RawLeases \subseteq Seq(STRING \X Nat)
  /\ DnsRecords \subseteq Seq(STRING \X STRING)

VARIABLES
  dhcp,      \* the configuration of the server that runs, with its reservations
  dns,       \* the records of the server that runs, and catch_all
  leases     \* what dhcp_server_leases returned last

serviceVars == <<dhcp, dns, leases>>
NoServer == [none |-> TRUE]

----------------------------------------------------------------------------
\* _mac and _dns_name: one spelling of each.
Upper(mac) == IF mac = "a" THEN "A" ELSE IF mac = "b" THEN "B" ELSE mac
Plain(name) == name[1]

Subnet == 0..Broadcast
UsableHost(a) == a \in Subnet \ {0, Broadcast}
InPool(c, a) == c.start <= a /\ a <= c.end

\* _reservations: outside the pool, each address once and never the server's or
\* the gateway's; two spellings of a MAC keep the later address.
ReservedOnce_AnyRole(c) ==
  \A j, k \in DOMAIN c.reservations : j < k => c.reservations[j][2] # c.reservations[k][2]
ReservedOnce(c) ==
  /\ ReservedOnce_AnyRole(c)
  /\ \A k \in DOMAIN c.reservations : c.reservations[k][2] \notin {c.server, c.gateway}
ReservationsAllowed(c) ==
  /\ ReservedOnce(c)
  /\ \A k \in DOMAIN c.reservations : LET a == c.reservations[k][2] IN UsableHost(a) /\ ~InPool(c, a)
Reserved(c) ==
  LET macs == {Upper(c.reservations[k][1]) : k \in DOMAIN c.reservations}
      last(m) == CHOOSE k \in DOMAIN c.reservations :
                   /\ Upper(c.reservations[k][1]) = m
                   /\ \A j \in DOMAIN c.reservations : Upper(c.reservations[j][1]) = m => j <= k
  IN  [m \in macs |-> c.reservations[last(m)][2]]

\* _dhcp_start: the pool lies in the subnet, in order and within the limit; the
\* server and the gateway are outside it.
PoolAllowed(c) ==
  /\ UsableHost(c.start) /\ UsableHost(c.end) /\ c.start <= c.end
  /\ c.end - c.start + 1 <= MaxLeases
DhcpAllowed(c) ==
  /\ PoolAllowed(c) /\ ~InPool(c, c.server)
  /\ UsableHost(c.gateway) /\ ~InPool(c, c.gateway) /\ ReservationsAllowed(c)
DhcpStart(c) ==
  /\ dhcp = NoServer /\ DhcpAllowed(c)
  /\ dhcp' = [c EXCEPT !.reservations = Reserved(c)]
  /\ leases' = <<>> /\ UNCHANGED dns
DhcpStop == dhcp # NoServer /\ dhcp' = NoServer /\ leases' = <<>> /\ UNCHANGED dns

\* _dhcp_leases: one lease that does not fit, or one address or MAC twice, and
\* the answer is an error; else they are sorted by address.
LeaseFits(lease) ==
  /\ lease[2] \in Subnet
  /\ InPool(dhcp, lease[2]) \/ lease[2] \in {dhcp.reservations[m] : m \in DOMAIN dhcp.reservations}
Normalized_AsReported(lease) == lease
Normalized(lease) == <<Upper(lease[1]), lease[2]>>
LeasesAllowed(raw) ==
  /\ \A k \in DOMAIN raw : LeaseFits(raw[k])
  /\ \A j, k \in DOMAIN raw : j # k => \A field \in 1..2 : Normalized(raw[j])[field] # Normalized(raw[k])[field]
ByAddress(found) ==
  CHOOSE list \in [1..Cardinality(found) -> found] :
    \A j, k \in 1..Cardinality(found) : j < k => list[j][2] < list[k][2]
DhcpLeases(raw) ==
  /\ dhcp # NoServer
  /\ leases' = IF LeasesAllowed(raw) THEN ByAddress({Normalized(raw[k]) : k \in DOMAIN raw}) ELSE <<>>
  /\ UNCHANGED <<dhcp, dns>>

\* _dns_start: the names differ once case and the dot are gone, and there is one,
\* or everything is caught.
NamesDiffer_AsWritten(records) == IsInjective(records)
NamesDiffer(records) == IsInjective([k \in DOMAIN records |-> Plain(records[k])])
DnsStart(records, catch_all) ==
  /\ dns = NoServer
  /\ Len(records) <= MaxRecords /\ NamesDiffer(records) /\ (records # <<>> \/ catch_all)
  /\ dns' = [records |-> {<<Plain(records[k]), k>> : k \in DOMAIN records}, catch_all |-> catch_all]
  /\ UNCHANGED <<dhcp, leases>>
DnsStop == dns # NoServer /\ dns' = NoServer /\ UNCHANGED <<dhcp, leases>>

----------------------------------------------------------------------------
ServiceInit == dhcp = NoServer /\ dns = NoServer /\ leases = <<>>
ServiceNext ==
  \/ \E c \in DhcpConfigurations : DhcpStart(c)
  \/ \E raw \in RawLeases : DhcpLeases(raw)
  \/ \E records \in DnsRecords, catch_all \in BOOLEAN : DnsStart(records, catch_all)
  \/ DhcpStop \/ DnsStop

ServiceSpec == ServiceInit /\ [][ServiceNext]_serviceVars

----------------------------------------------------------------------------
Held == {dhcp.reservations[m] : m \in DOMAIN dhcp.reservations}
\* No address of a running server has two roles: one it gives to anyone, the
\* gateway, its own, or one kept for a client.
RolesDisjoint ==
  dhcp # NoServer =>
    /\ Held \cap {dhcp.server, dhcp.gateway} = {}
    /\ \A a \in Held \cup {dhcp.server, dhcp.gateway} : ~InPool(dhcp, a)
    /\ \A m, n \in DOMAIN dhcp.reservations : m # n => dhcp.reservations[m] # dhcp.reservations[n]

\* The leases a program is told are of this server: no address is given twice,
\* and no client, however its MAC is spelled, has two.
LeasesConsistent ==
  /\ \A j, k \in DOMAIN leases : j < k => /\ leases[j][2] < leases[k][2]
                                          /\ Upper(leases[j][1]) # Upper(leases[k][1])
  /\ \A k \in DOMAIN leases : InPool(dhcp, leases[k][2]) \/ leases[k][2] \in Held

\* A name is answered with one address, however a client spells it.
NamesResolveOnce == dns # NoServer => \A r, s \in dns.records : r[1] = s[1] => r = s

\* All three: an address, a client and a name mean one thing to a server.
ConfigurationsSound == RolesDisjoint /\ LeasesConsistent /\ NamesResolveOnce
=============================================================================
