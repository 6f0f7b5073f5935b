-------------------------- MODULE NetworkAddressing --------------------------
(***************************************************************************)
(* The interfaces of the machine as a program sees and configures them:    *)
(* network_status, the address modes, the waits and the preferred          *)
(* interfaces of reference/separan/network.py.                             *)
(*                                                                         *)
(* Every built-in but the start of a wait reads the interface anew by its  *)
(* name; between two of them the interface may have changed or gone.  The  *)
(* adapter is outside src/reference/separan/network.py's control: it may   *)
(* report nonsense and refuse any configuration.                           *)
(*                                                                         *)
(* An operator named X_Mistake is X with one mistake in it; no action uses *)
(* it, it shows which property would notice.                               *)
(***************************************************************************)
EXTENDS Naturals, Sequences, FiniteSets, SequencesExt, FiniteSetsExt

CONSTANTS
  Names,                 \* the interfaces the machine may have
  Kind,                  \* name -> its kind
  ByName,                \* the names in their order
  Preferences,           \* bound: the lists of names a program prefers
  StaticConfigurations,  \* bound: the configurations a program passes
  Leases,                \* bound: the leases an adapter reports
  Reports                \* bound: what else it reports of an interface

AddressModes == {"disabled", "dhcp", "static", "link_local", "unknown"}
DhcpStates   == {"disabled", "discovering", "requesting", "bound", "renewing", "rebinding", "failed"}

\* Of an address, its protocol version and what kind of address it is.
IP(version, class) == [version |-> version, class |-> class]
IpAddresses  == [version : {4, 6}, class : {"global", "link_local", "loopback", "multicast", "unspecified"}]
NoAddress  == IP(0, "none")
\* Of the times 0 is an absent one: renewal, rebinding and the end of the lease.
Times == [1..3 -> Nat]

\* An adapter may report modes and states of its own.
InterfaceStates ==
  [connected : BOOLEAN, addressed : BOOLEAN, address_mode : AddressModes \cup {r.address_mode : r \in Reports},
   dhcp_status : DhcpStates \cup {r.dhcp_status : r \in Reports}]

ASSUME AddressingAssumption ==
  /\ ByName \in Seq(Names) /\ Preferences \subseteq Seq(Names)
  /\ \A c \in StaticConfigurations :
       /\ c.address \in IpAddresses /\ c.gateway \in IpAddresses \cup {NoAddress} /\ c.prefix \in Nat
       /\ c.dns \in Seq(IpAddresses)
  /\ \A lease \in Leases :
       lease.address \in IpAddresses /\ lease.server \in IpAddresses \cup {NoAddress} /\ lease.times \in Times
  /\ Reports \subseteq InterfaceStates

VARIABLES
  interfaces,   \* name -> what the adapter reports; Gone
  configured,   \* the static configuration the last step gave the adapter
  preferred,    \* network_preferred_interfaces
  wait,         \* the wait in progress
  told          \* what the last built-in returned, until an interface changes

addressingVars == <<interfaces, configured, preferred, wait, told>>

Gone       == [gone |-> TRUE]
NoConfiguration == [none |-> TRUE]
NoWait     == [for |-> "nothing"]
Nothing    == [what |-> "nothing"]
Exists(n)  == interfaces[n] # Gone
Tells(what, value) == told' = [what |-> what, value |-> value] /\ configured' = NoConfiguration

----------------------------------------------------------------------------
\* _require_interface and _validate_address_metadata: "ok" or the error.
Required(n, kinds) == IF ~Exists(n) \/ Kind[n] \notin kinds THEN "E972" ELSE "ok"
AllKinds == {Kind[n] : n \in Names}
Validated(n, kinds) ==
  IF Required(n, kinds) # "ok" THEN "E972"
  ELSE IF interfaces[n].address_mode \notin AddressModes \/ interfaces[n].dhcp_status \notin DhcpStates
  THEN "E980" ELSE "ok"

\* network_status and network_address_mode; ethernet_status and wifi_status ask
\* for their kind.
Inspect(n, kinds) ==
  /\ Tells("status", Validated(n, kinds)) /\ UNCHANGED <<interfaces, preferred, wait>>

\* ethernet_open and wifi_open: the first of its kind, in the order of the names.
OpenKind(kind) ==
  /\ LET found == {n \in Names : Exists(n) /\ Kind[n] = kind}
     IN  Tells("opened", IF found = {} THEN "E972" ELSE "ok")
  /\ UNCHANGED <<interfaces, preferred, wait>>

\* network_set_preferred_interfaces: unique names that exist now.
SetPreferred(names) ==
  /\ LET ok == IsInjective(names) /\ \A k \in DOMAIN names : Exists(names[k])
     IN  /\ Tells("set", IF ok THEN "ok" ELSE "E972")
         /\ preferred' = IF ok THEN names ELSE preferred
  /\ UNCHANGED <<interfaces, wait>>

\* network_preferred_interface: the first connected one, names that have gone
\* since are passed over; without a preference the order is that of the names.
Order == IF preferred = <<>> THEN ByName ELSE preferred
Usable_NotGone(n) == Exists(n)
Usable(n) == Exists(n) /\ interfaces[n].connected
Preferred ==
  /\ LET usable == {k \in DOMAIN Order : Usable(Order[k])}
     IN  Tells("preferred", IF usable = {} THEN "none" ELSE Order[Min(usable)])
  /\ UNCHANGED <<interfaces, preferred, wait>>

----------------------------------------------------------------------------
\* _unicast_address, _prefix, _dns_addresses and the rules of
\* network_set_static_address that join them.
Unicast(a) == a.class \notin {"multicast", "unspecified"}
PrefixFits(prefix, version) == prefix <= (IF version = 4 THEN 32 ELSE 128)
DnsAddresses(dns) == IsInjective(dns) /\ \A k \in DOMAIN dns : Unicast(dns[k]) /\ dns[k].class # "loopback"
SameVersion(a, b) == b = NoAddress \/ (Unicast(b) /\ a.version = b.version)
StaticAllowed_AnyGateway(c) ==
  /\ Unicast(c.address) /\ c.address.class \notin {"loopback", "link_local"}
  /\ PrefixFits(c.prefix, c.address.version) /\ DnsAddresses(c.dns)
StaticAllowed(c) == StaticAllowed_AnyGateway(c) /\ SameVersion(c.address, c.gateway)

\* _configuration_interface, then for refresh and release the mode.
MayConfigure(n, needsDhcp) ==
  IF Validated(n, AllKinds) # "ok" THEN Validated(n, AllKinds)
  ELSE IF Kind[n] = "loopback" \/ (needsDhcp /\ interfaces[n].address_mode # "dhcp") THEN "E980"
  ELSE "ok"

\* _adapter_call: refused with the error the exception stands for, or done.
Configures(n, allowed, mode, configuration) ==
  /\ \/ allowed # "ok" /\ Tells("configured", allowed) /\ UNCHANGED interfaces
     \/ /\ allowed = "ok" /\ \E how \in {"E978", "E974", "E980"} : Tells("configured", how)
        /\ UNCHANGED interfaces
     \/ /\ allowed = "ok" /\ told' = Nothing /\ configured' = configuration
        /\ interfaces' = [interfaces EXCEPT ![n].address_mode = mode]
  /\ UNCHANGED <<preferred, wait>>

SetStatic(n, c) ==
  LET may == MayConfigure(n, FALSE)
  IN  Configures(n, IF may # "ok" THEN may ELSE IF StaticAllowed(c) THEN "ok" ELSE "E980", "static", c)
UseDhcp(n) == Configures(n, MayConfigure(n, FALSE), "dhcp", NoConfiguration)
UseLinkLocal(n) == Configures(n, MayConfigure(n, FALSE), "link_local", NoConfiguration)
\* network_refresh_address, network_release_address and the link-local fallback,
\* which leave the mode.
Adjust(n, needsDhcp) ==
  Configures(n, MayConfigure(n, needsDhcp), interfaces[n].address_mode, NoConfiguration)

\* network_dhcp_lease: what the adapter says is checked before it is told.
Given(time) == IF time = 0 THEN <<>> ELSE <<time>>
Present(times) == Given(times[1]) \o Given(times[2]) \o Given(times[3])
LeaseAllowed_AsReported(lease) == Unicast(lease.address) /\ SameVersion(lease.address, lease.server)
LeaseAllowed(lease) ==
  LeaseAllowed_AsReported(lease) /\ \A j, k \in DOMAIN Present(lease.times) : j < k => Present(lease.times)[j] <= Present(lease.times)[k]
DhcpLease(n, lease) ==
  /\ Tells("lease", IF Validated(n, AllKinds) # "ok" \/ ~LeaseAllowed(lease) THEN Gone ELSE lease)
  /\ UNCHANGED <<interfaces, preferred, wait>>

----------------------------------------------------------------------------
\* network_wait_until_addressed and wifi_wait_until_connected: the interface may
\* have gone already when the wait begins.
BeginWait_AnyKind(n, for) ==
  /\ wait' = [for |-> for, name |-> n, expired |-> FALSE]
  /\ told' = Nothing /\ configured' = NoConfiguration /\ UNCHANGED <<interfaces, preferred>>
BeginWait(n, for) == (for = "connected" => Kind[n] = "wifi") /\ BeginWait_AnyKind(n, for)

Waiting == wait # NoWait
Arrived == IF wait.for = "connected" THEN interfaces[wait.name].connected ELSE interfaces[wait.name].addressed
GivesUp_OnFailure == wait.for = "addressed" /\ interfaces[wait.name].dhcp_status = "failed"
GivesUp == wait.expired \/ (wait.for = "addressed" /\ interfaces[wait.name].dhcp_status = "failed")

\* One turn of the loop: look, then look at the clock, then sleep.
LookedAt == IF wait.for = "connected" THEN Required(wait.name, {"wifi"}) ELSE Validated(wait.name, AllKinds)
Turn_ClockFirst ==
  IF LookedAt # "ok" THEN LookedAt ELSE IF GivesUp THEN "false" ELSE IF Arrived THEN "true" ELSE "sleep"
Turn ==
  IF LookedAt # "ok" THEN LookedAt ELSE IF Arrived THEN "true" ELSE IF GivesUp THEN "false" ELSE "sleep"
LoopTurn ==
  /\ Waiting
  /\ IF Turn = "sleep" THEN UNCHANGED <<wait, told>>
     ELSE wait' = NoWait /\ told' = [what |-> "waited", value |-> Turn, of |-> wait]
  /\ UNCHANGED <<interfaces, configured, preferred>>

DeadlinePasses ==
  /\ Waiting /\ wait' = [wait EXCEPT !.expired = TRUE]
  /\ UNCHANGED <<interfaces, configured, preferred, told>>

\* Cables, access points, DHCP servers and users: any interface changes at any time.
InterfaceChanges(n) ==
  /\ Kind[n] # "loopback" /\ \E now \in Reports \cup {Gone} : interfaces' = [interfaces EXCEPT ![n] = now]
  /\ told' = Nothing /\ configured' = NoConfiguration /\ UNCHANGED <<preferred, wait>>

----------------------------------------------------------------------------
AddressingInit ==
  /\ interfaces = [n \in Names |-> [connected |-> TRUE, addressed |-> TRUE,
                                    address_mode |-> "dhcp", dhcp_status |-> "discovering"]]
  /\ configured = NoConfiguration /\ preferred = <<>> /\ wait = NoWait /\ told = Nothing

AddressingNext ==
  \/ /\ ~Waiting
     /\ \/ \E n \in Names : \/ Inspect(n, AllKinds) \/ Inspect(n, {"wifi"}) \/ UseDhcp(n) \/ UseLinkLocal(n)
                            \/ \E needsDhcp \in BOOLEAN : Adjust(n, needsDhcp)
                            \/ \E c \in StaticConfigurations : SetStatic(n, c)
                            \/ \E lease \in Leases : DhcpLease(n, lease)
                            \/ \E for \in {"connected", "addressed"} : BeginWait(n, for)
        \/ \E kind \in {"ethernet", "wifi"} : OpenKind(kind)
        \/ \E names \in Preferences : SetPreferred(names)
        \/ Preferred
  \/ LoopTurn \/ DeadlinePasses
  \/ \E n \in Names : InterfaceChanges(n)

\* The loop goes round and time passes; nothing is said of the network.
AddressingFairness == WF_addressingVars(LoopTurn) /\ WF_addressingVars(DeadlinePasses)

----------------------------------------------------------------------------
\* Every variable has its type; what is waited for to connect is a Wi-Fi interface.
AddressingTypeOK ==
  /\ interfaces \in [Names -> InterfaceStates \cup {Gone}]
  /\ configured \in StaticConfigurations \cup {NoConfiguration}
  /\ preferred \in Seq(Names)
  /\ wait = NoWait \/ wait \in [for : {"connected", "addressed"}, name : Names, expired : BOOLEAN]
  /\ wait.for = "connected" => Kind[wait.name] = "wifi"

\* The adapter is only ever given an address, a gateway and name servers that
\* work together, one protocol version throughout the route.
StaticSound ==
  configured # NoConfiguration =>
    /\ configured.address.class = "global"
    /\ configured.gateway # NoAddress => configured.gateway.version = configured.address.version
    /\ configured.address.version = 4 => configured.prefix <= 32

\* A program is told of a lease only if it renews before it rebinds, and rebinds
\* before it ends.
LeaseSound ==
  told.what = "lease" /\ told.value # Gone =>
    \A j, k \in 1..3 : j < k /\ told.value.times[k] # 0 => told.value.times[j] <= told.value.times[k]

\* A wait is true only of an interface that has arrived, and false only of one
\* that had not when it was last looked at, with the time over or DHCP failed:
\* an address that comes in the last sleep is seen.
WaitHonest ==
  told.what = "waited" /\ told.value \in {"true", "false"} =>
    LET saw == interfaces[told.of.name]
    IN  /\ saw # Gone
        /\ (told.value = "true") = (IF told.of.for = "connected" THEN saw.connected ELSE saw.addressed)
        /\ told.value = "false" => told.of.expired \/ saw.dhcp_status = "failed"

\* The preferred interface is connected, and none before it in the order is,
\* whatever has gone since the order was set.
PreferredFirst ==
  told.what = "preferred" =>
    LET Connected(k) == Exists(Order[k]) /\ interfaces[Order[k]].connected
    IN  \/ told.value = "none" /\ \A k \in DOMAIN Order : ~Connected(k)
        \/ \E k \in DOMAIN Order :
             told.value = Order[k] /\ Connected(k) /\ \A j \in DOMAIN Order : j < k => ~Connected(j)

\* A wait ends, even of an interface that comes and goes and whatever its state.
WaitEnds == Waiting ~> ~Waiting

\* Together: what a program configures works and what it is told is so.
AddressingKept == AddressingTypeOK /\ StaticSound /\ LeaseSound /\ WaitHonest /\ PreferredFirst
=============================================================================
