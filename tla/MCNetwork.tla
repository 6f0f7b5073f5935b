------------------------------ MODULE MCNetwork ------------------------------
(***************************************************************************)
(* NetworkAddressing, NetworkServiceRules and Processes for TLC.  They     *)
(* share no state, so one check looks at the behaviours of each, with the  *)
(* others at a start of theirs.                                            *)
(***************************************************************************)
EXTENDS NetworkAddressing, NetworkServiceRules, Processes

MCKind == [eth |-> "ethernet", wlan |-> "wifi", lo |-> "loopback"]
MCByName == <<"eth", "lo", "wlan">>
MCPreferences == {"eth"} \X {"eth", "wlan"}
MCAddresses == {IP(4, "global"), IP(6, "global"), IP(4, "link_local"), IP(4, "loopback"), IP(4, "multicast")}
MCDnsLists  == {<<>>, <<IP(4, "global"), IP(4, "global")>>, <<IP(4, "loopback")>>}
MCGateways  == {NoAddress, IP(4, "global"), IP(6, "global"), IP(4, "multicast")}
MCStaticConfigurations == [address : MCAddresses, prefix : {24, 33}, gateway : MCGateways, dns : MCDnsLists]
LeaseOf(address, server, times) == [address |-> address, server |-> server, times |-> times]
MCLeases == {LeaseOf(IP(4, "global"), NoAddress, times) : times \in {<<1, 2, 2>>, <<2, 0, 1>>, <<0, 2, 1>>}}
            \cup {LeaseOf(IP(4, class), IP(6, "global"), <<0, 0, 0>>) : class \in {"global", "multicast"}}
MCReports == {r \in [connected : BOOLEAN, addressed : BOOLEAN, address_mode : {"dhcp", "mesh"},
                     dhcp_status : {"discovering", "failed"}] :
                (r.addressed => r.connected) /\ (r.address_mode = "mesh" => r.dhcp_status = "failed")}

\* Two spellings of one MAC and another; names as they are, in capitals, with a dot at the end.
Macs == {"a", "A", "b"}
Entries(addresses) == UNION {[1..n -> Macs \X addresses] : n \in 0..2}
MCDhcpConfigurations ==
  [server : {0, 1, 3}, start : {0, 1, 2, 3}, end : {2, 3, 7, 8}, gateway : {1, 3, 4, 7},
   reservations : Entries({1, 2, 4, 5, 7})]
MCRawLeases == Entries({1, 2, 4, 8})
MCDnsRecords == UNION {[1..n -> {"x", "y"} \X {"plain", "capital", "dotted"}] : n \in 0..3}

VARIABLE part  \* the module whose steps the behaviour takes
Parts == {"addressing", "services", "processes"}

\* One start of the module that has several, for when another one moves.
NothingChecked == ~checked

Init ==
  /\ part \in Parts
  /\ AddressingInit /\ ServiceInit
  /\ ProcessesInit /\ (part # "processes" => NothingChecked)
Next ==
  /\ UNCHANGED part
  /\ \/ part = "addressing" /\ AddressingNext /\ UNCHANGED <<serviceVars, processVars>>
     \/ part = "services" /\ ServiceNext /\ UNCHANGED <<addressingVars, processVars>>
     \/ part = "processes" /\ ProcessesNext /\ UNCHANGED <<addressingVars, serviceVars>>
Spec ==
  /\ Init /\ [][Next]_<<part, addressingVars, serviceVars, processVars>>
  /\ AddressingFairness /\ ProcessesFairness

\* A call ends: a wait, even of an interface that comes and goes, and a command; and
\* what is said of a command is so.
CallsKept == WaitEnds /\ ExecKept
=============================================================================
