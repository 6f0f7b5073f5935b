--------------------------- MODULE NetworkResources ---------------------------
(***************************************************************************)
(* What a program holds of the network: the TCP and UDP sockets of         *)
(* reference/separan/network.py and the access points, DHCP and DNS        *)
(* servers of network_services.py, which live in the list                  *)
(* network_resources of an interpreter until it closes them or             *)
(* Interpreter.close_resources does.  An imported module runs on an        *)
(* interpreter of its own, with a list of its own.                         *)
(*                                                                         *)
(* The name server answers anew each time it is asked, peers accept,       *)
(* refuse or let time pass, and the adapter refuses what it likes.         *)
(*                                                                         *)
(* A host is the sequence of its labels.  Of an address the model keeps    *)
(* its family and whether it is global.  The threads are those of a host   *)
(* that shares its interpreter; a program alone has one.                   *)
(***************************************************************************)
EXTENDS Naturals, Sequences, FiniteSets, SequencesExt

CONSTANTS Threads,       \* that run the program
          MaxResources   \* bound: sockets and services opened

ASSUME ResourcesAssumption == MaxResources \in Nat

Interpreters == {"root", "module"}
Hosts == {<<"a">>, <<"x", "a">>, <<"b">>}
Ports == {1, 2}
Address(family, global) == [family |-> family, global |-> global]
Addresses == {Address(4, TRUE), Address(6, TRUE), Address(4, FALSE)}
\* bound: what getaddrinfo answers, without its duplicates; <<>> is its error
Lookups == {lookup \in UNION {[1..n -> Addresses] : n \in 0..2} : IsInjective(lookup)}
SocketTimeouts == {"opened", "given"}
Sockets  == {"tcp", "udp"}
Services == {"access point", "dhcp", "dns"}

VARIABLES
  netCapabilities,  \* of the host: [hosts, ports, private, bind]
  resources,        \* network_resources, of both interpreters, in order
  operation,        \* thread -> the operation it is in
  answer,           \* thread -> how its last operation ended
  leaked,           \* a native socket was dropped while it was open
  contact,          \* the destination the last step contacted
  exited            \* close_resources of the root has run

resourceVars == <<netCapabilities, resources, operation, answer, leaked, contact, exited>>

Allowing(hosts, ports, private, bind) ==
  [hosts |-> hosts, ports |-> ports, private |-> private, bind |-> bind]
\* bound: a host that allows everything, one that restricts everything
NetworkCapabilities == {Allowing(Hosts, Ports, TRUE, TRUE), Allowing({<<"a">>}, {1}, FALSE, FALSE)}
Resource(kind, owner, family) ==
  [kind |-> kind, owner |-> owner, family |-> family, native |-> "open", closed |-> FALSE,
   timeout |-> "opened"]
NoOperation == [name |-> "none"]
NoContact   == [host |-> <<>>, port |-> 0, address |-> Address(4, TRUE)]

Unoccupied(t) == operation[t] = NoOperation
StillOpen(i, kinds) == resources[i].kind \in kinds /\ ~resources[i].closed
Ours(w, i) == resources[i].owner = w

\* An operation ends at once: how, and what the resources are then.
Does(t, how, after) ==
  /\ answer' = [answer EXCEPT ![t] = how]
  /\ resources' = after /\ contact' = NoContact /\ UNCHANGED <<operation, leaked>>
Refuses(t, how) == Does(t, how, resources)
Opens(t, kind, w, family) ==
  Len(resources) < MaxResources
    /\ Does(t, "opened", Append(resources, Resource(kind, w, family)))
Stopped(i) == [resources EXCEPT ![i].native = "closed", ![i].closed = TRUE]
Begins(t, o) == operation' = [operation EXCEPT ![t] = o] /\ contact' = NoContact
                  /\ UNCHANGED <<answer, leaked>>
Finishes(t, how) ==
  answer' = [answer EXCEPT ![t] = how] /\ operation' = [operation EXCEPT ![t] = NoOperation]

----------------------------------------------------------------------------
\* _require_host_allowed: without an allowlist all, or a host of it, or a name
\* below one.
HostAllowed(host) == \E a \in netCapabilities.hosts : IsSuffix(a, host)
PortAllowed(port) == port \in netCapabilities.ports
AddressAllowed(address) == netCapabilities.private \/ address.global

\* _resolve: one private address spoils the whole answer.
Resolved(host, port, lookup) ==
  IF ~HostAllowed(host) \/ ~PortAllowed(port) THEN "E979"
  ELSE IF lookup = <<>> THEN "E971"
  ELSE IF \E k \in DOMAIN lookup : ~AddressAllowed(lookup[k]) THEN "E979" ELSE "ok"

\* _tcp_connect up to its loop; the timeout, which may be wrong, is looked at after
\* the resolution.
BeginConnect(t, w, host, port, lookup) ==
  LET resolved == Resolved(host, port, lookup)
  IN  \/ resolved # "ok" /\ Refuses(t, resolved)
      \/ resolved = "ok" /\ Refuses(t, "E974")
      \/ /\ resolved = "ok" /\ Len(resources) < MaxResources
         /\ Begins(t, [name |-> "connect", owner |-> w, host |-> host, port |-> port,
                       left |-> lookup, last |-> "E973"])
         /\ UNCHANGED resources

\* One record of its loop: the socket is kept, or closed and the next record is
\* next.  The address is the one that was checked, not one looked up again.
Attempted_Again(o) == Addresses
Attempted(o) == {Head(o.left)}
AttemptLeaks_Always(o) == TRUE
AttemptLeaks(o) == leaked
ConnectOne(t) ==
  /\ operation[t].name = "connect" /\ operation[t].left # <<>>
  /\ \E address \in Attempted(operation[t]) :
       contact' = [host |-> operation[t].host, port |-> operation[t].port, address |-> address]
  /\ \/ /\ resources' = Append(resources,
             Resource("tcp", operation[t].owner, contact'.address.family))
        /\ Finishes(t, "connected") /\ UNCHANGED leaked
     \/ /\ \E last \in {"E974", "E973"} : operation' =
             [operation EXCEPT ![t].left = Tail(operation[t].left), ![t].last = last]
        /\ leaked' = AttemptLeaks(operation[t]) /\ UNCHANGED <<resources, answer>>

\* No record is left: what became of the last one names the error.
ConnectFails(t) ==
  /\ operation[t].name = "connect" /\ operation[t].left = <<>>
  /\ Finishes(t, operation[t].last) /\ contact' = NoContact /\ UNCHANGED <<resources, leaked>>

\* udp_open: with local_address and local_port it binds; whatever fails then
\* closes the socket, and the error of bind itself passes as it is.
UdpOpen(t, w, hasHost, hasPort, validTimeout) ==
  LET refused == IF ~validTimeout THEN "E974" ELSE IF hasHost # hasPort THEN "E977"
                 ELSE IF hasHost /\ ~netCapabilities.bind THEN "E979" ELSE "ok"
  IN  \/ refused # "ok" /\ Refuses(t, refused)
      \/ refused = "ok" /\ hasHost /\ \E how \in {"E979", "OSError"} : Refuses(t, how)
      \/ refused = "ok" /\ Opens(t, "udp", w, 4)
      \/ refused = "ok" /\ hasHost /\ Opens(t, "udp", w, 6)

\* tcp_send, and udp_send, which resolves again for each datagram and takes the
\* first record of the socket's family.
Sent == {"sent", "E974", "E973"}
TcpSend(t, i) ==
  /\ resources[i].kind = "tcp"
  /\ \E how \in Sent : Refuses(t, IF StillOpen(i, Sockets) THEN how ELSE "E976")

FirstOfFamily(lookup, family) ==
  LET fitting == {k \in DOMAIN lookup : lookup[k].family = family}
  IN  IF fitting = {} THEN lookup[1]
      ELSE lookup[CHOOSE k \in fitting : \A j \in fitting : k <= j]
UdpSend(t, i, host, port, lookup) ==
  LET resolved == IF resources[i].closed THEN "E976" ELSE Resolved(host, port, lookup)
      address  == FirstOfFamily(lookup, resources[i].family)
      fits     == resolved = "ok" /\ address.family = resources[i].family
  IN  /\ resources[i].kind = "udp"
      /\ \/ resolved # "ok" /\ Refuses(t, resolved)
         \/ resolved = "ok" /\ ~fits /\ Refuses(t, "E977")
         \/ /\ fits /\ contact' = [host |-> host, port |-> port, address |-> address]
            /\ \E how \in Sent : answer' = [answer EXCEPT ![t] = how]
            /\ UNCHANGED <<resources, operation, leaked>>

\* tcp_receive and udp_receive: a timeout of their own replaces the socket's for
\* the time of the call, and finally puts back the one they found.
SetTimeout_Lost(i, timeout) == resources' = [resources EXCEPT ![i].timeout = "none"]
SetTimeout(i, timeout) == resources' = [resources EXCEPT ![i].timeout = timeout]
BeginReceive(t, i, given, valid) ==
  /\ resources[i].kind \in Sockets
  /\ \/ resources[i].closed /\ Refuses(t, "E976")
     \/ ~resources[i].closed /\ ~valid /\ Refuses(t, IF given THEN "E974" ELSE "E975")
     \/ /\ ~resources[i].closed /\ valid
        /\ Begins(t, [name |-> "receive", socket |-> i, given |-> given,
                      previous |-> resources[i].timeout])
        /\ IF given THEN SetTimeout(i, "given") ELSE UNCHANGED resources

PutBack_IfReceived(o, how) == o.given /\ ~resources[o.socket].closed /\ how = "received"
PutBack(o, how) == o.given /\ ~resources[o.socket].closed
EndReceive(t) ==
  /\ operation[t].name = "receive"
  /\ \E how \in {"received", "E974", "E973"} :
       /\ Finishes(t, how)
       /\ IF PutBack(operation[t], how) THEN SetTimeout(operation[t].socket, operation[t].previous)
          ELSE UNCHANGED resources
  /\ contact' = NoContact /\ UNCHANGED leaked

\* tcp_close and udp_close, which do nothing the second time.
Close(t, i) == resources[i].kind \in Sockets /\ Does(t, "closed", Stopped(i))

----------------------------------------------------------------------------
(* Services, all on one interface, each called through the adapter.        *)

\* wifi_start_access_point looks for its own interpreter's access points only.
MayStart_Always(w, kind) == TRUE
MayStart(w, kind) ==
  kind = "access point" =>
    ~\E i \in DOMAIN resources : Ours(w, i) /\ StillOpen(i, {"access point"})
AdapterErrors == {"E978", "E974", "service error"}

StartService(t, w, kind) ==
  \/ ~MayStart(w, kind) /\ Refuses(t, "E984")
  \/ MayStart(w, kind) /\ \E how \in AdapterErrors : Refuses(t, how)
  \/ MayStart(w, kind) /\ Opens(t, kind, w, 4)

\* dhcp_server_stop and dns_server_stop: the handle is closed after the adapter
\* has stopped the server; a refusal leaves it open, to be stopped again.
AfterRefusal_Closed(i) == [resources EXCEPT ![i].closed = TRUE]
AfterRefusal(i) == resources
StopServer(t, i) ==
  /\ resources[i].kind \in {"dhcp", "dns"}
  /\ \/ resources[i].closed /\ Refuses(t, "stopped")
     \/ ~resources[i].closed /\ Does(t, "stopped", Stopped(i))
     \/ ~resources[i].closed /\ \E how \in AdapterErrors : Does(t, how, AfterRefusal(i))

\* wifi_stop_access_point stops whatever access point the interface has, and
\* closes those of its own interpreter.
StopAccessPoint(t, w) ==
  \/ \E how \in AdapterErrors : Refuses(t, how)
  \/ Does(t, "stopped", [i \in DOMAIN resources |->
       IF resources[i].kind # "access point" THEN resources[i]
       ELSE [resources[i] EXCEPT !.native = "closed", !.closed = @ \/ Ours(w, i)]])

\* dhcp_server_status and dns_server_status: a closed handle is not asked about.
Status(t, i) ==
  /\ resources[i].kind \in {"dhcp", "dns"}
  /\ \E how \in {"running", "failed", "service error"} :
       Refuses(t, IF resources[i].closed THEN "stopped" ELSE how)

\* close_resources of the root at the end of the run: its own, whatever fails.
Reached_UpToFailure(i, refused) == \A j \in refused : j <= i
Reached(i, refused) == TRUE
CloseResources ==
  /\ \A t \in Threads : Unoccupied(t)
  /\ exited' = TRUE
  /\ \E refused \in SUBSET {i \in DOMAIN resources : StillOpen(i, Services)} :
       resources' = [i \in DOMAIN resources |->
         IF Ours("root", i) /\ ~resources[i].closed /\ Reached(i, refused)
         THEN [resources[i] EXCEPT !.closed = TRUE,
                                   !.native = IF i \in refused THEN @ ELSE "closed"]
         ELSE resources[i]]
  /\ UNCHANGED <<operation, answer, leaked, contact>>

----------------------------------------------------------------------------
ResourcesInit ==
  /\ netCapabilities \in NetworkCapabilities
  /\ resources = <<>> /\ operation = [t \in Threads |-> NoOperation]
  /\ answer = [t \in Threads |-> "none"] /\ leaked = FALSE /\ contact = NoContact
  /\ exited = FALSE

Starts(t) ==
  \/ \E w \in Interpreters, host \in Hosts, port \in Ports, lookup \in Lookups :
       BeginConnect(t, w, host, port, lookup)
  \/ \E w \in Interpreters, hasHost, hasPort, valid \in BOOLEAN :
       UdpOpen(t, w, hasHost, hasPort, valid)
  \/ \E w \in Interpreters : StopAccessPoint(t, w)
  \/ \E w \in Interpreters, kind \in Services : StartService(t, w, kind)
  \/ \E i \in DOMAIN resources : TcpSend(t, i) \/ Close(t, i) \/ StopServer(t, i) \/ Status(t, i)
  \/ \E i \in DOMAIN resources, host \in Hosts, port \in Ports, lookup \in Lookups :
       UdpSend(t, i, host, port, lookup)
  \/ \E i \in DOMAIN resources, given, valid \in BOOLEAN : BeginReceive(t, i, given, valid)

ResourcesNext ==
  /\ ~exited /\ UNCHANGED netCapabilities
  /\ \/ CloseResources
     \/ \E t \in Threads : /\ \/ Unoccupied(t) /\ Starts(t)
                              \/ ConnectOne(t) \/ ConnectFails(t) \/ EndReceive(t)
                           /\ UNCHANGED exited

ResourcesSpec == ResourcesInit /\ [][ResourcesNext]_resourceVars

----------------------------------------------------------------------------
\* Every variable has its type; nothing is bound to the second interpreter alone.
ResourcesTypeOK ==
  /\ netCapabilities \in NetworkCapabilities
  /\ resources \in Seq([kind : Sockets \cup Services, owner : Interpreters, family : {4, 6},
                        native : {"open", "closed"}, closed : BOOLEAN, timeout : SocketTimeouts])
  /\ Len(resources) <= MaxResources
  /\ \A t \in Threads : operation[t].name \in {"none", "connect", "receive"}
  /\ leaked \in BOOLEAN /\ exited \in BOOLEAN

\* Whatever connect or bind does to an attempt, no open socket is dropped: each
\* is in network_resources, where the program or the end of the run closes it.
NoSocketLeaks == ~leaked

\* What is contacted is what was checked: host, port and address are within the
\* capabilities of the host, whatever the name server answers the next time.
ContactsAllowed ==
  contact # NoContact =>
    HostAllowed(contact.host) /\ PortAllowed(contact.port) /\ AddressAllowed(contact.address)

InReceive(i) == \E t \in Threads : operation[t].name = "receive" /\ operation[t].socket = i
\* The timeout of one receive is gone when it ends, however it ends: every other
\* operation waits as long as the socket was opened to wait.
TimeoutsRestored ==
  \A i \in DOMAIN resources : ~resources[i].closed /\ ~InReceive(i) => resources[i].timeout = "opened"

\* While the program runs, a closed handle means the socket or the server is
\* gone: a server that refused to stop can be stopped again.
ClosedIsStopped ==
  ~exited => \A i \in DOMAIN resources : resources[i].closed => resources[i].native = "closed"

\* No interpreter believes it has two access points on one interface.
OneAccessPoint ==
  \A w \in Interpreters :
    Cardinality({i \in DOMAIN resources : Ours(w, i) /\ StillOpen(i, {"access point"})}) <= 1

\* After the run every socket of the root is closed, one refusal or many among
\* the services notwithstanding.
RootCleansUp ==
  exited => \A i \in DOMAIN resources :
    Ours("root", i) /\ resources[i].kind \in Sockets => resources[i].native = "closed"

\* The same for the sockets an imported module opened.
ModulesCleanedUp ==
  exited => \A i \in DOMAIN resources : resources[i].kind \in Sockets => resources[i].native = "closed"

\* An access point is said to be running already only if one is.
AccessPointsAgree ==
  \A i \in DOMAIN resources : StillOpen(i, {"access point"}) => resources[i].native = "open"

\* All of these together: what a program holds of the network is known, allowed, and
\* released.
ResourcesKept ==
  /\ ResourcesTypeOK /\ NoSocketLeaks /\ ContactsAllowed /\ TimeoutsRestored
  /\ ClosedIsStopped /\ OneAccessPoint /\ RootCleansUp
=============================================================================
