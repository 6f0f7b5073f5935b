------------------------ MODULE NetworkResourcesProofs ------------------------
(***************************************************************************)
(* Proofs about NetworkResources, for any threads, any number of sockets   *)
(* and services and whatever the name server, the peers and the adapter    *)
(* answer: nothing is contacted that was not checked, no socket is lost,   *)
(* a closed handle is stopped, an interpreter has one access point, and    *)
(* the end of the run closes the root's sockets (Safe).  With one thread,  *)
(* a timeout given to a receive is gone when it ends (ResourcesKept).      *)
(* Then about NetworkServiceRules, for any subnet and configurations,      *)
(* about Processes, for any timeout and limit, and about                   *)
(* NetworkAddressing, for any interfaces.                                  *)
(***************************************************************************)
EXTENDS NetworkResources, NetworkServiceRules, NetworkAddressing, Processes, FiniteSetTheorems,
        SequenceTheorems, WellFoundedInduction, NaturalsInduction, TLAPS

----------------------------------------------------------------------------
(* Types.                                                                  *)

Handles == [kind : Sockets \cup Services, owner : Interpreters, family : {4, 6},
            native : {"open", "closed"}, closed : BOOLEAN, timeout : SocketTimeouts]
Connects == [name : {"connect"}, owner : Interpreters, host : Hosts, port : Ports,
             left : Seq(Addresses), last : {"E973", "E974"}]
Receives == [name : {"receive"}, socket : Nat, given : BOOLEAN, previous : SocketTimeouts]
Operations == {NoOperation} \cup Connects \cup Receives

Typed == /\ netCapabilities \in NetworkCapabilities /\ resources \in Seq(Handles)
         /\ operation \in [Threads -> Operations] /\ leaked \in BOOLEAN /\ exited \in BOOLEAN

Connecting(t) == operation[t].name = "connect"
Receiving(t)  == operation[t].name = "receive"

\* What is left to try of a connect was all checked when it began.
ConnectsAllowed ==
  \A t \in Threads : Connecting(t) =>
    /\ HostAllowed(operation[t].host) /\ PortAllowed(operation[t].port)
    /\ \A k \in 1..Len(operation[t].left) : AddressAllowed(operation[t].left[k])
ReceivesKnown == \A t \in Threads : Receiving(t) => operation[t].socket \in 1..Len(resources)

\* Two open access points of one interpreter are one.
AccessPoint(i) == StillOpen(i, {"access point"})
OneEach == \A i, j \in 1..Len(resources) :
             AccessPoint(i) /\ AccessPoint(j) /\ resources[i].owner = resources[j].owner => i = j

Safe == NoSocketLeaks /\ ContactsAllowed /\ ClosedIsStopped /\ OneAccessPoint /\ RootCleansUp
Inv == /\ Typed /\ NoSocketLeaks /\ ConnectsAllowed /\ ReceivesKnown /\ OneEach
       /\ ContactsAllowed /\ ClosedIsStopped /\ RootCleansUp

LEMMA Operation ==
  ASSUME Typed, NEW t \in Threads
  PROVE  /\ operation[t] \in Operations
         /\ Connecting(t) => operation[t] \in Connects
         /\ Receiving(t) => operation[t] \in Receives
         /\ Unoccupied(t) => ~Connecting(t) /\ ~Receiving(t)
<1>1. operation[t] \in Operations
  BY DEF Typed
<1>2. /\ NoOperation.name = "none" /\ \A o \in Connects : o.name = "connect"
      /\ \A o \in Receives : o.name = "receive"
  BY DEF NoOperation, Connects, Receives
<1>. QED
  BY <1>1, <1>2 DEF Operations, Connecting, Receiving, Unoccupied

LEMMA Handle ==
  ASSUME Typed
  PROVE  /\ Len(resources) \in Nat /\ DOMAIN resources = 1..Len(resources)
         /\ \A i \in 1..Len(resources) : resources[i] \in Handles
  BY LenProperties, ElementOfSeq DEF Typed

\* An allowed answer of the name server, whole.
LEMMA ResolvedAllowed ==
  ASSUME NEW host, NEW port, NEW lookup \in Lookups, Resolved(host, port, lookup) = "ok"
  PROVE  /\ HostAllowed(host) /\ PortAllowed(port) /\ lookup # <<>>
         /\ \A k \in DOMAIN lookup : AddressAllowed(lookup[k])
  BY DEF Resolved

LEMMA LookupType ==
  ASSUME NEW lookup \in Lookups
  PROVE  lookup \in Seq(Addresses)
<1>1. PICK n \in 0..2 : lookup \in [1..n -> Addresses]
  BY DEF Lookups
<1>. QED
  BY <1>1, SeqDef

\* A set of numbers has a least one.
LEMMA LeastNatural ==
  ASSUME NEW S \in SUBSET Nat, S # {}
  PROVE  \E m \in S : \A n \in S : m <= n
<1>. DEFINE Less == {ss \in Nat \X Nat : ss[1] < ss[2]}
<1>1. IsWellFoundedOn(Less, Nat)
  BY NatLessThanWellFounded, Zenon DEF OpToRel
<1>2. \E m \in S : \A n \in S : <<n, m>> \notin Less
  <2>. HIDE DEF Less
  <2>. QED
    BY <1>1, WFMin, Zenon
<1>3. \A m, n \in Nat : <<n, m>> \in Less <=> n < m
  OBVIOUS
<1>4. PICK m \in S : \A n \in S : ~(n < m)
  BY <1>2, <1>3
<1>5. \A n \in S : m <= n
  BY <1>4
<1>. QED
  BY <1>5

\* udp_send picks one of the addresses that were checked.
LEMMA FirstOfFamilyAllowed ==
  ASSUME NEW lookup \in Lookups, lookup # <<>>, NEW family
  PROVE  \E k \in DOMAIN lookup : FirstOfFamily(lookup, family) = lookup[k]
<1>1. lookup \in Seq(Addresses) /\ Len(lookup) \in Nat \ {0} /\ DOMAIN lookup = 1..Len(lookup)
  BY LookupType, EmptySeq, LenProperties
<1>. DEFINE fitting == {k \in DOMAIN lookup : lookup[k].family = family}
<1>2. CASE fitting = {}
  <2>1. FirstOfFamily(lookup, family) = lookup[1]
    BY <1>2 DEF FirstOfFamily
  <2>. QED
    BY <1>1, <2>1
<1>3. CASE fitting # {}
  <2>1. \E k \in fitting : \A j \in fitting : k <= j
    <3>1. fitting \in SUBSET Nat
      BY <1>1
    <3>. QED
      BY <1>3, <3>1, LeastNatural
  <2>2. FirstOfFamily(lookup, family) = lookup[CHOOSE k \in fitting : \A j \in fitting : k <= j]
    BY <1>3 DEF FirstOfFamily
  <2>. HIDE DEF fitting
  <2>3. (CHOOSE k \in fitting : \A j \in fitting : k <= j) \in fitting
    BY <2>1
  <2>. QED
    BY <2>2, <2>3 DEF fitting
<1>. QED
  BY <1>2, <1>3

----------------------------------------------------------------------------
(* What a step does to the handles.                                        *)

\* Handles are changed in place, and closed but not opened again.
Altered ==
  /\ DOMAIN resources' = 1..Len(resources) /\ resources' = [i \in DOMAIN resources' |-> resources'[i]]
  /\ \A i \in 1..Len(resources) :
       /\ resources'[i] \in Handles
       /\ resources'[i].kind = resources[i].kind /\ resources'[i].owner = resources[i].owner
       /\ resources[i].closed => resources'[i].closed

LEMMA AlteredType ==
  ASSUME Typed, Altered
  PROVE  resources' \in Seq(Handles) /\ Len(resources') = Len(resources)
<1>1. resources' \in [1..Len(resources) -> Handles] /\ Len(resources) \in Nat
  BY Handle DEF Altered
<1>2. resources' \in Seq(Handles)
  BY <1>1, SeqDef
<1>3. Len(resources') \in Nat /\ 1..Len(resources') = 1..Len(resources)
  BY <1>1, <1>2, LenProperties
<1>. QED
  BY <1>1, <1>2, <1>3

\* One handle is one more at the end, open.
LEMMA AppendedHandle ==
  ASSUME Typed, NEW h \in Handles, resources' = Append(resources, h)
  PROVE  /\ resources' \in Seq(Handles) /\ Len(resources') = Len(resources) + 1
         /\ resources'[Len(resources) + 1] = h
         /\ \A i \in 1..Len(resources) : resources'[i] = resources[i]
         /\ 1..Len(resources') = (1..Len(resources)) \cup {Len(resources) + 1}
<1>1. resources \in Seq(Handles) /\ Len(resources) \in Nat
  BY Handle DEF Typed
<1>2. /\ resources' \in Seq(Handles) /\ Len(resources') = Len(resources) + 1
      /\ resources'[Len(resources) + 1] = h
      /\ \A i \in 1..Len(resources) : resources'[i] = resources[i]
  BY <1>1, AppendProperties
<1>. QED
  BY <1>1, <1>2

LEMMA NewHandle ==
  ASSUME NEW kind \in Sockets \cup Services, NEW w \in Interpreters, NEW family \in {4, 6}
  PROVE  /\ Resource(kind, w, family) \in Handles
         /\ Resource(kind, w, family).kind = kind /\ Resource(kind, w, family).owner = w
         /\ Resource(kind, w, family).closed = FALSE
         /\ Resource(kind, w, family).timeout = "opened"
  BY DEF Resource, Handles, SocketTimeouts

\* The handles are as they were, altered, or one more, which is no second
\* access point.
Grown(w) ==
  \E h \in Handles : /\ resources' = Append(resources, h) /\ h.owner = w /\ ~h.closed
                     /\ h.timeout = "opened" /\ MayStart(w, h.kind)

LEMMA HandlesStep ==
  ASSUME Typed, OneEach, ReceivesKnown,
         UNCHANGED resources \/ Altered \/ \E w \in Interpreters : Grown(w)
  PROVE  /\ resources' \in Seq(Handles) /\ OneEach' /\ Len(resources) <= Len(resources')
<1>1. Len(resources) \in Nat /\ DOMAIN resources = 1..Len(resources)
  BY Handle
<1>2. CASE UNCHANGED resources
  <2>1. OneEach'
    BY <1>2 DEF OneEach, AccessPoint, StillOpen
  <2>. QED
    BY <1>1, <1>2, <2>1 DEF Typed
<1>3. CASE Altered
  <2>1. \A i \in 1..Len(resources) : AccessPoint(i)' => AccessPoint(i)
    BY <1>3 DEF Altered, AccessPoint, StillOpen
  <2>. QED
    BY <1>1, <1>3, <2>1, AlteredType DEF Altered, OneEach
<1>4. ASSUME NEW w \in Interpreters, Grown(w)
      PROVE  /\ resources' \in Seq(Handles) /\ OneEach' /\ Len(resources) <= Len(resources')
  <2>1. PICK h \in Handles : /\ resources' = Append(resources, h) /\ h.owner = w /\ ~h.closed
                             /\ MayStart(w, h.kind)
    BY <1>4 DEF Grown
  <2>2. /\ resources' \in Seq(Handles) /\ Len(resources') = Len(resources) + 1
        /\ resources'[Len(resources) + 1] = h
        /\ \A i \in 1..Len(resources) : resources'[i] = resources[i]
        /\ 1..Len(resources') = (1..Len(resources)) \cup {Len(resources) + 1}
    BY <2>1, AppendedHandle
  <2>3. \A i \in 1..Len(resources) : AccessPoint(i)' => AccessPoint(i)
    BY <2>2 DEF AccessPoint, StillOpen
  <2>4. h.kind = "access point" =>
          \A i \in 1..Len(resources) : AccessPoint(i) => resources[i].owner # w
    BY <1>1, <2>1 DEF AccessPoint, MayStart, Ours
  <2>5. OneEach'
    <3>. SUFFICES ASSUME NEW i \in 1..Len(resources'), NEW j \in 1..Len(resources'),
                         AccessPoint(i)', AccessPoint(j)', resources'[i].owner = resources'[j].owner
                  PROVE  i = j
      BY DEF OneEach
    <3>1. \A k \in 1..Len(resources') : k \in 1..Len(resources) \/ k = Len(resources) + 1
      BY <2>2
    <3>2. resources'[i].kind = "access point" /\ resources'[j].kind = "access point"
      BY DEF AccessPoint, StillOpen
    <3>3. CASE i \in 1..Len(resources) /\ j \in 1..Len(resources)
      BY <2>2, <2>3, <3>3 DEF OneEach
    <3>. QED
      BY <2>1, <2>2, <2>3, <2>4, <3>1, <3>2, <3>3
  <2>. QED
    BY <1>1, <2>2, <2>5
<1>. QED
  BY <1>2, <1>3, <1>4

----------------------------------------------------------------------------
(* Every action keeps the invariant.                                       *)

HandlesMove == \/ UNCHANGED resources
               \/ Altered /\ ClosedIsStopped'
               \/ \E w \in Interpreters : Grown(w)

\* What a step that is not the end of the run has to show.
LEMMA Kept ==
  ASSUME Inv, ~exited, UNCHANGED <<netCapabilities, exited, leaked>>, HandlesMove,
         operation' \in [Threads -> Operations], ConnectsAllowed', ContactsAllowed',
         \A t \in Threads : Receiving(t)' => operation'[t].socket \in 1..Len(resources)
  PROVE  Inv'
<1>1. Typed /\ OneEach /\ ReceivesKnown /\ ClosedIsStopped
  BY DEF Inv
<1>2. /\ resources' \in Seq(Handles) /\ OneEach' /\ Len(resources) <= Len(resources')
      /\ Len(resources) \in Nat /\ Len(resources') \in Nat
  BY <1>1, HandlesStep, Handle, LenProperties DEF HandlesMove
<1>3. ClosedIsStopped'
  <2>1. ASSUME NEW w \in Interpreters, Grown(w) PROVE ClosedIsStopped'
    <3>1. PICK h \in Handles : resources' = Append(resources, h) /\ ~h.closed
      BY <2>1 DEF Grown
    <3>2. /\ DOMAIN resources' = (1..Len(resources)) \cup {Len(resources) + 1}
          /\ resources'[Len(resources) + 1] = h
          /\ \A i \in 1..Len(resources) : resources'[i] = resources[i]
      BY <1>1, <1>2, <3>1, AppendedHandle, LenProperties
    <3>3. DOMAIN resources = 1..Len(resources)
      BY <1>1, Handle
    <3>. QED
      BY <1>1, <3>1, <3>2, <3>3 DEF ClosedIsStopped
  <2>2. ASSUME UNCHANGED resources PROVE ClosedIsStopped'
    BY <1>1, <2>2 DEF ClosedIsStopped
  <2>. QED
    BY <2>1, <2>2 DEF HandlesMove
<1>4. ReceivesKnown'
  BY <1>2 DEF ReceivesKnown
<1>5. Typed' /\ NoSocketLeaks' /\ RootCleansUp'
  BY <1>1, <1>2 DEF Inv, Typed, NoSocketLeaks, RootCleansUp
<1>. QED
  BY <1>2, <1>3, <1>4, <1>5 DEF Inv

\* An operation that ends at once.
LEMMA KeptAtOnce ==
  ASSUME Inv, ~exited, UNCHANGED <<netCapabilities, exited>>,
         NEW t, NEW how, Does(t, how, resources'), HandlesMove
  PROVE  Inv'
<1>1. UNCHANGED <<operation, leaked>> /\ contact' = NoContact
  BY DEF Does
<1>2. operation' \in [Threads -> Operations]
  BY <1>1 DEF Inv, Typed
<1>3. ConnectsAllowed'
  BY <1>1 DEF Inv, ConnectsAllowed, Connecting, HostAllowed, PortAllowed, AddressAllowed
<1>4. ContactsAllowed'
  BY <1>1 DEF ContactsAllowed, NoContact
<1>5. \A s \in Threads : Receiving(s)' => operation'[s].socket \in 1..Len(resources)
  BY <1>1 DEF Inv, ReceivesKnown, Receiving
<1>. QED
  BY <1>1, <1>2, <1>3, <1>4, <1>5, Kept

LEMMA KeptRefused ==
  ASSUME Inv, ~exited, UNCHANGED <<netCapabilities, exited>>, NEW t, NEW how, Refuses(t, how)
  PROVE  Inv'
<1>1. Does(t, how, resources') /\ UNCHANGED resources
  BY DEF Refuses, Does
<1>. QED
  BY <1>1, KeptAtOnce DEF HandlesMove

LEMMA KeptOpened ==
  ASSUME Inv, ~exited, UNCHANGED <<netCapabilities, exited>>, NEW t, NEW w \in Interpreters,
         NEW kind \in Sockets \cup Services, NEW family \in {4, 6}, MayStart(w, kind),
         Opens(t, kind, w, family)
  PROVE  Inv'
<1>1. resources' = Append(resources, Resource(kind, w, family)) /\ Does(t, "opened", resources')
  BY DEF Opens, Does
<1>2. Grown(w)
  BY <1>1, NewHandle DEF Grown
<1>. QED
  BY <1>1, <1>2, KeptAtOnce DEF HandlesMove

\* One handle is changed in place.
LEMMA OneAltered ==
  ASSUME Typed, NEW i \in DOMAIN resources, NEW h \in Handles,
         resources' = [resources EXCEPT ![i] = h],
         h.kind = resources[i].kind, h.owner = resources[i].owner, resources[i].closed => h.closed
  PROVE  Altered
<1>1. /\ DOMAIN resources = 1..Len(resources)
      /\ \A j \in 1..Len(resources) : resources[j] \in Handles
  BY Handle
<1>2. resources' = [j \in 1..Len(resources) |-> IF j = i THEN h ELSE resources[j]]
  BY <1>1
<1>. QED
  BY <1>1, <1>2 DEF Altered

TimeoutsKept == \A i \in 1..Len(resources) : resources'[i].timeout = resources[i].timeout

LEMMA StoppedAlters ==
  ASSUME Typed, ClosedIsStopped, UNCHANGED exited, NEW i \in DOMAIN resources, resources' = Stopped(i)
  PROVE  Altered /\ ClosedIsStopped' /\ TimeoutsKept
<1>1. PICK h : h = [resources[i] EXCEPT !.native = "closed", !.closed = TRUE]
  OBVIOUS
<1>2. resources' = [resources EXCEPT ![i] = h]
  BY <1>1 DEF Stopped
<1>3. /\ h \in Handles /\ h.kind = resources[i].kind /\ h.owner = resources[i].owner
      /\ h.closed = TRUE /\ h.native = "closed" /\ h.timeout = resources[i].timeout
  <2>1. resources[i] \in Handles
    BY Handle
  <2>. QED
    BY <1>1, <2>1 DEF Handles
<1>4. Altered
  BY <1>2, <1>3, OneAltered
<1>5. ClosedIsStopped'
  BY <1>2, <1>3 DEF ClosedIsStopped
<1>6. TimeoutsKept
  BY <1>2, <1>3, Handle DEF TimeoutsKept
<1>. QED
  BY <1>4, <1>5, <1>6

LEMMA KeptStopped ==
  ASSUME Inv, ~exited, UNCHANGED <<netCapabilities, exited>>,
         NEW t, NEW how, NEW i \in DOMAIN resources, Does(t, how, Stopped(i))
  PROVE  Inv'
<1>1. resources' = Stopped(i) /\ Does(t, how, resources')
  BY DEF Does
<1>. QED
  BY <1>1, StoppedAlters, KeptAtOnce DEF Inv, HandlesMove

\* A thread goes to another operation, or on with its own, that was checked.
LEMMA KeptMoved ==
  ASSUME Inv, ~exited, UNCHANGED <<netCapabilities, exited, leaked>>, NEW t \in Threads,
         NEW o \in Operations, operation' = [operation EXCEPT ![t] = o], HandlesMove, ContactsAllowed',
         o.name = "connect" => /\ HostAllowed(o.host) /\ PortAllowed(o.port)
                               /\ \A k \in 1..Len(o.left) : AddressAllowed(o.left[k]),
         o.name = "receive" => o.socket \in 1..Len(resources)
  PROVE  Inv'
<1>1. operation' \in [Threads -> Operations]
  BY DEF Inv, Typed
<1>2. operation'[t] = o /\ \A s \in Threads : s # t => operation'[s] = operation[s]
  BY DEF Inv, Typed
<1>3. ConnectsAllowed'
  BY <1>2 DEF Inv, ConnectsAllowed, Connecting, HostAllowed, PortAllowed, AddressAllowed
<1>4. \A s \in Threads : Receiving(s)' => operation'[s].socket \in 1..Len(resources)
  BY <1>2 DEF Inv, ReceivesKnown, Receiving
<1>. QED
  BY <1>1, <1>3, <1>4, Kept

LEMMA KeptBeginConnect ==
  ASSUME Inv, ~exited, UNCHANGED <<netCapabilities, exited>>, NEW t \in Threads,
         NEW w \in Interpreters, NEW host \in Hosts, NEW port \in Ports, NEW lookup \in Lookups,
         BeginConnect(t, w, host, port, lookup)
  PROVE  Inv'
<1>. DEFINE o == [name |-> "connect", owner |-> w, host |-> host, port |-> port,
                  left |-> lookup, last |-> "E973"]
<1>1. ASSUME Resolved(host, port, lookup) = "ok", Begins(t, o), UNCHANGED resources
      PROVE  Inv'
  <2>1. /\ HostAllowed(host) /\ PortAllowed(port)
        /\ \A k \in 1..Len(lookup) : AddressAllowed(lookup[k])
    BY <1>1, ResolvedAllowed, LookupType, LenProperties
  <2>2. o \in Operations /\ o.name = "connect"
    BY LookupType DEF Operations, Connects
  <2>3. o.host = host /\ o.port = port /\ o.left = lookup
    OBVIOUS
  <2>4. operation' = [operation EXCEPT ![t] = o] /\ UNCHANGED leaked /\ contact' = NoContact
    BY <1>1 DEF Begins
  <2>5. ContactsAllowed' /\ HandlesMove
    BY <1>1, <2>4 DEF ContactsAllowed, NoContact, HandlesMove
  <2>. HIDE DEF o
  <2>. QED
    BY <2>1, <2>2, <2>3, <2>4, <2>5, KeptMoved
<1>2. ASSUME NEW how, Refuses(t, how) PROVE Inv'
  BY <1>2, KeptRefused
<1>. QED
  BY <1>1, <1>2 DEF BeginConnect

\* The socket of an attempt that succeeds is the newest handle.
LEMMA ConnectedGrows ==
  ASSUME Inv, NEW t \in Threads, ConnectOne(t),
         resources' = Append(resources, Resource("tcp", operation[t].owner, contact'.address.family))
  PROVE  \E w \in Interpreters : Grown(w)
<1>. DEFINE o == operation[t]
<1>1. o \in Connects /\ o.left \in Seq(Addresses) /\ o.left # <<>>
  BY Operation DEF Inv, ConnectOne, Connecting, Connects
<1>2. contact'.address = Head(o.left) /\ Head(o.left) \in Addresses
  <2>1. contact' = [host |-> o.host, port |-> o.port, address |-> Head(o.left)]
    BY DEF ConnectOne, Attempted
  <2>. QED
    BY <1>1, <2>1, HeadTailProperties
<1>3. o.owner \in Interpreters /\ contact'.address.family \in {4, 6}
  <2>1. \A a \in Addresses : a.family \in {4, 6}
    BY DEF Addresses, Address
  <2>. QED
    BY <1>1, <1>2, <2>1 DEF Connects
<1>4. PICK w \in Interpreters, family \in {4, 6} : w = o.owner /\ family = contact'.address.family
  BY <1>3
<1>5. PICK h : h = Resource("tcp", w, family)
  OBVIOUS
<1>6. resources' = Append(resources, h)
  BY <1>4, <1>5
<1>7. h \in Handles /\ h.kind = "tcp" /\ h.owner = w /\ ~h.closed /\ h.timeout = "opened"
  BY <1>5 DEF Resource, Handles, SocketTimeouts, Sockets
<1>. QED
  BY <1>6, <1>7 DEF Grown, MayStart

\* The attempt contacts an address that was checked when the connect began.
LEMMA KeptConnectOne ==
  ASSUME Inv, ~exited, UNCHANGED <<netCapabilities, exited>>, NEW t \in Threads, ConnectOne(t)
  PROVE  Inv'
<1>. DEFINE o == operation[t]
<1>1. /\ o \in Connects /\ o.left \in Seq(Addresses) /\ o.left # <<>>
      /\ HostAllowed(o.host) /\ PortAllowed(o.port)
      /\ \A k \in 1..Len(o.left) : AddressAllowed(o.left[k])
      /\ ~leaked
  <2>1. Connecting(t) /\ o.left # <<>>
    BY DEF ConnectOne, Connecting
  <2>2. o \in Connects
    BY <2>1, Operation DEF Inv
  <2>. QED
    BY <2>1, <2>2 DEF Inv, ConnectsAllowed, Connects, NoSocketLeaks
<1>2. /\ Head(o.left) \in Addresses /\ AddressAllowed(Head(o.left))
      /\ Tail(o.left) \in Seq(Addresses)
      /\ \A k \in 1..Len(Tail(o.left)) : AddressAllowed(Tail(o.left)[k])
  <2>1. /\ Head(o.left) = o.left[1] /\ Len(o.left) \in Nat \ {0}
        /\ Tail(o.left) \in Seq(Addresses) /\ Len(Tail(o.left)) = Len(o.left) - 1
        /\ \A k \in 1..Len(Tail(o.left)) : Tail(o.left)[k] = o.left[k + 1]
    BY <1>1, HeadTailProperties, EmptySeq
  <2>. QED
    BY <1>1, <2>1, ElementOfSeq
<1>3. contact' = [host |-> o.host, port |-> o.port, address |-> Head(o.left)]
  BY DEF ConnectOne, Attempted
<1>4. ContactsAllowed'
  <2>1. /\ contact'.host = o.host /\ contact'.port = o.port /\ contact'.address = Head(o.left)
    BY <1>3
  <2>. QED
    BY <1>1, <1>2, <2>1 DEF ContactsAllowed, HostAllowed, PortAllowed, AddressAllowed
<1>5. ASSUME resources' = Append(resources, Resource("tcp", o.owner, contact'.address.family)),
             Finishes(t, "connected"), UNCHANGED leaked
      PROVE  Inv'
  <2>1. operation' = [operation EXCEPT ![t] = NoOperation]
    BY <1>5 DEF Finishes
  <2>2. NoOperation \in Operations /\ NoOperation.name = "none"
    BY DEF Operations, NoOperation
  <2>3. \E w \in Interpreters : Grown(w)
    BY <1>5, ConnectedGrows
  <2>. QED
    BY <1>4, <2>1, <2>2, <2>3, <1>5, KeptMoved DEF HandlesMove
<1>6. ASSUME NEW last \in {"E974", "E973"},
             operation' = [operation EXCEPT ![t].left = Tail(operation[t].left), ![t].last = last],
             leaked' = AttemptLeaks(o), UNCHANGED resources
      PROVE  Inv'
  <2>1. PICK next : next = [o EXCEPT !.left = Tail(o.left), !.last = last]
    OBVIOUS
  <2>2. /\ next \in Operations /\ next.name = "connect" /\ next.host = o.host
        /\ next.port = o.port /\ next.left = Tail(o.left)
    <3>1. o \in Connects /\ Tail(o.left) \in Seq(Addresses)
      BY <1>1, <1>2
    <3>. HIDE DEF o
    <3>2. next \in Connects /\ next.name = "connect" /\ next.host = o.host /\ next.port = o.port
      BY <2>1, <3>1 DEF Connects
    <3>3. next.left = Tail(o.left)
      BY <2>1, <3>1 DEF Connects
    <3>. QED
      BY <3>2, <3>3 DEF Operations
  <2>3. operation' = [operation EXCEPT ![t] = next]
    <3>1. operation \in [Threads -> Operations]
      BY DEF Inv, Typed
    <3>2. operation'[t] = next
      BY <1>6, <2>1, <3>1
    <3>3. /\ \A s \in Threads : s # t => operation'[s] = operation[s]
          /\ operation' = [s \in Threads |-> operation'[s]]
      BY <1>6, <3>1
    <3>4. [operation EXCEPT ![t] = next] = [s \in Threads |-> IF s = t THEN next ELSE operation[s]]
      BY <3>1
    <3>. QED
      BY <3>2, <3>3, <3>4
  <2>4. UNCHANGED leaked
    BY <1>6 DEF AttemptLeaks
  <2>. QED
    BY <1>1, <1>2, <1>4, <1>6, <2>2, <2>3, <2>4, KeptMoved DEF HandlesMove
<1>. QED
  BY <1>5, <1>6 DEF ConnectOne

LEMMA KeptConnectFails ==
  ASSUME Inv, ~exited, UNCHANGED <<netCapabilities, exited>>, NEW t \in Threads, ConnectFails(t)
  PROVE  Inv'
<1>1. /\ operation' = [operation EXCEPT ![t] = NoOperation] /\ contact' = NoContact
      /\ UNCHANGED <<resources, leaked>>
  BY DEF ConnectFails, Finishes
<1>2. NoOperation \in Operations /\ NoOperation.name = "none"
  BY DEF Operations, NoOperation
<1>3. ContactsAllowed'
  BY <1>1 DEF ContactsAllowed, NoContact
<1>. QED
  BY <1>1, <1>2, <1>3, KeptMoved DEF HandlesMove

LEMMA KeptUdpOpen ==
  ASSUME Inv, ~exited, UNCHANGED <<netCapabilities, exited>>, NEW t \in Threads,
         NEW w \in Interpreters, NEW hasHost, NEW hasPort, NEW valid,
         UdpOpen(t, w, hasHost, hasPort, valid)
  PROVE  Inv'
<1>1. ASSUME NEW how, Refuses(t, how) PROVE Inv'
  BY <1>1, KeptRefused
<1>2. ASSUME NEW family \in {4, 6}, Opens(t, "udp", w, family) PROVE Inv'
  <2>1. MayStart(w, "udp") /\ "udp" \in Sockets \cup Services
    BY DEF MayStart, Sockets
  <2>. QED
    BY <1>2, <2>1, KeptOpened
<1>. QED
  BY <1>1, <1>2 DEF UdpOpen

\* A datagram goes to one of the addresses its resolution allowed.
LEMMA KeptSends ==
  ASSUME Inv, ~exited, UNCHANGED <<netCapabilities, exited>>, NEW t \in Threads,
         NEW i \in DOMAIN resources,
         \/ TcpSend(t, i) \/ Status(t, i)
         \/ \E host \in Hosts, port \in Ports, lookup \in Lookups : UdpSend(t, i, host, port, lookup)
  PROVE  Inv'
<1>1. ASSUME NEW how, Refuses(t, how) PROVE Inv'
  BY <1>1, KeptRefused
<1>2. ASSUME NEW host \in Hosts, NEW port \in Ports, NEW lookup \in Lookups,
             UdpSend(t, i, host, port, lookup)
      PROVE  Inv'
  <2>. DEFINE address == FirstOfFamily(lookup, resources[i].family)
  <2>1. ASSUME Resolved(host, port, lookup) = "ok",
               contact' = [host |-> host, port |-> port, address |-> address],
               UNCHANGED <<resources, operation, leaked>>
        PROVE  Inv'
    <3>1. HostAllowed(host) /\ PortAllowed(port) /\ AddressAllowed(address)
      <4>1. /\ HostAllowed(host) /\ PortAllowed(port) /\ lookup # <<>>
            /\ \A k \in DOMAIN lookup : AddressAllowed(lookup[k])
        BY <2>1, ResolvedAllowed
      <4>2. PICK k \in DOMAIN lookup : address = lookup[k]
        BY <4>1, FirstOfFamilyAllowed
      <4>. QED
        BY <4>1, <4>2
    <3>2. ContactsAllowed'
      <4>. HIDE DEF address
      <4>1. contact'.host = host /\ contact'.port = port /\ contact'.address = address
        BY <2>1
      <4>. QED
        BY <3>1, <4>1 DEF ContactsAllowed, HostAllowed, PortAllowed, AddressAllowed
    <3>3. ConnectsAllowed' /\ operation' \in [Threads -> Operations]
      BY <2>1 DEF Inv, Typed, ConnectsAllowed, Connecting, HostAllowed, PortAllowed, AddressAllowed
    <3>4. \A s \in Threads : Receiving(s)' => operation'[s].socket \in 1..Len(resources)
      BY <2>1 DEF Inv, ReceivesKnown, Receiving
    <3>. QED
      BY <2>1, <3>2, <3>3, <3>4, Kept DEF HandlesMove
  <2>2. ASSUME NEW how, Refuses(t, how) PROVE Inv'
    BY <2>2, KeptRefused
  <2>. QED
    BY <1>2, <2>1, <2>2 DEF UdpSend
<1>. QED
  BY <1>1, <1>2 DEF TcpSend, Status

LEMMA TimeoutSet ==
  ASSUME Typed, ClosedIsStopped, NEW i \in DOMAIN resources, NEW timeout \in SocketTimeouts,
         SetTimeout(i, timeout), UNCHANGED exited
  PROVE  /\ HandlesMove
         /\ resources'[i].timeout = timeout /\ resources'[i].closed = resources[i].closed
         /\ \A j \in DOMAIN resources : j # i => resources'[j] = resources[j]
         /\ DOMAIN resources' = DOMAIN resources
<1>1. PICK h : h = [resources[i] EXCEPT !.timeout = timeout]
  OBVIOUS
<1>2. resources' = [resources EXCEPT ![i] = h]
  BY <1>1 DEF SetTimeout
<1>3. /\ h \in Handles /\ h.kind = resources[i].kind /\ h.owner = resources[i].owner
      /\ h.closed = resources[i].closed /\ h.native = resources[i].native /\ h.timeout = timeout
  <2>1. resources[i] \in Handles
    BY Handle
  <2>. QED
    BY <1>1, <2>1 DEF Handles
<1>4. Altered
  BY <1>2, <1>3, OneAltered
<1>5. ClosedIsStopped'
  BY <1>2, <1>3 DEF ClosedIsStopped
<1>. QED
  BY <1>2, <1>3, <1>4, <1>5 DEF HandlesMove

LEMMA KeptBeginReceive ==
  ASSUME Inv, ~exited, UNCHANGED <<netCapabilities, exited>>, NEW t \in Threads,
         NEW i \in DOMAIN resources, NEW given \in BOOLEAN, NEW valid, BeginReceive(t, i, given, valid)
  PROVE  Inv'
<1>1. ASSUME NEW how, Refuses(t, how) PROVE Inv'
  BY <1>1, KeptRefused
<1>2. PICK o : o = [name |-> "receive", socket |-> i, given |-> given, previous |-> resources[i].timeout]
  OBVIOUS
<1>3. ASSUME Begins(t, o), IF given THEN SetTimeout(i, "given") ELSE UNCHANGED resources
      PROVE  Inv'
  <2>1. i \in 1..Len(resources) /\ i \in Nat /\ resources[i].timeout \in SocketTimeouts
    BY Handle DEF Inv, Handles
  <2>2. o \in Operations /\ o.name = "receive" /\ o.socket = i
    BY <1>2, <2>1 DEF Operations, Receives
  <2>3. operation' = [operation EXCEPT ![t] = o] /\ UNCHANGED leaked /\ contact' = NoContact
    BY <1>3 DEF Begins
  <2>4. ContactsAllowed'
    BY <2>3 DEF ContactsAllowed, NoContact
  <2>5. HandlesMove
    BY <1>3, TimeoutSet DEF Inv, SocketTimeouts, HandlesMove
  <2>. QED
    BY <2>1, <2>2, <2>3, <2>4, <2>5, KeptMoved
<1>. QED
  BY <1>1, <1>2, <1>3 DEF BeginReceive

LEMMA KeptEndReceive ==
  ASSUME Inv, ~exited, UNCHANGED <<netCapabilities, exited>>, NEW t \in Threads, EndReceive(t)
  PROVE  Inv'
<1>. DEFINE o == operation[t]
<1>1. /\ operation' = [operation EXCEPT ![t] = NoOperation] /\ contact' = NoContact /\ UNCHANGED leaked
  BY DEF EndReceive, Finishes
<1>2. NoOperation \in Operations /\ NoOperation.name = "none"
  BY DEF Operations, NoOperation
<1>3. ContactsAllowed'
  BY <1>1 DEF ContactsAllowed, NoContact
<1>4. o.previous \in SocketTimeouts /\ o.socket \in DOMAIN resources
  <2>1. Receiving(t)
    BY DEF EndReceive, Receiving
  <2>2. o \in Receives
    BY <2>1, Operation DEF Inv
  <2>. QED
    BY <2>1, <2>2, Handle DEF Inv, ReceivesKnown, Receives
<1>5. HandlesMove
  BY <1>4, TimeoutSet DEF EndReceive, Inv, HandlesMove
<1>. QED
  BY <1>1, <1>2, <1>3, <1>5, KeptMoved

\* Sockets closed, servers stopped or not.
LEMMA KeptClosing ==
  ASSUME Inv, ~exited, UNCHANGED <<netCapabilities, exited>>, NEW t \in Threads,
         NEW i \in DOMAIN resources, Close(t, i) \/ StopServer(t, i)
  PROVE  Inv'
<1>1. ASSUME NEW how, Does(t, how, resources) PROVE Inv'
  BY <1>1, KeptRefused DEF Refuses
<1>2. ASSUME NEW how, Does(t, how, Stopped(i)) PROVE Inv'
  BY <1>2, KeptStopped
<1>. QED
  BY <1>1, <1>2 DEF Close, StopServer, Refuses, AfterRefusal

LEMMA KeptStartService ==
  ASSUME Inv, ~exited, UNCHANGED <<netCapabilities, exited>>, NEW t \in Threads,
         NEW w \in Interpreters, NEW kind \in Services, StartService(t, w, kind)
  PROVE  Inv'
<1>1. ASSUME NEW how, Refuses(t, how) PROVE Inv'
  BY <1>1, KeptRefused
<1>2. ASSUME MayStart(w, kind), Opens(t, kind, w, 4) PROVE Inv'
  <2>1. PICK family \in {4, 6} : family = 4
    OBVIOUS
  <2>2. kind \in Sockets \cup Services
    OBVIOUS
  <2>. QED
    BY <1>2, <2>1, <2>2, KeptOpened
<1>. QED
  BY <1>1, <1>2 DEF StartService

\* A stop closes the access points of its own interpreter, and stops all of them.
AfterStop(w) ==
  [i \in DOMAIN resources |->
     IF resources[i].kind # "access point" THEN resources[i]
     ELSE [resources[i] EXCEPT !.native = "closed", !.closed = @ \/ Ours(w, i)]]

LEMMA AccessPointsStopped ==
  ASSUME Typed, ClosedIsStopped, ~exited, NEW w \in Interpreters, resources' = AfterStop(w)
  PROVE  Altered /\ ClosedIsStopped' /\ TimeoutsKept
<1>1. DOMAIN resources = 1..Len(resources)
  BY Handle
<1>2. ASSUME NEW i \in DOMAIN resources
      PROVE  /\ resources'[i] \in Handles /\ resources'[i].kind = resources[i].kind
             /\ resources'[i].owner = resources[i].owner
             /\ resources'[i].timeout = resources[i].timeout
             /\ resources[i].closed => resources'[i].closed
             /\ resources'[i].closed => resources'[i].native = "closed"
  <2>1. resources[i] \in Handles
    BY <1>1, Handle
  <2>2. CASE resources[i].kind # "access point"
    BY <2>1, <2>2 DEF ClosedIsStopped, AfterStop
  <2>3. CASE resources[i].kind = "access point"
    <3>1. PICK closed \in BOOLEAN : closed = (resources[i].closed \/ Ours(w, i))
      BY <2>1 DEF Handles, Ours
    <3>2. resources'[i] = [resources[i] EXCEPT !.native = "closed", !.closed = closed]
      BY <2>3, <3>1 DEF AfterStop
    <3>. QED
      BY <2>1, <3>1, <3>2 DEF Handles
  <2>. QED
    BY <2>2, <2>3
<1>3. DOMAIN resources' = DOMAIN resources /\ resources' = [i \in DOMAIN resources' |-> resources'[i]]
  BY DEF AfterStop
<1>4. Altered
  BY <1>1, <1>2, <1>3 DEF Altered
<1>5. ClosedIsStopped' /\ TimeoutsKept
  BY <1>1, <1>2, <1>3 DEF ClosedIsStopped, TimeoutsKept
<1>. QED
  BY <1>4, <1>5

LEMMA KeptStopAccessPoint ==
  ASSUME Inv, ~exited, UNCHANGED <<netCapabilities, exited>>, NEW t \in Threads,
         NEW w \in Interpreters, StopAccessPoint(t, w)
  PROVE  Inv'
<1>1. ASSUME NEW how, Refuses(t, how) PROVE Inv'
  BY <1>1, KeptRefused
<1>2. ASSUME Does(t, "stopped", AfterStop(w)) PROVE Inv'
  <2>1. resources' = AfterStop(w) /\ Does(t, "stopped", resources')
    BY <1>2 DEF Does
  <2>. QED
    BY <2>1, AccessPointsStopped, KeptAtOnce DEF Inv, HandlesMove
<1>. QED
  BY <1>1, <1>2 DEF StopAccessPoint, AfterStop

\* The end of the run closes what the root has, and a socket never refuses.
LEMMA ResourcesClosed ==
  ASSUME Typed, CloseResources
  PROVE  Altered /\ TimeoutsKept
<1>1. DOMAIN resources = 1..Len(resources)
  BY Handle
<1>2. PICK refused \in SUBSET {i \in DOMAIN resources : StillOpen(i, Services)} :
         resources' = [i \in DOMAIN resources |->
           IF Ours("root", i) /\ ~resources[i].closed /\ Reached(i, refused)
           THEN [resources[i] EXCEPT !.closed = TRUE, !.native = IF i \in refused THEN @ ELSE "closed"]
           ELSE resources[i]]
  BY DEF CloseResources
<1>3. ASSUME NEW i \in DOMAIN resources
      PROVE  /\ resources'[i] \in Handles /\ resources'[i].kind = resources[i].kind
             /\ resources'[i].owner = resources[i].owner
             /\ resources'[i].timeout = resources[i].timeout
             /\ resources[i].closed => resources'[i].closed
  <2>1. resources[i] \in Handles
    BY <1>1, Handle
  <2>. DEFINE native == IF i \in refused THEN resources[i].native ELSE "closed"
  <2>2. native \in {"open", "closed"}
    BY <2>1 DEF Handles
  <2>3. \/ resources'[i] = resources[i]
        \/ resources'[i] = [resources[i] EXCEPT !.closed = TRUE, !.native = native]
    BY <1>2
  <2>. HIDE DEF native
  <2>. QED
    BY <2>1, <2>2, <2>3 DEF Handles
<1>4. DOMAIN resources' = DOMAIN resources /\ resources' = [i \in DOMAIN resources' |-> resources'[i]]
  BY <1>2
<1>. QED
  BY <1>1, <1>3, <1>4 DEF Altered, TimeoutsKept

LEMMA KeptCloseResources ==
  ASSUME Inv, ~exited, UNCHANGED netCapabilities, CloseResources
  PROVE  Inv'
<1>1. Typed /\ OneEach /\ ReceivesKnown /\ ClosedIsStopped /\ ContactsAllowed
  BY DEF Inv
<1>2. exited' = TRUE /\ UNCHANGED <<operation, leaked, contact>>
  BY DEF CloseResources
<1>3. /\ resources' \in Seq(Handles) /\ OneEach' /\ Len(resources') = Len(resources)
  BY <1>1, ResourcesClosed, HandlesStep, AlteredType
<1>4. RootCleansUp'
  <2>. SUFFICES ASSUME NEW i \in DOMAIN resources', Ours("root", i)', resources'[i].kind \in Sockets
                PROVE  resources'[i].native = "closed"
    BY DEF RootCleansUp
  <2>1. PICK refused \in SUBSET {j \in DOMAIN resources : StillOpen(j, Services)} :
           resources' = [j \in DOMAIN resources |->
             IF Ours("root", j) /\ ~resources[j].closed /\ Reached(j, refused)
             THEN [resources[j] EXCEPT !.closed = TRUE, !.native = IF j \in refused THEN @ ELSE "closed"]
             ELSE resources[j]]
    BY DEF CloseResources
  <2>2. i \in DOMAIN resources /\ resources[i] \in Handles
    BY <1>1, <2>1, Handle
  <2>3. resources[i].owner = "root" /\ resources[i].kind \in Sockets
    BY <1>1, <2>2, ResourcesClosed, Handle DEF Altered, Ours
  <2>4. i \notin refused
    BY <2>3 DEF StillOpen, Sockets, Services
  <2>5. CASE resources[i].closed
    BY <1>1, <2>1, <2>2, <2>5 DEF ClosedIsStopped
  <2>6. CASE ~resources[i].closed
    <3>1. resources'[i] = [resources[i] EXCEPT !.closed = TRUE, !.native = "closed"]
      BY <2>1, <2>2, <2>3, <2>4, <2>6 DEF Ours, Reached
    <3>. QED
      BY <2>2, <3>1 DEF Handles
  <2>. QED
    BY <2>5, <2>6
<1>5. ConnectsAllowed' /\ ContactsAllowed'
  BY <1>1, <1>2 DEF Inv, ConnectsAllowed, ContactsAllowed, Connecting, HostAllowed, PortAllowed,
                    AddressAllowed
<1>6. ReceivesKnown' /\ ClosedIsStopped' /\ NoSocketLeaks' /\ Typed'
  BY <1>1, <1>2, <1>3 DEF Inv, ReceivesKnown, Receiving, ClosedIsStopped, NoSocketLeaks, Typed
<1>. QED
  BY <1>3, <1>4, <1>5, <1>6 DEF Inv

LEMMA Initially == ResourcesInit => Inv
<1>. SUFFICES ASSUME ResourcesInit PROVE Inv
  OBVIOUS
<1>1. /\ 1..Len(resources) = {} /\ DOMAIN resources = {} /\ resources \in Seq(Handles)
  BY EmptySeq DEF ResourcesInit
<1>2. \A t \in Threads : ~Connecting(t) /\ ~Receiving(t)
  BY DEF ResourcesInit, NoOperation, Connecting, Receiving
<1>3. Typed
  BY <1>1 DEF ResourcesInit, Typed, Operations
<1>. QED
  BY <1>1, <1>2, <1>3 DEF Inv, ResourcesInit, NoSocketLeaks, ConnectsAllowed, ReceivesKnown, OneEach,
                          ContactsAllowed, ClosedIsStopped, RootCleansUp

LEMMA Preserved == Inv /\ [ResourcesNext]_resourceVars => Inv'
<1>. SUFFICES ASSUME Inv, [ResourcesNext]_resourceVars PROVE Inv'
  OBVIOUS
<1>1. ASSUME ~exited, UNCHANGED <<netCapabilities, exited>>, NEW t \in Threads, Starts(t)
      PROVE  Inv'
  BY <1>1, KeptBeginConnect, KeptUdpOpen, KeptStopAccessPoint, KeptStartService, KeptSends,
     KeptClosing, KeptBeginReceive DEF Starts
<1>2. ASSUME ResourcesNext PROVE Inv'
  BY <1>1, <1>2, KeptCloseResources, KeptConnectOne, KeptConnectFails, KeptEndReceive
     DEF ResourcesNext
<1>3. ASSUME UNCHANGED resourceVars PROVE Inv'
  BY <1>3 DEF resourceVars, Inv, Typed, NoSocketLeaks, ConnectsAllowed, ReceivesKnown, OneEach,
              ContactsAllowed, ClosedIsStopped, RootCleansUp, Connecting, Receiving, AccessPoint,
              StillOpen, Ours, HostAllowed, PortAllowed, AddressAllowed
<1>. QED
  BY <1>2, <1>3

\* What holds of two open access points of one interpreter holds of their number.
LEMMA AtMostOne ==
  ASSUME Inv
  PROVE  OneAccessPoint
<1>. SUFFICES ASSUME NEW w \in Interpreters
              PROVE  Cardinality({i \in DOMAIN resources : Ours(w, i) /\ AccessPoint(i)}) <= 1
  BY DEF OneAccessPoint, AccessPoint
<1>. DEFINE points == {i \in DOMAIN resources : Ours(w, i) /\ AccessPoint(i)}
<1>1. \A i, j \in points : i = j
  BY Handle DEF Inv, OneEach, Ours
<1>. HIDE DEF points
<1>2. CASE points = {}
  BY <1>2, FS_EmptySet DEF points
<1>3. CASE points # {}
  <2>1. PICK i : points = {i}
    BY <1>1, <1>3
  <2>2. Cardinality(points) = 1
    BY <2>1, FS_Singleton
  <2>. QED
    BY <2>2 DEF points
<1>. QED
  BY <1>2, <1>3

\* Whatever peers, name servers and adapters answer and however many threads
\* share the interpreter: only what was checked is contacted, no open socket is
\* dropped, a closed handle is stopped while the program runs, an interpreter has
\* one access point at most, and after the run no socket of the root is open.
THEOREM AlwaysSafe == ResourcesSpec => []Safe
<1>1. ResourcesInit => Inv
  BY Initially
<1>2. Inv /\ [ResourcesNext]_resourceVars => Inv'
  BY Preserved
<1>3. Inv => Safe
  BY AtMostOne DEF Inv, Safe
<1>. QED
  BY <1>1, <1>2, <1>3, PTL DEF ResourcesSpec

----------------------------------------------------------------------------
(* A program alone: one thread, whose receives end before it does anything *)
(* else to the socket.                                                     *)

\* The list fits its bound, a connect has room for one handle more, and a receive
\* holds an open socket and the timeout it was opened with.
Alone(t) ==
  /\ Len(resources) <= MaxResources
  /\ Connecting(t) => Len(resources) < MaxResources
  /\ Receiving(t) => /\ operation[t].previous = "opened" /\ ~resources[operation[t].socket].closed
                     /\ ~operation[t].given => resources[operation[t].socket].timeout = "opened"
  /\ TimeoutsRestored

\* Most operations end at once, and leave every timeout as it was opened.
Calm == /\ UNCHANGED operation
        /\ \/ UNCHANGED resources
           \/ Altered /\ TimeoutsKept
           \/ Len(resources) < MaxResources /\ \E w \in Interpreters : Grown(w)

\* When the thread is in no receive, all open sockets have the timeout they were
\* opened with.
LEMMA AllAsOpened ==
  ASSUME NEW t, Threads = {t}, Alone(t), ~Receiving(t)
  PROVE  \A i \in DOMAIN resources : ~resources[i].closed => resources[i].timeout = "opened"
  BY DEF Alone, TimeoutsRestored, InReceive, Receiving

LEMMA GrownAsOpened ==
  ASSUME Inv, NEW w \in Interpreters, Grown(w),
         \A i \in DOMAIN resources : ~resources[i].closed => resources[i].timeout = "opened"
  PROVE  /\ Len(resources') = Len(resources) + 1
         /\ \A i \in DOMAIN resources' : ~resources'[i].closed => resources'[i].timeout = "opened"
<1>1. PICK h \in Handles : resources' = Append(resources, h) /\ h.timeout = "opened"
  BY DEF Grown
<1>2. /\ Len(resources') = Len(resources) + 1
      /\ resources'[Len(resources) + 1] = h
      /\ \A i \in 1..Len(resources) : resources'[i] = resources[i]
      /\ DOMAIN resources' = (1..Len(resources)) \cup {Len(resources) + 1}
  BY <1>1, AppendedHandle, LenProperties DEF Inv
<1>3. DOMAIN resources = 1..Len(resources)
  BY Handle DEF Inv
<1>. QED
  BY <1>1, <1>2, <1>3

LEMMA CalmAlone ==
  ASSUME NEW t, Threads = {t}, Inv, Alone(t), Unoccupied(t), Calm
  PROVE  Alone(t)'
<1>1. /\ ~Connecting(t) /\ ~Receiving(t) /\ Len(resources) \in Nat
      /\ DOMAIN resources = 1..Len(resources) /\ Typed
  BY Operation, Handle DEF Inv
<1>2. Connecting(t)' = Connecting(t) /\ Receiving(t)' = Receiving(t)
  BY DEF Calm, Connecting, Receiving
<1>3. \A i \in DOMAIN resources : ~resources[i].closed => resources[i].timeout = "opened"
  BY <1>1, AllAsOpened
<1>4. /\ Len(resources') <= MaxResources
      /\ \A i \in DOMAIN resources' : ~resources'[i].closed => resources'[i].timeout = "opened"
  <2>1. CASE UNCHANGED resources
    BY <1>3, <2>1 DEF Alone
  <2>2. CASE Altered /\ TimeoutsKept
    <3>1. Len(resources') = Len(resources)
      BY <1>1, <2>2, AlteredType
    <3>. QED
      BY <1>1, <1>3, <2>2, <3>1 DEF Alone, Altered, TimeoutsKept
  <2>3. ASSUME Len(resources) < MaxResources, NEW w \in Interpreters, Grown(w)
        PROVE  /\ Len(resources') <= MaxResources
               /\ \A i \in DOMAIN resources' :
                    ~resources'[i].closed => resources'[i].timeout = "opened"
    BY <1>1, <1>3, <2>3, GrownAsOpened, ResourcesAssumption
  <2>. QED
    BY <2>1, <2>2, <2>3 DEF Calm
<1>. QED
  BY <1>1, <1>2, <1>4 DEF Alone, TimeoutsRestored

LEMMA RefusesCalm ==
  ASSUME NEW t, NEW how, Refuses(t, how)
  PROVE  Calm
  BY DEF Refuses, Does, Calm

LEMMA OpensCalm ==
  ASSUME NEW t, NEW kind \in Sockets \cup Services, NEW w \in Interpreters, NEW family \in {4, 6},
         MayStart(w, kind), Opens(t, kind, w, family)
  PROVE  Calm
<1>1. resources' = Append(resources, Resource(kind, w, family)) /\ Len(resources) < MaxResources
  BY DEF Opens, Does
<1>2. Grown(w)
  BY <1>1, NewHandle DEF Grown
<1>. QED
  BY <1>1, <1>2 DEF Opens, Does, Calm

\* What starts and is over at once is calm; a connect and a receive go on.
LEMMA StartsCalm ==
  ASSUME Inv, ~exited, UNCHANGED exited, NEW t \in Threads, Starts(t),
         ~\E i \in DOMAIN resources, given, valid \in BOOLEAN : BeginReceive(t, i, given, valid),
         ~\E w \in Interpreters, host \in Hosts, port \in Ports, lookup \in Lookups :
            BeginConnect(t, w, host, port, lookup)
  PROVE  Calm
<1>. USE RefusesCalm
<1>1. ASSUME NEW w \in Interpreters, NEW hasHost, NEW hasPort, NEW valid,
             UdpOpen(t, w, hasHost, hasPort, valid)
      PROVE  Calm
  <2>1. ASSUME NEW family \in {4, 6}, Opens(t, "udp", w, family) PROVE Calm
    <3>1. MayStart(w, "udp") /\ "udp" \in Sockets \cup Services
      BY DEF MayStart, Sockets
    <3>. QED
      BY <2>1, <3>1, OpensCalm
  <2>. QED
    BY <1>1, <2>1 DEF UdpOpen
<1>2. ASSUME NEW w \in Interpreters, StopAccessPoint(t, w) PROVE Calm
  <2>1. ASSUME Does(t, "stopped", AfterStop(w)) PROVE Calm
    <3>1. resources' = AfterStop(w) /\ UNCHANGED operation
      BY <2>1 DEF Does
    <3>. QED
      BY <3>1, AccessPointsStopped DEF Inv, Calm
  <2>. QED
    BY <1>2, <2>1 DEF StopAccessPoint, AfterStop
<1>3. ASSUME NEW w \in Interpreters, NEW kind \in Services, StartService(t, w, kind) PROVE Calm
  <2>1. ASSUME MayStart(w, kind), Opens(t, kind, w, 4) PROVE Calm
    <3>1. PICK family \in {4, 6} : family = 4
      OBVIOUS
    <3>2. kind \in Sockets \cup Services
      OBVIOUS
    <3>. QED
      BY <2>1, <3>1, <3>2, OpensCalm
  <2>. QED
    BY <1>3, <2>1 DEF StartService
<1>4. ASSUME NEW i \in DOMAIN resources,
             TcpSend(t, i) \/ Close(t, i) \/ StopServer(t, i) \/ Status(t, i)
      PROVE  Calm
  <2>1. ASSUME NEW how, Does(t, how, Stopped(i)) PROVE Calm
    <3>1. resources' = Stopped(i) /\ UNCHANGED operation
      BY <2>1 DEF Does
    <3>. QED
      BY <3>1, StoppedAlters DEF Inv, Calm
  <2>2. ASSUME NEW how, Does(t, how, resources) PROVE Calm
    BY <2>2 DEF Refuses
  <2>. QED
    BY <1>4, <2>1, <2>2 DEF TcpSend, Close, StopServer, Status, AfterRefusal
<1>5. ASSUME NEW i \in DOMAIN resources, NEW host \in Hosts, NEW port \in Ports,
             NEW lookup \in Lookups, UdpSend(t, i, host, port, lookup)
      PROVE  Calm
  <2>1. ASSUME UNCHANGED <<resources, operation, leaked>> PROVE Calm
    BY <2>1 DEF Calm
  <2>. QED
    BY <1>5, <2>1 DEF UdpSend
<1>. QED
  BY <1>1, <1>2, <1>3, <1>4, <1>5 DEF Starts

\* A connect begins with room for one handle more, and opens at most one.
LEMMA ConnectAlone ==
  ASSUME NEW t, Threads = {t}, Inv, Alone(t),
         \/ /\ Unoccupied(t)
            /\ \E w \in Interpreters, host \in Hosts, port \in Ports, lookup \in Lookups :
                 BeginConnect(t, w, host, port, lookup)
         \/ ConnectOne(t) \/ ConnectFails(t)
  PROVE  Alone(t)'
<1>1. t \in Threads /\ Typed /\ operation \in [Threads -> Operations]
  BY DEF Inv, Typed
<1>2. /\ Unoccupied(t) => ~Connecting(t) /\ ~Receiving(t)
      /\ Connecting(t) => ~Receiving(t)
      /\ Len(resources) \in Nat /\ DOMAIN resources = 1..Len(resources)
  BY <1>1, Operation, Handle DEF Connecting, Receiving
<1>3. NoOperation.name = "none"
  BY DEF NoOperation
<1>4. CASE ~Receiving(t) /\ UNCHANGED resources /\ operation'[t].name \in {"none", "connect"}
           /\ (operation'[t].name = "connect" => Len(resources) < MaxResources)
  <2>1. \A i \in DOMAIN resources : ~resources[i].closed => resources[i].timeout = "opened"
    BY <1>4, AllAsOpened
  <2>. QED
    BY <1>4, <2>1 DEF Alone, Connecting, Receiving, TimeoutsRestored
<1>5. ASSUME Unoccupied(t), NEW w \in Interpreters, NEW host \in Hosts, NEW port \in Ports,
             NEW lookup \in Lookups, BeginConnect(t, w, host, port, lookup)
      PROVE  Alone(t)'
  <2>1. ASSUME NEW how, Refuses(t, how) PROVE Alone(t)'
    BY <1>5, <2>1, RefusesCalm, CalmAlone
  <2>2. PICK o : o = [name |-> "connect", owner |-> w, host |-> host, port |-> port,
                      left |-> lookup, last |-> "E973"]
    OBVIOUS
  <2>3. ASSUME Begins(t, o), UNCHANGED resources, Len(resources) < MaxResources PROVE Alone(t)'
    <3>1. operation'[t] = o
      BY <1>1, <2>3 DEF Begins
    <3>2. o.name = "connect"
      BY <2>2
    <3>. QED
      BY <1>2, <1>4, <1>5, <2>3, <3>1, <3>2
  <2>. QED
    BY <1>5, <2>1, <2>2, <2>3 DEF BeginConnect
<1>6. CASE ConnectFails(t)
  <2>1. Connecting(t) /\ operation'[t] = NoOperation /\ UNCHANGED resources
    BY <1>1, <1>6 DEF ConnectFails, Connecting, Finishes
  <2>. QED
    BY <1>2, <1>3, <1>4, <2>1
<1>7. CASE ConnectOne(t)
  <2>1. Connecting(t) /\ Len(resources) < MaxResources
    BY <1>7 DEF ConnectOne, Connecting, Alone
  <2>2. ASSUME resources' = Append(resources, Resource("tcp", operation[t].owner, contact'.address.family)),
               Finishes(t, "connected")
        PROVE  Alone(t)'
    <3>1. operation'[t] = NoOperation
      BY <1>1, <2>2 DEF Finishes
    <3>2. \A i \in DOMAIN resources : ~resources[i].closed => resources[i].timeout = "opened"
      BY <1>2, <2>1, AllAsOpened
    <3>3. PICK w \in Interpreters : Grown(w)
      BY <1>1, <1>7, <2>2, ConnectedGrows
    <3>4. /\ Len(resources') = Len(resources) + 1
          /\ \A i \in DOMAIN resources' : ~resources'[i].closed => resources'[i].timeout = "opened"
      BY <3>2, <3>3, GrownAsOpened
    <3>5. Len(resources') <= MaxResources
      BY <1>2, <2>1, <3>4, ResourcesAssumption
    <3>. QED
      BY <1>3, <3>1, <3>4, <3>5 DEF Alone, Connecting, Receiving, TimeoutsRestored
  <2>3. ASSUME NEW last,
               operation' = [operation EXCEPT ![t].left = Tail(operation[t].left), ![t].last = last],
               UNCHANGED resources
        PROVE  Alone(t)'
    <3>1. operation'[t].name = operation[t].name
      <4>1. operation[t] \in Connects
        BY <1>1, <2>1, Operation
      <4>2. operation'[t] = [operation[t] EXCEPT !.left = Tail(operation[t].left), !.last = last]
        BY <1>1, <2>3
      <4>. QED
        BY <4>1, <4>2 DEF Connects
    <3>. QED
      BY <1>2, <1>4, <2>1, <2>3, <3>1 DEF Connecting
  <2>. QED
    BY <1>7, <2>2, <2>3 DEF ConnectOne
<1>. QED
  BY <1>5, <1>6, <1>7

\* A receive notes the timeout its socket was opened with.
LEMMA BeginReceiveAlone ==
  ASSUME NEW t, Threads = {t}, Inv, ~exited, UNCHANGED exited, Alone(t), Unoccupied(t),
         NEW i \in DOMAIN resources, NEW given \in BOOLEAN, NEW valid \in BOOLEAN,
         BeginReceive(t, i, given, valid)
  PROVE  Alone(t)'
<1>1. /\ t \in Threads /\ Typed /\ ClosedIsStopped /\ operation \in [Threads -> Operations]
  BY DEF Inv, Typed
<1>2. /\ ~Connecting(t) /\ ~Receiving(t)
      /\ Len(resources) \in Nat /\ DOMAIN resources = 1..Len(resources)
  BY <1>1, Operation, Handle
<1>3. \A j \in DOMAIN resources : ~resources[j].closed => resources[j].timeout = "opened"
  BY <1>2, AllAsOpened
<1>4. ASSUME NEW how, Refuses(t, how) PROVE Alone(t)'
  BY <1>4, RefusesCalm, CalmAlone
<1>5. PICK o : o = [name |-> "receive", socket |-> i, given |-> given, previous |-> resources[i].timeout]
  OBVIOUS
<1>6. ASSUME ~resources[i].closed, Begins(t, o),
             IF given THEN SetTimeout(i, "given") ELSE UNCHANGED resources
      PROVE  Alone(t)'
  <2>1. operation'[t] = o /\ operation' = [operation EXCEPT ![t] = o]
    BY <1>1, <1>6 DEF Begins
  <2>2. o.name = "receive" /\ o.socket = i /\ o.given = given /\ o.previous = "opened"
    BY <1>3, <1>5, <1>6
  <2>3. /\ resources'[i].closed = resources[i].closed
        /\ \A j \in DOMAIN resources : j # i => resources'[j] = resources[j]
        /\ DOMAIN resources' = DOMAIN resources /\ Len(resources') = Len(resources)
        /\ ~given => resources' = resources
    <3>1. CASE given
      <4>1. SetTimeout(i, "given") /\ "given" \in SocketTimeouts
        BY <1>6, <3>1 DEF SocketTimeouts
      <4>2. /\ resources'[i].closed = resources[i].closed
            /\ \A j \in DOMAIN resources : j # i => resources'[j] = resources[j]
            /\ DOMAIN resources' = DOMAIN resources
        BY <1>1, <4>1, TimeoutSet
      <4>3. Len(resources') = Len(resources)
        BY <4>1, LenProperties, <1>1 DEF SetTimeout, Typed
      <4>. QED
        BY <3>1, <4>2, <4>3
    <3>2. CASE ~given
      BY <1>6, <3>2
    <3>. QED
      BY <3>1, <3>2
  <2>4. InReceive(i)'
    BY <1>1, <2>1, <2>2 DEF InReceive
  <2>5. TimeoutsRestored'
    BY <1>3, <2>3, <2>4 DEF TimeoutsRestored
  <2>6. /\ ~Connecting(t)' /\ Len(resources') <= MaxResources
        /\ operation'[t].previous = "opened" /\ ~resources'[operation'[t].socket].closed
        /\ ~operation'[t].given => resources'[operation'[t].socket].timeout = "opened"
    BY <1>3, <1>6, <2>1, <2>2, <2>3 DEF Alone, Connecting
  <2>. QED
    BY <2>5, <2>6 DEF Alone
<1>. QED
  BY <1>4, <1>5, <1>6 DEF BeginReceive

\* However it ends, it leaves what it noted.
LEMMA EndReceiveAlone ==
  ASSUME NEW t, Threads = {t}, Inv, ~exited, UNCHANGED exited, Alone(t), EndReceive(t)
  PROVE  Alone(t)'
<1>. DEFINE o == operation[t]
<1>1. t \in Threads /\ Typed /\ ClosedIsStopped /\ operation \in [Threads -> Operations]
  BY DEF Inv, Typed
<1>2. Receiving(t) /\ operation'[t] = NoOperation
  BY <1>1 DEF EndReceive, Receiving, Finishes
<1>3. /\ o.socket \in DOMAIN resources /\ Len(resources) \in Nat
      /\ o.previous = "opened" /\ ~resources[o.socket].closed
      /\ ~o.given => resources[o.socket].timeout = "opened"
      /\ Len(resources) <= MaxResources
  BY <1>1, <1>2, Handle DEF Inv, ReceivesKnown, Alone
<1>4. \A j \in DOMAIN resources :
        j # o.socket /\ ~resources[j].closed => resources[j].timeout = "opened"
  BY DEF Alone, TimeoutsRestored, InReceive
<1>5. IF o.given THEN SetTimeout(o.socket, "opened") ELSE UNCHANGED resources
  BY <1>3 DEF EndReceive, PutBack
<1>6. /\ DOMAIN resources' = DOMAIN resources /\ Len(resources') = Len(resources)
      /\ \A j \in DOMAIN resources : j # o.socket => resources'[j] = resources[j]
      /\ resources'[o.socket].timeout = "opened"
  <2>1. CASE o.given
    <3>1. PICK i \in DOMAIN resources : i = o.socket
      BY <1>3
    <3>2. SetTimeout(i, "opened") /\ "opened" \in SocketTimeouts
      BY <1>5, <2>1, <3>1 DEF SocketTimeouts
    <3>3. /\ resources'[i].timeout = "opened"
          /\ \A j \in DOMAIN resources : j # i => resources'[j] = resources[j]
          /\ DOMAIN resources' = DOMAIN resources
      BY <1>1, <3>2, TimeoutSet
    <3>4. Len(resources') = Len(resources)
      BY <3>2, LenProperties, <1>1 DEF SetTimeout, Typed
    <3>. QED
      BY <3>1, <3>3, <3>4
  <2>2. CASE ~o.given
    BY <1>3, <1>5, <2>2
  <2>. QED
    BY <2>1, <2>2
<1>7. \A j \in DOMAIN resources' : ~resources'[j].closed => resources'[j].timeout = "opened"
  BY <1>4, <1>6
<1>. QED
  BY <1>2, <1>3, <1>6, <1>7 DEF Alone, TimeoutsRestored, NoOperation, Connecting, Receiving

LEMMA CloseAlone ==
  ASSUME NEW t, Threads = {t}, Inv, Alone(t), CloseResources
  PROVE  Alone(t)'
<1>1. Unoccupied(t) /\ UNCHANGED operation /\ Altered /\ TimeoutsKept
  BY ResourcesClosed DEF CloseResources, Inv
<1>. QED
  BY <1>1, CalmAlone DEF Calm

LEMMA PreservedAlone ==
  ASSUME NEW t, Threads = {t}, Inv, Alone(t), [ResourcesNext]_resourceVars
  PROVE  Alone(t)'
<1>1. t \in Threads
  OBVIOUS
<1>2. ASSUME ~exited, UNCHANGED exited, Unoccupied(t), Starts(t) PROVE Alone(t)'
  <2>1. CASE \E i \in DOMAIN resources, given, valid \in BOOLEAN : BeginReceive(t, i, given, valid)
    BY <1>2, <2>1, BeginReceiveAlone
  <2>2. CASE \E w \in Interpreters, host \in Hosts, port \in Ports, lookup \in Lookups :
               BeginConnect(t, w, host, port, lookup)
    BY <1>2, <2>2, ConnectAlone
  <2>. QED
    BY <1>1, <1>2, <2>1, <2>2, StartsCalm, CalmAlone
<1>3. ASSUME ResourcesNext PROVE Alone(t)'
  BY <1>2, <1>3, ConnectAlone, EndReceiveAlone, CloseAlone DEF ResourcesNext
<1>4. ASSUME UNCHANGED resourceVars PROVE Alone(t)'
  BY <1>4 DEF resourceVars, Alone, Connecting, Receiving, TimeoutsRestored, InReceive
<1>. QED
  BY <1>3, <1>4

\* The conjunction a program alone keeps.
LEMMA KeptAlone ==
  ASSUME NEW t, Threads = {t}, Inv, Alone(t)
  PROVE  ResourcesKept
<1>1. ResourcesTypeOK
  <2>1. t \in Threads /\ Typed
    BY DEF Inv
  <2>2. operation[t].name \in {"none", "connect", "receive"}
    <3>1. operation[t] \in Operations
      BY <2>1, Operation
    <3>. QED
      BY <3>1 DEF Operations, NoOperation, Connects, Receives
  <2>. QED
    BY <2>1, <2>2 DEF Inv, Typed, Handles, Alone, NoSocketLeaks, ResourcesTypeOK
<1>. QED
  BY <1>1, AtMostOne DEF Inv, Alone, ResourcesKept

\* A program alone, which waits for an operation to end before it begins the next,
\* keeps all that: the list fits its bound, and a timeout given to one receive is
\* gone when it ends, whether it received, failed or waited in vain.
THEOREM AlwaysKept ==
  ASSUME NEW t, Threads = {t}
  PROVE  ResourcesSpec => []ResourcesKept
<1>1. ResourcesInit => Inv /\ Alone(t)
  <2>. SUFFICES ASSUME ResourcesInit PROVE Inv /\ Alone(t)
    OBVIOUS
  <2>1. Len(resources) = 0 /\ DOMAIN resources = {}
    BY EmptySeq DEF ResourcesInit
  <2>2. ~Connecting(t) /\ ~Receiving(t)
    BY DEF ResourcesInit, NoOperation, Connecting, Receiving
  <2>. QED
    BY <2>1, <2>2, Initially, ResourcesAssumption DEF Alone, TimeoutsRestored
<1>2. Inv /\ Alone(t) /\ [ResourcesNext]_resourceVars => Inv' /\ Alone(t)'
  BY Preserved, PreservedAlone
<1>3. Inv /\ Alone(t) => ResourcesKept
  BY KeptAlone
<1>. QED
  BY <1>1, <1>2, <1>3, PTL DEF ResourcesSpec

----------------------------------------------------------------------------
(* NetworkServiceRules: what one server is configured with.                *)

LEMMA Least ==
  ASSUME NEW S \in SUBSET Nat, S # {}
  PROVE  \E m \in S : \A n \in S : m <= n
<1>. DEFINE Less == {ss \in Nat \X Nat : ss[1] < ss[2]}
<1>1. IsWellFoundedOn(Less, Nat)
  BY NatLessThanWellFounded, Zenon DEF OpToRel
<1>2. \E m \in S : \A n \in S : <<n, m>> \notin Less
  <2>. HIDE DEF Less
  <2>. QED
    BY <1>1, WFMin, Zenon
<1>3. \A m, n \in Nat : <<n, m>> \in Less <=> n < m
  OBVIOUS
<1>4. PICK m \in S : \A n \in S : ~(n < m)
  <2>. HIDE DEF Less
  <2>. QED
    BY <1>2, <1>3
<1>. QED
  BY <1>4

\* What has an address of its own each can be listed by address.
Listed(list, n, found) ==
  list \in [1..n -> found] /\ \A j, k \in 1..n : j < k => list[j][2] < list[k][2]
OwnAddresses(found) == \A x, y \in found : x # y => x[2] # y[2]

LEMMA CanBeListed ==
  ASSUME NEW S
  PROVE  \A found \in SUBSET (S \X Nat) :
           IsFiniteSet(found) /\ OwnAddresses(found) => \E list : Listed(list, Cardinality(found), found)
<1>. DEFINE Unlisted(found, n) == /\ found \in SUBSET (S \X Nat) /\ IsFiniteSet(found)
                                  /\ OwnAddresses(found) /\ Cardinality(found) = n
                                  /\ ~\E list : Listed(list, n, found)
            Sizes == {n \in Nat : \E found : Unlisted(found, n)}
<1>1. Sizes = {}
  <2>. SUFFICES ASSUME Sizes # {} PROVE FALSE
    OBVIOUS
  <2>1. PICK n \in Sizes : \A m \in Sizes : n <= m
    BY Least
  <2>2. PICK found : Unlisted(found, n)
    BY <2>1
  <2>3. n \in Nat
    BY <2>1
  <2>4. CASE n = 0
    <3>1. found = {}
      BY <2>2, <2>4, FS_EmptySet
    <3>2. PICK list : list = [k \in 1..0 |-> 0]
      OBVIOUS
    <3>3. Listed(list, 0, found)
      BY <3>2 DEF Listed
    <3>. QED
      BY <2>2, <2>4, <3>3
  <2>5. CASE n # 0
    <3>1. found # {}
      BY <2>2, <2>5, FS_EmptySet
    <3>2. PICK x \in found : \A y \in found : x[2] <= y[2]
      <4>1. {y[2] : y \in found} \in SUBSET Nat /\ {y[2] : y \in found} # {}
        BY <2>2, <3>1
      <4>2. PICK a \in {y[2] : y \in found} : \A b \in {y[2] : y \in found} : a <= b
        BY <4>1, Least
      <4>. QED
        BY <4>2
    <3>3. PICK rest : rest = found \ {x}
      OBVIOUS
    <3>4. IsFiniteSet(rest) /\ Cardinality(rest) = n - 1 /\ n - 1 \in Nat
      BY <2>2, <2>3, <2>5, <3>2, <3>3, FS_RemoveElement
    <3>5. rest \in SUBSET (S \X Nat) /\ OwnAddresses(rest)
      BY <2>2, <3>3 DEF OwnAddresses
    <3>6. PICK shorter : Listed(shorter, n - 1, rest)
      <4>1. n - 1 \notin Sizes
        BY <2>1, <2>3, <3>4
      <4>. QED
        BY <3>4, <3>5, <4>1
    <3>7. PICK list : list = [k \in 1..n |-> IF k = 1 THEN x ELSE shorter[k - 1]]
      OBVIOUS
    <3>8. \A k \in 1..n : k # 1 => /\ k - 1 \in 1..(n - 1) /\ list[k] = shorter[k - 1] /\ list[k] \in rest
      BY <2>3, <3>6, <3>7 DEF Listed
    <3>9. list[1] = x /\ 1 \in 1..n
      BY <2>3, <2>5, <3>7
    <3>10. list \in [1..n -> found]
      BY <3>2, <3>3, <3>7, <3>8, <3>9
    <3>11. ASSUME NEW j \in 1..n, NEW k \in 1..n, j < k PROVE list[j][2] < list[k][2]
      <4>1. k # 1 /\ list[k] \in rest /\ list[k] \in found
        BY <2>3, <3>3, <3>8, <3>11
      <4>2. CASE j = 1
        <5>1. list[k] # x /\ x[2] <= list[k][2] /\ x[2] # list[k][2]
          BY <2>2, <3>2, <3>3, <4>1 DEF OwnAddresses
        <5>2. x[2] \in Nat /\ list[k][2] \in Nat
          BY <2>2, <3>2, <4>1
        <5>. QED
          BY <3>9, <4>2, <5>1, <5>2
      <4>3. CASE j # 1
        <5>1. j - 1 \in 1..(n - 1) /\ k - 1 \in 1..(n - 1) /\ j - 1 < k - 1
          BY <2>3, <3>11, <4>3
        <5>. QED
          BY <3>6, <3>8, <4>1, <4>3, <5>1 DEF Listed
      <4>. QED
        BY <4>2, <4>3
    <3>12. Listed(list, n, found)
      BY <3>10, <3>11 DEF Listed
    <3>. QED
      BY <2>2, <3>12
  <2>. QED
    BY <2>4, <2>5
<1>. SUFFICES ASSUME NEW found \in SUBSET (S \X Nat), IsFiniteSet(found), OwnAddresses(found)
              PROVE  \E list : Listed(list, Cardinality(found), found)
  OBVIOUS
<1>2. PICK n \in Nat : n = Cardinality(found)
  BY FS_CardinalityType
<1>3. n \notin Sizes
  BY <1>1
<1>4. ~Unlisted(found, n)
  BY <1>3
<1>. QED
  BY <1>2, <1>4

\* The list of the leases is of those found, by address.
LEMMA ByAddressIs ==
  ASSUME NEW S, NEW found \in SUBSET (S \X Nat), IsFiniteSet(found), OwnAddresses(found)
  PROVE  Listed(ByAddress(found), Cardinality(found), found)
<1>1. PICK n \in Nat : n = Cardinality(found)
  BY FS_CardinalityType
<1>2. \E list \in [1..n -> found] : \A j, k \in 1..n : j < k => list[j][2] < list[k][2]
  BY <1>1, CanBeListed DEF Listed
<1>3. ByAddress(found) = CHOOSE list \in [1..n -> found] : \A j, k \in 1..n : j < k => list[j][2] < list[k][2]
  BY <1>1 DEF ByAddress
<1>. QED
  BY <1>1, <1>2, <1>3 DEF Listed

LEMMA ReservedIs ==
  ASSUME NEW c \in DhcpConfigurations, ReservationsAllowed(c)
  PROVE  /\ \A m \in DOMAIN Reserved(c) : \E k \in DOMAIN c.reservations : Reserved(c)[m] = c.reservations[k][2]
         /\ \A m, n \in DOMAIN Reserved(c) : m # n => Reserved(c)[m] # Reserved(c)[n]
<1>1. c.reservations \in Seq(STRING \X Nat)
  BY ServicesAssumption
<1>2. PICK size \in Nat : DOMAIN c.reservations = 1..size
  BY <1>1, LenProperties
<1>3. PICK macs : macs = {Upper(c.reservations[k][1]) : k \in 1..size}
  OBVIOUS
<1>. DEFINE Latest(m) == CHOOSE k \in 1..size :
              /\ Upper(c.reservations[k][1]) = m
              /\ \A j \in 1..size : Upper(c.reservations[j][1]) = m => j <= k
<1>4. Reserved(c) = [m \in macs |-> c.reservations[Latest(m)][2]]
  BY <1>2, <1>3 DEF Reserved
<1>5. ASSUME NEW m \in macs PROVE Latest(m) \in 1..size /\ Upper(c.reservations[Latest(m)][1]) = m
  <2>1. PICK after \in {size - k : k \in {j \in 1..size : Upper(c.reservations[j][1]) = m}} :
           \A b \in {size - k : k \in {j \in 1..size : Upper(c.reservations[j][1]) = m}} : after <= b
    <3>1. /\ {size - k : k \in {j \in 1..size : Upper(c.reservations[j][1]) = m}} \in SUBSET Nat
          /\ {size - k : k \in {j \in 1..size : Upper(c.reservations[j][1]) = m}} # {}
      BY <1>3
    <3>. QED
      BY <3>1, Least
  <2>2. PICK k \in 1..size : Upper(c.reservations[k][1]) = m /\ after = size - k
    BY <2>1
  <2>3. ASSUME NEW j \in 1..size, Upper(c.reservations[j][1]) = m PROVE j <= k
    <3>1. after <= size - j
      BY <2>1, <2>3
    <3>. QED
      BY <2>2, <3>1
  <2>. QED
    BY <2>2, <2>3, Zenon
<1>. HIDE DEF Latest
<1>6. \A m \in macs : Reserved(c)[m] = c.reservations[Latest(m)][2]
  BY <1>4
<1>7. DOMAIN Reserved(c) = macs
  BY <1>4
<1>8. \A j, k \in 1..size : j # k => c.reservations[j][2] # c.reservations[k][2]
  <2>1. \A j, k \in 1..size : j < k => c.reservations[j][2] # c.reservations[k][2]
    BY <1>2 DEF ReservationsAllowed, ReservedOnce, ReservedOnce_AnyRole
  <2>. QED
    BY <2>1
<1>9. \A m, n \in macs : m # n => Latest(m) # Latest(n)
  BY <1>5
<1>. QED
  BY <1>2, <1>5, <1>6, <1>7, <1>8, <1>9

LEMMA DhcpStartKeeps ==
  ASSUME NEW c \in DhcpConfigurations, DhcpStart(c)
  PROVE  RolesDisjoint' /\ LeasesConsistent'
<1>1. PICK kept : kept = Reserved(c)
  OBVIOUS
<1>2. /\ dhcp'.server = c.server /\ dhcp'.gateway = c.gateway /\ dhcp'.start = c.start
      /\ dhcp'.end = c.end /\ dhcp'.reservations = kept
  BY <1>1, ServicesAssumption DEF DhcpStart
<1>3. \A a : InPool(dhcp, a)' <=> InPool(c, a)
  BY <1>2 DEF InPool
<1>4. /\ \A m \in DOMAIN kept : \E k \in DOMAIN c.reservations : kept[m] = c.reservations[k][2]
      /\ \A m, n \in DOMAIN kept : m # n => kept[m] # kept[n]
  BY <1>1, ReservedIs DEF DhcpStart, DhcpAllowed
<1>5. \A k \in DOMAIN c.reservations : /\ c.reservations[k][2] \notin {c.server, c.gateway}
                                      /\ ~InPool(c, c.reservations[k][2])
  BY DEF DhcpStart, DhcpAllowed, ReservationsAllowed, ReservedOnce
<1>6. ~InPool(c, c.server) /\ ~InPool(c, c.gateway)
  BY DEF DhcpStart, DhcpAllowed
<1>7. \A a \in Held' : a \notin {c.server, c.gateway} /\ ~InPool(c, a)
  BY <1>2, <1>4, <1>5 DEF Held
<1>8. RolesDisjoint'
  BY <1>2, <1>3, <1>4, <1>6, <1>7 DEF RolesDisjoint
<1>9. DOMAIN leases' = {}
  BY DEF DhcpStart
<1>. QED
  BY <1>8, <1>9 DEF LeasesConsistent

LEMMA DhcpLeasesKeeps ==
  ASSUME NEW raw \in RawLeases, DhcpLeases(raw)
  PROVE  LeasesConsistent'
<1>1. CASE ~LeasesAllowed(raw)
  <2>1. DOMAIN leases' = {}
    BY <1>1 DEF DhcpLeases
  <2>. QED
    BY <2>1 DEF LeasesConsistent
<1>2. CASE LeasesAllowed(raw)
  <2>1. PICK size \in Nat : DOMAIN raw = 1..size /\ \A k \in 1..size : raw[k] \in STRING \X Nat
    BY ServicesAssumption, LenProperties, ElementOfSeq
  <2>2. PICK found : found = {Normalized(raw[k]) : k \in 1..size}
    OBVIOUS
  <2>3. \A k \in 1..size : Normalized(raw[k]) = <<Upper(raw[k][1]), raw[k][2]>> /\ raw[k][2] \in Nat
    BY <2>1 DEF Normalized
  <2>4. PICK S : found \in SUBSET (S \X Nat)
    <3>1. found \in SUBSET ({Upper(raw[k][1]) : k \in 1..size} \X Nat)
      BY <2>2, <2>3
    <3>. QED
      BY <3>1
  <2>5. \A x, y \in found : x # y => x[1] # y[1] /\ x[2] # y[2]
    <3>1. \A j, k \in 1..size : j # k => \A field \in 1..2 : Normalized(raw[j])[field] # Normalized(raw[k])[field]
      BY <1>2, <2>1 DEF LeasesAllowed
    <3>2. \A j, k \in 1..size : j # k => /\ Normalized(raw[j])[1] # Normalized(raw[k])[1]
                                         /\ Normalized(raw[j])[2] # Normalized(raw[k])[2]
      BY <3>1
    <3>. QED
      BY <2>2, <3>2
  <2>6. IsFiniteSet(found)
    <3>1. PICK f : f = [k \in 1..size |-> Normalized(raw[k])]
      OBVIOUS
    <3>2. f \in Surjection(1..size, found)
      BY <2>2, <3>1 DEF Surjection
    <3>. QED
      BY <2>1, <3>2, FS_Interval, FS_Surjection
  <2>7. \A x \in found : InPool(dhcp, x[2]) \/ x[2] \in Held
    <3>1. \A k \in 1..size : InPool(dhcp, raw[k][2]) \/ raw[k][2] \in Held
      BY <1>2, <2>1 DEF LeasesAllowed, LeaseFits, Held
    <3>2. \A k \in 1..size : Normalized(raw[k])[2] = raw[k][2]
      BY <2>3
    <3>. QED
      BY <2>2, <3>1, <3>2
  <2>8. PICK n \in Nat : n = Cardinality(found)
    BY <2>6, FS_CardinalityType
  <2>9. leases' = ByAddress(found) /\ UNCHANGED dhcp
    BY <1>2, <2>1, <2>2 DEF DhcpLeases
  <2>10. Listed(leases', n, found)
    BY <2>4, <2>5, <2>6, <2>8, <2>9, ByAddressIs DEF OwnAddresses
  <2>11. DOMAIN leases' = 1..n /\ \A k \in 1..n : leases'[k] \in found
    BY <2>10 DEF Listed
  <2>12. \A x \in found : Upper(x[1]) = x[1]
    BY <2>1, <2>2, <2>3 DEF Upper
  <2>13. ASSUME NEW j \in 1..n, NEW k \in 1..n, j < k
         PROVE  leases'[j][2] < leases'[k][2] /\ Upper(leases'[j][1]) # Upper(leases'[k][1])
    <3>1. leases'[j][2] < leases'[k][2]
      BY <2>10, <2>13 DEF Listed
    <3>2. leases'[j][2] \in Nat /\ leases'[k][2] \in Nat
      BY <2>4, <2>11
    <3>3. leases'[j] # leases'[k]
      BY <3>1, <3>2
    <3>. QED
      BY <2>5, <2>11, <2>12, <3>1, <3>3
  <2>14. \A k \in 1..n : InPool(dhcp', leases'[k][2]) \/ leases'[k][2] \in Held'
    BY <2>7, <2>9, <2>11 DEF Held
  <2>. QED
    BY <2>11, <2>13, <2>14 DEF LeasesConsistent
<1>. QED
  BY <1>1, <1>2

LEMMA DnsStartKeeps ==
  ASSUME NEW records \in DnsRecords, NEW catch_all \in BOOLEAN, DnsStart(records, catch_all)
  PROVE  NamesResolveOnce'
<1>1. dns'.records = {<<Plain(records[k]), k>> : k \in DOMAIN records}
  BY DEF DnsStart
<1>2. \A j, k \in DOMAIN records : Plain(records[j]) = Plain(records[k]) => j = k
  BY DEF DnsStart, NamesDiffer, IsInjective
<1>. QED
  BY <1>1, <1>2 DEF NamesResolveOnce

\* For any subnet, limits and configurations, and whatever the adapter reports: no address of a
\* running DHCP server has two roles, no lease that a program is told clashes with another,
\* and a name has one answer.
THEOREM ConfigurationsAlwaysSound == ServiceSpec => []ConfigurationsSound
<1>1. ServiceInit => ConfigurationsSound
  BY DEF ServiceInit, ConfigurationsSound, RolesDisjoint, LeasesConsistent, NamesResolveOnce
<1>2. ConfigurationsSound /\ [ServiceNext]_serviceVars => ConfigurationsSound'
  <2>. SUFFICES ASSUME ConfigurationsSound, [ServiceNext]_serviceVars PROVE ConfigurationsSound'
    OBVIOUS
  <2>1. ASSUME UNCHANGED dhcp PROVE RolesDisjoint'
    BY <2>1 DEF ConfigurationsSound, RolesDisjoint, Held, InPool
  <2>2. ASSUME UNCHANGED <<dhcp, leases>> PROVE LeasesConsistent'
    BY <2>2 DEF ConfigurationsSound, LeasesConsistent, Held, InPool
  <2>3. ASSUME UNCHANGED dns PROVE NamesResolveOnce'
    BY <2>3 DEF ConfigurationsSound, NamesResolveOnce
  <2>4. ASSUME NEW c \in DhcpConfigurations, DhcpStart(c) PROVE ConfigurationsSound'
    BY <2>3, <2>4, DhcpStartKeeps DEF ConfigurationsSound, DhcpStart
  <2>5. ASSUME NEW raw \in RawLeases, DhcpLeases(raw) PROVE ConfigurationsSound'
    BY <2>1, <2>3, <2>5, DhcpLeasesKeeps DEF ConfigurationsSound, DhcpLeases
  <2>6. ASSUME NEW records \in DnsRecords, NEW catch_all \in BOOLEAN, DnsStart(records, catch_all)
        PROVE  ConfigurationsSound'
    BY <2>1, <2>2, <2>6, DnsStartKeeps DEF ConfigurationsSound, DnsStart
  <2>7. CASE DhcpStop
    <3>1. RolesDisjoint' /\ DOMAIN leases' = {}
      BY <2>7 DEF DhcpStop, RolesDisjoint
    <3>. QED
      BY <2>3, <2>7, <3>1 DEF ConfigurationsSound, LeasesConsistent, DhcpStop
  <2>8. CASE DnsStop
    <3>1. NamesResolveOnce'
      BY <2>8 DEF DnsStop, NamesResolveOnce
    <3>. QED
      BY <2>1, <2>2, <2>8, <3>1 DEF ConfigurationsSound, DnsStop
  <2>9. CASE UNCHANGED serviceVars
    BY <2>1, <2>2, <2>3, <2>9 DEF ConfigurationsSound, serviceVars
  <2>. QED
    BY <2>4, <2>5, <2>6, <2>7, <2>8, <2>9 DEF ServiceNext
<1>. QED
  BY <1>1, <1>2, PTL DEF ServiceSpec

----------------------------------------------------------------------------
(* Processes: what is said of a command.                                   *)

\* Before it is started nothing has happened; until its pipes are closed nothing is said;
\* what was killed was killed by the timeout.
CommandTyped ==
  /\ phase \in {"idle", "communicate", "drain", "done"} /\ child \in {"none", "running", "exited"}
  /\ code \in Int /\ held \in BOOLEAN /\ checked \in BOOLEAN /\ timedOut \in BOOLEAN /\ wrote \in Nat
CommandInv ==
  /\ CommandTyped /\ ResultHonest
  /\ phase = "idle" <=> child = "none" /\ outcome = "none"
  /\ child = "none" => ~held
  /\ outcome # "none" => phase = "done"
  /\ code = Killed => timedOut

\* For any timeout and limit: a result is of a command that has ended, with all it wrote, and
\* one that was killed is said to have timed out.
THEOREM ResultAlwaysHonest == ProcessesInit /\ [][ProcessesNext]_processVars => []ResultHonest
<1>1. Killed \in Int /\ Killed \notin {0, 1}
  BY DEF Killed
<1>2. ProcessesInit => CommandInv
  <2>1. 0 \in Nat /\ 0 \in Int /\ 0 # Killed
    BY <1>1
  <2>. QED
    BY <2>1, Zenon DEF ProcessesInit, CommandInv, CommandTyped, ResultHonest
<1>3. CommandInv /\ [ProcessesNext]_processVars => CommandInv'
  <2>. SUFFICES ASSUME CommandInv, [ProcessesNext]_processVars PROVE CommandInv'
    OBVIOUS
  <2>1. /\ wrote \in Nat => wrote + 1 \in Nat
        /\ elapsed = Timeout => ~(elapsed < Timeout)
        /\ wrote \in Nat /\ ~(wrote > OutputLimit) => wrote <= OutputLimit
    BY ProcessesAssumption
  <2>2. code' \in {0, 1} => code' \in Int /\ code' # Killed
    BY <1>1
  <2>. USE DEF CommandInv, CommandTyped, ResultHonest
  <2>3. CASE Popen
    BY <2>3, Zenon DEF Popen
  <2>4. CASE PopenFails
    BY <2>4, Zenon DEF PopenFails, commandVars
  <2>5. CASE Writes
    BY <2>1, <2>5, Zenon DEF Writes
  <2>6. CASE Forks
    BY <2>6, Zenon DEF Forks
  <2>7. CASE Exits
    BY <2>2, <2>7, Zenon DEF Exits
  <2>8. CASE DescendantEnds
    BY <2>8, Zenon DEF DescendantEnds
  <2>9. CASE Tick
    BY <2>1, <2>9, Zenon DEF Tick, commandVars
  <2>10. CASE Communicated
    BY <1>1, <2>1, <2>10, Zenon DEF Communicated, commandVars, PipesClosed, Answer
  <2>11. CASE TimeoutExpired
    BY <1>1, <2>11, Zenon DEF TimeoutExpired, PipesClosed, Kill
  <2>12. CASE UNCHANGED processVars
    BY <2>12, Zenon DEF processVars
  <2>. QED
    BY <2>3, <2>4, <2>5, <2>6, <2>7, <2>8, <2>9, <2>10, <2>11, <2>12 DEF ProcessesNext
<1>4. CommandInv => ResultHonest
  BY DEF CommandInv
<1>. QED
  BY <1>2, <1>3, <1>4, PTL

----------------------------------------------------------------------------
(* NetworkAddressing: what a program is told of the interfaces.            *)

\* What is told of a status, an opening or a configuration promises nothing more.
Promises == {"lease", "waited", "preferred"}

LEMMA SilentKept ==
  ASSUME told'.what \notin Promises
  PROVE  LeaseSound' /\ WaitHonest' /\ PreferredFirst'
BY DEF LeaseSound, WaitHonest, PreferredFirst, Promises

\* Nothing new is told, of interfaces and an order that are as they were.
LEMMA ToldKept ==
  ASSUME LeaseSound, WaitHonest, PreferredFirst, UNCHANGED <<told, interfaces, preferred>>
  PROVE  LeaseSound' /\ WaitHonest' /\ PreferredFirst'
BY DEF LeaseSound, WaitHonest, PreferredFirst, Order, Exists

\* A built-in that tells something configures nothing.
LEMMA TellsOnly ==
  ASSUME AddressingTypeOK, UNCHANGED <<interfaces, wait>>, preferred' \in Seq(Names), configured' = NoConfiguration
  PROVE  AddressingTypeOK' /\ StaticSound'
BY DEF AddressingTypeOK, StaticSound

----------------------------------------------------------------------------
(* A configuration.                                                        *)

LEMMA ValidatedExists ==
  ASSUME NEW n \in Names, NEW kinds, Validated(n, kinds) = "ok"
  PROVE  Exists(n)
BY DEF Validated, Required

LEMMA ConfiguresKept ==
  ASSUME AddressingKept, NEW n \in Names, NEW allowed, NEW mode, NEW configuration,
         Configures(n, allowed, mode, configuration),
         allowed = "ok" => /\ Exists(n) /\ mode \in AddressModes \cup {r.address_mode : r \in Reports}
                           /\ configuration \in StaticConfigurations \cup {NoConfiguration}
                           /\ configuration # NoConfiguration => StaticAllowed(configuration)
  PROVE  AddressingKept'
<1>1. told'.what \notin Promises
  BY DEF Configures, Tells, Promises, Nothing
<1>2. CASE UNCHANGED interfaces /\ configured' = NoConfiguration
  <2>1. UNCHANGED wait /\ preferred' \in Seq(Names)
    BY DEF Configures, AddressingKept, AddressingTypeOK
  <2>. QED
    BY <1>1, <1>2, <2>1, TellsOnly, SilentKept DEF AddressingKept
<1>3. CASE /\ allowed = "ok" /\ configured' = configuration
           /\ interfaces' = [interfaces EXCEPT ![n].address_mode = mode]
  <2>1. interfaces[n] \in InterfaceStates
    BY <1>3 DEF AddressingKept, AddressingTypeOK, Exists
  <2>2. [interfaces[n] EXCEPT !.address_mode = mode] \in InterfaceStates
    BY <1>3, <2>1 DEF InterfaceStates
  <2>3. interfaces' \in [Names -> InterfaceStates \cup {Gone}]
    BY <1>3, <2>2 DEF AddressingKept, AddressingTypeOK
  <2>4. AddressingTypeOK'
    BY <1>3, <2>3 DEF AddressingKept, AddressingTypeOK, Configures
  <2>5. StaticSound'
    <3>1. SUFFICES ASSUME configuration # NoConfiguration
                   PROVE  /\ configuration.address.class = "global"
                          /\ configuration.gateway # NoAddress => configuration.gateway.version = configuration.address.version
                          /\ configuration.address.version = 4 => configuration.prefix <= 32
      BY <1>3 DEF StaticSound
    <3>2. configuration.address \in IpAddresses
      BY <1>3, <3>1, AddressingAssumption
    <3>. QED
      BY <1>3, <3>1, <3>2 DEF StaticAllowed, StaticAllowed_AnyGateway, Unicast, PrefixFits, SameVersion, IpAddresses
  <2>. QED
    BY <1>1, <2>4, <2>5, SilentKept DEF AddressingKept
<1>. QED
  BY <1>2, <1>3 DEF Configures, Tells

LEMMA MayConfigureExists ==
  ASSUME NEW n \in Names, NEW needsDhcp, MayConfigure(n, needsDhcp) = "ok"
  PROVE  Exists(n)
BY ValidatedExists DEF MayConfigure

LEMMA SetStaticKept ==
  ASSUME AddressingKept, NEW n \in Names, NEW c \in StaticConfigurations, SetStatic(n, c)
  PROVE  AddressingKept'
<1>. DEFINE may == MayConfigure(n, FALSE)
            allowed == IF may # "ok" THEN may ELSE IF StaticAllowed(c) THEN "ok" ELSE "E980"
<1>1. Configures(n, allowed, "static", c)
  BY DEF SetStatic
<1>2. allowed = "ok" => Exists(n) /\ StaticAllowed(c)
  BY MayConfigureExists
<1>3. "static" \in AddressModes \cup {r.address_mode : r \in Reports}
  BY DEF AddressModes
<1>. HIDE DEF allowed
<1>. QED
  BY <1>1, <1>2, <1>3, ConfiguresKept

LEMMA ModesKept ==
  ASSUME AddressingKept, NEW n \in Names, UseDhcp(n) \/ UseLinkLocal(n)
  PROVE  AddressingKept'
<1>1. PICK mode \in {"dhcp", "link_local"} : Configures(n, MayConfigure(n, FALSE), mode, NoConfiguration)
  BY DEF UseDhcp, UseLinkLocal
<1>2. mode \in AddressModes \cup {r.address_mode : r \in Reports}
  BY <1>1 DEF AddressModes
<1>. QED
  BY <1>1, <1>2, ConfiguresKept, MayConfigureExists

LEMMA AdjustKept ==
  ASSUME AddressingKept, NEW n \in Names, NEW needsDhcp, Adjust(n, needsDhcp)
  PROVE  AddressingKept'
<1>1. Configures(n, MayConfigure(n, needsDhcp), interfaces[n].address_mode, NoConfiguration)
  BY DEF Adjust
<1>2. Exists(n) => interfaces[n].address_mode \in AddressModes \cup {r.address_mode : r \in Reports}
  BY DEF AddressingKept, AddressingTypeOK, Exists, InterfaceStates
<1>. QED
  BY <1>1, <1>2, ConfiguresKept, MayConfigureExists

----------------------------------------------------------------------------
(* A lease.                                                                *)

LEMMA TwoJoined ==
  ASSUME NEW s \in Seq(Nat), NEW t \in Seq(Nat), NEW whole \in Seq(Nat), Len(whole) = Len(s) + Len(t),
         \A i \in 1..Len(s) + Len(t) : whole[i] = IF i <= Len(s) THEN s[i] ELSE t[i - Len(s)]
  PROVE  s \o t = whole
<1>1. /\ s \o t \in Seq(Nat) /\ Len(s \o t) = Len(s) + Len(t)
      /\ \A i \in 1..Len(s) + Len(t) : (s \o t)[i] = IF i <= Len(s) THEN s[i] ELSE t[i - Len(s)]
  BY ConcatProperties
<1>. QED
  BY <1>1, SeqEqual

LEMMA Joined ==
  ASSUME NEW a \in Nat, NEW b \in Nat
  PROVE  /\ <<a>> \o <<b>> = <<a, b>> /\ <<a>> \o <<>> = <<a>> /\ <<>> \o <<a>> = <<a>>
         /\ <<a, b>> \o <<>> = <<a, b>>
         /\ \A c \in Nat : <<a, b>> \o <<c>> = <<a, b, c>>
<1>1. <<a>> \o <<b>> = <<a, b>>
  <2>1. /\ <<a>> \in Seq(Nat) /\ <<b>> \in Seq(Nat) /\ <<a, b>> \in Seq(Nat)
        /\ Len(<<a, b>>) = Len(<<a>>) + Len(<<b>>)
    OBVIOUS
  <2>2. \A i \in 1..Len(<<a>>) + Len(<<b>>) : <<a, b>>[i] = IF i <= Len(<<a>>) THEN <<a>>[i] ELSE <<b>>[i - Len(<<a>>)]
    OBVIOUS
  <2>. QED
    BY <2>1, <2>2, TwoJoined
<1>2. <<a>> \o <<>> = <<a>> /\ <<>> \o <<a>> = <<a>>
  BY <<a>> \in Seq(Nat), ConcatEmptySeq
<1>3. <<a, b>> \o <<>> = <<a, b>>
  BY <<a, b>> \in Seq(Nat), ConcatEmptySeq
<1>4. ASSUME NEW c \in Nat PROVE <<a, b>> \o <<c>> = <<a, b, c>>
  <2>1. /\ <<a, b>> \in Seq(Nat) /\ <<c>> \in Seq(Nat) /\ <<a, b, c>> \in Seq(Nat)
        /\ Len(<<a, b, c>>) = Len(<<a, b>>) + Len(<<c>>)
    OBVIOUS
  <2>2. \A i \in 1..Len(<<a, b>>) + Len(<<c>>) :
          <<a, b, c>>[i] = IF i <= Len(<<a, b>>) THEN <<a, b>>[i] ELSE <<c>>[i - Len(<<a, b>>)]
    OBVIOUS
  <2>. QED
    BY <2>1, <2>2, TwoJoined
<1>. QED
  BY <1>1, <1>2, <1>3, <1>4

\* In what is present, the later of two times that are there comes after the earlier.
LEMMA PresentInOrder ==
  ASSUME NEW times \in Times,
         \A j, k \in DOMAIN Present(times) : j < k => Present(times)[j] <= Present(times)[k],
         NEW j \in 1..3, NEW k \in 1..3, j < k, times[k] # 0
  PROVE  times[j] <= times[k]
<1>1. PICK a \in Nat : a = times[1]
  BY DEF Times
<1>2. PICK b \in Nat : b = times[2]
  BY DEF Times
<1>3. PICK c \in Nat : c = times[3]
  BY DEF Times
<1>4. PICK p : p = Present(times) /\ p = Given(a) \o Given(b) \o Given(c)
  BY <1>1, <1>2, <1>3 DEF Present
<1>5. \A m, n \in DOMAIN p : m < n => p[m] <= p[n]
  BY <1>4
<1>6. CASE times[j] = 0
  BY <1>6, <1>1, <1>2, <1>3 DEF Times
<1>7. a # 0 /\ b # 0 => a <= b
  <2>1. SUFFICES ASSUME a # 0, b # 0 PROVE a <= b
    OBVIOUS
  <2>2. p = <<a>> \o <<b>> \o Given(c)
    BY <1>4, <2>1 DEF Given
  <2>3. p = <<a, b>> \/ p = <<a, b, c>>
    BY <2>2, Joined DEF Given
  <2>. QED
    BY <1>5, <2>3
<1>8. a # 0 /\ c # 0 => a <= c
  <2>1. SUFFICES ASSUME a # 0, c # 0 PROVE a <= c
    OBVIOUS
  <2>2. p = <<a>> \o Given(b) \o <<c>>
    BY <1>4, <2>1 DEF Given
  <2>3. p = <<a, c>> \/ p = <<a, b, c>>
    BY <2>2, Joined DEF Given
  <2>. QED
    BY <1>5, <2>3
<1>9. b # 0 /\ c # 0 => b <= c
  <2>1. SUFFICES ASSUME b # 0, c # 0 PROVE b <= c
    OBVIOUS
  <2>2. p = Given(a) \o <<b>> \o <<c>>
    BY <1>4, <2>1 DEF Given
  <2>3. p = <<b, c>> \/ p = <<a, b, c>>
    BY <2>2, Joined DEF Given
  <2>. QED
    BY <1>5, <2>3
<1>. QED
  BY <1>1, <1>2, <1>3, <1>6, <1>7, <1>8, <1>9

LEMMA DhcpLeaseKept ==
  ASSUME AddressingKept, NEW n \in Names, NEW lease \in Leases, DhcpLease(n, lease)
  PROVE  AddressingKept'
<1>1. AddressingTypeOK' /\ StaticSound'
  <2>1. UNCHANGED <<interfaces, wait>> /\ preferred' \in Seq(Names) /\ configured' = NoConfiguration
    BY DEF DhcpLease, Tells, AddressingKept, AddressingTypeOK
  <2>. QED
    BY <2>1, TellsOnly DEF AddressingKept
<1>2. LeaseSound'
  <2>1. told'.value # Gone => told'.value = lease /\ LeaseAllowed(lease)
    BY DEF DhcpLease, Tells
  <2>2. lease.times \in Times
    BY AddressingAssumption
  <2>3. LeaseAllowed(lease) => \A j, k \in 1..3 : j < k /\ lease.times[k] # 0 => lease.times[j] <= lease.times[k]
    BY <2>2, PresentInOrder DEF LeaseAllowed
  <2>. QED
    BY <2>1, <2>3 DEF LeaseSound
<1>3. WaitHonest' /\ PreferredFirst'
  BY DEF DhcpLease, Tells, WaitHonest, PreferredFirst
<1>. QED
  BY <1>1, <1>2, <1>3 DEF AddressingKept

----------------------------------------------------------------------------
(* The preferred interface.                                                *)

LEMMA PreferredKept ==
  ASSUME AddressingKept, Preferred
  PROVE  AddressingKept'
<1>1. AddressingTypeOK' /\ StaticSound'
  <2>1. UNCHANGED <<interfaces, wait>> /\ preferred' \in Seq(Names) /\ configured' = NoConfiguration
    BY DEF Preferred, Tells, AddressingKept, AddressingTypeOK
  <2>. QED
    BY <2>1, TellsOnly DEF AddressingKept
<1>2. LeaseSound' /\ WaitHonest'
  BY DEF Preferred, Tells, LeaseSound, WaitHonest
<1>4. Order' = Order /\ interfaces' = interfaces
  BY DEF Preferred, Order
<1>5. Order \in Seq(Names)
  BY AddressingAssumption DEF Order, AddressingKept, AddressingTypeOK
<1>. DEFINE usable == {k \in DOMAIN Order : Usable(Order[k])}
<1>6. told' = [what |-> "preferred", value |-> IF usable = {} THEN "none" ELSE Order[Min(usable)]]
  BY DEF Preferred, Tells
<1>7. \A k \in DOMAIN Order : k \in usable <=> (Exists(Order[k]) /\ interfaces[Order[k]].connected)
  BY DEF Usable
<1>8. usable \subseteq DOMAIN Order /\ usable \in SUBSET Nat
  BY <1>5, LenProperties
<1>. HIDE DEF usable
<1>9. usable # {} => Min(usable) \in usable /\ \A k \in usable : Min(usable) <= k
  BY <1>8, Least DEF Min
<1>10. PreferredFirst'
  <2>1. CASE usable = {}
    BY <2>1, <1>4, <1>6, <1>7 DEF PreferredFirst, Exists
  <2>2. CASE usable # {}
    <3>1. PICK first \in usable : first = Min(usable) /\ \A k \in usable : first <= k
      BY <2>2, <1>9
    <3>2. \A j \in DOMAIN Order : j < first => j \notin usable
      BY <3>1, <1>8
    <3>3. first \in DOMAIN Order /\ told'.value = Order[first]
      BY <2>2, <3>1, <1>6, <1>8
    <3>. QED
      BY <3>1, <3>2, <3>3, <1>4, <1>7 DEF PreferredFirst, Exists
  <2>. QED
    BY <2>1, <2>2
<1>. QED
  BY <1>1, <1>2, <1>10 DEF AddressingKept

----------------------------------------------------------------------------
(* A wait.                                                                 *)

Waits == [for : {"connected", "addressed"}, name : Names, expired : BOOLEAN]

LEMMA WaitingFor ==
  ASSUME AddressingTypeOK, Waiting
  PROVE  wait \in Waits
BY DEF AddressingTypeOK, Waiting, Waits

LEMMA BeginWaitKept ==
  ASSUME AddressingKept, NEW n \in Names, NEW for \in {"connected", "addressed"}, BeginWait(n, for)
  PROVE  AddressingKept'
<1>1. AddressingTypeOK' /\ StaticSound'
  BY DEF BeginWait, BeginWait_AnyKind, AddressingKept, AddressingTypeOK, StaticSound
<1>2. told'.what \notin Promises
  BY DEF BeginWait, BeginWait_AnyKind, Nothing, Promises
<1>. QED
  BY <1>1, <1>2, SilentKept DEF AddressingKept

LEMMA LoopTurnKept ==
  ASSUME AddressingKept, LoopTurn
  PROVE  AddressingKept'
<1>1. wait \in Waits
  BY WaitingFor DEF LoopTurn, AddressingKept
<1>2. UNCHANGED <<interfaces, configured, preferred>>
  BY DEF LoopTurn
<1>3. CASE Turn = "sleep"
  <2>1. UNCHANGED <<wait, told>>
    BY <1>3 DEF LoopTurn
  <2>. QED
    BY <1>2, <2>1, ToldKept DEF AddressingKept, AddressingTypeOK, StaticSound
<1>4. CASE Turn # "sleep"
  <2>1. wait' = NoWait /\ told' = [what |-> "waited", value |-> Turn, of |-> wait]
    BY <1>4 DEF LoopTurn
  <2>2. AddressingTypeOK' /\ StaticSound'
    BY <1>2, <2>1 DEF AddressingKept, AddressingTypeOK, StaticSound, NoWait
  <2>3. LeaseSound' /\ PreferredFirst'
    BY <2>1 DEF LeaseSound, PreferredFirst
  <2>4. WaitHonest'
    <3>1. SUFFICES ASSUME Turn \in {"true", "false"}
                   PROVE  LET saw == interfaces[wait.name]
                          IN  /\ saw # Gone
                              /\ (Turn = "true") = (IF wait.for = "connected" THEN saw.connected ELSE saw.addressed)
                              /\ Turn = "false" => wait.expired \/ saw.dhcp_status = "failed"
      BY <1>2, <2>1 DEF WaitHonest
    <3>2. LookedAt = "ok"
      <4>1. LookedAt \in {"ok", "E972", "E980"}
        BY DEF LookedAt, Required, Validated
      <4>. QED
        BY <3>1, <4>1 DEF Turn
    <3>3. Exists(wait.name)
      BY <3>2 DEF LookedAt, Required, Validated
    <3>4. interfaces[wait.name] \in InterfaceStates
      BY <1>1, <3>3 DEF Exists, AddressingKept, AddressingTypeOK, Waits
    <3>5. interfaces[wait.name].connected \in BOOLEAN /\ interfaces[wait.name].addressed \in BOOLEAN /\ wait.expired \in BOOLEAN
      BY <1>1, <3>4 DEF InterfaceStates, Waits
    <3>6. Turn = IF Arrived THEN "true" ELSE IF GivesUp THEN "false" ELSE "sleep"
      BY <3>2 DEF Turn
    <3>7. Arrived \in BOOLEAN
      BY <3>5 DEF Arrived
    <3>8. (Turn = "true") = Arrived /\ (Turn = "false" => GivesUp)
      BY <3>1, <3>6, <3>7
    <3>. QED
      BY <3>3, <3>8, Zenon DEF Exists, Arrived, GivesUp
  <2>. QED
    BY <2>2, <2>3, <2>4 DEF AddressingKept
<1>. QED
  BY <1>3, <1>4

LEMMA DeadlineKept ==
  ASSUME AddressingKept, DeadlinePasses
  PROVE  AddressingKept'
<1>1. wait \in Waits
  BY WaitingFor DEF DeadlinePasses, AddressingKept
<1>2. UNCHANGED <<interfaces, configured, preferred, told>> /\ wait' = [wait EXCEPT !.expired = TRUE]
  BY DEF DeadlinePasses
<1>3. wait' \in Waits /\ wait'.for = wait.for /\ wait'.name = wait.name
  BY <1>1, <1>2 DEF Waits
<1>4. AddressingTypeOK' /\ StaticSound'
  BY <1>2, <1>3 DEF AddressingKept, AddressingTypeOK, StaticSound, Waits
<1>. QED
  BY <1>2, <1>4, ToldKept DEF AddressingKept

----------------------------------------------------------------------------

LEMMA InterfaceChangesKept ==
  ASSUME AddressingKept, NEW n \in Names, InterfaceChanges(n)
  PROVE  AddressingKept'
<1>1. interfaces' \in [Names -> InterfaceStates \cup {Gone}]
  BY AddressingAssumption DEF InterfaceChanges, AddressingKept, AddressingTypeOK
<1>2. AddressingTypeOK' /\ StaticSound'
  BY <1>1 DEF InterfaceChanges, AddressingKept, AddressingTypeOK, StaticSound
<1>3. told'.what \notin Promises
  BY DEF InterfaceChanges, Nothing, Promises
<1>. QED
  BY <1>2, <1>3, SilentKept DEF AddressingKept

LEMMA LooksKept ==
  ASSUME AddressingKept,
         \/ \E n \in Names : Inspect(n, AllKinds) \/ Inspect(n, {"wifi"})
         \/ \E kind \in {"ethernet", "wifi"} : OpenKind(kind)
         \/ \E names \in Preferences : SetPreferred(names)
  PROVE  AddressingKept'
<1>1. told'.what \notin Promises /\ configured' = NoConfiguration /\ UNCHANGED <<interfaces, wait>>
  BY DEF Inspect, OpenKind, SetPreferred, Tells, Promises
<1>2. preferred' \in Seq(Names)
  BY AddressingAssumption DEF Inspect, OpenKind, SetPreferred, AddressingKept, AddressingTypeOK
<1>. QED
  BY <1>1, <1>2, TellsOnly, SilentKept DEF AddressingKept

LEMMA AddressingInitially == AddressingInit => AddressingKept
<1>. SUFFICES ASSUME AddressingInit PROVE AddressingKept
  OBVIOUS
<1>1. AddressingTypeOK /\ StaticSound
  BY DEF AddressingInit, AddressingTypeOK, StaticSound, InterfaceStates, AddressModes, DhcpStates, NoWait
<1>2. LeaseSound /\ WaitHonest /\ PreferredFirst
  BY DEF AddressingInit, Nothing, LeaseSound, WaitHonest, PreferredFirst
<1>. QED
  BY <1>1, <1>2 DEF AddressingKept

LEMMA AddressingPreserved == AddressingKept /\ [AddressingNext]_addressingVars => AddressingKept'
<1>. SUFFICES ASSUME AddressingKept, [AddressingNext]_addressingVars PROVE AddressingKept'
  OBVIOUS
<1>1. CASE UNCHANGED addressingVars
  BY <1>1, ToldKept DEF addressingVars, AddressingKept, AddressingTypeOK, StaticSound
<1>2. ASSUME NEW n \in Names,
             \/ UseDhcp(n) \/ UseLinkLocal(n)
             \/ \E needsDhcp \in BOOLEAN : Adjust(n, needsDhcp)
             \/ \E c \in StaticConfigurations : SetStatic(n, c)
             \/ \E lease \in Leases : DhcpLease(n, lease)
             \/ \E for \in {"connected", "addressed"} : BeginWait(n, for)
             \/ InterfaceChanges(n)
      PROVE AddressingKept'
  BY <1>2, ModesKept, AdjustKept, SetStaticKept, DhcpLeaseKept, BeginWaitKept, InterfaceChangesKept
<1>. QED
  BY <1>1, <1>2, LooksKept, PreferredKept, LoopTurnKept, DeadlineKept DEF AddressingNext

\* Every step of network_status, the address modes, network_dhcp_lease, the waits and the
\* preferred interfaces keeps AddressingKept, for any interfaces of any kinds, whatever
\* the adapter reports: the adapter is only given configurations whose parts fit, and what
\* a program is told is so of the interface that was looked at.
THEOREM AddressingAlwaysKept == AddressingInit /\ [][AddressingNext]_addressingVars => []AddressingKept
BY AddressingInitially, AddressingPreserved, PTL
===============================================================================
