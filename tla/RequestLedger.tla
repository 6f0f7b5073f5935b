---------------------------- MODULE RequestLedger ----------------------------
(***************************************************************************)
(* What a gateway connection promises to the web server in front of it     *)
(* ("Each adapter must preserve one request/one response semantics",       *)
(* docs/separan-gw.md): a request is opened once, answered at most once,   *)
(* and the answer the web server credits to it is the one written for it.  *)
(* FastcgiStream implements this specification while clients never abort.  *)
(***************************************************************************)
EXTENDS Naturals

CONSTANT Requests      \* the requests a web server may ever open

VARIABLE stage         \* how far each request has come
vars == <<stage>>

Stages == {"unopened", "open", "answered", "delivered"}

Init == stage = [n \in Requests |-> "unopened"]

\* A request moves one stage at a time and never back.
Advance(n, from, to) == /\ stage[n] = from
                        /\ stage' = [stage EXCEPT ![n] = to]

Open(n)    == Advance(n, "unopened", "open")
Answer(n)  == Advance(n, "open", "answered")
Deliver(n) == Advance(n, "answered", "delivered")

Next == \E n \in Requests : Open(n) \/ Answer(n) \/ Deliver(n)

Spec == Init /\ [][Next]_vars
=============================================================================
