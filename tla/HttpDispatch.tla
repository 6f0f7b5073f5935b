----------------------------- MODULE HttpDispatch -----------------------------
(***************************************************************************)
(* Interpreter.dispatch_http of reference/separan/interpreter.py and the   *)
(* request and response built-ins of reference/separan/http_server.py, run *)
(* by one handler at a time (the gateway, AWS Lambda) or by the threads of *)
(* the ThreadingHTTPServer of http_host, which share one interpreter: its  *)
(* current environment and its current request are two attributes that     *)
(* every dispatch and every call saves, sets and restores.                 *)
(*                                                                         *)
(* Threads are interleaved between statements; Python may switch inside    *)
(* one as well.  A request is a number, and stands for its method, path,   *)
(* parameters, headers and body; of a variable or a cookie the model keeps *)
(* which request set it.                                                   *)
(*                                                                         *)
(* An operator named X_Mistake is X with one mistake in it; no action uses *)
(* it, it shows which property would notice.                               *)
(***************************************************************************)
EXTENDS Naturals, Sequences, FiniteSets

CONSTANTS
  Handlers,      \* the threads that serve
  NumRequests,   \* bound: requests that arrive
  MaxFrames      \* bound: environments one request creates

ASSUME BoundsAssumption == NumRequests \in Nat /\ MaxFrames \in Nat \ {0}
ASSUME HandlersAssumption == IsFiniteSet(Handlers)

Requests == 1..NumRequests
\* An Environment is named by the request and the number of its creation.
Globals == <<0, 0>>
Environments == (Requests \X (1..MaxFrames)) \cup {Globals}

VARIABLES
  environment, context,  \* of the interpreter: an environment; a request, 0 for None
  variables,             \* environment -> requests whose code assigned a variable in it
  cookies,               \* request -> the response_cookies of its context, by setter
  serving,               \* handler -> the request it serves, 0 for none
  frames,                \* handler -> its route and calls: own environment, and saved values
  arrived,               \* requests so far
  made,                  \* request -> environments it has created
  response,              \* request -> its response
  \* history
  saw,                   \* request -> requests its code has inspected
  baked                  \* request -> it has set a cookie

interpreter == <<environment, context, variables, cookies>>
handling    == <<serving, frames, arrived, made>>
vars        == <<interpreter, handling, response, saw, baked>>

Response(kind, set) == [kind |-> kind, cookies |-> set]
NoResponse == Response("none", {})
Kinds == {"none", "returned", "redirect", "empty", "static", "closed"}

Frame(own, env, ctx) == [own |-> own, environment |-> env, context |-> ctx]
Top(h) == frames[h][Len(frames[h])]
Route(h) == frames[h][1]
Busy(h) == serving[h] # 0

\* Environment(self.globals): its parent is the globals, and nothing is in it.
RouteEnvironment_Shared(n) == Globals
RouteEnvironment(n) == <<n, made[n] + 1>>
CallEnvironment(n) == <<n, made[n] + 1>>
Made(n) == made' = [made EXCEPT ![n] = made[n] + 1]

----------------------------------------------------------------------------
\* A request that no route matches is a static file or a 404, both without the
\* interpreter's state.
Unrouted(h) ==
  /\ ~Busy(h) /\ arrived < NumRequests
  /\ arrived' = arrived + 1
  /\ response' = [response EXCEPT ![arrived + 1] = Response("static", {})]
  /\ UNCHANGED <<interpreter, serving, frames, made, saw, baked>>

\* dispatch_http up to the route's body: both attributes are saved and set, and
\* the context starts without response cookies.
FreshCookies_Kept(n) == [cookies EXCEPT ![n] = IF n = 1 THEN {} ELSE cookies[n - 1]]
FreshCookies(n) == [cookies EXCEPT ![n] = {}]

Dispatch(h) ==
  /\ ~Busy(h) /\ arrived < NumRequests
  /\ LET n == arrived + 1
     IN  /\ arrived' = n
         /\ serving' = [serving EXCEPT ![h] = n]
         /\ frames' = [frames EXCEPT ![h] = <<Frame(RouteEnvironment(n), environment, context)>>]
         /\ environment' = RouteEnvironment(n) /\ context' = n
         /\ cookies' = FreshCookies(n)
         /\ Made(n)
  /\ UNCHANGED <<variables, response, saw, baked>>

\* request_method, request_param and the others, through _context.
Inspect(h) ==
  /\ Busy(h) /\ context # 0
  /\ saw' = [saw EXCEPT ![serving[h]] = saw[serving[h]] \cup {context}]
  /\ UNCHANGED <<interpreter, handling, response, baked>>

\* http_set_cookie.
SetCookie(h) ==
  /\ Busy(h) /\ context # 0
  /\ cookies' = [cookies EXCEPT ![context] = cookies[context] \cup {serving[h]}]
  /\ baked' = [baked EXCEPT ![serving[h]] = TRUE]
  /\ UNCHANGED <<environment, context, variables, handling, response, saw>>

\* Environment.assign binds in the current environment, never in its parent.
Assign(h) ==
  /\ Busy(h)
  /\ variables' = [variables EXCEPT ![environment] = variables[environment] \cup {serving[h]}]
  /\ UNCHANGED <<environment, context, cookies, handling, response, saw, baked>>

\* _call: the arguments are assigned in the new environment.
Call(h) ==
  /\ Busy(h)
  /\ LET n == serving[h]
     IN  /\ made[n] < MaxFrames /\ Made(n)
         /\ frames' = [frames EXCEPT ![h] =
                         Append(frames[h], Frame(CallEnvironment(n), environment, context))]
         /\ environment' = CallEnvironment(n)
         /\ variables' = [variables EXCEPT ![CallEnvironment(n)] = {n}]
  /\ UNCHANGED <<context, cookies, serving, arrived, response, saw, baked>>

\* The end of a function or its return: finally restores the environment.
AfterCall_Kept(h) == environment
AfterCall(h) == Top(h).environment
InCall_OrRoute(h) == Busy(h) /\ frames[h] # <<>>
InCall(h) == Busy(h) /\ Len(frames[h]) > 1
ReturnCall(h) ==
  /\ InCall(h)
  /\ environment' = AfterCall(h)
  /\ frames' = [frames EXCEPT ![h] = SubSeq(frames[h], 1, Len(frames[h]) - 1)]
  /\ UNCHANGED <<context, variables, cookies, serving, arrived, made, response, saw, baked>>

\* The route is left from any depth: every finally runs, that of dispatch_http
\* last, and it restores both attributes.
Restored_EnvironmentOnly(h) == environment' = Route(h).environment /\ UNCHANGED context
Restored(h) == environment' = Route(h).environment /\ context' = Route(h).context
Leave(h, answer) ==
  /\ Restored(h)
  /\ response' = [response EXCEPT ![serving[h]] = answer]
  /\ serving' = [serving EXCEPT ![h] = 0]
  /\ frames' = [frames EXCEPT ![h] = <<>>]
  /\ UNCHANGED <<variables, cookies, arrived, made, saw, baked>>

\* return_http takes the cookies of the current context.
ReturnHttp(h) ==
  Busy(h) /\ context # 0 /\ Leave(h, Response("returned", cookies[context]))

\* redirect_http, and the end of the body: a response built without cookies.
Redirect(h)  == Busy(h) /\ Leave(h, Response("redirect", {}))
EndOfBody(h) == Busy(h) /\ Len(frames[h]) = 1 /\ Leave(h, Response("empty", {}))

\* An error nothing catches ends the handler's connection without a response.
Fail(h) == Busy(h) /\ Leave(h, Response("closed", {}))

----------------------------------------------------------------------------
Init ==
  /\ environment = Globals /\ context = 0
  /\ variables = [e \in Environments |-> {}]
  /\ cookies = [n \in Requests |-> {}]
  /\ serving = [h \in Handlers |-> 0] /\ frames = [h \in Handlers |-> <<>>]
  /\ arrived = 0 /\ made = [n \in Requests |-> 0]
  /\ response = [n \in Requests |-> NoResponse]
  /\ saw = [n \in Requests |-> {}] /\ baked = [n \in Requests |-> FALSE]

Next == \E h \in Handlers :
  \/ Unrouted(h) \/ Dispatch(h) \/ Inspect(h) \/ SetCookie(h) \/ Assign(h)
  \/ Call(h) \/ ReturnCall(h) \/ ReturnHttp(h) \/ Redirect(h) \/ EndOfBody(h) \/ Fail(h)

Spec == Init /\ [][Next]_vars

----------------------------------------------------------------------------
\* Every variable has its type, and who serves has a route.
TypeOK ==
  /\ environment \in Environments /\ context \in 0..NumRequests
  /\ variables \in [Environments -> SUBSET Requests]
  /\ cookies \in [Requests -> SUBSET Requests]
  /\ serving \in [Handlers -> 0..NumRequests]
  /\ frames \in [Handlers -> Seq([own : Environments, environment : Environments,
                                  context : 0..NumRequests])]
  /\ \A h \in Handlers : Busy(h) <=> frames[h] # <<>>
  /\ arrived \in 0..NumRequests /\ made \in [Requests -> 0..MaxFrames]
  /\ response \in [Requests -> [kind : Kinds, cookies : SUBSET Requests]]
  /\ saw \in [Requests -> SUBSET Requests] /\ baked \in [Requests -> BOOLEAN]

\* "request_method, request_path, ... inspect the active request"
\* (spec/http-server.md): the code of a route sees its own request only.
ReadsOwn == \A n \in Requests : saw[n] \subseteq {n}

\* A variable belongs to one request, and none of a route becomes global, however
\* calls return, fail or leave the route from inside.
ScopesOwn ==
  /\ variables[Globals] = {}
  /\ \A e \in Environments \ {Globals} : variables[e] \subseteq {e[1]}

\* The running code is in its own environment: that of its innermost call.
InOwnScope == \A h \in Handlers : Busy(h) => environment = Top(h).own

\* When nothing is served the interpreter is as it was before the first request.
IdleClean == (\A h \in Handlers : ~Busy(h)) => environment = Globals /\ context = 0

Baked(n) == IF baked[n] THEN {n} ELSE {}
\* A response made by return_http carries the cookies its own route set, all of
\* them and no other's.
CookiesWhole ==
  \A n \in Requests : response[n].kind = "returned" => response[n].cookies = Baked(n)

\* The two of a route and its scopes together: whatever code runs is in its own
\* environment, and the interpreter is as before when it has left.
ScopeRestored == InOwnScope /\ IdleClean

\* The two of what a request leaves behind together: variables and cookies are its own.
NothingCarriedOver == ScopesOwn /\ CookiesWhole

\* "http_set_cookie adds a response cookie" (spec/http-server.md): whichever way
\* the route makes its response.
CookiesSent ==
  \A n \in Requests :
    response[n].kind \in {"returned", "redirect", "empty"} => response[n].cookies = Baked(n)
=============================================================================
