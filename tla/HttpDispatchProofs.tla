-------------------------- MODULE HttpDispatchProofs --------------------------
(***************************************************************************)
(* Proofs about HttpDispatch for any number of requests and calls: its     *)
(* type invariant for any set of handlers, and, for a host that serves one *)
(* request at a time, that the two attributes of the interpreter always    *)
(* belong to the request being served.                                     *)
(*                                                                         *)
(* The values an interpreter restores are not history but saved state, so  *)
(* the invariant describes the whole stack: what each call saved is what   *)
(* the call below it owns, and what the route saved is the idle state.     *)
(***************************************************************************)
EXTENDS HttpDispatch, SequenceTheorems, TLAPS

----------------------------------------------------------------------------
(* The type invariant.                                                     *)

FrameSet == [own : Environments, environment : Environments, context : 0..NumRequests]

\* A request that has not arrived is not served and has created nothing.
Unmade  == /\ \A n \in Requests : n > arrived => made[n] = 0
           /\ \A h \in Handlers : serving[h] <= arrived
TypeInv == TypeOK /\ Unmade

\* A route or a call never reaches the bound with its first environment.
LEMMA EnvironmentTypes ==
  /\ Globals \in Environments
  /\ \A n \in Requests, k \in 1..MaxFrames : <<n, k>> \in Environments
  BY DEF Environments

LEMMA TypeInit == Init => TypeInv
<1>. SUFFICES ASSUME Init PROVE TypeInv
  OBVIOUS
<1>1. frames \in [Handlers -> Seq(FrameSet)] /\ \A h \in Handlers : Busy(h) <=> frames[h] # <<>>
  BY EmptySeq DEF Init, Busy
<1>2. /\ environment \in Environments /\ context \in 0..NumRequests
      /\ serving \in [Handlers -> 0..NumRequests] /\ arrived \in 0..NumRequests
      /\ made \in [Requests -> 0..MaxFrames] /\ Unmade
  BY EnvironmentTypes, BoundsAssumption DEF Init, Unmade
<1>3. /\ variables \in [Environments -> SUBSET Requests]
      /\ cookies \in [Requests -> SUBSET Requests]
      /\ saw \in [Requests -> SUBSET Requests] /\ baked \in [Requests -> BOOLEAN]
  BY DEF Init
<1>4. response \in [Requests -> [kind : Kinds, cookies : SUBSET Requests]]
  BY DEF Init, NoResponse, Response, Kinds
<1>. QED
  BY <1>1, <1>2, <1>3, <1>4 DEF TypeInv, TypeOK, FrameSet

LEMMA Counters ==
  ASSUME TypeInv
  PROVE  /\ arrived \in Nat /\ serving \in [Handlers -> 0..NumRequests]
         /\ made \in [Requests -> 0..MaxFrames] /\ Requests \subseteq Nat \ {0}
         /\ \A n \in Requests : n > arrived => made[n] = 0
         /\ \A h \in Handlers : serving[h] <= arrived
         /\ NumRequests \in Nat /\ MaxFrames \in Nat \ {0}
  BY BoundsAssumption DEF TypeInv, TypeOK, Unmade, Requests

\* The innermost and the outermost frame of a handler that serves.
LEMMA Innermost ==
  ASSUME TypeOK, NEW h \in Handlers, Busy(h)
  PROVE  /\ serving[h] \in Requests
         /\ frames[h] \in Seq(FrameSet) /\ Len(frames[h]) \in Nat \ {0}
         /\ Top(h) \in FrameSet /\ Route(h) \in FrameSet
<1>1. serving[h] \in Requests
  BY BoundsAssumption DEF TypeOK, Busy, Requests
<1>2. frames[h] \in Seq(FrameSet) /\ frames[h] # <<>>
  BY DEF TypeOK, FrameSet
<1>3. Len(frames[h]) \in Nat \ {0}
  BY <1>2, EmptySeq, LenProperties
<1>. QED
  BY <1>1, <1>2, <1>3, ElementOfSeq DEF Top, Route

\* The bookkeeping of a step that leaves the frames alone.
LEMMA FramesKept ==
  ASSUME TypeOK, UNCHANGED <<serving, frames>>
  PROVE  /\ frames' \in [Handlers -> Seq(FrameSet)]
         /\ \A g \in Handlers : (Busy(g) <=> frames[g] # <<>>)'
  BY DEF TypeOK, FrameSet, Busy

\* A stack a call was pushed on, or popped from below the top of, is not empty.
LEMMA AppendedNotEmpty ==
  ASSUME NEW S, NEW s \in Seq(S), NEW e \in S
  PROVE  Append(s, e) # <<>>
  BY AppendProperties

LEMMA ShorterNotEmpty ==
  ASSUME NEW S, NEW s \in Seq(S), NEW t \in Seq(S), Len(s) > 1, Len(t) = Len(s) - 1
  PROVE  t # <<>>
<1>1. Len(s) \in Nat /\ Len(t) # 0
  BY LenProperties
<1>. QED
  BY <1>1

LEMMA TypeUnrouted ==
  ASSUME TypeInv, NEW h \in Handlers, Unrouted(h)
  PROVE  TypeInv'
<1>. USE DEF TypeInv, TypeOK
<1>1. arrived + 1 \in Requests /\ arrived' = arrived + 1 /\ arrived' \in 0..NumRequests
  BY BoundsAssumption DEF Unrouted, Requests
<1>2. response' \in [Requests -> [kind : Kinds, cookies : SUBSET Requests]]
  BY <1>1 DEF Unrouted, Response, Kinds
<1>3. Unmade'
  <2>. HIDE DEF TypeInv, TypeOK
  <2>. QED
    BY <1>1, Counters DEF Unrouted, Unmade
<1>4. UNCHANGED <<serving, frames>>
  BY DEF Unrouted
<1>. QED
  BY <1>1, <1>2, <1>3, <1>4, FramesKept DEF Unrouted, interpreter, FrameSet

\* What a dispatch and a call are about to create.
LEMMA DispatchFacts ==
  ASSUME TypeInv, NEW h \in Handlers, Dispatch(h)
  PROVE  /\ arrived + 1 \in Requests /\ arrived + 1 # 0 /\ made[arrived + 1] = 0
         /\ RouteEnvironment(arrived + 1) \in Environments
<1>1. arrived + 1 \in Requests /\ arrived + 1 # 0
  BY Counters DEF Dispatch, Requests
<1>2. made[arrived + 1] = 0
  BY <1>1, Counters
<1>. QED
  BY <1>1, <1>2, EnvironmentTypes, Counters DEF RouteEnvironment

LEMMA CallFacts ==
  ASSUME TypeInv, NEW h \in Handlers, Call(h)
  PROVE  /\ Busy(h) /\ serving[h] \in Requests /\ made[serving[h]] + 1 \in 1..MaxFrames
         /\ CallEnvironment(serving[h]) \in Environments
         /\ Frame(CallEnvironment(serving[h]), environment, context) \in FrameSet
         /\ frames[h] \in Seq(FrameSet) /\ Len(frames[h]) \in Nat \ {0}
<1>1. /\ serving[h] \in Requests /\ made[serving[h]] < MaxFrames /\ Busy(h)
      /\ frames[h] \in Seq(FrameSet) /\ Len(frames[h]) \in Nat \ {0}
  BY Innermost DEF Call, TypeInv
<1>2. made[serving[h]] + 1 \in 1..MaxFrames
  BY <1>1, Counters
<1>3. CallEnvironment(serving[h]) \in Environments
  BY <1>1, <1>2, EnvironmentTypes DEF CallEnvironment
<1>4. environment \in Environments /\ context \in 0..NumRequests
  BY DEF TypeInv, TypeOK
<1>. QED
  BY <1>1, <1>2, <1>3, <1>4 DEF Frame, FrameSet

LEMMA TypeDispatch ==
  ASSUME TypeInv, NEW h \in Handlers, Dispatch(h)
  PROVE  TypeInv'
<1>. USE DEF TypeInv, TypeOK
<1>. DEFINE n == arrived + 1
<1>. DEFINE route == Frame(RouteEnvironment(n), environment, context)
<1>1. n \in Requests /\ arrived' = n /\ n \in 0..NumRequests /\ made[n] = 0
  <2>. HIDE DEF TypeInv, TypeOK
  <2>1. n \in Requests /\ made[n] = 0
    BY DispatchFacts
  <2>2. arrived' = n
    BY DEF Dispatch
  <2>3. n \in 0..NumRequests
    <3>. HIDE DEF n
    <3>. QED
      BY <2>1, Counters DEF Requests
  <2>. QED
    BY <2>1, <2>2, <2>3
<1>2. RouteEnvironment(n) \in Environments
  BY DispatchFacts
<1>3. /\ environment' \in Environments /\ context' \in 0..NumRequests
      /\ serving' \in [Handlers -> 0..NumRequests]
  BY <1>1, <1>2 DEF Dispatch
<1>4. made' \in [Requests -> 0..MaxFrames]
  BY <1>1, BoundsAssumption DEF Dispatch, Made
<1>5. Unmade'
  <2>. HIDE DEF TypeInv, TypeOK
  <2>1. \A m \in Requests : m > n => made'[m] = 0
    BY <1>1, Counters DEF Dispatch, Made
  <2>2. \A g \in Handlers : serving'[g] <= n
    BY <1>1, Counters DEF Dispatch
  <2>. QED
    BY <1>1, <2>1, <2>2 DEF Unmade
<1>6. frames' \in [Handlers -> Seq(FrameSet)]
  <2>1. route \in FrameSet
    BY <1>2 DEF Frame, FrameSet
  <2>2. <<route>> \in Seq(FrameSet)
    BY <2>1
  <2>. QED
    BY <2>2 DEF Dispatch, FrameSet
<1>7. \A g \in Handlers : (Busy(g) <=> frames[g] # <<>>)'
  <2>1. frames'[h] = <<route>> /\ serving'[h] = n /\ n # 0
    BY <1>1, BoundsAssumption DEF Dispatch, Requests
  <2>2. \A g \in Handlers \ {h} : frames'[g] = frames[g] /\ serving'[g] = serving[g]
    BY DEF Dispatch
  <2>3. \A g \in Handlers : serving[g] # 0 <=> frames[g] # <<>>
    BY DEF Busy
  <2>4. <<route>> # <<>>
    OBVIOUS
  <2>. HIDE DEF TypeInv, TypeOK, route
  <2>. QED
    BY <2>1, <2>2, <2>3, <2>4 DEF Busy
<1>8. cookies' \in [Requests -> SUBSET Requests]
  BY <1>1 DEF Dispatch, FreshCookies
<1>. QED
  BY <1>1, <1>3, <1>4, <1>5, <1>6, <1>7, <1>8 DEF Dispatch, FrameSet

\* A statement of a route that changes no frame.
LEMMA TypeStatement ==
  ASSUME TypeInv, NEW h \in Handlers, Inspect(h) \/ SetCookie(h) \/ Assign(h)
  PROVE  TypeInv'
<1>. USE DEF TypeInv, TypeOK
<1>1. serving[h] \in Requests
  BY Innermost DEF Inspect, SetCookie, Assign
<1>2. UNCHANGED <<serving, frames, arrived, made, response, environment, context>>
  BY DEF Inspect, SetCookie, Assign, handling, interpreter
<1>3. saw' \in [Requests -> SUBSET Requests] /\ baked' \in [Requests -> BOOLEAN]
  <2>1. CASE Inspect(h)
    <3>1. context \in Requests
      BY <2>1, BoundsAssumption DEF Inspect, Requests
    <3>. QED
      BY <2>1, <3>1, <1>1 DEF Inspect
  <2>2. CASE SetCookie(h)
    BY <2>2, <1>1 DEF SetCookie
  <2>3. CASE Assign(h)
    BY <2>3 DEF Assign
  <2>. QED
    BY <2>1, <2>2, <2>3
<1>4. /\ variables' \in [Environments -> SUBSET Requests]
      /\ cookies' \in [Requests -> SUBSET Requests]
  <2>1. CASE Inspect(h)
    BY <2>1 DEF Inspect, interpreter
  <2>2. CASE SetCookie(h)
    <3>1. context \in Requests
      BY <2>2, BoundsAssumption DEF SetCookie, Requests
    <3>. QED
      BY <2>2, <3>1, <1>1 DEF SetCookie
  <2>3. CASE Assign(h)
    BY <2>3, <1>1 DEF Assign
  <2>. QED
    BY <2>1, <2>2, <2>3
<1>5. Unmade'
  BY <1>2 DEF Unmade
<1>. QED
  BY <1>2, <1>3, <1>4, <1>5, FramesKept DEF FrameSet

LEMMA TypeCall ==
  ASSUME TypeInv, NEW h \in Handlers, Call(h)
  PROVE  TypeInv'
<1>. USE DEF TypeInv, TypeOK
<1>. DEFINE n == serving[h]
<1>. DEFINE call == Frame(CallEnvironment(n), environment, context)
<1>1. n \in Requests /\ made[n] + 1 \in 1..MaxFrames
  BY CallFacts
<1>2. CallEnvironment(n) \in Environments /\ call \in FrameSet /\ frames[h] \in Seq(FrameSet)
  BY CallFacts
<1>3. environment' \in Environments /\ variables' \in [Environments -> SUBSET Requests]
  BY <1>1, <1>2 DEF Call
<1>4. made' \in [Requests -> 0..MaxFrames]
  BY <1>1, BoundsAssumption DEF Call, Made
<1>5. Unmade'
  <2>. HIDE DEF TypeInv, TypeOK
  <2>1. n <= arrived
    BY Counters
  <2>2. \A m \in Requests : m > arrived => made'[m] = 0
    BY <1>1, <2>1, Counters DEF Call, Made
  <2>. QED
    BY <2>2, Counters DEF Call, Unmade
<1>6. frames' \in [Handlers -> Seq(FrameSet)]
  <2>1. Append(frames[h], call) \in Seq(FrameSet)
    BY <1>2, AppendProperties
  <2>. QED
    BY <2>1 DEF Call, FrameSet
<1>7. \A g \in Handlers : (Busy(g) <=> frames[g] # <<>>)'
  <2>1. Append(frames[h], call) # <<>>
    <3>. HIDE DEF call, TypeOK, TypeInv
    <3>. QED
      BY <1>2, AppendedNotEmpty
  <2>2. frames'[h] = Append(frames[h], call) /\ serving' = serving /\ Busy(h)
    BY DEF Call
  <2>3. \A g \in Handlers \ {h} : frames'[g] = frames[g]
    BY DEF Call
  <2>. QED
    BY <2>1, <2>2, <2>3 DEF Busy
<1>. QED
  BY <1>1, <1>3, <1>4, <1>5, <1>6, <1>7 DEF Call, FrameSet

LEMMA TypeReturnCall ==
  ASSUME TypeInv, NEW h \in Handlers, ReturnCall(h)
  PROVE  TypeInv'
<1>. USE DEF TypeInv, TypeOK
<1>. DEFINE rest == SubSeq(frames[h], 1, Len(frames[h]) - 1)
<1>1. /\ Busy(h) /\ Len(frames[h]) > 1 /\ frames[h] \in Seq(FrameSet)
      /\ Top(h) \in FrameSet
  BY Innermost DEF ReturnCall, InCall
<1>2. rest \in Seq(FrameSet) /\ Len(rest) = Len(frames[h]) - 1
  BY <1>1, ElementOfSeq, SubSeqProperties, LenProperties
<1>. HIDE DEF rest
<1>3. rest # <<>>
  BY <1>1, <1>2, ShorterNotEmpty
<1>. USE DEF rest
<1>4. environment' \in Environments
  BY <1>1 DEF ReturnCall, AfterCall, FrameSet
<1>5. frames' \in [Handlers -> Seq(FrameSet)]
  BY <1>2 DEF ReturnCall, FrameSet
<1>6. \A g \in Handlers : (Busy(g) <=> frames[g] # <<>>)'
  <2>1. frames'[h] = rest /\ serving' = serving
    BY DEF ReturnCall
  <2>2. \A g \in Handlers \ {h} : frames'[g] = frames[g]
    BY DEF ReturnCall
  <2>. QED
    BY <1>1, <1>3, <2>1, <2>2 DEF Busy
<1>7. Unmade'
  BY DEF ReturnCall, Unmade
<1>. QED
  BY <1>4, <1>5, <1>6, <1>7 DEF ReturnCall, FrameSet

\* Every way to leave the route.
LEMMA TypeLeave ==
  ASSUME TypeInv, NEW h \in Handlers, Busy(h), NEW answer,
         answer \in [kind : Kinds, cookies : SUBSET Requests], Leave(h, answer)
  PROVE  TypeInv'
<1>. USE DEF TypeInv, TypeOK
<1>1. serving[h] \in Requests /\ Route(h) \in FrameSet
  BY Innermost
<1>2. environment' \in Environments /\ context' \in 0..NumRequests
  BY <1>1 DEF Leave, Restored, FrameSet
<1>3. response' \in [Requests -> [kind : Kinds, cookies : SUBSET Requests]]
  BY <1>1 DEF Leave
<1>4. serving' \in [Handlers -> 0..NumRequests]
  BY BoundsAssumption DEF Leave
<1>5. frames' \in [Handlers -> Seq(FrameSet)]
  BY EmptySeq DEF Leave, FrameSet
<1>6. \A g \in Handlers : (Busy(g) <=> frames[g] # <<>>)'
  <2>1. frames'[h] = <<>> /\ serving'[h] = 0
    BY DEF Leave
  <2>2. \A g \in Handlers \ {h} : frames'[g] = frames[g] /\ serving'[g] = serving[g]
    BY DEF Leave
  <2>. QED
    BY <2>1, <2>2 DEF Busy
<1>7. Unmade'
  BY BoundsAssumption DEF Leave, Unmade
<1>. QED
  BY <1>2, <1>3, <1>4, <1>5, <1>6, <1>7 DEF Leave, FrameSet

\* The answer each way to leave ends with.
LEMMA LeavesWith ==
  ASSUME TypeOK, NEW h \in Handlers,
         ReturnHttp(h) \/ Redirect(h) \/ EndOfBody(h) \/ Fail(h)
  PROVE  /\ Busy(h)
         /\ \E answer \in [kind : Kinds, cookies : SUBSET Requests] :
              /\ Leave(h, answer)
              /\ answer.kind = "returned" => context # 0 /\ answer.cookies = cookies[context]
<1>1. CASE ReturnHttp(h)
  <2>1. context \in Requests
    BY <1>1, BoundsAssumption DEF ReturnHttp, TypeOK, Requests
  <2>2. Response("returned", cookies[context]) \in [kind : Kinds, cookies : SUBSET Requests]
    BY <2>1 DEF TypeOK, Response, Kinds
  <2>. QED
    BY <1>1, <2>2 DEF ReturnHttp, Response
<1>2. CASE Redirect(h)
  BY <1>2 DEF Redirect, Response, Kinds
<1>3. CASE EndOfBody(h)
  BY <1>3 DEF EndOfBody, Response, Kinds
<1>4. CASE Fail(h)
  BY <1>4 DEF Fail, Response, Kinds
<1>. QED
  BY <1>1, <1>2, <1>3, <1>4

LEMMA TypeStep == TypeInv /\ [Next]_vars => TypeInv'
<1>. SUFFICES ASSUME TypeInv, [Next]_vars PROVE TypeInv'
  OBVIOUS
<1>1. ASSUME NEW h \in Handlers, Unrouted(h) PROVE TypeInv'
  BY <1>1, TypeUnrouted
<1>2. ASSUME NEW h \in Handlers, Dispatch(h) PROVE TypeInv'
  BY <1>2, TypeDispatch
<1>3. ASSUME NEW h \in Handlers, Inspect(h) \/ SetCookie(h) \/ Assign(h) PROVE TypeInv'
  BY <1>3, TypeStatement
<1>4. ASSUME NEW h \in Handlers, Call(h) PROVE TypeInv'
  BY <1>4, TypeCall
<1>5. ASSUME NEW h \in Handlers, ReturnCall(h) PROVE TypeInv'
  BY <1>5, TypeReturnCall
<1>6. ASSUME NEW h \in Handlers, ReturnHttp(h) \/ Redirect(h) \/ EndOfBody(h) \/ Fail(h)
      PROVE  TypeInv'
  <2>1. Busy(h) /\ \E answer \in [kind : Kinds, cookies : SUBSET Requests] : Leave(h, answer)
    BY <1>6, LeavesWith DEF TypeInv
  <2>. QED
    BY <2>1, TypeLeave
<1>7. CASE UNCHANGED vars
  BY <1>7 DEF vars, interpreter, handling, TypeInv, TypeOK, Unmade, Busy
<1>. QED
  BY <1>1, <1>2, <1>3, <1>4, <1>5, <1>6, <1>7 DEF Next

\* Every variable of the dispatch keeps its type, whatever handlers share the
\* interpreter, and who serves has a route.
THEOREM TypeCorrect == Spec => []TypeOK
<1>1. TypeInv => TypeOK
  BY DEF TypeInv
<1>. QED
  BY <1>1, TypeInit, TypeStep, PTL DEF Spec

----------------------------------------------------------------------------
(* One request at a time.                                                  *)

\* What the interpreter holds is what the innermost call owns, and each frame
\* has saved what the frame under it owns; the route has saved the idle state.
Held(h) ==
  IF Busy(h) THEN environment = Top(h).own /\ context = serving[h]
             ELSE environment = Globals /\ context = 0
Owned(h) == \A k \in 1..Len(frames[h]) :
              frames[h][k].own \in Environments \ {Globals} /\ frames[h][k].own[1] = serving[h]
Saved(h) == \A k \in 1..Len(frames[h]) :
              IF k = 1 THEN frames[h][k].environment = Globals /\ frames[h][k].context = 0
              ELSE frames[h][k].environment = frames[h][k - 1].own
                   /\ frames[h][k].context = serving[h]

ScopeInv(h) == Held(h) /\ Owned(h) /\ Saved(h)

\* The context of a request holds the cookies its own code set; a request that
\* is served or has not arrived has no response, and one that has not arrived
\* has set no cookie.
Jar        == \A n \in Requests : cookies[n] = Baked(n) /\ (n > arrived => ~baked[n])
Pending(h) == \A n \in Requests : n > arrived \/ n = serving[h] => response[n].kind = "none"
DataInv(h) == ScopesOwn /\ ReadsOwn /\ Jar /\ Pending(h) /\ CookiesWhole

OneInv(h) == TypeInv /\ ScopeInv(h) /\ DataInv(h)

LEMMA OwnEnvironment ==
  ASSUME TypeInv, NEW n \in Requests, NEW k
  PROVE  <<n, k>> # Globals /\ <<n, k>>[1] = n
  BY Counters DEF Globals

\* The types of a stack, without the rest of the invariant.
LEMMA StackTypes ==
  ASSUME TypeInv, NEW h \in Handlers
  PROVE  frames[h] \in Seq(FrameSet) /\ (Busy(h) <=> frames[h] # <<>>)
  BY DEF TypeInv, TypeOK, FrameSet

LEMMA ScopeInit ==
  ASSUME Init, NEW h \in Handlers
  PROVE  ScopeInv(h)
<1>1. serving[h] = 0 /\ frames[h] = <<>> /\ environment = Globals /\ context = 0
  BY DEF Init
<1>2. Len(frames[h]) = 0
  BY <1>1, EmptySeq
<1>. QED
  BY <1>1, <1>2 DEF ScopeInv, Held, Owned, Saved, Busy

\* Steps that leave both attributes and the stack alone.
LEMMA ScopeKept ==
  ASSUME NEW h \in Handlers, ScopeInv(h),
         UNCHANGED <<environment, context, serving, frames>>
  PROVE  ScopeInv(h)'
<1>1. Held(h)'
  BY DEF ScopeInv, Held, Busy, Top
<1>2. Owned(h)' /\ Saved(h)'
  BY DEF ScopeInv, Owned, Saved
<1>. QED
  BY <1>1, <1>2 DEF ScopeInv

LEMMA ScopeDispatch ==
  ASSUME TypeInv, NEW h \in Handlers, ScopeInv(h), Dispatch(h)
  PROVE  ScopeInv(h)'
<1>. DEFINE n == arrived + 1
<1>. DEFINE route == Frame(RouteEnvironment(n), environment, context)
<1>1. n \in Requests /\ n # 0 /\ RouteEnvironment(n) \in Environments
  BY DispatchFacts
<1>2. /\ frames'[h] = <<route>> /\ serving'[h] = n
      /\ environment' = RouteEnvironment(n) /\ context' = n
  BY DEF Dispatch, TypeInv, TypeOK
<1>3. environment = Globals /\ context = 0
  BY DEF Dispatch, ScopeInv, Held
<1>4. route.own = RouteEnvironment(n) /\ route.environment = Globals /\ route.context = 0
  BY <1>3 DEF Frame
<1>5. RouteEnvironment(n) # Globals /\ RouteEnvironment(n)[1] = n
  BY <1>1, OwnEnvironment DEF RouteEnvironment
<1>. HIDE DEF n, route
<1>6. Len(frames'[h]) = 1 /\ frames'[h][1] = route
  BY <1>2
<1>7. Held(h)'
  BY <1>1, <1>2, <1>4, <1>6 DEF Held, Busy, Top
<1>8. Owned(h)' /\ Saved(h)'
  BY <1>1, <1>2, <1>4, <1>5, <1>6 DEF Owned, Saved
<1>. QED
  BY <1>7, <1>8 DEF ScopeInv

LEMMA ScopeCall ==
  ASSUME TypeInv, NEW h \in Handlers, ScopeInv(h), Call(h)
  PROVE  ScopeInv(h)'
<1>. DEFINE n == serving[h]
            call == Frame(CallEnvironment(n), environment, context)
            stack == frames[h]
            top == Len(stack)
<1>1. /\ Busy(h) /\ n \in Requests /\ stack \in Seq(FrameSet) /\ top \in Nat \ {0}
      /\ CallEnvironment(n) \in Environments /\ call \in FrameSet
  BY CallFacts DEF Call
<1>2. /\ frames'[h] = Append(stack, call) /\ serving'[h] = n
      /\ environment' = CallEnvironment(n) /\ context' = context
  BY DEF Call, TypeInv, TypeOK
<1>3. environment = stack[top].own /\ context = n
  BY <1>1 DEF ScopeInv, Held, Top
<1>4. /\ call.own = CallEnvironment(n) /\ call.environment = stack[top].own
      /\ call.context = n
  BY <1>3 DEF Frame
<1>5. CallEnvironment(n) # Globals /\ CallEnvironment(n)[1] = n
  BY <1>1, OwnEnvironment DEF CallEnvironment
<1>6. Owned(h) /\ Saved(h) /\ n # 0
  BY <1>1 DEF ScopeInv, Busy
<1>. HIDE DEF n, call, stack, top
<1>7. /\ Len(frames'[h]) = top + 1 /\ frames'[h][top + 1] = call
      /\ \A k \in 1..top : frames'[h][k] = stack[k]
  BY <1>1, <1>2, AppendProperties DEF top
<1>8. Held(h)'
  BY <1>2, <1>3, <1>4, <1>6, <1>7 DEF Held, Busy, Top
<1>9. Owned(h)'
  BY <1>1, <1>2, <1>4, <1>5, <1>6, <1>7 DEF Owned, n, stack, top
<1>10. Saved(h)'
  <2>. SUFFICES ASSUME NEW k \in 1..(top + 1)
                PROVE  IF k = 1 THEN frames'[h][k].environment = Globals /\ frames'[h][k].context = 0
                       ELSE frames'[h][k].environment = frames'[h][k - 1].own
                            /\ frames'[h][k].context = n
    BY <1>2, <1>7 DEF Saved
  <2>1. CASE k = top + 1
    <3>1. k # 1 /\ k - 1 = top /\ top \in 1..top
      BY <1>1, <2>1
    <3>. QED
      BY <1>4, <1>7, <2>1, <3>1
  <2>2. CASE k # top + 1
    <3>1. k \in 1..top /\ (k # 1 => k - 1 \in 1..top)
      BY <1>1, <2>2
    <3>. QED
      BY <1>6, <1>7, <3>1 DEF Saved, n, stack, top
  <2>. QED
    BY <2>1, <2>2
<1>. QED
  BY <1>8, <1>9, <1>10 DEF ScopeInv

LEMMA ScopeReturnCall ==
  ASSUME TypeInv, NEW h \in Handlers, ScopeInv(h), ReturnCall(h)
  PROVE  ScopeInv(h)'
<1>. DEFINE stack == frames[h]
            top == Len(stack)
<1>1. Busy(h) /\ stack \in Seq(FrameSet) /\ top \in Nat /\ top > 1
  BY StackTypes, LenProperties DEF ReturnCall, InCall
<1>2. /\ frames'[h] = SubSeq(stack, 1, top - 1) /\ serving' = serving
      /\ environment' = stack[top].environment /\ context' = context
  BY DEF ReturnCall, AfterCall, Top, TypeInv, TypeOK
<1>3. Owned(h) /\ Saved(h) /\ context = serving[h]
  BY <1>1 DEF ScopeInv, Held
<1>4. /\ Len(frames'[h]) = top - 1
      /\ \A k \in 1..(top - 1) : frames'[h][k] = stack[k]
  <2>1. \A k \in 1..(top - 1) : stack[k] \in FrameSet
    BY <1>1, ElementOfSeq
  <2>. HIDE DEF stack, top
  <2>. QED
    BY <1>1, <1>2, <2>1, SubSeqProperties
<1>. HIDE DEF stack, top
<1>5. environment' = stack[top - 1].own
  BY <1>1, <1>2, <1>3 DEF Saved, stack, top
<1>6. Held(h)'
  BY <1>1, <1>2, <1>3, <1>4, <1>5 DEF Held, Busy, Top
<1>7. Owned(h)'
  BY <1>1, <1>2, <1>3, <1>4 DEF Owned, stack, top
<1>8. Saved(h)'
  <2>. SUFFICES ASSUME NEW k \in 1..(top - 1)
                PROVE  IF k = 1 THEN frames'[h][k].environment = Globals /\ frames'[h][k].context = 0
                       ELSE frames'[h][k].environment = frames'[h][k - 1].own
                            /\ frames'[h][k].context = serving[h]
    BY <1>2, <1>4 DEF Saved
  <2>1. k \in 1..top /\ (k # 1 => k - 1 \in 1..(top - 1))
    BY <1>1
  <2>. QED
    BY <1>3, <1>4, <2>1 DEF Saved, stack, top
<1>. QED
  BY <1>6, <1>7, <1>8 DEF ScopeInv

LEMMA ScopeLeave ==
  ASSUME TypeInv, NEW h \in Handlers, ScopeInv(h), Busy(h), NEW answer, Leave(h, answer)
  PROVE  ScopeInv(h)' /\ environment' = Globals /\ context' = 0
<1>1. 1 \in 1..Len(frames[h])
  BY Innermost DEF TypeInv
<1>2. environment' = Globals /\ context' = 0
  BY <1>1 DEF Leave, Restored, Route, ScopeInv, Saved
<1>3. frames'[h] = <<>> /\ serving'[h] = 0
  BY DEF Leave, TypeInv, TypeOK
<1>4. Len(frames'[h]) = 0
  BY <1>3, EmptySeq
<1>. QED
  BY <1>2, <1>3, <1>4 DEF ScopeInv, Held, Owned, Saved, Busy

\* What the data invariant says of Inspect, SetCookie and Assign rests on the
\* attributes being those of the request.
LEMMA HeldNow ==
  ASSUME TypeInv, NEW h \in Handlers, ScopeInv(h), Busy(h)
  PROVE  /\ context = serving[h] /\ serving[h] \in Requests /\ serving[h] <= arrived
         /\ environment \in Environments \ {Globals} /\ environment[1] = serving[h]
<1>1. Len(frames[h]) \in 1..Len(frames[h]) /\ serving[h] \in Requests
  BY Innermost DEF TypeInv
<1>. QED
  BY <1>1, Counters DEF ScopeInv, Held, Owned, Top

LEMMA DataInit ==
  ASSUME Init, NEW h \in Handlers
  PROVE  DataInv(h)
<1>1. ScopesOwn
  BY DEF Init, ScopesOwn, Environments
<1>2. ReadsOwn /\ Jar
  BY DEF Init, ReadsOwn, Jar, Baked
<1>3. Pending(h) /\ CookiesWhole
  BY DEF Init, Pending, CookiesWhole, NoResponse, Response
<1>. QED
  BY <1>1, <1>2, <1>3 DEF DataInv

LEMMA DataUnrouted ==
  ASSUME TypeInv, NEW h \in Handlers, DataInv(h), Unrouted(h)
  PROVE  DataInv(h)'
<1>. USE DEF DataInv
<1>1. ScopesOwn' /\ ReadsOwn'
  BY DEF Unrouted, interpreter, ScopesOwn, ReadsOwn
<1>2. Jar'
  BY Counters DEF Unrouted, interpreter, Jar, Baked
<1>3. response' = [response EXCEPT ![arrived + 1] = Response("static", {})]
  BY DEF Unrouted
<1>4. Pending(h)'
  BY <1>3, Counters DEF Unrouted, Pending, Busy
<1>5. CookiesWhole'
  <2>. SUFFICES ASSUME NEW n \in Requests, response'[n].kind = "returned"
                PROVE  response'[n].cookies = Baked(n)'
    BY DEF CookiesWhole
  <2>1. response'[n] = response[n]
    <3>1. n # arrived + 1
      BY <1>3 DEF Response, TypeInv, TypeOK
    <3>. QED
      BY <1>3, <3>1 DEF TypeInv, TypeOK
  <2>. QED
    BY <2>1 DEF Unrouted, CookiesWhole, Baked
<1>. QED
  BY <1>1, <1>2, <1>4, <1>5

LEMMA DataDispatch ==
  ASSUME TypeInv, NEW h \in Handlers, DataInv(h), Dispatch(h)
  PROVE  DataInv(h)'
<1>. USE DEF DataInv
<1>1. ScopesOwn' /\ ReadsOwn' /\ CookiesWhole'
  BY DEF Dispatch, ScopesOwn, ReadsOwn, CookiesWhole, Baked
<1>2. Jar'
  <2>1. cookies' = [cookies EXCEPT ![arrived + 1] = {}]
    BY DEF Dispatch, FreshCookies
  <2>2. baked' = baked /\ arrived' = arrived + 1 /\ arrived \in Nat
    BY Counters DEF Dispatch
  <2>. SUFFICES ASSUME NEW n \in Requests
                PROVE  cookies'[n] = Baked(n)' /\ (n > arrived' => ~baked'[n])
    BY DEF Jar
  <2>3. cookies[n] = Baked(n) /\ (n > arrived => ~baked[n]) /\ n \in Nat
    BY Counters DEF Jar
  <2>4. CASE n = arrived + 1
    <3>1. ~baked[n] /\ cookies'[n] = {}
      BY <2>1, <2>2, <2>3, <2>4 DEF TypeInv, TypeOK
    <3>. QED
      BY <2>2, <3>1 DEF Baked
  <2>5. CASE n # arrived + 1
    <3>1. cookies'[n] = cookies[n]
      BY <2>1, <2>5 DEF TypeInv, TypeOK
    <3>2. n > arrived + 1 => n > arrived
      BY <2>2, <2>3
    <3>. QED
      BY <2>2, <2>3, <3>1, <3>2 DEF Baked
  <2>. QED
    BY <2>4, <2>5
<1>3. Pending(h)'
  BY Counters DEF Dispatch, Pending
<1>. QED
  BY <1>1, <1>2, <1>3

LEMMA DataStatement ==
  ASSUME TypeInv, NEW h \in Handlers, ScopeInv(h), DataInv(h),
         Inspect(h) \/ SetCookie(h) \/ Assign(h)
  PROVE  DataInv(h)'
<1>. USE DEF DataInv
<1>1. /\ context = serving[h] /\ serving[h] \in Requests /\ serving[h] <= arrived
      /\ environment \in Environments \ {Globals} /\ environment[1] = serving[h]
  BY HeldNow DEF Inspect, SetCookie, Assign
<1>2. CASE Inspect(h)
  <2>1. ReadsOwn'
    BY <1>1, <1>2 DEF Inspect, ReadsOwn, TypeInv, TypeOK
  <2>. QED
    BY <1>2, <2>1 DEF Inspect, interpreter, handling, ScopesOwn, Jar, Pending, CookiesWhole, Baked
<1>3. CASE SetCookie(h)
  <2>1. Jar'
    <3>. DEFINE m == serving[h]
    <3>1. /\ cookies' = [cookies EXCEPT ![m] = cookies[m] \cup {m}]
          /\ baked' = [baked EXCEPT ![m] = TRUE] /\ arrived' = arrived
      BY <1>1, <1>3 DEF SetCookie, handling
    <3>2. cookies[m] \subseteq {m} /\ ~(m > arrived)
      <4>1. m \in Requests /\ m <= arrived /\ arrived \in Nat /\ m \in Nat
        BY <1>1, Counters
      <4>2. cookies[m] = Baked(m)
        BY <4>1 DEF Jar
      <4>3. Baked(m) \subseteq {m}
        BY DEF Baked
      <4>4. ~(m > arrived)
        <5>. HIDE DEF m
        <5>. QED
          BY <4>1
      <4>. QED
        BY <4>2, <4>3, <4>4
    <3>3. cookies'[m] = {m} /\ baked'[m]
      BY <1>1, <3>1, <3>2 DEF TypeInv, TypeOK
    <3>4. \A n \in Requests \ {m} : cookies'[n] = cookies[n] /\ baked'[n] = baked[n]
      BY <3>1 DEF TypeInv, TypeOK
    <3>. HIDE DEF m
    <3>. QED
      BY <3>1, <3>2, <3>3, <3>4 DEF Jar, Baked
  <2>2. CookiesWhole'
    BY <1>1, <1>3 DEF SetCookie, CookiesWhole, Pending, Baked, TypeInv, TypeOK
  <2>. QED
    BY <1>3, <2>1, <2>2 DEF SetCookie, handling, ScopesOwn, ReadsOwn, Pending
<1>4. CASE Assign(h)
  <2>1. ScopesOwn'
    BY <1>1, <1>4 DEF Assign, ScopesOwn, TypeInv, TypeOK
  <2>. QED
    BY <1>4, <2>1 DEF Assign, handling, ReadsOwn, Jar, Pending, CookiesWhole, Baked
<1>. QED
  BY <1>2, <1>3, <1>4

LEMMA DataCall ==
  ASSUME TypeInv, NEW h \in Handlers, DataInv(h), Call(h)
  PROVE  DataInv(h)'
<1>. USE DEF DataInv
<1>1. /\ serving[h] \in Requests /\ CallEnvironment(serving[h]) \in Environments
      /\ CallEnvironment(serving[h]) # Globals
      /\ CallEnvironment(serving[h])[1] = serving[h]
  BY CallFacts, OwnEnvironment DEF CallEnvironment
<1>2. variables' = [variables EXCEPT ![CallEnvironment(serving[h])] = {serving[h]}]
  BY DEF Call
<1>3. ScopesOwn'
  <2>. HIDE DEF TypeInv
  <2>. QED
    BY <1>1, <1>2 DEF ScopesOwn, TypeInv, TypeOK
<1>. QED
  BY <1>3 DEF Call, ReadsOwn, Jar, Pending, CookiesWhole, Baked

LEMMA DataLeave ==
  ASSUME TypeInv, NEW h \in Handlers, ScopeInv(h), DataInv(h), Busy(h), NEW answer,
         Leave(h, answer), answer.kind = "returned" => answer.cookies = cookies[context]
  PROVE  DataInv(h)'
<1>. USE DEF DataInv
<1>1. context = serving[h] /\ serving[h] \in Requests
  BY HeldNow
<1>2. ScopesOwn' /\ ReadsOwn' /\ Jar'
  BY DEF Leave, ScopesOwn, ReadsOwn, Jar, Baked
<1>3. Pending(h)'
  BY <1>1, Counters DEF Leave, Pending
<1>4. CookiesWhole'
  BY <1>1 DEF Leave, CookiesWhole, Jar, Baked, TypeInv, TypeOK
<1>. QED
  BY <1>2, <1>3, <1>4

LEMMA OneStep ==
  ASSUME NEW h \in Handlers, Handlers = {h}, OneInv(h), [Next]_vars
  PROVE  OneInv(h)'
<1>. USE DEF OneInv
<1>1. TypeInv'
  BY TypeStep
<1>2. CASE Unrouted(h)
  <2>1. ScopeInv(h)'
    BY <1>2, ScopeKept DEF Unrouted, interpreter
  <2>. QED
    BY <1>1, <1>2, <2>1, DataUnrouted
<1>3. CASE Dispatch(h)
  BY <1>1, <1>3, ScopeDispatch, DataDispatch
<1>4. CASE Inspect(h) \/ SetCookie(h) \/ Assign(h)
  <2>1. ScopeInv(h)'
    BY <1>4, ScopeKept DEF Inspect, SetCookie, Assign, interpreter, handling
  <2>. QED
    BY <1>1, <1>4, <2>1, DataStatement
<1>5. CASE Call(h)
  BY <1>1, <1>5, ScopeCall, DataCall
<1>6. CASE ReturnCall(h)
  <2>1. DataInv(h)'
    BY <1>6 DEF ReturnCall, DataInv, ScopesOwn, ReadsOwn, Jar, Pending, CookiesWhole, Baked
  <2>. QED
    BY <1>1, <1>6, <2>1, ScopeReturnCall
<1>7. CASE ReturnHttp(h) \/ Redirect(h) \/ EndOfBody(h) \/ Fail(h)
  <2>1. PICK answer \in [kind : Kinds, cookies : SUBSET Requests] :
          /\ Leave(h, answer)
          /\ answer.kind = "returned" => context # 0 /\ answer.cookies = cookies[context]
    BY <1>7, LeavesWith DEF TypeInv
  <2>2. Busy(h)
    BY <1>7, LeavesWith DEF TypeInv
  <2>. QED
    BY <1>1, <2>1, <2>2, ScopeLeave, DataLeave
<1>8. CASE UNCHANGED vars
  <2>1. ScopeInv(h)'
    BY <1>8, ScopeKept DEF vars, interpreter, handling
  <2>2. DataInv(h)'
    BY <1>8 DEF vars, interpreter, handling, DataInv, ScopesOwn, ReadsOwn, Jar, Pending,
                CookiesWhole, Baked
  <2>. QED
    BY <1>1, <2>1, <2>2
<1>. QED
  BY <1>2, <1>3, <1>4, <1>5, <1>6, <1>7, <1>8 DEF Next

LEMMA OneAlways ==
  ASSUME NEW h, Handlers = {h}
  PROVE  Spec => []OneInv(h)
<1>1. Init => OneInv(h)
  BY TypeInit, ScopeInit, DataInit DEF OneInv
<1>2. OneInv(h) /\ [Next]_vars => OneInv(h)'
  BY OneStep
<1>. QED
  BY <1>1, <1>2, PTL DEF Spec

\* Where one request is served at a time the running code is always in the
\* environment of its innermost call (the finally blocks of _call and dispatch_http).
THEOREM OneHandlerInOwnScope ==
  ASSUME NEW h, Handlers = {h}
  PROVE  Spec => []InOwnScope
<1>1. OneInv(h) => InOwnScope
  BY DEF OneInv, ScopeInv, Held, InOwnScope
<1>. QED
  BY <1>1, OneAlways, PTL

\* ... between requests the interpreter is as it was before the first ...
THEOREM OneHandlerIdleClean ==
  ASSUME NEW h, Handlers = {h}
  PROVE  Spec => []IdleClean
<1>1. OneInv(h) => IdleClean
  BY DEF OneInv, ScopeInv, Held, IdleClean
<1>. QED
  BY <1>1, OneAlways, PTL

\* ... no variable of one request reaches another or becomes global ...
THEOREM OneHandlerScopesOwn ==
  ASSUME NEW h, Handlers = {h}
  PROVE  Spec => []ScopesOwn
<1>1. OneInv(h) => ScopesOwn
  BY DEF OneInv, DataInv
<1>. QED
  BY <1>1, OneAlways, PTL

\* ... the request built-ins show the route its own request, which two threads
\* do not guarantee (the run http_two_handlers) ...
THEOREM OneHandlerReadsOwn ==
  ASSUME NEW h, Handlers = {h}
  PROVE  Spec => []ReadsOwn
<1>1. OneInv(h) => ReadsOwn
  BY DEF OneInv, DataInv
<1>. QED
  BY <1>1, OneAlways, PTL

\* ... and return_http sends exactly the cookies the route has set.
THEOREM OneHandlerCookiesWhole ==
  ASSUME NEW h, Handlers = {h}
  PROVE  Spec => []CookiesWhole
<1>1. OneInv(h) => CookiesWhole
  BY DEF OneInv, DataInv
<1>. QED
  BY <1>1, OneAlways, PTL

\* The first two together: whatever returns, fails or answers from inside calls, the
\* interpreter is back where it was.
THEOREM OneHandlerScopeRestored ==
  ASSUME NEW h, Handlers = {h}
  PROVE  Spec => []ScopeRestored
<1>1. InOwnScope /\ IdleClean => ScopeRestored
  BY DEF ScopeRestored
<1>. QED
  BY <1>1, OneHandlerInOwnScope, OneHandlerIdleClean, PTL

\* What one request leaves in the interpreter reaches no other: neither a variable nor a
\* cookie.
THEOREM OneHandlerNothingCarriedOver ==
  ASSUME NEW h, Handlers = {h}
  PROVE  Spec => []NothingCarriedOver
<1>1. ScopesOwn /\ CookiesWhole => NothingCarriedOver
  BY DEF NothingCarriedOver
<1>. QED
  BY <1>1, OneHandlerScopesOwn, OneHandlerCookiesWhole, PTL
=============================================================================
