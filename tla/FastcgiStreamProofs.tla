------------------------- MODULE FastcgiStreamProofs -------------------------
(***************************************************************************)
(* Proofs about FastcgiStream for any number of ids, requests and chunks:  *)
(* its type invariant; that the application is never handed a chunk of a   *)
(* request other than the one it runs (NeverMixed), and is handed both     *)
(* streams of that one whole (AlwaysWhole); and that, until a client       *)
(* aborts, the connection keeps the promise of RequestLedger (OneForOne).  *)
(*                                                                         *)
(* NeverMixed needs to know why a record that carries the id of the active *)
(* request is a record of that request although ids are reused: every      *)
(* stream record in flight is preceded by the BEGIN_REQUEST of its request *)
(* or that BEGIN_REQUEST is the last one read for its id (Justified), and  *)
(* the records of one id are in flight in the order of their requests      *)
(* (Ordered).  AlwaysWhole adds where in its stream each chunk in flight   *)
(* is (InPlace), OneForOne that what is due or answered is open (OpenInv). *)
(***************************************************************************)
EXTENDS FastcgiStream, SequenceTheorems, TLAPS

----------------------------------------------------------------------------
(* The type invariant.                                                     *)

\* A request under way has a number; TypeOK alone is not inductive, since
\* histories are indexed by the request of an id or of the active request.
PhaseOK  == \A i \in Ids : phase[i] # "closed" => open[i] \in Requests
ActiveOK == in_request => active_id \in Ids /\ active_req \in Requests
TypeInv  == TypeOK /\ PhaseOK /\ ActiveOK

\* Counting one more of something, and of something of a stream.
LEMMA CountOne ==
  ASSUME NEW S, NEW f \in [S -> Nat], NEW s \in S
  PROVE  OneMore(f, s) \in [S -> Nat]
  BY DEF OneMore

LEMMA CountOfStream ==
  ASSUME NEW S, NEW T, NEW f \in [S -> [T -> Nat]], NEW s \in S, NEW t \in T
  PROVE  [f EXCEPT ![s] = OneMore(f[s], t)] \in [S -> [T -> Nat]]
<1>1. f[s] \in [T -> Nat]
  OBVIOUS
<1>2. OneMore(f[s], t) \in [T -> Nat]
  BY <1>1, CountOne
<1>. QED
  BY <1>2

USE DEF Requests

LEMMA TypeInit == Init => TypeInv
<1>. SUFFICES ASSUME Init PROVE TypeInv
  OBVIOUS
<1>1. FlagsTypeOK
  BY DEF Init, FlagsTypeOK
<1>2. ClientTypeOK
  BY BoundsAssumption DEF Init, ClientTypeOK, Phases
<1>3. WireTypeOK
  BY EmptySeq DEF Init, WireTypeOK
<1>4. BuffersTypeOK
  BY EmptySeq, BoundsAssumption DEF Init, BuffersTypeOK
<1>5. WorkerTypeOK
  BY EmptySeq, BoundsAssumption DEF Init, WorkerTypeOK
<1>6. PhaseOK /\ ActiveOK
  BY DEF Init, PhaseOK, ActiveOK
<1>. QED
  BY <1>1, <1>2, <1>3, <1>4, <1>5, <1>6 DEF TypeInv, TypeOK

LEMMA TypeBegin ==
  ASSUME TypeInv, NEW i \in Ids, NEW role \in Begins, ClientBegin(i, role)
  PROVE  TypeInv'
<1>. USE DEF TypeInv, TypeOK
<1>1. /\ begun + 1 \in Requests
      /\ Record(role, i, begun + 1, NoChunk) \in Records
  BY BoundsAssumption DEF ClientBegin, ClientTypeOK, Record, Records, RequestRecords
<1>2. ClientTypeOK'
  BY <1>1, BoundsAssumption DEF ClientBegin, ClientTypeOK, Phases
<1>3. WireTypeOK'
  BY <1>1, AppendProperties DEF ClientBegin, Put, WireTypeOK
<1>4. BuffersTypeOK' /\ WorkerTypeOK' 
  BY DEF ClientBegin, BuffersTypeOK, WorkerTypeOK, worker, buffers
<1>5. PhaseOK'
  BY <1>1 DEF ClientBegin, PhaseOK, ClientTypeOK
<1>6. FlagsTypeOK' /\ ActiveOK'
  BY DEF ClientBegin, FlagsTypeOK, ActiveOK, worker, buffers
<1>. QED
  BY <1>2, <1>3, <1>4, <1>5, <1>6

\* Every step of the client other than opening a request.
LEMMA TypeClient ==
  ASSUME TypeInv, ClientStep \/ ClientReads,
         \A i \in Ids, role \in Begins : ~ClientBegin(i, role)
  PROVE  TypeInv'
<1>. USE DEF TypeInv, TypeOK
<1>. DEFINE Other == ClientTypeOK' /\ WireTypeOK' /\ PhaseOK' /\ FlagsTypeOK'
                     /\ UNCHANGED worker
<1>1. ASSUME NEW i \in Ids, NEW type \in Streams,
             NEW kind \in {"named", "plain", "garbled"}, ClientChunk(i, type, kind)
      PROVE  Other
  <2>1. open[i] \in Requests /\ chunks[i] + 1 \in Nat
    BY <1>1 DEF ClientChunk, PhaseOK, ClientTypeOK
  <2>2. Record(type, i, open[i], Chunk(open[i], chunks[i] + 1, kind)) \in Records
    BY <2>1 DEF Record, Records, RequestRecords, Chunk, Chunks
  <2>3. ClientTypeOK'
    <3>5. sizes' \in [Streams -> [Requests -> Nat]]
      BY <1>1, <2>1, CountOfStream DEF ClientChunk, ClientTypeOK
    <3>. QED
      BY <1>1, <2>1, <3>5 DEF ClientChunk, ClientTypeOK
  <2>4. WireTypeOK'
    BY <1>1, <2>2, AppendProperties DEF ClientChunk, Put, WireTypeOK
  <2>5. PhaseOK' /\ UNCHANGED worker
    BY <1>1 DEF ClientChunk, PhaseOK
  <2>6. FlagsTypeOK'
    BY <1>1 DEF ClientChunk, FlagsTypeOK, worker, buffers
  <2>. QED
    BY <2>3, <2>4, <2>5, <2>6
<1>2. ASSUME NEW i \in Ids, NEW type \in Streams, ClientEndStream(i, type)
      PROVE  Other
  <2>1. open[i] \in Requests /\ phase[i] # "closed"
    BY <1>2 DEF ClientEndStream, PhaseOK, ClientTypeOK
  <2>2. Record(type, i, open[i], NoChunk) \in Records
    BY <2>1 DEF Record, Records, RequestRecords
  <2>3. ClientTypeOK'
    BY <1>2 DEF ClientEndStream, ClientTypeOK, Phases
  <2>4. WireTypeOK'
    BY <1>2, <2>2, AppendProperties DEF ClientEndStream, Put, WireTypeOK
  <2>5. PhaseOK' /\ UNCHANGED worker
    BY <1>2, <2>1 DEF ClientEndStream, PhaseOK, ClientTypeOK
  <2>6. FlagsTypeOK'
    BY <1>2 DEF ClientEndStream, FlagsTypeOK, worker, buffers
  <2>. QED
    BY <2>3, <2>4, <2>5, <2>6
<1>3. ASSUME NEW i \in Ids, ClientAbort(i)
      PROVE  Other
  <2>1. open[i] \in Requests
    BY <1>3 DEF ClientAbort, PhaseOK, ClientTypeOK
  <2>2. Record("ABORT", i, open[i], NoChunk) \in Records
    BY <2>1 DEF Record, Records, RequestRecords
  <2>3. ClientTypeOK'
    BY <1>3 DEF ClientAbort, ClientTypeOK, Phases
  <2>4. WireTypeOK'
    BY <1>3, <2>2, AppendProperties DEF ClientAbort, Put, WireTypeOK
  <2>5. PhaseOK' /\ UNCHANGED worker
    BY <1>3, <2>1 DEF ClientAbort, PhaseOK, ClientTypeOK
  <2>6. FlagsTypeOK'
    BY <1>3 DEF ClientAbort, FlagsTypeOK, worker, buffers
  <2>. QED
    BY <2>3, <2>4, <2>5, <2>6
<1>4. ASSUME NEW type \in {"GET_VALUES", "TORN"}, ClientManage(type)
      PROVE  Other
  <2>1. Record(type, 0, 0, NoChunk) \in Records
    BY DEF Record, Records
  <2>2. WireTypeOK'
    BY <1>4, <2>1, AppendProperties DEF ClientManage, Put, WireTypeOK
  <2>3. ClientTypeOK' /\ PhaseOK' /\ UNCHANGED worker
    BY <1>4 DEF ClientManage, client, ClientTypeOK, PhaseOK
  <2>4. FlagsTypeOK'
    BY <1>4 DEF ClientManage, client, FlagsTypeOK, worker, buffers
  <2>. QED
    BY <2>2, <2>3, <2>4
<1>5. ASSUME ClientHangUp \/ ClientSeesClose
      PROVE  Other
  <2>1. /\ open' = [i \in Ids |-> 0] /\ phase' = [i \in Ids |-> "closed"]
        /\ UNCHANGED <<chunks, begun, sizes, wire, reply, worker, credited>>
    BY <1>5 DEF ClientHangUp, ClientSeesClose
  <2>3. ClientTypeOK'
    BY <2>1, BoundsAssumption DEF ClientTypeOK, Phases
  <2>4. PhaseOK' /\ WireTypeOK'
    BY <2>1 DEF PhaseOK, WireTypeOK
  <2>2. FlagsTypeOK'
    BY <1>5 DEF ClientHangUp, ClientSeesClose, FlagsTypeOK, worker, buffers
  <2>. QED
    BY <2>1, <2>2, <2>3, <2>4
<1>6. ASSUME ClientReceive
      PROVE  Other
  <2>1. Head(reply) \in Answers
    BY <1>6, HeadTailProperties DEF ClientReceive, WireTypeOK
  <2>2. Head(reply).req \in 0..NumRequests
    BY <2>1 DEF Answers
  <2>3. UNCHANGED worker /\ chunks' = chunks /\ begun' = begun /\ sizes' = sizes
    BY <1>6 DEF ClientReceive
  <2>6. ASSUME UNCHANGED <<credited, open, phase>>
        PROVE  ClientTypeOK' /\ PhaseOK'
    <3>1. ClientTypeOK'
      BY <2>3, <2>6 DEF ClientTypeOK
    <3>2. PhaseOK'
      BY <2>6 DEF PhaseOK
    <3>. QED
      BY <3>1, <3>2
  <2>7. ASSUME Head(reply).id \in Ids, open[Head(reply).id] # 0,
               credited' = [credited EXCEPT ![open[Head(reply).id]] = Head(reply).req],
               open' = [open EXCEPT ![Head(reply).id] = 0],
               phase' = [phase EXCEPT ![Head(reply).id] = "closed"]
        PROVE  ClientTypeOK' /\ PhaseOK'
    <3>. DEFINE i == Head(reply).id
    <3>1. open[i] \in Requests /\ i \in Ids
      BY <2>7, BoundsAssumption DEF ClientTypeOK
    <3>2. credited' \in [Requests -> 0..NumRequests]
      BY <2>2, <2>7, <3>1 DEF ClientTypeOK
    <3>3. open' \in [Ids -> 0..NumRequests] /\ phase' \in [Ids -> Phases]
      BY <2>7, <3>1, BoundsAssumption DEF ClientTypeOK, Phases
    <3>4. PhaseOK'
      BY <2>7, <3>1 DEF ClientTypeOK, PhaseOK
    <3>. QED
      BY <2>3, <3>2, <3>3, <3>4 DEF ClientTypeOK
  <2>8. ClientTypeOK' /\ PhaseOK'
    BY <1>6, <2>6, <2>7 DEF ClientReceive
  <2>4. WireTypeOK'
    BY <1>6, HeadTailProperties DEF ClientReceive, WireTypeOK
  <2>5. FlagsTypeOK'
    BY <1>6 DEF ClientReceive, FlagsTypeOK, worker, buffers
  <2>. QED
    BY <2>3, <2>4, <2>5, <2>8
<1>7. Other
  BY <1>1, <1>2, <1>3, <1>4, <1>5, <1>6 DEF ClientStep, ClientReads, Streams
<1>8. BuffersTypeOK' /\ WorkerTypeOK'
  BY <1>7 DEF BuffersTypeOK, WorkerTypeOK, worker, buffers
<1>9. ActiveOK'
  BY <1>7 DEF ActiveOK, worker, buffers
<1>. QED
  BY <1>7, <1>8, <1>9

----------------------------------------------------------------------------
(* What the pieces shared by the worker's actions do to the types.         *)

ReplyOK   == reply \in Seq(Answers)
LimitsOK  == /\ requests \in Nat /\ status \in {"serving", "eof", "failed", "recycled"}
             /\ MaxServed # 0 /\ status = "serving" => requests < MaxServed
FlagsOK   == in_request \in BOOLEAN /\ params_done \in BOOLEAN
HistoryOK == /\ latest \in [Ids -> 0..NumRequests] /\ ends \in [Requests -> Nat]
             /\ ran \in Seq([req : 0..NumRequests, params : Seq(Chunks), body : Seq(Chunks)])
RequestOK == BuffersTypeOK /\ FlagsOK /\ ActiveOK

LEMMA TypeParts ==
  TypeInv <=> /\ ClientTypeOK /\ PhaseOK /\ wire \in Seq(Records) /\ hungUp \in BOOLEAN
              /\ ReplyOK /\ LimitsOK /\ HistoryOK /\ RequestOK
  BY DEF TypeInv, TypeOK, WireTypeOK, FlagsTypeOK, WorkerTypeOK,
         ReplyOK, LimitsOK, FlagsOK, HistoryOK, RequestOK

LEMMA TypeFromParts ==
  ASSUME ClientTypeOK', PhaseOK', wire' \in Seq(Records), hungUp' \in BOOLEAN,
         ReplyOK', LimitsOK', HistoryOK', RequestOK'
  PROVE  TypeInv'
  BY DEF TypeInv, TypeOK, WireTypeOK, FlagsTypeOK, WorkerTypeOK,
         ReplyOK, LimitsOK, FlagsOK, HistoryOK, RequestOK

LEMMA TakingType ==
  ASSUME TypeInv, NEW types, Taking(types)
  PROVE  /\ Head(wire) \in Records /\ Head(wire).type \in types
         /\ ClientTypeOK' /\ PhaseOK' /\ wire' \in Seq(Records) /\ hungUp' \in BOOLEAN
<1>1. Head(wire) \in Records /\ wire' \in Seq(Records)
  BY HeadTailProperties, TypeParts DEF Taking
<1>2. ClientTypeOK' /\ PhaseOK'
  BY TypeParts DEF Taking, client, ClientTypeOK, PhaseOK
<1>3. hungUp' \in BOOLEAN
  BY TypeParts DEF Taking, client
<1>. QED
  BY <1>1, <1>2, <1>3 DEF Taking

LEMMA WriteType ==
  ASSUME TypeInv, NEW answers \in Seq(Answers), Write(answers)
  PROVE  ReplyOK'
  BY TypeParts, ConcatProperties DEF ReplyOK, Write

LEMMA FailedType ==
  ASSUME TypeInv, Failed
  PROVE  RequestOK' /\ LimitsOK'
<1>1. BuffersTypeOK'
  BY TypeParts DEF Failed, buffers, RequestOK, BuffersTypeOK
<1>2. FlagsOK' /\ ActiveOK'
  BY TypeParts DEF Failed, buffers, RequestOK, FlagsOK, ActiveOK
<1>3. LimitsOK'
  BY TypeParts DEF Failed, LimitsOK
<1>. QED
  BY <1>1, <1>2, <1>3 DEF RequestOK

LEMMA ClearedType ==
  ASSUME TypeInv, ClearedRequest, UNCHANGED params_done
  PROVE  RequestOK'
<1>1. BuffersTypeOK'
  BY EmptySeq, BoundsAssumption DEF ClearedRequest, BuffersTypeOK
<1>2. FlagsOK' /\ ActiveOK'
  BY TypeParts DEF ClearedRequest, RequestOK, FlagsOK, ActiveOK
<1>. QED
  BY <1>1, <1>2 DEF RequestOK

LEMMA CountedType ==
  ASSUME TypeInv, Counted
  PROVE  LimitsOK'
<1>1. requests \in Nat
  BY TypeParts DEF LimitsOK
<1>. QED
  BY <1>1, BoundsAssumption DEF Counted, Recycle, AtLimit, LimitsOK

\* A record of a request names an id and a request.
LEMMA RequestRecord ==
  ASSUME NEW r \in Records, r.type \in Begins \cup Streams \cup {"ABORT"}
  PROVE  r.id \in Ids /\ r.req \in Requests /\ r.chunk \in Chunks \cup {NoChunk}
  BY DEF Records, RequestRecords, Begins, Streams

----------------------------------------------------------------------------
(* The worker's actions keep the type invariant.                           *)

LEMMA TypeReadBegin == ASSUME TypeInv, ReadBegin PROVE TypeInv'
<1>. DEFINE r == Head(wire)
<1>1. /\ Taking(Begins) /\ latest' = [latest EXCEPT ![r.id] = r.req] /\ UNCHANGED ran
  BY DEF ReadBegin
<1>2. r.id \in Ids /\ r.req \in Requests
  BY <1>1, TakingType, RequestRecord
<1>3. latest' \in [Ids -> 0..NumRequests] /\ UNCHANGED ran
  BY <1>1, <1>2, TypeParts DEF HistoryOK
<1>4. ASSUME Failed, UNCHANGED <<reply, ends>>
      PROVE  RequestOK' /\ LimitsOK' /\ ReplyOK' /\ ends' \in [Requests -> Nat]
  BY <1>4, FailedType, TypeParts DEF ReplyOK, HistoryOK
<1>5. ASSUME r.type = "RESPONDER", in_request' = TRUE, params_done' = FALSE,
             active_id' = r.id, active_req' = r.req,
             params_data' = <<>>, params' = <<>>, body' = <<>>,
             UNCHANGED <<requests, status, reply, ends>>
      PROVE  RequestOK' /\ LimitsOK' /\ ReplyOK' /\ ends' \in [Requests -> Nat]
  <2>1. BuffersTypeOK'
    BY <1>2, <1>5, EmptySeq, BoundsAssumption DEF BuffersTypeOK
  <2>2. FlagsOK' /\ ActiveOK'
    BY <1>2, <1>5 DEF FlagsOK, ActiveOK
  <2>3. LimitsOK' /\ ReplyOK' /\ ends' \in [Requests -> Nat]
    BY <1>5, TypeParts DEF LimitsOK, ReplyOK, HistoryOK
  <2>. QED
    BY <2>1, <2>2, <2>3 DEF RequestOK
<1>6. ASSUME ~in_request, active_id' = r.id, active_req' = r.req,
             Write(<<Answer("END", r.id, r.req)>>),
             ends' = OneMore(ends, r.req),
             UNCHANGED <<in_request, params_done, params_data, params, body, requests, status>>
      PROVE  RequestOK' /\ LimitsOK' /\ ReplyOK' /\ ends' \in [Requests -> Nat]
  <2>1. ReplyOK'
    <3>1. Answer("END", r.id, r.req) \in Answers
      BY <1>2 DEF Answer, Answers
    <3>2. <<Answer("END", r.id, r.req)>> \in Seq(Answers)
      BY <3>1
    <3>. QED
      BY <1>6, <3>2, WriteType
  <2>2. BuffersTypeOK'
    BY <1>2, <1>6, TypeParts DEF RequestOK, BuffersTypeOK
  <2>3. FlagsOK' /\ ActiveOK'
    BY <1>6, TypeParts DEF RequestOK, FlagsOK, ActiveOK
  <2>4. LimitsOK' /\ ends' \in [Requests -> Nat]
    BY <1>2, <1>6, TypeParts, CountOne DEF LimitsOK, HistoryOK
  <2>. QED
    BY <2>1, <2>2, <2>3, <2>4 DEF RequestOK
<1>7. RequestOK' /\ LimitsOK' /\ ReplyOK' /\ ends' \in [Requests -> Nat]
  BY <1>4, <1>5, <1>6 DEF ReadBegin
<1>. QED
  <2>1. HistoryOK'
    BY <1>3, <1>7, TypeParts DEF HistoryOK
  <2>. QED
    BY <1>1, <1>7, <2>1, TakingType, TypeFromParts

LEMMA TypeReadParams == ASSUME TypeInv, ReadParams PROVE TypeInv'
<1>. DEFINE r == Head(wire)
<1>1. Taking({"PARAMS"}) /\ UNCHANGED <<latest, ran, ends, reply>>
  BY DEF ReadParams
<1>2. r.chunk # NoChunk => r.chunk \in Chunks
  BY <1>1, TakingType, RequestRecord DEF Streams
<1>3. ASSUME params_done' = TRUE, params' = params \o params_data,
             UNCHANGED <<in_request, active_id, params_data, body, active_req, requests, status>>
      PROVE  RequestOK' /\ LimitsOK'
  <2>1. BuffersTypeOK'
    BY <1>3, TypeParts, ConcatProperties DEF RequestOK, BuffersTypeOK
  <2>2. FlagsOK' /\ ActiveOK'
    BY <1>3, TypeParts DEF RequestOK, FlagsOK, ActiveOK
  <2>. QED
    BY <1>3, <2>1, <2>2, TypeParts DEF RequestOK, LimitsOK
<1>4. ASSUME r.chunk # NoChunk, Fits(params_data), params_data' = Append(params_data, r.chunk),
             UNCHANGED <<in_request, active_id, params_done, params, body, active_req, requests, status>>
      PROVE  RequestOK' /\ LimitsOK'
  <2>1. BuffersTypeOK'
    BY <1>2, <1>4, TypeParts, AppendProperties DEF RequestOK, BuffersTypeOK, Fits
  <2>2. FlagsOK' /\ ActiveOK'
    BY <1>4, TypeParts DEF RequestOK, FlagsOK, ActiveOK
  <2>. QED
    BY <1>4, <2>1, <2>2, TypeParts DEF RequestOK, LimitsOK
<1>5. RequestOK' /\ LimitsOK'
  BY <1>3, <1>4, FailedType DEF ReadParams
<1>6. HistoryOK' /\ ReplyOK'
  BY <1>1, TypeParts DEF HistoryOK, ReplyOK
<1>. QED
  BY <1>1, <1>5, <1>6, TakingType, TypeFromParts

LEMMA AnswerForType ==
  ASSUME TypeInv, in_request, NEW outcome
  PROVE  AnswerFor(outcome) \in Seq(Answers)
<1>. DEFINE a == Answer(IF outcome = "response" THEN "OUT" ELSE "ERR", active_id, active_req)
            b == Answer("END", active_id, active_req)
<1>1. a \in Answers /\ b \in Answers
  BY TypeParts DEF Answer, Answers, RequestOK, ActiveOK
<1>. HIDE DEF a, b
<1>2. <<a, b>> \in Seq(Answers)
  BY <1>1
<1>. QED
  BY <1>2 DEF AnswerFor, a, b

LEMMA TypeDispatch ==
  ASSUME TypeInv, in_request, Dispatch
  PROVE  /\ RequestOK' /\ LimitsOK' /\ ReplyOK' /\ ends' \in [Requests -> Nat]
         /\ ran' \in Seq([req : 0..NumRequests, params : Seq(Chunks), body : Seq(Chunks)])
<1>1. active_req \in Requests
  BY TypeParts DEF RequestOK, ActiveOK
<1>. DEFINE Runs == [req : 0..NumRequests, params : Seq(Chunks), body : Seq(Chunks)]
            run  == [req |-> active_req, params |-> params, body |-> body]
<1>2. ran' \in Seq(Runs)
  <2>1. run \in Runs /\ ran \in Seq(Runs)
    BY TypeParts DEF RequestOK, BuffersTypeOK, HistoryOK
  <2>2. ran' = Append(ran, run) \/ ran' = ran
    BY DEF Dispatch
  <2>. HIDE DEF Runs, run
  <2>. QED
    BY <2>1, <2>2, AppendProperties
<1>3. ASSUME NEW outcome, Write(AnswerFor(outcome)), ends' = OneMore(ends, active_req),
             IF outcome = "error" THEN Failed
             ELSE ClearedRequest /\ Counted /\ UNCHANGED params_done
      PROVE  RequestOK' /\ LimitsOK' /\ ReplyOK' /\ ends' \in [Requests -> Nat]
  <2>1. ReplyOK'
    BY <1>3, AnswerForType, WriteType
  <2>2. ends' \in [Requests -> Nat]
    BY <1>1, <1>3, CountOne, TypeParts DEF HistoryOK
  <2>3. RequestOK' /\ LimitsOK'
    BY <1>3, FailedType, ClearedType, CountedType
  <2>. QED
    BY <2>1, <2>2, <2>3
<1>4. ASSUME Failed, UNCHANGED <<ends, reply>>
      PROVE  RequestOK' /\ LimitsOK' /\ ReplyOK' /\ ends' \in [Requests -> Nat]
  BY <1>4, FailedType, TypeParts DEF HistoryOK, ReplyOK
<1>. QED
  BY <1>2, <1>3, <1>4 DEF Dispatch

LEMMA TypeReadStdin == ASSUME TypeInv, ReadStdin PROVE TypeInv'
<1>. DEFINE r == Head(wire)
<1>1. Taking({"STDIN"}) /\ UNCHANGED latest
  BY DEF ReadStdin
<1>2. r.chunk # NoChunk => r.chunk \in Chunks
  BY <1>1, TakingType, RequestRecord DEF Streams
<1>. DEFINE Kept == /\ RequestOK' /\ LimitsOK' /\ ReplyOK' /\ ends' \in [Requests -> Nat]
                    /\ ran' \in Seq([req : 0..NumRequests, params : Seq(Chunks), body : Seq(Chunks)])
<1>3. ASSUME Belongs(r), Dispatch
      PROVE  Kept
  BY <1>3, TypeDispatch DEF Belongs
<1>4. ASSUME r.chunk # NoChunk, Fits(body), body' = Append(body, r.chunk),
             UNCHANGED <<in_request, active_id, params_done, params_data, params,
                         active_req, requests, status, ran, ends, reply>>
      PROVE  Kept
  <2>1. BuffersTypeOK'
    BY <1>2, <1>4, TypeParts, AppendProperties DEF RequestOK, BuffersTypeOK, Fits
  <2>2. FlagsOK' /\ ActiveOK'
    BY <1>4, TypeParts DEF RequestOK, FlagsOK, ActiveOK
  <2>. QED
    BY <1>4, <2>1, <2>2, TypeParts DEF RequestOK, LimitsOK, ReplyOK, HistoryOK
<1>5. ASSUME Failed, UNCHANGED <<ran, ends, reply>>
      PROVE  Kept
  BY <1>5, FailedType, TypeParts DEF ReplyOK, HistoryOK
<1>6. Kept
  BY <1>3, <1>4, <1>5 DEF ReadStdin
<1>7. HistoryOK'
  BY <1>1, <1>6, TypeParts DEF HistoryOK
<1>. QED
  BY <1>1, <1>6, <1>7, TakingType, TypeFromParts

LEMMA TypeReadOther ==
  ASSUME TypeInv, ReadAbort \/ ReadManagement \/ ReadEof
  PROVE  TypeInv'
<1>. DEFINE r == Head(wire)
<1>1. ASSUME ReadAbort PROVE TypeInv'
  <2>1. Taking({"ABORT"}) /\ UNCHANGED <<latest, ran>>
    BY <1>1 DEF ReadAbort
  <2>2. r.id \in Ids /\ r.req \in Requests
    BY <2>1, TakingType, RequestRecord
  <2>3. <<Answer("END", r.id, r.req)>> \in Seq(Answers)
    <3>1. Answer("END", r.id, r.req) \in Answers
      BY <2>2 DEF Answer, Answers
    <3>. QED
      BY <3>1
  <2>4. ASSUME Write(<<Answer("END", r.id, r.req)>>), ends' = OneMore(ends, r.req),
               ClearedRequest, Counted, UNCHANGED params_done
        PROVE  RequestOK' /\ LimitsOK' /\ ReplyOK' /\ ends' \in [Requests -> Nat]
    <3>1. ends' \in [Requests -> Nat]
      BY <2>2, <2>4, CountOne, TypeParts DEF HistoryOK
    <3>. QED
      BY <2>3, <2>4, <3>1, WriteType, ClearedType, CountedType
  <2>5. ASSUME Failed, UNCHANGED <<ends, reply>>
        PROVE  RequestOK' /\ LimitsOK' /\ ReplyOK' /\ ends' \in [Requests -> Nat]
    BY <2>5, FailedType, TypeParts DEF HistoryOK, ReplyOK
  <2>6. RequestOK' /\ LimitsOK' /\ ReplyOK' /\ ends' \in [Requests -> Nat]
    BY <1>1, <2>4, <2>5 DEF ReadAbort
  <2>7. HistoryOK'
    BY <2>1, <2>6, TypeParts DEF HistoryOK
  <2>. QED
    BY <2>1, <2>6, <2>7, TakingType, TypeFromParts
<1>2. ASSUME ReadManagement PROVE TypeInv'
  <2>1. Taking({"GET_VALUES", "TORN"}) /\ UNCHANGED <<latest, ran, ends>>
    BY <1>2 DEF ReadManagement
  <2>2. <<Answer("VALUES", 0, 0)>> \in Seq(Answers)
    <3>1. Answer("VALUES", 0, 0) \in Answers
      BY BoundsAssumption DEF Answer, Answers
    <3>. QED
      BY <3>1
  <2>3. ASSUME Write(<<Answer("VALUES", 0, 0)>>), UNCHANGED <<buffers, requests, status>>
        PROVE  RequestOK' /\ LimitsOK' /\ ReplyOK'
    <3>1. BuffersTypeOK' /\ LimitsOK'
      BY <2>3, TypeParts DEF buffers, RequestOK, BuffersTypeOK, LimitsOK
    <3>2. FlagsOK' /\ ActiveOK'
      BY <2>3, TypeParts DEF buffers, RequestOK, FlagsOK, ActiveOK
    <3>. QED
      BY <2>2, <2>3, <3>1, <3>2, WriteType DEF RequestOK
  <2>4. RequestOK' /\ LimitsOK' /\ ReplyOK'
    BY <1>2, <2>3, FailedType, TypeParts DEF ReadManagement, ReplyOK
  <2>5. HistoryOK'
    BY <2>1, TypeParts DEF HistoryOK
  <2>. QED
    BY <2>1, <2>4, <2>5, TakingType, TypeFromParts
<1>3. ASSUME ReadEof PROVE TypeInv'
  <2>1. /\ UNCHANGED <<open, phase, chunks, begun, sizes, credited, wire, reply>>
        /\ UNCHANGED <<active_id, active_req, params_data, params, body>>
        /\ UNCHANGED <<requests, latest, ran, ends>> /\ status' = "eof"
    BY <1>3 DEF ReadEof, client, buffers
  <2>2. UNCHANGED <<hungUp, in_request, params_done>>
    BY <1>3 DEF ReadEof, client, buffers
  <2>3. ClientTypeOK' /\ PhaseOK' /\ BuffersTypeOK' /\ LimitsOK' /\ HistoryOK' /\ ReplyOK'
    BY <2>1, TypeParts
       DEF ClientTypeOK, PhaseOK, RequestOK, BuffersTypeOK, LimitsOK, HistoryOK, ReplyOK
  <2>4. FlagsOK' /\ ActiveOK' /\ hungUp' \in BOOLEAN /\ wire' \in Seq(Records)
    BY <2>1, <2>2, TypeParts DEF RequestOK, FlagsOK, ActiveOK
  <2>. QED
    BY <2>3, <2>4, TypeFromParts DEF RequestOK
<1>. QED
  BY <1>1, <1>2, <1>3

LEMMA TypeStep == TypeInv /\ [Next]_vars => TypeInv'
<1>. SUFFICES ASSUME TypeInv, [Next]_vars PROVE TypeInv'
  OBVIOUS
<1>1. CASE \E i \in Ids, role \in Begins : ClientBegin(i, role)
  BY <1>1, TypeBegin
<1>2. CASE /\ ClientStep \/ ClientReads
           /\ \A i \in Ids, role \in Begins : ~ClientBegin(i, role)
  BY <1>2, TypeClient
<1>3. CASE WorkerStep
  BY <1>3, TypeReadBegin, TypeReadParams, TypeReadStdin, TypeReadOther DEF WorkerStep
<1>4. CASE UNCHANGED vars
  <2>1. /\ UNCHANGED <<client, credited, wire, reply>>
        /\ UNCHANGED <<active_id, active_req, params_data, params, body>>
        /\ UNCHANGED <<requests, latest, ran, ends, status>>
    BY <1>4 DEF vars, worker, buffers
  <2>2. UNCHANGED <<hungUp, in_request, params_done>>
    BY <1>4 DEF vars, client, worker, buffers
  <2>3. ClientTypeOK' /\ PhaseOK' /\ BuffersTypeOK' /\ LimitsOK' /\ HistoryOK' /\ ReplyOK'
    BY <2>1, TypeParts
       DEF client, ClientTypeOK, PhaseOK, RequestOK, BuffersTypeOK, LimitsOK, HistoryOK, ReplyOK
  <2>4. FlagsOK' /\ ActiveOK' /\ hungUp' \in BOOLEAN /\ wire' \in Seq(Records)
    BY <2>1, <2>2, TypeParts DEF RequestOK, FlagsOK, ActiveOK
  <2>. QED
    BY <2>3, <2>4, TypeFromParts DEF RequestOK
<1>. QED
  BY <1>1, <1>2, <1>3, <1>4 DEF Next

\* The types of every variable, the bound of the buffers and the request count
\* of the worker hold in every state.
THEOREM TypeCorrect == Spec => []TypeOK
<1>1. Init => TypeInv
  BY TypeInit
<1>2. TypeInv /\ [Next]_vars => TypeInv'
  BY TypeStep
<1>3. TypeInv => TypeOK
  BY DEF TypeInv
<1>. QED
  BY <1>1, <1>2, <1>3, PTL DEF Spec

----------------------------------------------------------------------------
(* Why a record with the id of the active request belongs to it.           *)

OfRequest(k) == wire[k].type \in Begins \cup Streams

\* The BEGIN_REQUEST of request n under id i is in flight before position b.
Announced(w, i, n, b) ==
  \E j \in 1..Len(w) : j < b /\ w[j].type \in Begins /\ w[j].id = i /\ w[j].req = n

\* A chunk is labelled with the request of its record.
Labelled  == \A k \in 1..Len(wire) : wire[k].chunk # NoChunk => wire[k].chunk.req = wire[k].req
Justified == \A k \in 1..Len(wire) : wire[k].type \in Streams =>
               latest[wire[k].id] = wire[k].req \/ Announced(wire, wire[k].id, wire[k].req, k)
Ordered   == \A j, k \in 1..Len(wire) :
               j < k /\ OfRequest(j) /\ OfRequest(k) /\ wire[j].id = wire[k].id
                 => wire[j].req <= wire[k].req
\* The worker has read no later request of an id than those in flight, and the
\* client has opened none earlier.
Behind    == \A k \in 1..Len(wire) : OfRequest(k) =>
               /\ latest[wire[k].id] <= wire[k].req
               /\ wire[k].req <= begun
               /\ open[wire[k].id] # 0 => wire[k].req <= open[wire[k].id]
Current   == \A i \in Ids :
               /\ latest[i] <= begun /\ open[i] <= begun
               /\ open[i] # 0 => latest[i] = open[i] \/ Announced(wire, i, open[i], Len(wire) + 1)
               /\ open[i] # 0 => latest[i] <= open[i]
WireInv   == Labelled /\ Justified /\ Ordered /\ Behind /\ Current

\* The request the worker runs is the last one it read for the active id, and
\* its buffers hold nothing else.
Active    == /\ status = "serving" /\ in_request => active_req = latest[active_id]
             /\ ~in_request => params_data = <<>> /\ params = <<>> /\ body = <<>>
Own       == /\ Unmixed(params_data, active_req) /\ Unmixed(params, active_req)
             /\ Unmixed(body, active_req)
UnmixedInv == TypeInv /\ WireInv /\ Active /\ Own /\ DispatchUnmixed

LEMMA WireInit == Init => WireInv /\ Active /\ Own /\ DispatchUnmixed
<1>. SUFFICES ASSUME Init PROVE WireInv /\ Active /\ Own /\ DispatchUnmixed
  OBVIOUS
<1>1. Labelled /\ Justified /\ Ordered /\ Behind
  BY EmptySeq DEF Init, Labelled, Justified, Ordered, Behind
<1>2. Current
  BY DEF Init, Current
<1>3. Active /\ Own /\ DispatchUnmixed
  BY EmptySeq DEF Init, Active, Own, Unmixed, DispatchUnmixed
<1>. QED
  BY <1>1, <1>2, <1>3 DEF WireInv

\* Opening a request: its number is above every number in use.
LEMMA WireBegin ==
  ASSUME TypeInv, WireInv, NEW i \in Ids, NEW role \in Begins, ClientBegin(i, role)
  PROVE  WireInv'
<1>. DEFINE rec == Record(role, i, begun + 1, NoChunk)
            n == Len(wire)
<1>1. /\ rec.type = role /\ rec.id = i /\ rec.req = begun + 1 /\ rec.chunk = NoChunk
      /\ rec \in Records
  BY BoundsAssumption, TypeParts
     DEF ClientBegin, ClientTypeOK, Record, Records, RequestRecords
<1>2. /\ wire \in Seq(Records) /\ wire' = Append(wire, rec) /\ UNCHANGED latest
      /\ begun' = begun + 1 /\ open' = [open EXCEPT ![i] = begun + 1]
  BY TypeParts DEF ClientBegin, Put, worker
<1>. HIDE DEF rec
<1>3. /\ n \in Nat /\ Len(wire') = n + 1 /\ wire'[n + 1] = rec
      /\ \A k \in 1..n : wire'[k] = wire[k]
  BY <1>1, <1>2, AppendProperties, LenProperties
<1>4. \A k \in 1..n : OfRequest(k) => wire[k].id \in Ids /\ wire[k].req \in Requests
  BY <1>2, ElementOfSeq, RequestRecord DEF OfRequest
<1>5. latest \in [Ids -> 0..NumRequests] /\ open \in [Ids -> 0..NumRequests] /\ begun \in Nat
  BY BoundsAssumption, TypeParts DEF HistoryOK, ClientTypeOK
<1>. HIDE DEF n
<1>6. Labelled'
  BY <1>1, <1>3 DEF WireInv, Labelled, n
<1>7. Justified'
  BY <1>1, <1>2, <1>3 DEF WireInv, Justified, Announced, Begins, Streams, n
<1>8. Ordered'
  <2>. SUFFICES ASSUME NEW j \in 1..n + 1, NEW k \in 1..n + 1, j < k,
                       OfRequest(j)', OfRequest(k)', wire'[j].id = wire'[k].id
                PROVE  wire'[j].req <= wire'[k].req
    BY <1>3 DEF Ordered, n
  <2>1. j \in 1..n /\ wire'[j] = wire[j] /\ OfRequest(j)
    BY <1>3 DEF OfRequest
  <2>2. CASE k \in 1..n
    BY <1>3, <2>1, <2>2 DEF WireInv, Ordered, OfRequest, n
  <2>3. CASE k = n + 1
    BY <1>1, <1>3, <1>4, <1>5, <2>1, <2>3 DEF WireInv, Behind, n
  <2>. QED
    BY <1>3, <2>2, <2>3
<1>9. Behind'
  BY <1>1, <1>2, <1>3, <1>4, <1>5 DEF WireInv, Behind, Current, OfRequest, n
<1>10. Current'
  <2>. SUFFICES ASSUME NEW m \in Ids
                PROVE  /\ latest[m] <= begun + 1 /\ open'[m] <= begun + 1
                       /\ open'[m] # 0 => /\ latest[m] = open'[m] \/ Announced(wire', m, open'[m], n + 2)
                                         /\ latest[m] <= open'[m]
    BY <1>2, <1>3 DEF Current, n
  <2>1. CASE m = i
    <3>1. Announced(wire', m, begun + 1, n + 2)
      BY <1>1, <1>2, <1>3, <2>1 DEF Announced, n
    <3>. QED
      BY <1>2, <1>5, <2>1, <3>1 DEF WireInv, Current
  <2>2. CASE m # i
    <3>1. open'[m] = open[m]
      BY <1>2, <1>5, <2>2
    <3>2. \A r : Announced(wire, m, r, n + 1) => Announced(wire', m, r, n + 2)
      BY <1>3 DEF Announced, n
    <3>. QED
      BY <1>5, <3>1, <3>2 DEF WireInv, Current, n
  <2>. QED
    BY <2>1, <2>2
<1>. QED
  BY <1>6, <1>7, <1>8, <1>9, <1>10 DEF WireInv

\* Any other record the client sends: of a stream of the request open under its
\* id, or of no interest to the streams.
LEMMA WirePut ==
  ASSUME TypeInv, WireInv, NEW rec \in Records, Put(rec), UNCHANGED <<latest, open, begun>>,
         rec.chunk # NoChunk => rec.chunk.req = rec.req,
         \/ rec.type \notin Begins \cup Streams
         \/ /\ rec.type \in Streams /\ rec.id \in Ids
            /\ open[rec.id] \in Requests /\ rec.req = open[rec.id]
  PROVE  WireInv'
<1>. DEFINE n == Len(wire)
<1>1. wire \in Seq(Records) /\ wire' = Append(wire, rec)
  BY TypeParts DEF Put
<1>2. /\ n \in Nat /\ Len(wire') = n + 1 /\ wire'[n + 1] = rec
      /\ \A k \in 1..n : wire'[k] = wire[k]
  BY <1>1, AppendProperties, LenProperties
<1>3. \A k \in 1..n : OfRequest(k) => wire[k].id \in Ids /\ wire[k].req \in Requests
  BY <1>1, ElementOfSeq, RequestRecord DEF OfRequest
<1>4. latest \in [Ids -> 0..NumRequests] /\ open \in [Ids -> 0..NumRequests] /\ begun \in Nat
  BY BoundsAssumption, TypeParts DEF HistoryOK, ClientTypeOK
<1>. HIDE DEF n
<1>5. Labelled'
  BY <1>2 DEF WireInv, Labelled, n
<1>6. \A i, r, b : Announced(wire, i, r, b) => Announced(wire', i, r, b)
  BY <1>2 DEF Announced, n
<1>7. rec.type \in Streams => /\ latest[rec.id] <= rec.req /\ rec.req <= begun
                              /\ latest[rec.id] = rec.req \/ Announced(wire, rec.id, rec.req, n + 1)
                              /\ \A k \in 1..n : OfRequest(k) /\ wire[k].id = rec.id
                                                   => wire[k].req <= rec.req
  BY <1>2, <1>3, <1>4 DEF WireInv, Current, Behind, Begins, Streams, n
<1>8. Justified'
  <2>. SUFFICES ASSUME NEW k \in 1..n + 1, wire'[k].type \in Streams
                PROVE  latest[wire'[k].id] = wire'[k].req \/ Announced(wire', wire'[k].id, wire'[k].req, k)
    BY <1>2 DEF Justified, n
  <2>1. CASE k \in 1..n
    BY <1>2, <1>6, <2>1 DEF WireInv, Justified, n
  <2>2. CASE k = n + 1
    BY <1>2, <1>6, <1>7, <2>2
  <2>. QED
    BY <1>2, <2>1, <2>2
<1>9. Ordered'
  <2>. SUFFICES ASSUME NEW j \in 1..n + 1, NEW k \in 1..n + 1, j < k,
                       OfRequest(j)', OfRequest(k)', wire'[j].id = wire'[k].id
                PROVE  wire'[j].req <= wire'[k].req
    BY <1>2 DEF Ordered, n
  <2>1. j \in 1..n /\ wire'[j] = wire[j] /\ OfRequest(j)
    BY <1>2 DEF OfRequest
  <2>2. CASE k \in 1..n
    BY <1>2, <2>1, <2>2 DEF WireInv, Ordered, OfRequest, n
  <2>3. CASE k = n + 1
    BY <1>2, <1>7, <2>1, <2>3 DEF OfRequest, Begins, Streams
  <2>. QED
    BY <1>2, <2>2, <2>3
<1>10. Behind'
  <2>. SUFFICES ASSUME NEW k \in 1..n + 1, OfRequest(k)'
                PROVE  /\ latest[wire'[k].id] <= wire'[k].req /\ wire'[k].req <= begun
                       /\ open[wire'[k].id] # 0 => wire'[k].req <= open[wire'[k].id]
    BY <1>2 DEF Behind, n
  <2>1. CASE k \in 1..n
    BY <1>2, <2>1 DEF WireInv, Behind, OfRequest, n
  <2>2. CASE k = n + 1
    BY <1>2, <1>4, <1>7, <2>2 DEF OfRequest, Begins, Streams
  <2>. QED
    BY <1>2, <2>1, <2>2
<1>11. Current'
  <2>1. \A i, r : Announced(wire, i, r, n + 1) => Announced(wire', i, r, n + 2)
    BY <1>2 DEF Announced, n
  <2>. QED
    BY <1>2, <1>4, <2>1 DEF WireInv, Current, n
<1>. QED
  BY <1>5, <1>8, <1>9, <1>10, <1>11 DEF WireInv

\* Steps of the client that send nothing only close requests.
LEMMA WireKept ==
  ASSUME TypeInv, WireInv, UNCHANGED <<wire, latest, begun>>,
         \A i \in Ids : open'[i] \in {0, open[i]}
  PROVE  WireInv'
<1>1. latest \in [Ids -> 0..NumRequests] /\ open \in [Ids -> 0..NumRequests] /\ begun \in Nat
  BY BoundsAssumption, TypeParts DEF HistoryOK, ClientTypeOK
<1>2. \A k \in 1..Len(wire) : OfRequest(k) => wire[k].id \in Ids
  BY TypeParts, ElementOfSeq, RequestRecord DEF OfRequest
<1>3. Labelled' /\ Justified' /\ Ordered'
  BY DEF WireInv, Labelled, Justified, Ordered, OfRequest
<1>4. Behind'
  BY <1>1, <1>2 DEF WireInv, Behind, OfRequest
<1>5. Current'
  BY <1>1 DEF WireInv, Current
<1>. QED
  BY <1>3, <1>4, <1>5 DEF WireInv

\* Every step of the client keeps the order of the wire.
LEMMA WireClient ==
  ASSUME TypeInv, WireInv, ClientStep \/ ClientReads
  PROVE  WireInv'
<1>1. ASSUME NEW i \in Ids, NEW type \in Streams,
             NEW kind \in {"named", "plain", "garbled"}, ClientChunk(i, type, kind)
      PROVE  WireInv'
  <2>. DEFINE rec == Record(type, i, open[i], Chunk(open[i], chunks[i] + 1, kind))
  <2>1. open[i] \in Requests /\ chunks[i] + 1 \in Nat
    BY <1>1, TypeParts DEF ClientChunk, PhaseOK, ClientTypeOK
  <2>2. /\ rec \in Records /\ rec.type \in Streams /\ rec.id = i /\ rec.req = open[i]
        /\ rec.chunk.req = rec.req
    BY <2>1 DEF Record, Records, RequestRecords, Chunk, Chunks
  <2>3. Put(rec) /\ UNCHANGED <<latest, open, begun>>
    BY <1>1 DEF ClientChunk, worker
  <2>. HIDE DEF rec
  <2>. QED
    BY <2>1, <2>2, <2>3, WirePut
<1>2. ASSUME NEW i \in Ids, NEW type \in Streams, ClientEndStream(i, type)
      PROVE  WireInv'
  <2>. DEFINE rec == Record(type, i, open[i], NoChunk)
  <2>1. open[i] \in Requests
    BY <1>2, TypeParts DEF ClientEndStream, PhaseOK, ClientTypeOK
  <2>2. /\ rec \in Records /\ rec.type \in Streams /\ rec.id = i /\ rec.req = open[i]
        /\ rec.chunk = NoChunk
    BY <2>1 DEF Record, Records, RequestRecords
  <2>3. Put(rec) /\ UNCHANGED <<latest, open, begun>>
    BY <1>2 DEF ClientEndStream, worker
  <2>. HIDE DEF rec
  <2>. QED
    BY <2>1, <2>2, <2>3, WirePut
<1>3. ASSUME NEW i \in Ids, ClientAbort(i)
      PROVE  WireInv'
  <2>. DEFINE rec == Record("ABORT", i, open[i], NoChunk)
  <2>1. open[i] \in Requests
    BY <1>3, TypeParts DEF ClientAbort, PhaseOK, ClientTypeOK
  <2>2. rec \in Records /\ rec.type \notin Begins \cup Streams /\ rec.chunk = NoChunk
    BY <2>1 DEF Record, Records, RequestRecords, Begins, Streams
  <2>3. Put(rec) /\ UNCHANGED <<latest, open, begun>>
    BY <1>3 DEF ClientAbort, worker
  <2>. HIDE DEF rec
  <2>. QED
    BY <2>2, <2>3, WirePut
<1>4. ASSUME NEW type \in {"GET_VALUES", "TORN"}, ClientManage(type)
      PROVE  WireInv'
  <2>. DEFINE rec == Record(type, 0, 0, NoChunk)
  <2>1. rec \in Records /\ rec.type \notin Begins \cup Streams /\ rec.chunk = NoChunk
    BY DEF Record, Records, Begins, Streams
  <2>2. Put(rec) /\ UNCHANGED <<latest, open, begun>>
    BY <1>4 DEF ClientManage, client, worker
  <2>. HIDE DEF rec
  <2>. QED
    BY <2>1, <2>2, WirePut
<1>5. ASSUME ClientHangUp \/ ClientSeesClose \/ ClientReceive
      PROVE  WireInv'
  <2>1. UNCHANGED <<wire, latest, begun>>
    BY <1>5 DEF ClientHangUp, ClientSeesClose, ClientReceive, worker
  <2>2. open \in [Ids -> 0..NumRequests]
    BY TypeParts DEF ClientTypeOK
  <2>3. \A i \in Ids : open'[i] \in {0, open[i]}
    BY <1>5, <2>2 DEF ClientHangUp, ClientSeesClose, ClientReceive
  <2>. QED
    BY <2>1, <2>3, WireKept
<1>. QED
  BY <1>1, <1>2, <1>3, <1>4, <1>5, WireBegin DEF ClientStep, ClientReads, Streams

\* Reading a record moves every other one forward; reading the BEGIN_REQUEST of
\* an id makes its request the latest.
LEMMA WireTake ==
  ASSUME TypeInv, WireInv, NEW types, Taking(types),
         \/ Head(wire).type \notin Begins /\ UNCHANGED latest
         \/ /\ Head(wire).type \in Begins
            /\ latest' = [latest EXCEPT ![Head(wire).id] = Head(wire).req]
  PROVE  WireInv'
<1>. DEFINE n == Len(wire)
            r == wire[1]
<1>1. /\ wire \in Seq(Records) /\ wire # <<>> /\ wire' = Tail(wire)
      /\ UNCHANGED <<open, begun>>
  BY TypeParts DEF Taking, client
<1>2. /\ n \in Nat \ {0} /\ Len(wire') = n - 1 /\ Head(wire) = r
      /\ \A k \in 1..(n - 1) : wire'[k] = wire[k + 1]
  BY <1>1, EmptySeq, HeadTailProperties, LenProperties
<1>3. \A k \in 1..n : OfRequest(k) => wire[k].id \in Ids /\ wire[k].req \in Requests
  BY <1>1, ElementOfSeq, RequestRecord DEF OfRequest
<1>4. latest \in [Ids -> 0..NumRequests] /\ open \in [Ids -> 0..NumRequests] /\ begun \in Nat
  BY BoundsAssumption, TypeParts DEF HistoryOK, ClientTypeOK
<1>. HIDE DEF n, r
<1>5. Labelled' /\ Ordered'
  <2>1. \A k \in 1..(n - 1) : k + 1 \in 1..n
    BY <1>2
  <2>2. Labelled'
    BY <1>2, <2>1 DEF WireInv, Labelled, n
  <2>3. ASSUME NEW j \in 1..(n - 1), NEW k \in 1..(n - 1), j < k,
               OfRequest(j)', OfRequest(k)', wire'[j].id = wire'[k].id
        PROVE  wire'[j].req <= wire'[k].req
    <3>1. j + 1 \in 1..n /\ k + 1 \in 1..n /\ j + 1 < k + 1
      BY <2>1, <2>3
    <3>2. wire'[j] = wire[j + 1] /\ wire'[k] = wire[k + 1]
      BY <1>2
    <3>3. OfRequest(j + 1) /\ OfRequest(k + 1)
      BY <2>3, <3>2 DEF OfRequest
    <3>. QED
      BY <2>3, <3>1, <3>2, <3>3 DEF WireInv, Ordered, n
  <2>. QED
    BY <1>2, <2>2, <2>3 DEF Ordered
\* A request that was announced still is, or was the one just read.
<1>6. \A i, q : \A b \in Nat : Announced(wire, i, q, b) =>
        \/ Announced(wire', i, q, b - 1)
        \/ r.type \in Begins /\ r.id = i /\ r.req = q
  <2>. SUFFICES ASSUME NEW i, NEW q, NEW b \in Nat, NEW j \in 1..n,
                       j < b, wire[j].type \in Begins, wire[j].id = i, wire[j].req = q
                PROVE  \/ Announced(wire', i, q, b - 1)
                       \/ r.type \in Begins /\ r.id = i /\ r.req = q
    BY DEF Announced, n
  <2>1. CASE j = 1
    BY <2>1 DEF r
  <2>2. CASE j # 1
    <3>1. j - 1 \in 1..(n - 1) /\ wire'[j - 1] = wire[j] /\ j - 1 < b - 1
      BY <1>2, <2>2
    <3>. QED
      BY <1>2, <3>1 DEF Announced
  <2>. QED
    BY <2>1, <2>2
\* Reading a BEGIN_REQUEST only raises the latest request of its id, up to the
\* first one still in flight.
<1>7. \A k \in 2..n : OfRequest(k) => latest'[wire[k].id] <= wire[k].req
  <2>. SUFFICES ASSUME NEW k \in 2..n, OfRequest(k)
                PROVE  latest'[wire[k].id] <= wire[k].req
    OBVIOUS
  <2>1. k \in 1..n /\ wire[k].id \in Ids /\ latest[wire[k].id] <= wire[k].req
    BY <1>2, <1>3 DEF WireInv, Behind, n
  <2>2. CASE UNCHANGED latest
    BY <2>1, <2>2
  <2>3. ASSUME r.type \in Begins, latest' = [latest EXCEPT ![r.id] = r.req]
        PROVE  latest'[wire[k].id] <= wire[k].req
    <3>1. 1 \in 1..n /\ 1 < k /\ OfRequest(1)
      BY <1>2, <2>3 DEF OfRequest, r
    <3>2. r.id = wire[k].id => r.req <= wire[k].req
      BY <2>1, <3>1 DEF WireInv, Ordered, n, r
    <3>. QED
      BY <1>4, <2>1, <2>3, <3>2
  <2>. QED
    BY <1>2, <2>2, <2>3
<1>8. \A i \in Ids : latest[i] <= latest'[i]
  <2>1. CASE UNCHANGED latest
    BY <1>4, <2>1
  <2>2. ASSUME r.type \in Begins, latest' = [latest EXCEPT ![r.id] = r.req]
        PROVE  \A i \in Ids : latest[i] <= latest'[i]
    <3>1. latest[r.id] <= r.req
      BY <1>2, <2>2 DEF WireInv, Behind, OfRequest, n, r
    <3>. QED
      BY <1>4, <2>2, <3>1
  <2>. QED
    BY <1>2, <2>1, <2>2
<1>9. Justified'
  <2>. SUFFICES ASSUME NEW k \in 1..(n - 1), wire'[k].type \in Streams
                PROVE  \/ latest'[wire'[k].id] = wire'[k].req
                       \/ Announced(wire', wire'[k].id, wire'[k].req, k)
    BY <1>2 DEF Justified
  <2>. DEFINE s == wire[k + 1]
  <2>1. /\ k + 1 \in 2..n /\ wire'[k] = s /\ OfRequest(k + 1) /\ s.type \in Streams
        /\ s.id \in Ids /\ s.req \in Requests
    BY <1>2, <1>3 DEF OfRequest
  <2>2. latest[s.id] = s.req \/ Announced(wire, s.id, s.req, k + 1)
    BY <2>1 DEF WireInv, Justified, n
  <2>3. latest'[s.id] <= s.req /\ latest[s.id] <= latest'[s.id]
    BY <1>7, <1>8, <2>1
  <2>4. latest'[s.id] \in 0..NumRequests /\ latest[s.id] \in 0..NumRequests
    <3>1. latest[s.id] \in 0..NumRequests
      BY <1>4, <2>1
    <3>2. CASE UNCHANGED latest
      BY <3>1, <3>2
    <3>3. ASSUME r.type \in Begins, latest' = [latest EXCEPT ![r.id] = r.req]
          PROVE  latest'[s.id] \in 0..NumRequests
      <4>1. r.req \in Requests
        BY <1>2, <1>3, <3>3 DEF OfRequest, r, n
      <4>. QED
        BY <1>4, <2>1, <3>1, <3>3, <4>1
    <3>. QED
      BY <1>2, <3>1, <3>2, <3>3
  <2>5. CASE latest[s.id] = s.req
    BY <2>1, <2>3, <2>4, <2>5, BoundsAssumption
  <2>6. CASE Announced(wire, s.id, s.req, k + 1)
    BY <1>2, <1>4, <1>6, <2>1, <2>6
  <2>. QED
    BY <2>2, <2>5, <2>6
<1>10. Behind'
  BY <1>1, <1>2, <1>7 DEF WireInv, Behind, OfRequest, n
<1>11. Current'
  <2>. SUFFICES ASSUME NEW i \in Ids
                PROVE  /\ latest'[i] <= begun /\ open[i] <= begun
                       /\ open[i] # 0 => \/ latest'[i] = open[i]
                                         \/ Announced(wire', i, open[i], n)
                       /\ open[i] # 0 => latest'[i] <= open[i]
    BY <1>1, <1>2 DEF Current
  <2>1. /\ latest'[i] <= begun /\ open[i] <= begun
        /\ open[i] # 0 => latest'[i] <= open[i]
    BY <1>2, <1>3, <1>4 DEF WireInv, Current, Behind, OfRequest, n, r
  <2>2. latest'[i] \in 0..NumRequests /\ latest[i] \in 0..NumRequests /\ open[i] \in 0..NumRequests
    BY <1>2, <1>3, <1>4 DEF OfRequest, r, n
  <2>3. ASSUME open[i] # 0, latest[i] = open[i] PROVE latest'[i] = open[i]
    BY <1>8, <2>1, <2>2, <2>3, BoundsAssumption
  <2>4. ASSUME Announced(wire, i, open[i], n + 1)
        PROVE  latest'[i] = open[i] \/ Announced(wire', i, open[i], n)
    BY <1>2, <1>4, <1>6, <2>4
  <2>. QED
    BY <2>1, <2>3, <2>4 DEF WireInv, Current, n
<1>. QED
  BY <1>5, <1>9, <1>10, <1>11 DEF WireInv

\* A stream record that passes the test of PARAMS and STDIN is of the request
\* the worker runs.
LEMMA HeadOwn ==
  ASSUME UnmixedInv, Taking(Streams), Belongs(Head(wire))
  PROVE  Head(wire).chunk # NoChunk => Head(wire).chunk.req = active_req
<1>. DEFINE r == wire[1]
<1>1. /\ wire \in Seq(Records) /\ Len(wire) \in Nat \ {0} /\ Head(wire) = r
      /\ r.type \in Streams
  BY TypeParts, EmptySeq, HeadTailProperties DEF UnmixedInv, Taking
<1>2. latest[r.id] = r.req
  BY <1>1 DEF UnmixedInv, WireInv, Justified, Announced
<1>3. active_req = latest[r.id]
  BY <1>1 DEF UnmixedInv, Active, Belongs, Taking
<1>4. r.chunk # NoChunk => r.chunk.req = r.req
  BY <1>1 DEF UnmixedInv, WireInv, Labelled
<1>. QED
  BY <1>1, <1>2, <1>3, <1>4

\* One more chunk, or one more stream, of the same request.
LEMMA UnmixedAppend ==
  ASSUME NEW s \in Seq(Chunks), NEW c \in Chunks, NEW n, Unmixed(s, n), c.req = n
  PROVE  Unmixed(Append(s, c), n)
  BY AppendProperties, LenProperties DEF Unmixed

LEMMA UnmixedConcat ==
  ASSUME NEW s \in Seq(Chunks), NEW t \in Seq(Chunks), NEW n, Unmixed(s, n), Unmixed(t, n)
  PROVE  Unmixed(s \o t, n)
  BY ConcatProperties, LenProperties DEF Unmixed

\* Nothing is in an empty buffer, and a failed worker reads no more.
LEMMA UnmixedEmpty == \A n : Unmixed(<<>>, n)
  BY DEF Unmixed

LEMMA UnmixedFailed ==
  ASSUME UnmixedInv, Failed
  PROVE  Active' /\ Own'
<1>1. /\ status' = "failed" /\ UNCHANGED <<params_data, params, body, active_req>>
      /\ UNCHANGED in_request
  BY DEF Failed, buffers
<1>. QED
  BY <1>1 DEF UnmixedInv, Active, Own, Unmixed

LEMMA UnmixedCleared ==
  ASSUME ClearedRequest
  PROVE  Active' /\ Own'
  BY UnmixedEmpty DEF ClearedRequest, Active, Own

LEMMA UnmixedReadBegin ==
  ASSUME UnmixedInv, ReadBegin
  PROVE  WireInv' /\ Active' /\ Own' /\ DispatchUnmixed'
<1>. DEFINE r == Head(wire)
<1>1. /\ Taking(Begins) /\ latest' = [latest EXCEPT ![r.id] = r.req] /\ UNCHANGED ran
  BY DEF ReadBegin
<1>2. r.id \in Ids /\ latest \in [Ids -> 0..NumRequests]
  BY <1>1, TakingType, RequestRecord, TypeParts DEF UnmixedInv, HistoryOK
<1>3. WireInv'
  BY <1>1, WireTake DEF UnmixedInv, Taking
<1>4. DispatchUnmixed'
  BY <1>1 DEF UnmixedInv, DispatchUnmixed
<1>5. ASSUME in_request' = TRUE, active_id' = r.id, active_req' = r.req,
             params_data' = <<>>, params' = <<>>, body' = <<>>
      PROVE  Active' /\ Own'
  <2>1. latest'[r.id] = r.req
    BY <1>1, <1>2
  <2>. QED
    BY <1>5, <2>1, UnmixedEmpty DEF Active, Own
<1>6. ASSUME ~in_request, UNCHANGED <<in_request, params_data, params, body>>
      PROVE  Active' /\ Own'
  <2>1. params_data = <<>> /\ params = <<>> /\ body = <<>> /\ ~in_request'
    BY <1>6 DEF UnmixedInv, Active
  <2>. QED
    BY <1>6, <2>1, UnmixedEmpty DEF Active, Own
<1>7. Active' /\ Own'
  BY <1>5, <1>6, UnmixedFailed DEF ReadBegin
<1>. QED
  BY <1>3, <1>4, <1>7

LEMMA UnmixedReadParams ==
  ASSUME UnmixedInv, ReadParams
  PROVE  WireInv' /\ Active' /\ Own' /\ DispatchUnmixed'
<1>. DEFINE r == Head(wire)
<1>1. Taking({"PARAMS"}) /\ UNCHANGED <<latest, ran>>
  BY DEF ReadParams
<1>2. Taking(Streams)
  BY <1>1 DEF Taking, Streams
<1>3. r.type = "PARAMS" /\ (r.chunk # NoChunk => r.chunk \in Chunks)
  BY <1>1, TakingType, RequestRecord DEF UnmixedInv, Streams
<1>4. WireInv'
  BY <1>1, <1>3, WireTake DEF UnmixedInv, Begins
<1>5. DispatchUnmixed'
  BY <1>1 DEF UnmixedInv, DispatchUnmixed
<1>6. /\ params_data \in Seq(Chunks) /\ params \in Seq(Chunks)
      /\ Unmixed(params_data, active_req) /\ Unmixed(params, active_req)
  BY TypeParts DEF UnmixedInv, RequestOK, BuffersTypeOK, Own
<1>7. ASSUME in_request, params' = params \o params_data,
             UNCHANGED <<in_request, active_id, params_data, body, active_req, requests, status>>
      PROVE  Active' /\ Own'
  <2>1. Unmixed(params', active_req)
    BY <1>6, <1>7, UnmixedConcat
  <2>. QED
    BY <1>1, <1>7, <2>1 DEF UnmixedInv, Active, Own
<1>8. ASSUME Belongs(r), r.chunk # NoChunk, params_data' = Append(params_data, r.chunk),
             UNCHANGED <<in_request, active_id, params_done, params, body, active_req, requests, status>>
      PROVE  Active' /\ Own'
  <2>1. r.chunk.req = active_req /\ in_request
    BY <1>2, <1>8, HeadOwn DEF Belongs
  <2>2. Unmixed(params_data', active_req)
    BY <1>3, <1>6, <1>8, <2>1, UnmixedAppend
  <2>. QED
    BY <1>1, <1>8, <2>1, <2>2 DEF UnmixedInv, Active, Own
<1>9. Active' /\ Own'
  BY <1>7, <1>8, UnmixedFailed DEF ReadParams, Belongs
<1>. QED
  BY <1>4, <1>5, <1>9

LEMMA UnmixedDispatch ==
  ASSUME UnmixedInv, in_request, Dispatch
  PROVE  Active' /\ Own' /\ DispatchUnmixed'
<1>. DEFINE run == [req |-> active_req, params |-> params, body |-> body]
            Runs == [req : 0..NumRequests, params : Seq(Chunks), body : Seq(Chunks)]
<1>1. Active' /\ Own'
  BY UnmixedFailed, UnmixedCleared DEF Dispatch
<1>2. run \in Runs /\ ran \in Seq(Runs)
  BY TypeParts DEF UnmixedInv, RequestOK, ActiveOK, BuffersTypeOK, HistoryOK
<1>3. Unmixed(run.params, run.req) /\ Unmixed(run.body, run.req)
  BY DEF UnmixedInv, Own
<1>4. ran' = Append(ran, run) \/ ran' = ran
  BY DEF Dispatch
<1>. HIDE DEF run, Runs
<1>5. CASE ran' = Append(ran, run)
  <2>1. /\ DOMAIN ran = 1..Len(ran) /\ DOMAIN ran' = 1..(Len(ran) + 1) /\ Len(ran) \in Nat
        /\ \A j \in 1..Len(ran) : ran'[j] = ran[j]
        /\ ran'[Len(ran) + 1] = run
    BY <1>2, <1>5, AppendProperties, LenProperties
  <2>2. ASSUME NEW j \in DOMAIN ran'
        PROVE  Unmixed(ran'[j].params, ran'[j].req) /\ Unmixed(ran'[j].body, ran'[j].req)
    <3>1. CASE j \in DOMAIN ran
      BY <2>1, <3>1 DEF UnmixedInv, DispatchUnmixed
    <3>2. CASE j = Len(ran) + 1
      BY <1>3, <2>1, <3>2
    <3>. QED
      BY <2>1, <3>1, <3>2
  <2>. QED
    BY <1>1, <2>2 DEF DispatchUnmixed
<1>6. CASE ran' = ran
  BY <1>1, <1>6 DEF UnmixedInv, DispatchUnmixed
<1>. QED
  BY <1>4, <1>5, <1>6

LEMMA UnmixedReadStdin ==
  ASSUME UnmixedInv, ReadStdin
  PROVE  WireInv' /\ Active' /\ Own' /\ DispatchUnmixed'
<1>. DEFINE r == Head(wire)
<1>1. Taking({"STDIN"}) /\ UNCHANGED latest
  BY DEF ReadStdin
<1>2. Taking(Streams)
  BY <1>1 DEF Taking, Streams
<1>3. r.type = "STDIN" /\ (r.chunk # NoChunk => r.chunk \in Chunks)
  BY <1>1, TakingType, RequestRecord DEF UnmixedInv, Streams
<1>4. WireInv'
  BY <1>1, <1>3, WireTake DEF UnmixedInv, Begins
<1>5. body \in Seq(Chunks) /\ Unmixed(body, active_req)
  BY TypeParts DEF UnmixedInv, RequestOK, BuffersTypeOK, Own
<1>6. ASSUME Belongs(r), Dispatch
      PROVE  Active' /\ Own' /\ DispatchUnmixed'
  BY <1>6, UnmixedDispatch DEF Belongs
<1>7. ASSUME Belongs(r), r.chunk # NoChunk, body' = Append(body, r.chunk),
             UNCHANGED <<in_request, active_id, params_done, params_data, params,
                         active_req, requests, status, ran, ends, reply>>
      PROVE  Active' /\ Own' /\ DispatchUnmixed'
  <2>1. r.chunk.req = active_req /\ in_request
    BY <1>2, <1>7, HeadOwn DEF Belongs
  <2>2. Unmixed(body', active_req)
    BY <1>3, <1>5, <1>7, <2>1, UnmixedAppend
  <2>. QED
    BY <1>1, <1>7, <2>1, <2>2 DEF UnmixedInv, Active, Own, DispatchUnmixed
<1>8. ASSUME Failed, UNCHANGED ran
      PROVE  Active' /\ Own' /\ DispatchUnmixed'
  BY <1>8, UnmixedFailed DEF UnmixedInv, DispatchUnmixed
<1>9. Active' /\ Own' /\ DispatchUnmixed'
  BY <1>6, <1>7, <1>8 DEF ReadStdin
<1>. QED
  BY <1>4, <1>9

LEMMA UnmixedReadOther ==
  ASSUME UnmixedInv, ReadAbort \/ ReadManagement \/ ReadEof
  PROVE  WireInv' /\ Active' /\ Own' /\ DispatchUnmixed'
<1>1. UNCHANGED <<latest, ran>>
  BY DEF ReadAbort, ReadManagement, ReadEof
<1>2. DispatchUnmixed'
  BY <1>1 DEF UnmixedInv, DispatchUnmixed
<1>3. ASSUME ReadAbort PROVE WireInv' /\ Active' /\ Own'
  <2>1. Taking({"ABORT"}) /\ (Failed \/ ClearedRequest)
    BY <1>3 DEF ReadAbort
  <2>2. WireInv'
    BY <1>1, <2>1, WireTake DEF UnmixedInv, Taking, Begins
  <2>. QED
    BY <2>1, <2>2, UnmixedFailed, UnmixedCleared
<1>4. ASSUME ReadManagement PROVE WireInv' /\ Active' /\ Own'
  <2>1. Taking({"GET_VALUES", "TORN"}) /\ (Failed \/ UNCHANGED <<buffers, requests, status>>)
    BY <1>4 DEF ReadManagement
  <2>2. WireInv'
    BY <1>1, <2>1, WireTake DEF UnmixedInv, Taking, Begins
  <2>3. ASSUME UNCHANGED <<buffers, requests, status>> PROVE Active' /\ Own'
    <3>1. UNCHANGED <<in_request, active_id, params_data, params, body, active_req, status>>
      BY <2>3 DEF buffers
    <3>. QED
      BY <1>1, <3>1 DEF UnmixedInv, Active, Own
  <2>. QED
    BY <2>1, <2>2, <2>3, UnmixedFailed
<1>5. ASSUME ReadEof PROVE WireInv' /\ Active' /\ Own'
  <2>1. /\ UNCHANGED <<wire, latest, begun, open>> /\ status' = "eof"
        /\ UNCHANGED <<in_request, params_data, params, body, active_req>>
    BY <1>5 DEF ReadEof, client, buffers
  <2>2. WireInv'
    BY <2>1, WireKept DEF UnmixedInv
  <2>. QED
    BY <2>1, <2>2 DEF UnmixedInv, Active, Own
<1>. QED
  BY <1>2, <1>3, <1>4, <1>5

LEMMA UnmixedInit == Init => UnmixedInv
  BY TypeInit, WireInit DEF UnmixedInv

LEMMA UnmixedStep == ASSUME UnmixedInv, [Next]_vars PROVE UnmixedInv'
<1>1. TypeInv'
  BY TypeStep DEF UnmixedInv
<1>2. ASSUME ClientStep \/ ClientReads
      PROVE  WireInv' /\ Active' /\ Own' /\ DispatchUnmixed'
  <2>1. UNCHANGED worker
    BY <1>2 DEF ClientStep, ClientReads, ClientBegin, ClientChunk, ClientEndStream,
                ClientAbort, ClientManage, ClientHangUp, ClientReceive, ClientSeesClose
  <2>2. /\ UNCHANGED <<in_request, active_id, params_data, params, body, active_req>>
        /\ UNCHANGED <<status, latest, ran>>
    BY <2>1 DEF worker, buffers
  <2>3. Active' /\ Own' /\ DispatchUnmixed'
    BY <2>2 DEF UnmixedInv, Active, Own, DispatchUnmixed
  <2>. QED
    BY <1>2, <2>3, WireClient DEF UnmixedInv
<1>3. ASSUME WorkerStep
      PROVE  WireInv' /\ Active' /\ Own' /\ DispatchUnmixed'
  BY <1>3, UnmixedReadBegin, UnmixedReadParams, UnmixedReadStdin, UnmixedReadOther DEF WorkerStep
<1>4. ASSUME UNCHANGED vars
      PROVE  WireInv' /\ Active' /\ Own' /\ DispatchUnmixed'
  <2>1. /\ UNCHANGED <<in_request, active_id, params_data, params, body, active_req>>
        /\ UNCHANGED <<status, latest, ran, wire, open, begun>>
    BY <1>4 DEF vars, client, worker, buffers
  <2>2. WireInv'
    BY <2>1, WireKept DEF UnmixedInv
  <2>. QED
    BY <2>1, <2>2 DEF UnmixedInv, Active, Own, DispatchUnmixed
<1>. QED
  BY <1>1, <1>2, <1>3, <1>4 DEF Next, UnmixedInv

\* Whatever is aborted, refused, pipelined or interleaved on a connection, the
\* application is never handed a chunk of another request than the one it runs.
THEOREM NeverMixed == Spec => []DispatchUnmixed
<1>1. Init => UnmixedInv
  BY UnmixedInit
<1>2. UnmixedInv /\ [Next]_vars => UnmixedInv'
  BY UnmixedStep
<1>3. UnmixedInv => DispatchUnmixed
  BY DEF UnmixedInv
<1>. QED
  BY <1>1, <1>2, <1>3, PTL DEF Spec

----------------------------------------------------------------------------
(* Why a stream that is dispatched is whole.                               *)

\* A record, a chunk or the end of stream t of request m.
OfStream(j, t, m) == wire[j].type = t /\ wire[j].req = m
ChunkAt(j, t, m)  == OfStream(j, t, m) /\ wire[j].chunk # NoChunk
EndAt(j, t, m)    == OfStream(j, t, m) /\ wire[j].chunk = NoChunk
Place(j)          == wire[j].chunk.place

\* The requests that can still be dispatched: the one the worker runs, and those
\* whose BEGIN_REQUEST it has not read.
Runs(m)    == in_request /\ active_req = m
Awaited(m) == \E j \in 1..Len(wire) : wire[j].type \in Begins /\ wire[j].req = m
Live(m)    == Runs(m) \/ Awaited(m)
Got(t, m)  == IF ~Runs(m) THEN 0 ELSE IF t = "PARAMS" THEN Len(params_data) ELSE Len(body)

\* The chunks in flight of such a request follow those in the buffer, one by one,
\* to the last one sent.
Reached(t, m) == \/ Got(t, m) = sizes[t][m]
                 \/ \E j \in 1..Len(wire) : ChunkAt(j, t, m) /\ Place(j) = sizes[t][m]
Follows(k, t, m) == \/ Place(k) = Got(t, m) + 1
                    \/ \E j \in 1..Len(wire) : j < k /\ ChunkAt(j, t, m) /\ Place(j) = Place(k) - 1
InPlace(t, m) ==
  /\ Reached(t, m)
  /\ \A k \in 1..Len(wire) : ChunkAt(k, t, m) =>
       /\ Got(t, m) < Place(k) /\ Place(k) <= sizes[t][m] /\ Follows(k, t, m)
       /\ \A j \in 1..Len(wire) : j < k /\ ChunkAt(j, t, m) => Place(j) < Place(k)
Placed == status = "serving" => \A t \in Streams, m \in Requests : Live(m) => InPlace(t, m)

\* Nothing of a stream is sent behind its end, and a request begins once.
EndsLast == \A j, k \in 1..Len(wire) : j < k =>
              \A t \in Streams, m \in Requests : EndAt(j, t, m) => ~OfStream(k, t, m)
BeginsOnce == \A k \in 1..Len(wire) : wire[k].type \in Begins =>
                /\ active_req < wire[k].req
                /\ \A j \in 1..Len(wire) : j < k /\ wire[j].type \in Begins => wire[j].req < wire[k].req

\* A stream the client has not ended: how much it has sent, and that no one takes
\* it for ended.
Sending(t, i) == phase[i] = "params" \/ (t = "STDIN" /\ phase[i] = "stdin")
Unended == \A t \in Streams, i \in Ids : Sending(t, i) =>
             /\ \A j \in 1..Len(wire) : ~EndAt(j, t, open[i])
             /\ t = "PARAMS" => ~(Runs(open[i]) /\ params_done)
             /\ \A j \in DOMAIN ran : ran[j].req # open[i]
             /\ sizes[t][open[i]] = IF t = "STDIN" /\ phase[i] = "params" THEN 0 ELSE chunks[i]
Distinct == \A i, j \in Ids : open[i] = open[j] /\ open[i] # 0 => i = j
Fresh == /\ \A t \in Streams, m \in Requests : m > begun => sizes[t][m] = 0
         /\ active_req <= begun /\ \A j \in DOMAIN ran : ran[j].req \in Requests /\ ran[j].req <= begun

\* The buffers of the request the worker runs.
InOrder(s) == \A k \in 1..Len(s) : s[k].place = k
Buffered == in_request =>
  /\ InOrder(params_data) /\ InOrder(body)
  /\ ~params_done => params = <<>>
  /\ params_done => /\ params = params_data /\ Len(params) = sizes["PARAMS"][active_req]
                    /\ \A k \in 1..Len(wire) : ~OfStream(k, "PARAMS", active_req)

WholeInv == /\ UnmixedInv /\ Placed /\ EndsLast /\ BeginsOnce /\ Unended
            /\ Distinct /\ Fresh /\ Buffered /\ DispatchWhole

LEMMA WholeTypes ==
  ASSUME TypeInv
  PROVE  /\ Len(wire) \in Nat /\ in_request \in BOOLEAN /\ params_done \in BOOLEAN
         /\ \A t \in Streams, m \in Requests : sizes[t][m] \in Nat /\ Got(t, m) \in Nat
         /\ \A k \in 1..Len(wire) : \A t \in Streams, m \in Requests :
              ChunkAt(k, t, m) => wire[k].chunk \in Chunks /\ Place(k) \in Nat
         /\ \A k \in 1..Len(wire) : wire[k].type \in Begins \cup Streams => wire[k].req \in Requests
         /\ params_data \in Seq(Chunks) /\ body \in Seq(Chunks) /\ begun \in Nat
         /\ active_req \in 0..NumRequests
<1>1. /\ wire \in Seq(Records) /\ sizes \in [Streams -> [Requests -> Nat]] /\ begun \in Nat
      /\ params_data \in Seq(Chunks) /\ body \in Seq(Chunks) /\ active_req \in 0..NumRequests
      /\ in_request \in BOOLEAN /\ params_done \in BOOLEAN
  BY BoundsAssumption, TypeParts DEF ClientTypeOK, RequestOK, FlagsOK, BuffersTypeOK
<1>2. \A k \in 1..Len(wire) : wire[k] \in Records
  BY <1>1, ElementOfSeq
<1>3. \A k \in 1..Len(wire) : wire[k].type \in Begins \cup Streams =>
        wire[k].req \in Requests /\ wire[k].chunk \in Chunks \cup {NoChunk}
  BY <1>2, RequestRecord
<1>4. \A k \in 1..Len(wire) : \A t \in Streams, m \in Requests :
        ChunkAt(k, t, m) => wire[k].chunk \in Chunks /\ Place(k) \in Nat
  BY <1>3 DEF ChunkAt, OfStream, Place, Chunks
<1>5. /\ Len(wire) \in Nat
      /\ \A t \in Streams, m \in Requests : sizes[t][m] \in Nat /\ Got(t, m) \in Nat
  BY <1>1, LenProperties DEF Got
<1>. QED
  BY <1>1, <1>3, <1>4, <1>5

\* Reading a record moves the others one place forward.
LEMMA TailShift ==
  ASSUME TypeInv, NEW types, Taking(types)
  PROVE  /\ 1 \in 1..Len(wire) /\ Head(wire) = wire[1] /\ Len(wire') = Len(wire) - 1
         /\ \A k \in 1..Len(wire') : k + 1 \in 1..Len(wire) /\ wire'[k] = wire[k + 1]
         /\ \A k \in 1..Len(wire) : k # 1 => k - 1 \in 1..Len(wire') /\ wire'[k - 1] = wire[k]
<1>1. wire \in Seq(Records) /\ wire # <<>> /\ wire' = Tail(wire)
  BY TypeParts DEF Taking
<1>2. Len(wire) \in Nat \ {0} /\ Head(wire) = wire[1] /\ Len(wire') = Len(wire) - 1
  BY <1>1, EmptySeq, HeadTailProperties, LenProperties
<1>3. \A k \in 1..(Len(wire) - 1) : wire'[k] = wire[k + 1]
  BY <1>1, <1>2, HeadTailProperties
<1>4. \A k \in 1..Len(wire) : k # 1 => k - 1 \in 1..(Len(wire) - 1) /\ (k - 1) + 1 = k
  BY <1>2
<1>. QED
  BY <1>2, <1>3, <1>4

\* Reading a record of another stream, or the first chunk of this one.
LEMMA InPlaceTaken ==
  ASSUME TypeInv, NEW types, Taking(types), NEW t \in Streams, NEW m \in Requests, InPlace(t, m),
         Got(t, m)' = IF ChunkAt(1, t, m) THEN Got(t, m) + 1 ELSE Got(t, m)
  PROVE  InPlace(t, m)'
<1>. DEFINE n == Len(wire)
            g == Got(t, m)
            s == sizes[t][m]
<1>1. /\ 1 \in 1..n /\ n \in Nat /\ Len(wire') = n - 1
      /\ \A k \in 1..(n - 1) : k + 1 \in 1..n /\ wire'[k] = wire[k + 1]
      /\ \A k \in 1..n : k # 1 => k - 1 \in 1..(n - 1) /\ wire'[k - 1] = wire[k]
  BY TailShift, WholeTypes
<1>2. /\ g \in Nat /\ s \in Nat /\ s = sizes'[t][m]
      /\ \A k \in 1..n : ChunkAt(k, t, m) => Place(k) \in Nat
  BY WholeTypes DEF Taking, client
<1>3. /\ \A k \in 1..(n - 1) : (ChunkAt(k, t, m)' <=> ChunkAt(k + 1, t, m)) /\ Place(k)' = Place(k + 1)
      /\ \A k \in 1..n : k # 1 => (ChunkAt(k - 1, t, m)' <=> ChunkAt(k, t, m)) /\ Place(k - 1)' = Place(k)
  BY <1>1 DEF ChunkAt, OfStream, Place
<1>4. ChunkAt(1, t, m) => Place(1) = g + 1
  BY <1>1, <1>2 DEF InPlace, Follows
<1>. HIDE DEF n, g, s
<1>5. /\ g = s \/ \E j \in 1..n : ChunkAt(j, t, m) /\ Place(j) = s
      /\ \A k \in 1..n : ChunkAt(k, t, m) =>
           /\ g < Place(k) /\ Place(k) <= s
           /\ \/ Place(k) = g + 1
              \/ \E j \in 1..n : j < k /\ ChunkAt(j, t, m) /\ Place(j) = Place(k) - 1
           /\ \A j \in 1..n : j < k /\ ChunkAt(j, t, m) => Place(j) < Place(k)
  BY DEF InPlace, Reached, Follows, n, g, s
<1>. DEFINE h == Got(t, m)'
<1>6. h = IF ChunkAt(1, t, m) THEN g + 1 ELSE g
  BY DEF g
<1>. HIDE DEF h
<1>7. h = s \/ \E j \in 1..(n - 1) : ChunkAt(j, t, m)' /\ Place(j)' = s
  <2>1. CASE g = s
    BY <1>1, <1>2, <1>4, <1>5, <1>6, <2>1
  <2>2. ASSUME NEW j \in 1..n, ChunkAt(j, t, m), Place(j) = s, j # 1
        PROVE  \E i \in 1..(n - 1) : ChunkAt(i, t, m)' /\ Place(i)' = s
    BY <1>1, <1>3, <2>2
  <2>3. ChunkAt(1, t, m) /\ Place(1) = s => h = s
    BY <1>4, <1>6
  <2>. QED
    BY <1>5, <2>1, <2>2, <2>3
<1>8. ASSUME NEW k \in 1..(n - 1), ChunkAt(k, t, m)'
      PROVE  /\ h < Place(k)' /\ Place(k)' <= s
             /\ \/ Place(k)' = h + 1
                \/ \E j \in 1..(n - 1) : j < k /\ ChunkAt(j, t, m)' /\ Place(j)' = Place(k)' - 1
             /\ \A j \in 1..(n - 1) : j < k /\ ChunkAt(j, t, m)' => Place(j)' < Place(k)'
  <2>1. /\ k + 1 \in 1..n /\ ChunkAt(k + 1, t, m) /\ Place(k)' = Place(k + 1) /\ 1 < k + 1
        /\ Place(k + 1) \in Nat
    BY <1>1, <1>2, <1>3, <1>8
  <2>2. h < Place(k)' /\ Place(k)' <= s
    BY <1>1, <1>2, <1>4, <1>5, <1>6, <2>1
  <2>3. ASSUME NEW j \in 1..(n - 1), j < k, ChunkAt(j, t, m)'
        PROVE  Place(j)' < Place(k)'
    <3>1. j + 1 \in 1..n /\ j + 1 < k + 1 /\ ChunkAt(j + 1, t, m) /\ Place(j)' = Place(j + 1)
      BY <1>1, <1>3, <2>3
    <3>. QED
      BY <1>5, <2>1, <3>1
  <2>4. CASE Place(k + 1) = g + 1
    BY <1>2, <1>6, <2>1, <2>2, <2>3, <2>4
  <2>5. ASSUME NEW j \in 1..n, j < k + 1, ChunkAt(j, t, m), Place(j) = Place(k + 1) - 1
        PROVE  \/ Place(k)' = h + 1
               \/ \E i \in 1..(n - 1) : i < k /\ ChunkAt(i, t, m)' /\ Place(i)' = Place(k)' - 1
    <3>1. CASE j = 1
      BY <1>2, <1>4, <1>6, <2>1, <2>5, <3>1
    <3>2. CASE j # 1
      <4>1. /\ j - 1 \in 1..(n - 1) /\ j - 1 < k /\ ChunkAt(j - 1, t, m)'
            /\ Place(j - 1)' = Place(k)' - 1
        BY <1>1, <1>3, <2>1, <2>5, <3>2
      <4>. QED
        BY <4>1
    <3>. QED
      BY <3>1, <3>2
  <2>. QED
    BY <1>5, <2>1, <2>2, <2>3, <2>4, <2>5
<1>. QED
  BY <1>1, <1>2, <1>7, <1>8 DEF InPlace, Reached, Follows, h

\* What the steps of the worker have in common: the wire gets shorter, and what
\* the client knows stays.
LEMMA WholeTaken ==
  ASSUME WholeInv, NEW types, Taking(types),
         \A t \in Streams, m \in Requests : status' = "serving" /\ Live(m)' =>
            Live(m) /\ Got(t, m)' = IF ChunkAt(1, t, m) THEN Got(t, m) + 1 ELSE Got(t, m),
         \/ active_req' \in {0, active_req}
         \/ Head(wire).type \in Begins /\ active_req' = Head(wire).req,
         \A i \in Ids : Sending("PARAMS", i) => ~(Runs(open[i])' /\ params_done'),
         \/ UNCHANGED ran
         \/ /\ \A j \in DOMAIN ran' : ran'[j].req \in Requests /\ ran'[j].req <= begun
            /\ \A i \in Ids, j \in DOMAIN ran' : phase[i] \in {"params", "stdin"} => ran'[j].req # open[i]
  PROVE  Placed' /\ EndsLast' /\ BeginsOnce' /\ Unended' /\ Distinct' /\ Fresh'
<1>. DEFINE n == Len(wire)
<1>0. UnmixedInv /\ TypeInv
  BY DEF WholeInv, UnmixedInv
<1>1. /\ 1 \in 1..n /\ n \in Nat /\ Len(wire') = n - 1 /\ Head(wire) = wire[1]
      /\ \A k \in 1..(n - 1) : k + 1 \in 1..n /\ wire'[k] = wire[k + 1]
      /\ \A k \in 1..n : wire[k].type \in Begins => wire[k].req \in Requests
  BY <1>0, TailShift, WholeTypes
<1>2. UNCHANGED <<open, phase, chunks, begun, sizes>>
  BY DEF Taking, client
<1>3. Placed'
  <2>. SUFFICES ASSUME status' = "serving", NEW t \in Streams, NEW m \in Requests, Live(m)'
                PROVE  InPlace(t, m)'
    BY DEF Placed
  <2>1. InPlace(t, m)
    BY DEF WholeInv, Placed, Taking
  <2>. QED
    BY <1>0, <2>1, InPlaceTaken
<1>4. EndsLast'
  <2>. SUFFICES ASSUME NEW j \in 1..(n - 1), NEW k \in 1..(n - 1), j < k,
                       NEW t \in Streams, NEW m \in Requests, EndAt(j, t, m)'
                PROVE  ~OfStream(k, t, m)'
    BY <1>1 DEF EndsLast
  <2>1. /\ j + 1 \in 1..n /\ k + 1 \in 1..n /\ j + 1 < k + 1
        /\ wire'[j] = wire[j + 1] /\ wire'[k] = wire[k + 1]
    BY <1>1
  <2>2. EndAt(j + 1, t, m)
    BY <2>1 DEF EndAt, OfStream
  <2>3. ~OfStream(k + 1, t, m)
    BY <2>1, <2>2 DEF WholeInv, EndsLast
  <2>. QED
    BY <2>1, <2>3 DEF OfStream
<1>5. BeginsOnce'
  <2>. SUFFICES ASSUME NEW k \in 1..(n - 1), wire'[k].type \in Begins
                PROVE  /\ active_req' < wire'[k].req
                       /\ \A j \in 1..(n - 1) : j < k /\ wire'[j].type \in Begins => wire'[j].req < wire'[k].req
    BY <1>1 DEF BeginsOnce
  <2>1. /\ k + 1 \in 1..n /\ wire'[k] = wire[k + 1] /\ 1 < k + 1
        /\ \A j \in 1..(n - 1) : j + 1 \in 1..n /\ wire'[j] = wire[j + 1] /\ (j < k => j + 1 < k + 1)
        /\ wire[k + 1].req \in Requests
    BY <1>1
  <2>2. /\ active_req < wire[k + 1].req
        /\ \A j \in 1..n : j < k + 1 /\ wire[j].type \in Begins => wire[j].req < wire[k + 1].req
    BY <2>1 DEF WholeInv, BeginsOnce
  <2>3. active_req' < wire[k + 1].req
    BY <1>1, <2>1, <2>2, BoundsAssumption
  <2>. QED
    BY <2>1, <2>2, <2>3
<1>6. Unended'
  <2>. SUFFICES ASSUME NEW t \in Streams, NEW i \in Ids, Sending(t, i)
                PROVE  /\ \A j \in 1..(n - 1) : ~EndAt(j, t, open[i])'
                       /\ \A j \in DOMAIN ran' : ran'[j].req # open[i]
                       /\ sizes[t][open[i]] = IF t = "STDIN" /\ phase[i] = "params" THEN 0 ELSE chunks[i]
    BY <1>1, <1>2 DEF Unended, Sending, Runs
  <2>1. /\ \A j \in 1..n : ~EndAt(j, t, open[i])
        /\ \A j \in DOMAIN ran : ran[j].req # open[i]
        /\ sizes[t][open[i]] = IF t = "STDIN" /\ phase[i] = "params" THEN 0 ELSE chunks[i]
    BY DEF WholeInv, Unended
  <2>2. \A j \in 1..(n - 1) : ~EndAt(j, t, open[i])'
    BY <1>1, <1>2, <2>1 DEF EndAt, OfStream
  <2>3. phase[i] \in {"params", "stdin"}
    BY DEF Sending
  <2>. QED
    BY <2>1, <2>2, <2>3
<1>7. Distinct'
  BY <1>2 DEF WholeInv, Distinct
<1>8. Fresh'
  <2>1. active_req' <= begun
    <3>1. Head(wire).type \in Begins => wire[1].req <= begun
      BY <1>0, <1>1 DEF UnmixedInv, WireInv, Behind, OfRequest
    <3>2. active_req <= begun /\ 0 <= begun
      BY <1>0, WholeTypes DEF WholeInv, Fresh
    <3>. QED
      BY <1>1, <3>1, <3>2
  <2>2. \A j \in DOMAIN ran' : ran'[j].req \in Requests /\ ran'[j].req <= begun
    BY DEF WholeInv, Fresh
  <2>. QED
    BY <1>2, <2>1, <2>2 DEF WholeInv, Fresh
<1>. QED
  BY <1>3, <1>4, <1>5, <1>6, <1>7, <1>8

\* A request still awaited was so before, and is not the one the worker runs.
LEMMA AwaitedTaken ==
  ASSUME WholeInv, NEW types, Taking(types), NEW m \in Requests, Awaited(m)'
  PROVE  Awaited(m) /\ ~Runs(m)
<1>1. UnmixedInv /\ TypeInv
  BY DEF WholeInv, UnmixedInv
<1>2. PICK j \in 1..Len(wire') : wire'[j].type \in Begins /\ wire'[j].req = m
  BY DEF Awaited
<1>3. j + 1 \in 1..Len(wire) /\ wire[j + 1].type \in Begins /\ wire[j + 1].req = m
  BY <1>1, <1>2, TailShift
<1>4. active_req < m /\ active_req \in 0..NumRequests
  BY <1>1, <1>3, WholeTypes DEF WholeInv, BeginsOnce
<1>. QED
  BY <1>3, <1>4, BoundsAssumption DEF Awaited, Runs

LEMMA BufferedTaken ==
  ASSUME WholeInv, NEW types, Taking(types), UNCHANGED buffers
  PROVE  Buffered'
<1>1. /\ UNCHANGED <<in_request, params_done, params_data, params, body, active_req, sizes>>
  BY DEF Taking, client, buffers
<1>2. TypeInv
  BY DEF WholeInv, UnmixedInv
<1>3. \A k \in 1..Len(wire') : k + 1 \in 1..Len(wire) /\ wire'[k] = wire[k + 1]
  BY <1>2, TailShift
<1>4. (\A k \in 1..Len(wire) : ~OfStream(k, "PARAMS", active_req))
        => \A k \in 1..Len(wire') : ~OfStream(k, "PARAMS", active_req)'
  BY <1>1, <1>3 DEF OfStream
<1>. QED
  BY <1>1, <1>4 DEF WholeInv, Buffered, InOrder

Rest == Placed /\ EndsLast /\ BeginsOnce /\ Unended /\ Distinct /\ Fresh /\ Buffered

\* A worker that fails drops what it has.
LEMMA WholeFailed ==
  ASSUME WholeInv, NEW types, Taking(types), Failed,
         \/ UNCHANGED ran
         \/ /\ \A j \in DOMAIN ran' : ran'[j].req \in Requests /\ ran'[j].req <= begun
            /\ \A i \in Ids, j \in DOMAIN ran' : phase[i] \in {"params", "stdin"} => ran'[j].req # open[i]
  PROVE  Rest'
<1>1. /\ status' # "serving" /\ UNCHANGED <<in_request, params_done, active_req, open>>
      /\ UNCHANGED buffers
  BY DEF Failed, Taking, client, buffers
<1>2. \A i \in Ids : Sending("PARAMS", i) => ~(Runs(open[i])' /\ params_done')
  BY <1>1 DEF WholeInv, Unended, Runs, Streams
<1>3. Placed' /\ EndsLast' /\ BeginsOnce' /\ Unended' /\ Distinct' /\ Fresh'
  BY <1>1, <1>2, WholeTaken
<1>. QED
  BY <1>1, <1>3, BufferedTaken DEF Rest

\* A worker that is done with a request has nothing of it.
LEMMA WholeCleared ==
  ASSUME WholeInv, NEW types, Taking(types), ClearedRequest,
         \/ UNCHANGED ran
         \/ /\ \A j \in DOMAIN ran' : ran'[j].req \in Requests /\ ran'[j].req <= begun
            /\ \A i \in Ids, j \in DOMAIN ran' : phase[i] \in {"params", "stdin"} => ran'[j].req # open[i],
         \A t \in Streams, m \in Requests : ~Runs(m) => ~ChunkAt(1, t, m)
  PROVE  Rest'
<1>1. ~in_request' /\ active_req' = 0
  BY DEF ClearedRequest
<1>2. \A t \in Streams, m \in Requests : Live(m)' =>
         Live(m) /\ Got(t, m)' = IF ChunkAt(1, t, m) THEN Got(t, m) + 1 ELSE Got(t, m)
  BY <1>1, AwaitedTaken DEF Live, Runs, Got
<1>3. Placed' /\ EndsLast' /\ BeginsOnce' /\ Unended' /\ Distinct' /\ Fresh'
  BY <1>1, <1>2, WholeTaken DEF Runs
<1>. QED
  BY <1>1, <1>3 DEF Rest, Buffered

LEMMA WholeReadBegin == ASSUME WholeInv, ReadBegin PROVE Rest' /\ DispatchWhole'
<1>. DEFINE r == Head(wire)
<1>0. TypeInv
  BY DEF WholeInv, UnmixedInv
<1>1. Taking(Begins) /\ UNCHANGED <<ran, sizes>>
  BY DEF ReadBegin, Taking, client
<1>2. /\ 1 \in 1..Len(wire) /\ r = wire[1] /\ r.type \in Begins
      /\ \A t \in Streams, m \in Requests : ~ChunkAt(1, t, m)
  BY <1>0, <1>1, TailShift DEF Taking, ChunkAt, OfStream, Begins, Streams
<1>3. DispatchWhole'
  BY <1>1 DEF WholeInv, DispatchWhole
<1>4. CASE Failed
  BY <1>1, <1>3, <1>4, WholeFailed
<1>5. ASSUME ~in_request, in_request' = TRUE, params_done' = FALSE, active_req' = r.req,
             params_data' = <<>>, params' = <<>>, body' = <<>>
      PROVE  Rest'
  <2>1. /\ Len(params_data') = 0 /\ Len(body') = 0
    BY <1>5, EmptySeq
  <2>2. \A t \in Streams, m \in Requests : Live(m)' =>
           Live(m) /\ Got(t, m)' = IF ChunkAt(1, t, m) THEN Got(t, m) + 1 ELSE Got(t, m)
    BY <1>1, <1>2, <1>5, <2>1, AwaitedTaken DEF Live, Runs, Got, Awaited
  <2>3. Placed' /\ EndsLast' /\ BeginsOnce' /\ Unended' /\ Distinct' /\ Fresh'
    BY <1>1, <1>2, <1>5, <2>2, WholeTaken
  <2>. QED
    BY <1>5, <2>1, <2>3 DEF Rest, Buffered, InOrder
<1>6. ASSUME ~in_request, UNCHANGED in_request, active_req' = r.req
      PROVE  Rest'
  <2>1. \A t \in Streams, m \in Requests : Live(m)' =>
           Live(m) /\ Got(t, m)' = IF ChunkAt(1, t, m) THEN Got(t, m) + 1 ELSE Got(t, m)
    BY <1>1, <1>2, <1>6, AwaitedTaken DEF Live, Runs, Got
  <2>2. Placed' /\ EndsLast' /\ BeginsOnce' /\ Unended' /\ Distinct' /\ Fresh'
    BY <1>1, <1>2, <1>6, <2>1, WholeTaken DEF Runs
  <2>. QED
    BY <1>6, <2>2 DEF Rest, Buffered
<1>. QED
  BY <1>3, <1>4, <1>5, <1>6 DEF ReadBegin

\* A stream record the worker accepts is in front of the stream of its request.
LEMMA HeadRuns ==
  ASSUME WholeInv, Taking(Streams), Belongs(Head(wire))
  PROVE  /\ Head(wire).req = active_req /\ active_req \in Requests /\ Runs(active_req)
         /\ OfStream(1, Head(wire).type, active_req) /\ Head(wire) = wire[1] /\ 1 \in 1..Len(wire)
         /\ \A t \in Streams : InPlace(t, active_req)
<1>. DEFINE r == wire[1]
<1>1. UnmixedInv /\ TypeInv
  BY DEF WholeInv, UnmixedInv
<1>2. /\ wire \in Seq(Records) /\ Len(wire) \in Nat \ {0} /\ Head(wire) = r
      /\ r.type \in Streams
  BY <1>1, TypeParts, EmptySeq, HeadTailProperties DEF Taking
<1>3. latest[r.id] = r.req
  BY <1>1, <1>2 DEF UnmixedInv, WireInv, Justified, Announced
<1>4. in_request /\ r.req = active_req /\ active_req \in Requests
  BY <1>1, <1>2, <1>3, TypeParts DEF UnmixedInv, Active, Belongs, Taking, RequestOK, ActiveOK
<1>. QED
  BY <1>2, <1>4 DEF WholeInv, Placed, Live, Runs, OfStream, Taking

\* A chunk in front of the wire is the next one of its stream, and its end finds
\* the buffer complete.
LEMMA HeadNext ==
  ASSUME WholeInv, Taking(Streams), Belongs(Head(wire))
  PROVE  LET r == Head(wire)
             g == Got(r.type, active_req)
         IN  /\ r.chunk # NoChunk => r.chunk.place = g + 1
             /\ r.chunk = NoChunk =>
                  /\ g = sizes[r.type][active_req]
                  /\ \A k \in 1..Len(wire') : wire'[k].type = r.type => wire'[k].req # active_req
                  /\ \A i \in Ids : Sending(r.type, i) => open[i] # active_req
<1>. DEFINE r == Head(wire)
            t == r.type
            m == active_req
            g == Got(t, m)
<1>0. TypeInv
  BY DEF WholeInv, UnmixedInv
<1>1. /\ r = wire[1] /\ 1 \in 1..Len(wire) /\ OfStream(1, t, m) /\ m \in Requests /\ t \in Streams
      /\ InPlace(t, m)
  BY HeadRuns DEF Taking
<1>2. ASSUME r.chunk # NoChunk PROVE r.chunk.place = g + 1
  <2>1. ChunkAt(1, t, m) /\ Place(1) = r.chunk.place
    BY <1>1, <1>2 DEF ChunkAt, Place
  <2>2. \A j \in 1..Len(wire) : ~(j < 1)
    OBVIOUS
  <2>. QED
    BY <1>1, <2>1, <2>2 DEF InPlace, Follows
<1>3. ASSUME r.chunk = NoChunk
      PROVE  /\ g = sizes[t][m]
             /\ \A k \in 1..Len(wire') : wire'[k].type = t => wire'[k].req # m
             /\ \A i \in Ids : Sending(t, i) => open[i] # m
  <2>1. EndAt(1, t, m)
    BY <1>1, <1>3 DEF EndAt
  <2>2. \A k \in 1..Len(wire) : k # 1 => ~OfStream(k, t, m)
    <3>1. \A k \in 1..Len(wire) : k # 1 => 1 < k
      OBVIOUS
    <3>. QED
      BY <1>1, <2>1, <3>1 DEF WholeInv, EndsLast
  <2>3. \A k \in 1..Len(wire) : ~ChunkAt(k, t, m)
    BY <2>1, <2>2 DEF ChunkAt, EndAt
  <2>4. g = sizes[t][m]
    BY <1>1, <2>3 DEF InPlace, Reached
  <2>5. \A k \in 1..Len(wire') : k + 1 \in 1..Len(wire) /\ k + 1 # 1 /\ wire'[k] = wire[k + 1]
    BY <1>0, TailShift
  <2>6. \A k \in 1..Len(wire') : wire'[k].type = t => wire'[k].req # m
    BY <2>2, <2>5 DEF OfStream
  <2>7. \A i \in Ids : Sending(t, i) => open[i] # m
    BY <1>1, <2>1 DEF WholeInv, Unended
  <2>. QED
    BY <2>4, <2>6, <2>7
<1>. QED
  BY <1>2, <1>3

LEMMA Appended ==
  ASSUME NEW s \in Seq(Chunks), NEW c \in Chunks
  PROVE  /\ Len(Append(s, c)) = Len(s) + 1 /\ Len(s) \in Nat
         /\ InOrder(s) /\ c.place = Len(s) + 1 => InOrder(Append(s, c))
  BY AppendProperties, LenProperties DEF InOrder

LEMMA WholeReadParams == ASSUME WholeInv, ReadParams PROVE Rest' /\ DispatchWhole'
<1>. DEFINE r == Head(wire)
            m == active_req
<1>0. TypeInv
  BY DEF WholeInv, UnmixedInv
<1>1. /\ Taking({"PARAMS"}) /\ Taking(Streams) /\ r.type = "PARAMS" /\ UNCHANGED <<ran, sizes>>
      /\ UNCHANGED open
  BY DEF ReadParams, Taking, client, Streams
<1>2. DispatchWhole'
  BY <1>1 DEF WholeInv, DispatchWhole
<1>3. CASE Failed
  BY <1>1, <1>2, <1>3, WholeFailed
<1>4. ASSUME Belongs(r)
      PROVE  /\ m \in Requests /\ Runs(m) /\ OfStream(1, "PARAMS", m) /\ r = wire[1]
             /\ \A t \in Streams, q \in Requests : ChunkAt(1, t, q) => t = "PARAMS" /\ q = m
             /\ \A q \in Requests : Runs(q) <=> q = m
             /\ ~params_done
  <2>1. m \in Requests /\ Runs(m) /\ OfStream(1, "PARAMS", m) /\ r = wire[1] /\ 1 \in 1..Len(wire)
    BY <1>1, <1>4, HeadRuns
  <2>2. ~params_done
    BY <2>1 DEF WholeInv, Buffered, Runs
  <2>. QED
    BY <2>1, <2>2 DEF ChunkAt, OfStream, Runs
<1>5. ASSUME Belongs(r), r.chunk = NoChunk, params_done' = TRUE, params' = params \o params_data,
             UNCHANGED <<in_request, active_id, params_data, body, active_req, requests, status>>
      PROVE  Rest'
  <2>1. /\ Len(params_data) = sizes["PARAMS"][m]
        /\ \A k \in 1..Len(wire') : wire'[k].type = "PARAMS" => wire'[k].req # m
        /\ \A i \in Ids : Sending("PARAMS", i) => open[i] # m
    BY <1>1, <1>4, <1>5, HeadNext DEF Got
  <2>2. \A t \in Streams, q \in Requests : Live(q)' =>
           Live(q) /\ Got(t, q)' = IF ChunkAt(1, t, q) THEN Got(t, q) + 1 ELSE Got(t, q)
    <3>1. \A t \in Streams, q \in Requests : ~ChunkAt(1, t, q) /\ (Runs(q)' <=> Runs(q))
      BY <1>4, <1>5 DEF ChunkAt, Runs
    <3>2. \A q \in Requests : Live(q)' => Live(q)
      BY <1>1, <3>1, AwaitedTaken DEF Live, Streams
    <3>. QED
      BY <1>5, <3>1, <3>2 DEF Got
  <2>3. Placed' /\ EndsLast' /\ BeginsOnce' /\ Unended' /\ Distinct' /\ Fresh'
    BY <1>1, <1>5, <2>1, <2>2, WholeTaken DEF Runs
  <2>4. params' = params_data
    <3>1. params = <<>> /\ params_data \in Seq(Chunks)
      BY <1>0, <1>4, <1>5, WholeTypes DEF WholeInv, Buffered, Runs
    <3>2. <<>> \o params_data = params_data
      BY <3>1, ConcatEmptySeq
    <3>. QED
      BY <1>5, <3>1, <3>2
  <2>5. Buffered'
    BY <1>1, <1>4, <1>5, <2>1, <2>4 DEF WholeInv, Buffered, InOrder, OfStream, Runs
  <2>. QED
    BY <2>3, <2>5 DEF Rest
<1>6. ASSUME Belongs(r), r.chunk # NoChunk, ~params_done, params_data' = Append(params_data, r.chunk),
             UNCHANGED <<in_request, active_id, params_done, params, body, active_req, requests, status>>
      PROVE  Rest'
  <2>1. /\ r.chunk \in Chunks /\ params_data \in Seq(Chunks)
        /\ r.chunk.place = Len(params_data) + 1
    BY <1>0, <1>1, <1>4, <1>6, HeadNext, TailShift, WholeTypes DEF Got, ChunkAt, Streams
  <2>2. /\ Len(params_data') = Len(params_data) + 1
        /\ InOrder(params_data) => InOrder(params_data')
    BY <1>6, <2>1, Appended
  <2>3. ChunkAt(1, "PARAMS", m)
    BY <1>4, <1>6 DEF ChunkAt
  <2>4. \A t \in Streams, q \in Requests : Live(q)' =>
           Live(q) /\ Got(t, q)' = IF ChunkAt(1, t, q) THEN Got(t, q) + 1 ELSE Got(t, q)
    <3>. SUFFICES ASSUME NEW t \in Streams, NEW q \in Requests, Live(q)'
                  PROVE  /\ Live(q)
                         /\ Got(t, q)' = IF ChunkAt(1, t, q) THEN Got(t, q) + 1 ELSE Got(t, q)
      OBVIOUS
    <3>1. Live(q) /\ (Runs(q)' <=> Runs(q))
      BY <1>1, <1>6, AwaitedTaken DEF Live, Runs
    <3>2. CASE t = "PARAMS" /\ q = m
      BY <1>4, <1>6, <2>2, <2>3, <3>1, <3>2 DEF Got
    <3>3. CASE ~(t = "PARAMS" /\ q = m)
      BY <1>4, <1>6, <3>1, <3>3 DEF Got
    <3>. QED
      BY <3>2, <3>3
  <2>5. Placed' /\ EndsLast' /\ BeginsOnce' /\ Unended' /\ Distinct' /\ Fresh'
    BY <1>1, <1>6, <2>4, WholeTaken DEF Runs
  <2>6. Buffered'
    BY <1>6, <2>2 DEF WholeInv, Buffered, InOrder
  <2>. QED
    BY <2>5, <2>6 DEF Rest
<1>. QED
  BY <1>2, <1>3, <1>5, <1>6 DEF ReadParams

\* What the application is handed is complete.
LEMMA WholeDispatch ==
  ASSUME WholeInv, Taking({"STDIN"}), Belongs(Head(wire)), params_done,
         Head(wire).chunk = NoChunk, Dispatch
  PROVE  Rest' /\ DispatchWhole'
<1>. DEFINE r == Head(wire)
            m == active_req
            run == [req |-> m, params |-> params, body |-> body]
            RanTypes == [req : 0..NumRequests, params : Seq(Chunks), body : Seq(Chunks)]
<1>0. TypeInv
  BY DEF WholeInv, UnmixedInv
<1>1. Taking(Streams) /\ r.type = "STDIN" /\ UNCHANGED sizes /\ in_request
  BY DEF Taking, client, Streams, Belongs
<1>2. /\ m \in Requests /\ Runs(m) /\ r = wire[1] /\ m <= begun
      /\ \A t \in Streams, q \in Requests : ~ChunkAt(1, t, q)
  BY <1>1, HeadRuns DEF ChunkAt, WholeInv, Fresh
<1>3. /\ Len(body) = sizes["STDIN"][m]
      /\ \A i \in Ids : Sending("STDIN", i) => open[i] # m
  BY <1>1, <1>2, HeadNext DEF Got
<1>4. /\ Len(params) = sizes["PARAMS"][m] /\ InOrder(params) /\ InOrder(body)
  BY <1>1 DEF WholeInv, Buffered
<1>5. Whole(run.params, sizes["PARAMS"][m]) /\ Whole(run.body, sizes["STDIN"][m]) /\ run.req = m
  BY <1>3, <1>4 DEF Whole, InOrder
<1>6. run \in RanTypes /\ ran \in Seq(RanTypes)
  BY <1>0, <1>2, TypeParts DEF RequestOK, BuffersTypeOK, HistoryOK
<1>7. ran' = Append(ran, run) \/ ran' = ran
  BY DEF Dispatch
<1>. HIDE DEF run, RanTypes
<1>8. \A j \in DOMAIN ran' : (j \in DOMAIN ran /\ ran'[j] = ran[j]) \/ ran'[j] = run
  <2>1. CASE ran' = Append(ran, run)
    BY <1>6, <2>1, AppendProperties, LenProperties
  <2>2. CASE ran' = ran
    BY <2>2
  <2>. QED
    BY <1>7, <2>1, <2>2
<1>9. DispatchWhole'
  <2>. SUFFICES ASSUME NEW j \in DOMAIN ran'
                PROVE  /\ Whole(ran'[j].params, sizes["PARAMS"][ran'[j].req])
                       /\ Whole(ran'[j].body, sizes["STDIN"][ran'[j].req])
    BY <1>1 DEF DispatchWhole
  <2>1. CASE j \in DOMAIN ran /\ ran'[j] = ran[j]
    BY <2>1 DEF WholeInv, DispatchWhole
  <2>2. CASE ran'[j] = run
    BY <1>5, <2>2
  <2>. QED
    BY <1>8, <2>1, <2>2
<1>10. /\ \A j \in DOMAIN ran' : ran'[j].req \in Requests /\ ran'[j].req <= begun
       /\ \A i \in Ids, j \in DOMAIN ran' : phase[i] \in {"params", "stdin"} => ran'[j].req # open[i]
  <2>1. \A i \in Ids : phase[i] \in {"params", "stdin"} => Sending("STDIN", i)
    BY DEF Sending
  <2>2. \A j \in DOMAIN ran : ran[j].req \in Requests /\ ran[j].req <= begun
    BY DEF WholeInv, Fresh
  <2>3. \A i \in Ids, j \in DOMAIN ran : Sending("STDIN", i) => ran[j].req # open[i]
    BY DEF WholeInv, Unended, Streams
  <2>. QED
    BY <1>2, <1>3, <1>5, <1>8, <2>1, <2>2, <2>3
<1>11. Failed \/ ClearedRequest
  BY DEF Dispatch
<1>12. Rest'
  BY <1>1, <1>2, <1>10, <1>11, WholeFailed, WholeCleared
<1>. QED
  BY <1>9, <1>12

LEMMA WholeReadStdin == ASSUME WholeInv, ReadStdin PROVE Rest' /\ DispatchWhole'
<1>. DEFINE r == Head(wire)
            m == active_req
<1>0. TypeInv
  BY DEF WholeInv, UnmixedInv
<1>1. /\ Taking({"STDIN"}) /\ Taking(Streams) /\ r.type = "STDIN" /\ UNCHANGED <<sizes, open>>
  BY DEF ReadStdin, Taking, client, Streams
<1>2. CASE Belongs(r) /\ params_done /\ r.chunk = NoChunk /\ Dispatch
  BY <1>1, <1>2, WholeDispatch
<1>3. CASE Failed /\ UNCHANGED ran
  BY <1>1, <1>3, WholeFailed DEF WholeInv, DispatchWhole
<1>4. ASSUME Belongs(r), r.chunk # NoChunk, body' = Append(body, r.chunk),
             UNCHANGED <<in_request, active_id, params_done, params_data, params, active_req,
                         requests, status, ran, ends, reply>>
      PROVE  Rest' /\ DispatchWhole'
  <2>1. /\ m \in Requests /\ Runs(m) /\ OfStream(1, "STDIN", m) /\ r = wire[1] /\ 1 \in 1..Len(wire)
    BY <1>1, <1>4, HeadRuns
  <2>2. /\ r.chunk \in Chunks /\ body \in Seq(Chunks) /\ r.chunk.place = Len(body) + 1
    BY <1>0, <1>1, <1>4, <2>1, HeadNext, WholeTypes DEF Got, ChunkAt, Streams
  <2>3. Len(body') = Len(body) + 1 /\ (InOrder(body) => InOrder(body'))
    BY <1>4, <2>2, Appended
  <2>4. \A t \in Streams, q \in Requests : ChunkAt(1, t, q) <=> t = "STDIN" /\ q = m
    BY <1>4, <2>1 DEF ChunkAt, OfStream
  <2>5. \A t \in Streams, q \in Requests : Live(q)' =>
           Live(q) /\ Got(t, q)' = IF ChunkAt(1, t, q) THEN Got(t, q) + 1 ELSE Got(t, q)
    <3>. SUFFICES ASSUME NEW t \in Streams, NEW q \in Requests, Live(q)'
                  PROVE  /\ Live(q)
                         /\ Got(t, q)' = IF ChunkAt(1, t, q) THEN Got(t, q) + 1 ELSE Got(t, q)
      OBVIOUS
    <3>1. Live(q) /\ (Runs(q)' <=> Runs(q))
      BY <1>1, <1>4, AwaitedTaken DEF Live, Runs
    <3>2. CASE t = "STDIN" /\ q = m
      BY <1>4, <2>1, <2>3, <2>4, <3>1, <3>2 DEF Got
    <3>3. CASE ~(t = "STDIN" /\ q = m)
      BY <1>4, <2>4, <3>1, <3>3 DEF Got, Runs, Streams
    <3>. QED
      BY <3>2, <3>3
  <2>6. \A i \in Ids : Sending("PARAMS", i) => ~(Runs(open[i])' /\ params_done')
    BY <1>1, <1>4 DEF WholeInv, Unended, Runs, Streams
  <2>7. Placed' /\ EndsLast' /\ BeginsOnce' /\ Unended' /\ Distinct' /\ Fresh'
    BY <1>1, <1>4, <2>5, <2>6, WholeTaken
  <2>8. \A k \in 1..Len(wire') : k + 1 \in 1..Len(wire) /\ wire'[k] = wire[k + 1]
    BY <1>0, <1>1, TailShift
  <2>9. Buffered'
    BY <1>1, <1>4, <2>3, <2>8 DEF WholeInv, Buffered, InOrder, OfStream
  <2>. QED
    BY <1>1, <1>4, <2>7, <2>9 DEF Rest, WholeInv, DispatchWhole
<1>. QED
  BY <1>2, <1>3, <1>4 DEF ReadStdin

LEMMA WholeReadOther ==
  ASSUME WholeInv, ReadAbort \/ ReadManagement
  PROVE  Rest' /\ DispatchWhole'
<1>0. TypeInv
  BY DEF WholeInv, UnmixedInv
<1>1. PICK types \in {{"ABORT"}, {"GET_VALUES", "TORN"}} : Taking(types)
  BY DEF ReadAbort, ReadManagement
<1>2. UNCHANGED <<ran, sizes, open>>
  BY DEF ReadAbort, ReadManagement, Taking, client
<1>3. \A t \in Streams, m \in Requests : ~ChunkAt(1, t, m)
  BY <1>0, <1>1, TailShift DEF Taking, ChunkAt, OfStream, Streams
<1>4. Failed \/ ClearedRequest \/ UNCHANGED <<buffers, requests, status>>
  BY DEF ReadAbort, ReadManagement
<1>5. CASE UNCHANGED <<buffers, requests, status>>
  <2>1. UNCHANGED <<in_request, params_done, params_data, body, active_req>> /\ UNCHANGED buffers
    BY <1>5 DEF buffers
  <2>2. \A t \in Streams, q \in Requests : Live(q)' =>
           Live(q) /\ Got(t, q)' = IF ChunkAt(1, t, q) THEN Got(t, q) + 1 ELSE Got(t, q)
    BY <1>1, <1>3, <2>1, AwaitedTaken DEF Live, Runs, Got
  <2>3. \A i \in Ids : Sending("PARAMS", i) => ~(Runs(open[i])' /\ params_done')
    BY <1>2, <2>1 DEF WholeInv, Unended, Runs, Streams
  <2>4. Placed' /\ EndsLast' /\ BeginsOnce' /\ Unended' /\ Distinct' /\ Fresh'
    BY <1>1, <1>2, <2>1, <2>2, <2>3, WholeTaken
  <2>. QED
    BY <1>1, <1>2, <2>1, <2>4, BufferedTaken DEF Rest, WholeInv, DispatchWhole
<1>6. CASE Failed
  BY <1>1, <1>2, <1>6, WholeFailed DEF WholeInv, DispatchWhole
<1>7. CASE ClearedRequest
  BY <1>1, <1>2, <1>3, <1>7, WholeCleared DEF WholeInv, DispatchWhole
<1>. QED
  BY <1>4, <1>5, <1>6, <1>7

\* Nothing is sent, and requests may close.
LEMMA WholeKept ==
  ASSUME WholeInv, UNCHANGED <<wire, buffers, ran, begun, sizes, chunks>>,
         status' # "serving" \/ UNCHANGED status,
         \A i \in Ids : \/ open'[i] = open[i] /\ phase'[i] = phase[i]
                        \/ open'[i] = 0 /\ phase'[i] = "closed"
  PROVE  Rest' /\ DispatchWhole'
<1>1. UNCHANGED <<in_request, params_done, params_data, params, body, active_req>>
  BY DEF buffers
<1>2. Placed'
  <2>. SUFFICES ASSUME status' = "serving", NEW t \in Streams, NEW m \in Requests, Live(m)'
                PROVE  InPlace(t, m)'
    BY DEF Placed
  <2>1. InPlace(t, m)
    BY <1>1 DEF WholeInv, Placed, Live, Runs, Awaited
  <2>2. Got(t, m)' = Got(t, m)
    BY <1>1 DEF Got, Runs
  <2>. QED
    BY <2>1, <2>2 DEF InPlace, Reached, Follows, ChunkAt, OfStream, Place
<1>3. EndsLast' /\ BeginsOnce'
  BY <1>1 DEF WholeInv, EndsLast, BeginsOnce, EndAt, OfStream
<1>4. Unended'
  <2>1. \A t \in Streams, i \in Ids : Sending(t, i)' => Sending(t, i) /\ open'[i] = open[i] /\ phase'[i] = phase[i]
    BY DEF Sending
  <2>. QED
    BY <1>1, <2>1 DEF WholeInv, Unended, EndAt, OfStream, Runs
<1>5. Distinct' /\ Fresh'
  BY <1>1 DEF WholeInv, Distinct, Fresh
<1>6. Buffered' /\ DispatchWhole'
  BY <1>1 DEF WholeInv, Buffered, DispatchWhole, InOrder, OfStream
<1>. QED
  BY <1>2, <1>3, <1>4, <1>5, <1>6 DEF Rest

\* A record that is sent is behind the others.
LEMMA AppendShift ==
  ASSUME TypeInv, NEW rec \in Records, wire' = Append(wire, rec)
  PROVE  /\ Len(wire) \in Nat /\ Len(wire') = Len(wire) + 1 /\ wire'[Len(wire) + 1] = rec
         /\ \A k \in 1..Len(wire) : k \in 1..Len(wire') /\ wire'[k] = wire[k]
         /\ \A k \in 1..Len(wire') : k \in 1..Len(wire) \/ k = Len(wire) + 1
<1>1. wire \in Seq(Records)
  BY TypeParts
<1>2. /\ Len(wire) \in Nat /\ Len(wire') = Len(wire) + 1 /\ wire'[Len(wire) + 1] = rec
      /\ \A k \in 1..Len(wire) : wire'[k] = wire[k]
  BY <1>1, AppendProperties, LenProperties
<1>. QED
  BY <1>2

\* Nothing of a request that is still to be opened is anywhere.
LEMMA NothingOfNext ==
  ASSUME WholeInv, NEW m \in Requests, m > begun
  PROVE  /\ \A t \in Streams : InPlace(t, m) /\ sizes[t][m] = 0
         /\ \A t \in Streams, j \in 1..Len(wire) : ~OfStream(j, t, m)
         /\ ~Runs(m) /\ \A j \in DOMAIN ran : ran[j].req # m
<1>1. UnmixedInv /\ TypeInv
  BY DEF WholeInv, UnmixedInv
<1>2. begun \in Nat /\ active_req <= begun /\ active_req \in Nat
  BY <1>1, WholeTypes DEF WholeInv, Fresh
<1>3. \A t \in Streams, j \in 1..Len(wire) : ~OfStream(j, t, m)
  BY <1>1, <1>2 DEF UnmixedInv, WireInv, Behind, OfRequest, OfStream
<1>4. ~Runs(m)
  BY <1>2 DEF Runs
<1>5. \A j \in DOMAIN ran : ran[j].req # m
  BY <1>2 DEF WholeInv, Fresh
<1>6. \A t \in Streams : Got(t, m) = 0 /\ sizes[t][m] = 0
  BY <1>4 DEF Got, WholeInv, Fresh
<1>. QED
  BY <1>3, <1>4, <1>5, <1>6 DEF InPlace, Reached, ChunkAt

IsChunk(rec, t, m) == rec.type = t /\ rec.req = m /\ rec.chunk # NoChunk
IsEnd(rec, t, m)   == rec.type = t /\ rec.req = m /\ rec.chunk = NoChunk

\* Sending a record of another stream, or the next chunk of this one.
LEMMA InPlacePut ==
  ASSUME TypeInv, NEW rec \in Records, wire' = Append(wire, rec), UNCHANGED buffers,
         NEW t \in Streams, NEW m \in Requests, InPlace(t, m),
         IsChunk(rec, t, m) => rec.chunk.place = sizes[t][m] + 1,
         sizes'[t][m] = IF IsChunk(rec, t, m) THEN sizes[t][m] + 1 ELSE sizes[t][m]
  PROVE  InPlace(t, m)'
<1>. DEFINE n == Len(wire)
            g == Got(t, m)
            s == sizes[t][m]
<1>1. /\ n \in Nat /\ Len(wire') = n + 1 /\ wire'[n + 1] = rec
      /\ \A k \in 1..n : k \in 1..(n + 1) /\ wire'[k] = wire[k]
      /\ \A k \in 1..(n + 1) : k \in 1..n \/ k = n + 1
  BY AppendShift
<1>2. /\ g \in Nat /\ s \in Nat /\ g' = g
      /\ \A k \in 1..n : ChunkAt(k, t, m) => Place(k) \in Nat
  BY WholeTypes DEF buffers, Got, Runs
<1>3. /\ \A k \in 1..n : (ChunkAt(k, t, m)' <=> ChunkAt(k, t, m)) /\ Place(k)' = Place(k)
  BY <1>1 DEF ChunkAt, OfStream, Place, IsChunk
<1>e. PICK e \in 1..(n + 1) : e = n + 1
  BY <1>1
<1>f. /\ ChunkAt(e, t, m)' <=> IsChunk(rec, t, m)
      /\ IsChunk(rec, t, m) => Place(e)' = s + 1
  BY <1>1, <1>e DEF ChunkAt, OfStream, Place, IsChunk
<1>. HIDE DEF n, g, s
<1>4. /\ g = s \/ \E j \in 1..n : ChunkAt(j, t, m) /\ Place(j) = s
      /\ \A k \in 1..n : ChunkAt(k, t, m) =>
           /\ g < Place(k) /\ Place(k) <= s
           /\ \/ Place(k) = g + 1
              \/ \E j \in 1..n : j < k /\ ChunkAt(j, t, m) /\ Place(j) = Place(k) - 1
           /\ \A j \in 1..n : j < k /\ ChunkAt(j, t, m) => Place(j) < Place(k)
  BY DEF InPlace, Reached, Follows, n, g, s
<1>5. g <= s
  BY <1>2, <1>4
<1>. DEFINE u == sizes'[t][m]
<1>6. u = IF IsChunk(rec, t, m) THEN s + 1 ELSE s
  BY DEF s
<1>. HIDE DEF u
<1>7. g = u \/ \E j \in 1..(n + 1) : ChunkAt(j, t, m)' /\ Place(j)' = u
  <2>1. CASE IsChunk(rec, t, m)
    BY <1>6, <1>f, <2>1
  <2>2. CASE ~IsChunk(rec, t, m)
    BY <1>1, <1>3, <1>4, <1>6, <2>2
  <2>. QED
    BY <2>1, <2>2
<1>8. ASSUME NEW k \in 1..(n + 1), ChunkAt(k, t, m)'
      PROVE  /\ g < Place(k)' /\ Place(k)' <= u
             /\ \/ Place(k)' = g + 1
                \/ \E j \in 1..(n + 1) : j < k /\ ChunkAt(j, t, m)' /\ Place(j)' = Place(k)' - 1
             /\ \A j \in 1..(n + 1) : j < k /\ ChunkAt(j, t, m)' => Place(j)' < Place(k)'
  <2>1. CASE k \in 1..n
    <3>1. ChunkAt(k, t, m) /\ Place(k)' = Place(k) /\ Place(k) <= u /\ g < Place(k)
      BY <1>2, <1>3, <1>4, <1>6, <1>8, <2>1
    <3>2. \/ Place(k) = g + 1
          \/ \E j \in 1..(n + 1) : j < k /\ ChunkAt(j, t, m)' /\ Place(j)' = Place(k) - 1
      BY <1>1, <1>3, <1>4, <2>1, <3>1
    <3>3. \A j \in 1..(n + 1) : j < k => j \in 1..n
      BY <1>1, <2>1
    <3>4. \A j \in 1..(n + 1) : j < k /\ ChunkAt(j, t, m)' => Place(j)' < Place(k)
      BY <1>3, <1>4, <2>1, <3>1, <3>3
    <3>. QED
      BY <3>1, <3>2, <3>4
  <2>2. CASE k = n + 1
    <3>1. Place(k)' = s + 1 /\ u = s + 1
      BY <1>6, <1>8, <1>e, <1>f, <2>2
    <3>2. \A j \in 1..(n + 1) : j < k <=> j \in 1..n
      BY <1>1, <2>2
    <3>3. \/ Place(k)' = g + 1
          \/ \E j \in 1..(n + 1) : j < k /\ ChunkAt(j, t, m)' /\ Place(j)' = Place(k)' - 1
      <4>1. CASE g = s
        BY <3>1, <4>1
      <4>2. ASSUME NEW j \in 1..n, ChunkAt(j, t, m), Place(j) = s
            PROVE  \E i \in 1..(n + 1) : i < k /\ ChunkAt(i, t, m)' /\ Place(i)' = Place(k)' - 1
        <5>1. j \in 1..(n + 1) /\ j < k /\ ChunkAt(j, t, m)' /\ Place(j)' = Place(k)' - 1
          BY <1>1, <1>2, <1>3, <3>1, <3>2, <4>2
        <5>. QED
          BY <5>1
      <4>. QED
        BY <1>4, <4>1, <4>2
    <3>4. \A j \in 1..(n + 1) : j < k /\ ChunkAt(j, t, m)' => Place(j)' < Place(k)'
      BY <1>2, <1>3, <1>4, <3>1, <3>2
    <3>. QED
      BY <1>2, <1>5, <3>1, <3>3, <3>4
  <2>. QED
    BY <1>1, <2>1, <2>2
<1>9. Got(t, m)' = g
  BY <1>2 DEF g
<1>. QED
  BY <1>1, <1>7, <1>8, <1>9 DEF InPlace, Reached, Follows, u

\* What the sending of a record keeps: one of a stream the client has not ended,
\* the BEGIN_REQUEST of its next request, or one that is of no stream.
LEMMA WholePut ==
  ASSUME WholeInv, NEW rec \in Records, wire' = Append(wire, rec), UNCHANGED worker,
         rec.type \in Begins => rec.req = begun + 1,
         begun' = IF rec.type \in Begins THEN begun + 1 ELSE begun,
         rec.type \in Streams => \E i \in Ids :
            /\ Sending(rec.type, i) /\ rec.req = open[i] /\ open[i] \in Requests
            /\ rec.chunk # NoChunk => rec.chunk.place = sizes[rec.type][open[i]] + 1,
         \A t \in Streams, m \in Requests :
            sizes'[t][m] = IF IsChunk(rec, t, m) THEN sizes[t][m] + 1 ELSE sizes[t][m],
         Unended', Distinct'
  PROVE  Rest' /\ DispatchWhole'
<1>. DEFINE n == Len(wire)
<1>0. UnmixedInv /\ TypeInv
  BY DEF WholeInv, UnmixedInv
<1>1. /\ n \in Nat /\ Len(wire') = n + 1 /\ wire'[n + 1] = rec
      /\ \A k \in 1..n : k \in 1..(n + 1) /\ wire'[k] = wire[k]
      /\ \A k \in 1..(n + 1) : k \in 1..n \/ k = n + 1
  BY <1>0, AppendShift
<1>2. /\ UNCHANGED <<in_request, params_done, params_data, params, body, active_req, ran, status>>
      /\ UNCHANGED buffers
  BY DEF worker, buffers
<1>. HIDE DEF n
<1>3. begun \in Nat /\ active_req \in 0..NumRequests /\ active_req <= begun
  BY <1>0, WholeTypes DEF WholeInv, Fresh
<1>4. Placed'
  <2>. SUFFICES ASSUME status' = "serving", NEW t \in Streams, NEW m \in Requests, Live(m)'
                PROVE  InPlace(t, m)'
    BY DEF Placed
  <2>1. Live(m) \/ m > begun
    <3>1. Runs(m)' => Runs(m)
      BY <1>2 DEF Runs
    <3>2. Awaited(m)' => Awaited(m) \/ m = begun + 1
      BY <1>1 DEF Awaited, n
    <3>. QED
      BY <1>3, <3>1, <3>2 DEF Live
  <2>2. InPlace(t, m)
    BY <1>2, <2>1, NothingOfNext DEF WholeInv, Placed
  <2>3. IsChunk(rec, t, m) => rec.chunk.place = sizes[t][m] + 1
    BY DEF IsChunk
  <2>. QED
    BY <1>0, <1>2, <2>2, <2>3, InPlacePut
<1>5. EndsLast'
  <2>. SUFFICES ASSUME NEW j \in 1..(n + 1), NEW k \in 1..(n + 1), j < k,
                       NEW t \in Streams, NEW m \in Requests, EndAt(j, t, m)'
                PROVE  ~OfStream(k, t, m)'
    BY <1>1 DEF EndsLast, n
  <2>1. j \in 1..n /\ EndAt(j, t, m)
    BY <1>1 DEF EndAt, OfStream
  <2>2. CASE k \in 1..n
    BY <1>1, <2>1, <2>2 DEF WholeInv, EndsLast, OfStream, n
  <2>3. CASE k = n + 1
    <3>1. ASSUME rec.type = t, rec.req = m PROVE FALSE
      BY <2>1, <3>1 DEF WholeInv, Unended, n
    <3>. QED
      BY <1>1, <2>3, <3>1 DEF OfStream
  <2>. QED
    BY <1>1, <2>2, <2>3
<1>6. BeginsOnce'
  <2>. SUFFICES ASSUME NEW k \in 1..(n + 1), wire'[k].type \in Begins
                PROVE  /\ active_req' < wire'[k].req
                       /\ \A j \in 1..(n + 1) : j < k /\ wire'[j].type \in Begins => wire'[j].req < wire'[k].req
    BY <1>1 DEF BeginsOnce, n
  <2>1. CASE k \in 1..n
    <3>1. \A j \in 1..(n + 1) : j < k => j \in 1..n
      BY <1>1, <2>1
    <3>. QED
      BY <1>1, <1>2, <2>1, <3>1 DEF WholeInv, BeginsOnce, n
  <2>2. CASE k = n + 1
    <3>1. wire'[k].req = begun + 1
      BY <1>1, <2>2
    <3>2. \A j \in 1..n : wire[j].type \in Begins => wire[j].req <= begun /\ wire[j].req \in Requests
      BY <1>0, WholeTypes DEF UnmixedInv, WireInv, Behind, OfRequest, n
    <3>3. \A j \in 1..(n + 1) : j < k => j \in 1..n
      BY <1>1, <2>2
    <3>. QED
      BY <1>1, <1>2, <1>3, <3>1, <3>2, <3>3
  <2>. QED
    BY <1>1, <2>1, <2>2
\* A chunk sent for a request is of one that was opened and is not dispatched.
<1>7. \A t \in Streams, m \in Requests : IsChunk(rec, t, m) =>
        /\ m <= begun /\ \A j \in DOMAIN ran : ran[j].req # m
        /\ t = "PARAMS" => ~(Runs(m) /\ params_done)
  <2>1. \A i \in Ids : open[i] <= begun
    BY <1>0 DEF UnmixedInv, WireInv, Current
  <2>. QED
    BY <2>1 DEF IsChunk, WholeInv, Unended
<1>8. Fresh'
  <2>1. \A t \in Streams, m \in Requests : m > begun' => sizes'[t][m] = 0
    <3>. SUFFICES ASSUME NEW t \in Streams, NEW m \in Requests, m > begun'
                  PROVE  sizes'[t][m] = 0
      OBVIOUS
    <3>1. m > begun
      BY <1>3
    <3>. QED
      BY <1>3, <1>7, <3>1 DEF WholeInv, Fresh
  <2>2. begun <= begun' /\ begun' \in Nat
    BY <1>3
  <2>3. active_req' <= begun'
    BY <1>2, <1>3, <2>2
  <2>4. \A j \in DOMAIN ran' : ran'[j].req \in Requests /\ ran'[j].req <= begun'
    BY <1>2, <1>3, <2>2 DEF WholeInv, Fresh
  <2>. QED
    BY <2>1, <2>3, <2>4 DEF Fresh
<1>9. Buffered'
  <2>. SUFFICES ASSUME in_request PROVE Buffered'
    BY <1>2 DEF Buffered
  <2>1. active_req \in Requests /\ Runs(active_req)
    BY <1>0, TypeParts DEF RequestOK, ActiveOK, Runs
  <2>2. params_done => sizes'["PARAMS"][active_req] = sizes["PARAMS"][active_req]
    BY <1>7, <2>1 DEF Streams
  <2>3. ASSUME params_done PROVE \A k \in 1..Len(wire') : ~OfStream(k, "PARAMS", active_req)'
    <3>1. ~(rec.type = "PARAMS" /\ rec.req = active_req)
      BY <2>1, <2>3 DEF WholeInv, Unended, Streams
    <3>2. \A k \in 1..n : ~OfStream(k, "PARAMS", active_req)
      BY <2>3 DEF WholeInv, Buffered, n
    <3>. QED
      BY <1>1, <1>2, <3>1, <3>2 DEF OfStream
  <2>. QED
    BY <1>2, <2>2, <2>3 DEF WholeInv, Buffered, InOrder
<1>10. DispatchWhole'
  <2>. SUFFICES ASSUME NEW j \in DOMAIN ran
                PROVE  /\ Whole(ran[j].params, sizes'["PARAMS"][ran[j].req])
                       /\ Whole(ran[j].body, sizes'["STDIN"][ran[j].req])
    BY <1>2 DEF DispatchWhole
  <2>1. \A t \in Streams : sizes'[t][ran[j].req] = sizes[t][ran[j].req]
    BY <1>7 DEF WholeInv, Fresh
  <2>. QED
    BY <2>1 DEF WholeInv, DispatchWhole, Streams
<1>. QED
  BY <1>4, <1>5, <1>6, <1>8, <1>9, <1>10 DEF Rest

\* The streams that are still sent, after a record of another one.
LEMMA UnendedPut ==
  ASSUME WholeInv, NEW rec \in Records, wire' = Append(wire, rec), UNCHANGED worker,
         \A t \in Streams, i \in Ids : Sending(t, i)' =>
           /\ (Sending(t, i) /\ open'[i] = open[i]) \/ (open'[i] \in Requests /\ open'[i] > begun)
           /\ ~IsEnd(rec, t, open'[i])
           /\ sizes'[t][open'[i]] = IF t = "STDIN" /\ phase'[i] = "params" THEN 0 ELSE chunks'[i]
  PROVE  Unended'
<1>0. TypeInv
  BY DEF WholeInv, UnmixedInv
<1>1. UNCHANGED <<in_request, active_req, params_done, ran>>
  BY DEF worker, buffers
<1>2. /\ wire'[Len(wire) + 1] = rec
      /\ \A k \in 1..Len(wire) : wire'[k] = wire[k]
      /\ \A k \in 1..Len(wire') : k \in 1..Len(wire) \/ k = Len(wire) + 1
  BY <1>0, AppendShift
<1>. SUFFICES ASSUME NEW t \in Streams, NEW i \in Ids, Sending(t, i)'
              PROVE  /\ \A j \in 1..Len(wire') : ~EndAt(j, t, open[i])'
                     /\ t = "PARAMS" => ~(Runs(open[i]) /\ params_done)'
                     /\ \A j \in DOMAIN ran' : ran'[j].req # open'[i]
                     /\ sizes'[t][open'[i]] = IF t = "STDIN" /\ phase'[i] = "params" THEN 0 ELSE chunks'[i]
  BY DEF Unended
<1>. DEFINE m == open'[i]
<1>3. /\ \A j \in 1..Len(wire) : ~EndAt(j, t, m)
      /\ t = "PARAMS" => ~(Runs(m) /\ params_done)
      /\ \A j \in DOMAIN ran : ran[j].req # m
  <2>1. CASE Sending(t, i) /\ m = open[i]
    BY <2>1 DEF WholeInv, Unended
  <2>2. CASE m \in Requests /\ m > begun
    BY <2>2, NothingOfNext DEF EndAt
  <2>. QED
    BY <2>1, <2>2
<1>4. \A j \in 1..Len(wire') : ~(wire'[j].type = t /\ wire'[j].req = m /\ wire'[j].chunk = NoChunk)
  BY <1>2, <1>3 DEF EndAt, OfStream, IsEnd
<1>. QED
  BY <1>1, <1>3, <1>4 DEF EndAt, OfStream, Runs

\* The request that is open under an id whose stream the client sends.
LEMMA SendingOpen ==
  ASSUME WholeInv, NEW t \in Streams, NEW i \in Ids, Sending(t, i)
  PROVE  /\ open[i] \in Requests
         /\ \A j \in Ids : j # i => open[j] # open[i]
<1>1. TypeInv
  BY DEF WholeInv, UnmixedInv
<1>2. open[i] \in Requests
  BY <1>1, TypeParts DEF PhaseOK, Sending
<1>. QED
  BY <1>2 DEF WholeInv, Distinct

LEMMA WholeClientBegin ==
  ASSUME WholeInv, NEW i \in Ids, NEW role \in Begins, ClientBegin(i, role)
  PROVE  Rest' /\ DispatchWhole'
<1>. DEFINE rec == Record(role, i, begun + 1, NoChunk)
<1>0. UnmixedInv /\ TypeInv
  BY DEF WholeInv, UnmixedInv
<1>1. /\ begun \in Nat /\ begun + 1 \in Requests /\ open \in [Ids -> 0..NumRequests]
      /\ phase \in [Ids -> Phases] /\ chunks \in [Ids -> Nat]
      /\ \A j \in Ids : open[j] <= begun
  BY <1>0, BoundsAssumption, TypeParts DEF ClientBegin, ClientTypeOK, UnmixedInv, WireInv, Current
<1>2. /\ rec.type = role /\ rec.req = begun + 1 /\ rec.chunk = NoChunk /\ role \notin Streams
      /\ rec \in Records /\ wire' = Append(wire, rec)
  BY <1>1 DEF Record, Records, RequestRecords, ClientBegin, Put, Begins, Streams
<1>3. /\ UNCHANGED <<worker, sizes>> /\ begun' = begun + 1
      /\ open' = [open EXCEPT ![i] = begun + 1] /\ phase' = [phase EXCEPT ![i] = "params"]
      /\ chunks' = [chunks EXCEPT ![i] = 0]
  BY DEF ClientBegin
<1>. HIDE DEF rec
<1>4. \A t \in Streams, m \in Requests : ~IsChunk(rec, t, m) /\ ~IsEnd(rec, t, m)
  BY <1>2 DEF IsChunk, IsEnd
<1>5. Unended'
  <2>. SUFFICES ASSUME NEW t \in Streams, NEW j \in Ids, Sending(t, j)'
                PROVE  /\ (Sending(t, j) /\ open'[j] = open[j]) \/ (open'[j] \in Requests /\ open'[j] > begun)
                       /\ ~IsEnd(rec, t, open'[j])
                       /\ sizes'[t][open'[j]] = IF t = "STDIN" /\ phase'[j] = "params" THEN 0 ELSE chunks'[j]
    BY <1>2, <1>3, UnendedPut
  <2>1. CASE j = i
    BY <1>1, <1>2, <1>3, <2>1, NothingOfNext DEF IsEnd
  <2>2. CASE j # i
    <3>1. UNCHANGED <<open[j], phase[j], chunks[j]>> /\ Sending(t, j)
      BY <1>1, <1>3, <2>2 DEF Sending
    <3>. QED
      BY <1>2, <1>3, <3>1 DEF IsEnd, WholeInv, Unended
  <2>. QED
    BY <2>1, <2>2
<1>6. Distinct'
  BY <1>1, <1>3 DEF WholeInv, Distinct
<1>. QED
  BY <1>2, <1>3, <1>4, <1>5, <1>6, WholePut

LEMMA WholeClientChunk ==
  ASSUME WholeInv, NEW i \in Ids, NEW type \in Streams,
         NEW kind \in {"named", "plain", "garbled"}, ClientChunk(i, type, kind)
  PROVE  Rest' /\ DispatchWhole'
<1>. DEFINE n == open[i]
            rec == Record(type, i, n, Chunk(n, chunks[i] + 1, kind))
<1>0. TypeInv
  BY DEF WholeInv, UnmixedInv
<1>1. /\ <<phase[i], type>> \in {<<"params", "PARAMS">>, <<"stdin", "STDIN">>} /\ Sending(type, i)
      /\ sizes[type][n] = chunks[i]
  <2>1. \/ phase[i] = "params" /\ type = "PARAMS"
        \/ phase[i] = "stdin" /\ type = "STDIN"
    BY DEF ClientChunk
  <2>. QED
    BY <2>1 DEF Sending, WholeInv, Unended
<1>2. /\ n \in Requests /\ chunks \in [Ids -> Nat] /\ sizes \in [Streams -> [Requests -> Nat]]
      /\ \A j \in Ids : j # i => open[j] # n
  BY <1>0, <1>1, SendingOpen, TypeParts DEF ClientTypeOK
<1>3. /\ rec.type = type /\ rec.req = n /\ rec.chunk.place = chunks[i] + 1 /\ rec.chunk.req = n
      /\ rec \in Records /\ wire' = Append(wire, rec)
  BY <1>2 DEF Record, Records, RequestRecords, ClientChunk, Put, Streams, Chunk, Chunks
<1>4. rec.chunk # NoChunk
  BY <1>2, <1>3 DEF NoChunk, Chunk
<1>5. /\ UNCHANGED <<worker, open, phase, begun>> /\ chunks' = [chunks EXCEPT ![i] = chunks[i] + 1]
      /\ sizes' = [sizes EXCEPT ![type] = OneMore(sizes[type], n)]
  BY DEF ClientChunk
<1>. HIDE DEF n, rec
<1>6. \A t \in Streams, m \in Requests :
        sizes'[t][m] = IF IsChunk(rec, t, m) THEN sizes[t][m] + 1 ELSE sizes[t][m]
  <2>. TAKE t \in Streams, m \in Requests
  <2>1. CASE t = type
    <3>1. sizes'[t] = OneMore(sizes[t], n) /\ sizes[t] \in [Requests -> Nat]
      BY <1>2, <1>5, <2>1
    <3>. QED
      BY <1>2, <1>3, <1>4, <2>1, <3>1 DEF OneMore, IsChunk
  <2>2. CASE t # type
    BY <1>2, <1>3, <1>5, <2>2 DEF IsChunk
  <2>. QED
    BY <2>1, <2>2
<1>7. Unended'
  <2>. SUFFICES ASSUME NEW t \in Streams, NEW j \in Ids, Sending(t, j)'
                PROVE  /\ (Sending(t, j) /\ open'[j] = open[j]) \/ (open'[j] \in Requests /\ open'[j] > begun)
                       /\ ~IsEnd(rec, t, open'[j])
                       /\ sizes'[t][open'[j]] = IF t = "STDIN" /\ phase'[j] = "params" THEN 0 ELSE chunks'[j]
    BY <1>3, <1>5, UnendedPut
  <2>1. Sending(t, j) /\ open'[j] = open[j] /\ phase'[j] = phase[j]
    BY <1>5 DEF Sending
  <2>2. /\ ~IsEnd(rec, t, open[j]) /\ open[j] \in Requests
        /\ sizes[t][open[j]] = IF t = "STDIN" /\ phase[j] = "params" THEN 0 ELSE chunks[j]
    BY <1>4, <2>1, SendingOpen DEF IsEnd, WholeInv, Unended
  <2>3. sizes'[t][open[j]] = IF t = "STDIN" /\ phase[j] = "params" THEN 0 ELSE chunks'[j]
    <3>1. CASE j = i
      <4>1. t = type \/ (t = "STDIN" /\ phase[j] = "params" /\ type = "PARAMS")
        BY <1>1, <2>1, <3>1 DEF Sending, Streams
      <4>. QED
        BY <1>1, <1>2, <1>3, <1>4, <1>5, <1>6, <2>2, <3>1, <4>1 DEF IsChunk, n
    <3>2. CASE j # i
      <4>1. open[j] # n /\ chunks'[j] = chunks[j]
        BY <1>2, <1>5, <3>2
      <4>. QED
        BY <1>3, <1>6, <2>2, <4>1 DEF IsChunk
    <3>. QED
      BY <3>1, <3>2
  <2>. QED
    BY <2>1, <2>2, <2>3
<1>8. Distinct'
  BY <1>5 DEF WholeInv, Distinct
<1>9. type \notin Begins
  BY DEF Begins, Streams
<1>10. \E j \in Ids : /\ Sending(type, j) /\ rec.req = open[j] /\ open[j] \in Requests
                      /\ rec.chunk # NoChunk => rec.chunk.place = sizes[type][open[j]] + 1
  BY <1>1, <1>2, <1>3 DEF n
<1>. QED
  BY <1>3, <1>5, <1>6, <1>7, <1>8, <1>9, <1>10, WholePut

LEMMA WholeClientEndStream ==
  ASSUME WholeInv, NEW i \in Ids, NEW type \in Streams, ClientEndStream(i, type)
  PROVE  Rest' /\ DispatchWhole'
<1>. DEFINE n == open[i]
            rec == Record(type, i, n, NoChunk)
<1>0. TypeInv
  BY DEF WholeInv, UnmixedInv
<1>1. /\ \/ phase[i] = "params" /\ type = "PARAMS"
         \/ phase[i] = "stdin" /\ type = "STDIN"
      /\ Sending(type, i) /\ type \notin Begins
  <2>1. \/ phase[i] = "params" /\ type = "PARAMS"
        \/ phase[i] = "stdin" /\ type = "STDIN"
    BY DEF ClientEndStream
  <2>. QED
    BY <2>1 DEF Sending, Begins
<1>2. /\ n \in Requests /\ chunks \in [Ids -> Nat] /\ phase \in [Ids -> Phases]
      /\ \A j \in Ids : j # i => open[j] # n
  BY <1>0, <1>1, SendingOpen, TypeParts DEF ClientTypeOK
<1>3. /\ rec.type = type /\ rec.req = n /\ rec.chunk = NoChunk
      /\ rec \in Records /\ wire' = Append(wire, rec)
  BY <1>2 DEF Record, Records, RequestRecords, ClientEndStream, Put, Streams
<1>4. /\ UNCHANGED <<worker, open, begun, sizes>> /\ chunks' = [chunks EXCEPT ![i] = 0]
      /\ phase' = [phase EXCEPT ![i] = IF type = "PARAMS" THEN "stdin" ELSE "sent"]
  BY DEF ClientEndStream
<1>. HIDE DEF n, rec
<1>5. Unended'
  <2>. SUFFICES ASSUME NEW t \in Streams, NEW j \in Ids, Sending(t, j)'
                PROVE  /\ (Sending(t, j) /\ open'[j] = open[j]) \/ (open'[j] \in Requests /\ open'[j] > begun)
                       /\ ~IsEnd(rec, t, open'[j])
                       /\ sizes'[t][open'[j]] = IF t = "STDIN" /\ phase'[j] = "params" THEN 0 ELSE chunks'[j]
    BY <1>3, <1>4, UnendedPut
  <2>1. CASE j = i
    <3>1. /\ type = "PARAMS" /\ t = "STDIN" /\ phase[i] = "params" /\ Sending("STDIN", i)
          /\ phase'[i] = "stdin" /\ chunks'[i] = 0
      BY <1>1, <1>2, <1>4, <2>1 DEF Sending
    <3>2. sizes["STDIN"][open[i]] = 0
      BY <3>1 DEF WholeInv, Unended, Streams
    <3>. QED
      BY <1>3, <1>4, <2>1, <3>1, <3>2 DEF IsEnd
  <2>2. CASE j # i
    <3>1. UNCHANGED <<open[j], phase[j], chunks[j]>> /\ Sending(t, j) /\ open[j] # n
      BY <1>2, <1>4, <2>2 DEF Sending
    <3>. QED
      BY <1>3, <1>4, <3>1 DEF IsEnd, WholeInv, Unended
  <2>. QED
    BY <2>1, <2>2
<1>6. Distinct'
  BY <1>4 DEF WholeInv, Distinct
<1>7. \A t \in Streams, m \in Requests : ~IsChunk(rec, t, m)
  BY <1>3 DEF IsChunk
<1>. QED
  BY <1>1, <1>2, <1>3, <1>4, <1>5, <1>6, <1>7, WholePut DEF n

\* A record of no stream: an ABORT, or one of management.
LEMMA WholeClientOther ==
  ASSUME WholeInv, \/ \E i \in Ids : ClientAbort(i)
                   \/ \E type \in {"GET_VALUES", "TORN"} : ClientManage(type)
  PROVE  Rest' /\ DispatchWhole'
<1>0. TypeInv
  BY DEF WholeInv, UnmixedInv
<1>1. PICK rec \in Records : wire' = Append(wire, rec) /\ rec.type \notin Begins \cup Streams
  <2>1. ASSUME NEW i \in Ids, ClientAbort(i)
        PROVE  \E rec \in Records : wire' = Append(wire, rec) /\ rec.type \notin Begins \cup Streams
    <3>1. open[i] \in Requests
      BY <1>0, <2>1, TypeParts DEF ClientAbort, PhaseOK
    <3>. QED
      BY <2>1, <3>1 DEF ClientAbort, Put, Record, Records, RequestRecords, Begins, Streams
  <2>2. ASSUME NEW type \in {"GET_VALUES", "TORN"}, ClientManage(type)
        PROVE  \E rec \in Records : wire' = Append(wire, rec) /\ rec.type \notin Begins \cup Streams
    BY <2>2 DEF ClientManage, Put, Record, Records, Begins, Streams
  <2>. QED
    BY <2>1, <2>2
<1>2. /\ UNCHANGED <<worker, open, begun, sizes, chunks>>
      /\ \A i \in Ids : phase'[i] \in {phase[i], "aborted"}
  <2>1. phase \in [Ids -> Phases]
    BY <1>0, TypeParts DEF ClientTypeOK
  <2>. QED
    BY <2>1 DEF ClientAbort, ClientManage, client
<1>3. \A t \in Streams, i \in Ids : Sending(t, i)' => Sending(t, i) /\ phase'[i] = phase[i]
  BY <1>2 DEF Sending
<1>4. \A t \in Streams : \A m : ~IsChunk(rec, t, m) /\ ~IsEnd(rec, t, m)
  BY <1>1 DEF IsChunk, IsEnd
<1>5. \A t \in Streams, i \in Ids : Sending(t, i) =>
        sizes[t][open[i]] = IF t = "STDIN" /\ phase[i] = "params" THEN 0 ELSE chunks[i]
  BY DEF WholeInv, Unended
<1>6. Unended'
  BY <1>1, <1>2, <1>3, <1>4, <1>5, UnendedPut
<1>7. Distinct'
  BY <1>2 DEF WholeInv, Distinct
<1>. QED
  BY <1>1, <1>2, <1>4, <1>6, <1>7, WholePut

LEMMA WholeClosing ==
  ASSUME WholeInv, ClientHangUp \/ ClientSeesClose \/ ClientReceive \/ ReadEof \/ UNCHANGED vars
  PROVE  Rest' /\ DispatchWhole'
<1>1. TypeInv
  BY DEF WholeInv, UnmixedInv
<1>2. open \in [Ids -> 0..NumRequests] /\ phase \in [Ids -> Phases]
  BY <1>1, TypeParts DEF ClientTypeOK
<1>3. CASE ClientHangUp \/ ClientSeesClose \/ ClientReceive
  <2>1. UNCHANGED <<wire, worker, begun, sizes, chunks>>
    BY <1>3 DEF ClientHangUp, ClientSeesClose, ClientReceive
  <2>2. \A i \in Ids : \/ open'[i] = open[i] /\ phase'[i] = phase[i]
                       \/ open'[i] = 0 /\ phase'[i] = "closed"
    BY <1>2, <1>3 DEF ClientHangUp, ClientSeesClose, ClientReceive
  <2>. QED
    BY <2>1, <2>2, WholeKept DEF worker
<1>4. CASE ReadEof
  BY <1>4, WholeKept DEF ReadEof, client
<1>5. CASE UNCHANGED vars
  BY <1>5, WholeKept DEF vars, client, worker
<1>. QED
  BY <1>3, <1>4, <1>5

LEMMA WholeInit == Init => Rest /\ DispatchWhole
<1>. SUFFICES ASSUME Init PROVE Rest /\ DispatchWhole
  OBVIOUS
<1>1. 1..Len(wire) = {} /\ DOMAIN ran = {} /\ ~in_request /\ begun = 0 /\ active_req = 0
  BY EmptySeq DEF Init
<1>2. Placed /\ EndsLast /\ BeginsOnce /\ Buffered /\ DispatchWhole
  BY <1>1 DEF Placed, Live, Runs, Awaited, EndsLast, BeginsOnce, Buffered, DispatchWhole
<1>3. Unended /\ Distinct /\ Fresh
  BY <1>1 DEF Init, Unended, Sending, Distinct, Fresh
<1>. QED
  BY <1>2, <1>3 DEF Rest

LEMMA WholeStep == ASSUME WholeInv, [Next]_vars PROVE WholeInv'
<1>1. UnmixedInv'
  BY UnmixedStep DEF WholeInv
<1>2. Rest' /\ DispatchWhole'
  <2>1. ASSUME ClientStep PROVE Rest' /\ DispatchWhole'
    BY <2>1, WholeClientBegin, WholeClientChunk, WholeClientEndStream, WholeClientOther,
       WholeClosing DEF ClientStep, Streams
  <2>2. ASSUME WorkerStep PROVE Rest' /\ DispatchWhole'
    BY <2>2, WholeReadBegin, WholeReadParams, WholeReadStdin, WholeReadOther, WholeClosing
       DEF WorkerStep
  <2>. QED
    BY <2>1, <2>2, WholeClosing DEF Next, ClientReads
<1>. QED
  BY <1>1, <1>2 DEF WholeInv, Rest

\* Whatever is aborted, refused, pipelined or interleaved on a connection, the
\* application is handed both streams of a request complete and in their order.
THEOREM AlwaysWhole == Spec => []DispatchWhole
<1>1. Init => WholeInv
  BY UnmixedInit, WholeInit DEF WholeInv, Rest
<1>2. WholeInv /\ [Next]_vars => WholeInv'
  BY WholeStep
<1>3. WholeInv => DispatchWhole
  BY DEF WholeInv
<1>. QED
  BY <1>1, <1>2, <1>3, PTL DEF Spec

----------------------------------------------------------------------------
(* Why a request is answered once, and the answer is its own, as long as   *)
(* no client aborts.                                                       *)

\* The requests that have still to be answered.
Due(n) == (status = "serving" /\ Runs(n)) \/ Awaited(n)
Unanswered == \A n \in Requests : Due(n) => n <= begun /\ ends[n] = 0
AnsweredOnce ==
  \A n \in Requests : /\ ends[n] \in {0, 1} /\ credited[n] \in {0, n}
                      /\ ends[n] = 1 => n <= begun
                      /\ credited[n] = n => ends[n] = 1
NoAborts == \A k \in 1..Len(wire) : wire[k].type # "ABORT"

\* What is due, and what is answered and not yet received, is the request open
\* under its id, so that the client credits the answer to it.
EndAnswer(k) == reply[k].type = "END"
RunsOpen   == status = "serving" /\ in_request => open[active_id] = active_req
BeginsOpen == \A k \in 1..Len(wire) : wire[k].type \in Begins => open[wire[k].id] = wire[k].req
EndsOpen   == \A k \in 1..Len(reply) : EndAnswer(k) =>
                /\ reply[k].id \in Ids /\ reply[k].req \in Requests
                /\ open[reply[k].id] = reply[k].req
                /\ ends[reply[k].req] = 1 /\ credited[reply[k].req] = 0
EndsDiffer == \A j, k \in 1..Len(reply) :
                EndAnswer(j) /\ EndAnswer(k) /\ reply[j].req = reply[k].req => j = k
OpenInv    == ~hungUp => RunsOpen /\ BeginsOpen /\ EndsOpen /\ EndsDiffer

LedgerRest == Unanswered /\ AnsweredOnce /\ NoAborts /\ OpenInv
LedgerInv  == WholeInv /\ LedgerRest

LEMMA StageKept ==
  ASSUME \A n \in Requests : Stage(n)' = Stage(n)
  PROVE  UNCHANGED Ledger!vars
  BY DEF Ledger!vars

LEMMA StageMoved ==
  ASSUME NEW n \in Requests, NEW from, NEW to, Stage(n) = from, Stage(n)' = to,
         \A m \in Requests : m # n => Stage(m)' = Stage(m)
  PROVE  Ledger!Advance(n, from, to)
  BY DEF Ledger!Advance

LEMMA LedgerTypes ==
  ASSUME TypeInv
  PROVE  /\ open \in [Ids -> 0..NumRequests] /\ ends \in [Requests -> Nat] /\ begun \in Nat
         /\ credited \in [Requests -> 0..NumRequests] /\ NumRequests \in Nat
         /\ reply \in Seq(Answers) /\ Len(reply) \in Nat /\ Len(wire) \in Nat
         /\ wire \in Seq(Records) /\ hungUp \in BOOLEAN /\ in_request \in BOOLEAN
         /\ \A k \in 1..Len(wire) : wire[k].type \in Begins => wire[k].id \in Ids /\ wire[k].req \in Requests
         /\ in_request => active_id \in Ids /\ active_req \in Requests
<1>1. \A k \in 1..Len(wire) : wire[k] \in Records
  BY TypeParts, ElementOfSeq
<1>2. \A k \in 1..Len(wire) : wire[k].type \in Begins => wire[k].id \in Ids /\ wire[k].req \in Requests
  BY <1>1, RequestRecord
<1>3. /\ reply \in Seq(Answers) /\ wire \in Seq(Records) /\ hungUp \in BOOLEAN /\ in_request \in BOOLEAN
      /\ in_request => active_id \in Ids /\ active_req \in Requests
  BY TypeParts DEF ReplyOK, RequestOK, FlagsOK, ActiveOK
<1>4. Len(reply) \in Nat /\ Len(wire) \in Nat
  BY <1>3, LenProperties
<1>. QED
  BY <1>2, <1>3, <1>4, BoundsAssumption, TypeParts DEF ClientTypeOK, HistoryOK

LEMMA LedgerInit == Init => LedgerRest
<1>. SUFFICES ASSUME Init PROVE LedgerRest
  OBVIOUS
<1>1. 1..Len(wire) = {} /\ 1..Len(reply) = {} /\ ~in_request
  BY EmptySeq DEF Init
<1>2. \A n \in Requests : ends[n] = 0 /\ credited[n] = 0
  BY DEF Init
<1>. QED
  BY <1>1, <1>2 DEF LedgerRest, Unanswered, Due, Runs, Awaited, AnsweredOnce, NoAborts, OpenInv,
                    RunsOpen, BeginsOpen, EndsOpen, EndsDiffer

\* What is written is behind what was written before.
LEMMA Replied ==
  ASSUME TypeInv, NEW answers \in Seq(Answers), ~hungUp, Write(answers)
  PROVE  \A k \in 1..Len(reply') :
           \/ k \in 1..Len(reply) /\ reply'[k] = reply[k]
           \/ k - Len(reply) \in 1..Len(answers) /\ reply'[k] = answers[k - Len(reply)]
<1>1. reply \in Seq(Answers) /\ Len(reply) \in Nat /\ Len(answers) \in Nat
  BY LedgerTypes, LenProperties
<1>2. /\ Len(reply') = Len(reply) + Len(answers)
      /\ \A k \in 1..(Len(reply) + Len(answers)) :
           reply'[k] = IF k <= Len(reply) THEN reply[k] ELSE answers[k - Len(reply)]
  BY <1>1, ConcatProperties DEF Write
<1>. QED
  BY <1>1, <1>2

\* Reading a record in front of which nothing is due but what was.
LEMMA DueTaken ==
  ASSUME LedgerInv, NEW types, Taking(types),
         \/ status' # "serving" \/ ~in_request'
         \/ UNCHANGED <<in_request, active_req>>
         \/ Head(wire).type \in Begins /\ active_req' = Head(wire).req
  PROVE  /\ \A n \in Requests : Due(n)' => Due(n)
         /\ NoAborts'
         /\ \A n \in Requests : Head(wire).type \in Begins /\ Awaited(n)' => n # Head(wire).req
         /\ BeginsOpen => BeginsOpen'
<1>1. WholeInv /\ UnmixedInv /\ TypeInv /\ NoAborts /\ BeginsOnce
  BY DEF LedgerInv, LedgerRest, WholeInv, UnmixedInv
<1>2. /\ 1 \in 1..Len(wire) /\ Head(wire) = wire[1] /\ status = "serving" /\ UNCHANGED open
      /\ \A k \in 1..Len(wire') : k + 1 \in 1..Len(wire) /\ wire'[k] = wire[k + 1] /\ k + 1 > 1
  BY <1>1, TailShift DEF Taking, client
<1>3. ASSUME NEW n \in Requests, Due(n)' PROVE Due(n)
  BY <1>1, <1>2, <1>3, AwaitedTaken DEF Due, Runs, Awaited
<1>4. ASSUME NEW n \in Requests, Head(wire).type \in Begins, Awaited(n)'
      PROVE  n # Head(wire).req
  <2>1. PICK k \in 1..Len(wire') : wire'[k].type \in Begins /\ wire'[k].req = n
    BY <1>4 DEF Awaited
  <2>2. wire[1].req < wire[k + 1].req
    BY <1>1, <1>2, <1>4, <2>1 DEF BeginsOnce
  <2>3. wire[1].req \in Requests
    BY <1>1, <1>2, <1>4, LedgerTypes
  <2>. QED
    BY <1>2, <2>1, <2>2, <2>3, BoundsAssumption
<1>5. NoAborts' /\ (BeginsOpen => BeginsOpen')
  BY <1>1, <1>2 DEF NoAborts, BeginsOpen
<1>. QED
  BY <1>3, <1>4, <1>5

\* Nothing is answered: no request moves.
LEMMA LedgerQuiet ==
  ASSUME LedgerInv, NEW types, Taking(types), UNCHANGED ends,
         \/ status' # "serving" \/ ~in_request'
         \/ UNCHANGED <<in_request, active_req, active_id>>
         \/ /\ Head(wire).type \in Begins
            /\ active_req' = Head(wire).req /\ active_id' = Head(wire).id,
         \/ UNCHANGED reply
         \/ \E a \in Answers : a.type # "END" /\ Write(<<a>>)
  PROVE  LedgerRest' /\ UNCHANGED Ledger!vars
<1>1. /\ TypeInv /\ Unanswered /\ AnsweredOnce /\ OpenInv
      /\ UNCHANGED <<open, hungUp, begun, credited>>
      /\ Head(wire) = wire[1] /\ 1 \in 1..Len(wire) /\ status = "serving"
  BY TailShift DEF LedgerInv, LedgerRest, WholeInv, UnmixedInv, Taking, client
<1>2. Unanswered' /\ NoAborts' /\ (BeginsOpen => BeginsOpen')
  BY <1>1, DueTaken DEF Unanswered
<1>3. AnsweredOnce'
  BY <1>1 DEF AnsweredOnce
<1>4. RunsOpen /\ BeginsOpen => RunsOpen'
  BY <1>1 DEF RunsOpen, BeginsOpen
<1>5. ASSUME ~hungUp, EndsOpen, EndsDiffer PROVE EndsOpen' /\ EndsDiffer'
  <2>1. \A k \in 1..Len(reply') : EndAnswer(k)' => k \in 1..Len(reply) /\ reply'[k] = reply[k]
    <3>1. ASSUME NEW a \in Answers, a.type # "END", Write(<<a>>),
                 NEW k \in 1..Len(reply'), EndAnswer(k)'
          PROVE  k \in 1..Len(reply) /\ reply'[k] = reply[k]
      <4>1. <<a>> \in Seq(Answers) /\ \A j \in 1..Len(<<a>>) : <<a>>[j] = a
        OBVIOUS
      <4>2. k \in 1..Len(reply) \/ reply'[k] = a
        BY <1>1, <1>5, <3>1, <4>1, Replied
      <4>. QED
        BY <1>1, <1>5, <3>1, <4>1, <4>2, Replied DEF EndAnswer
    <3>. QED
      BY <3>1
  <2>. QED
    BY <1>1, <1>5, <2>1 DEF EndsOpen, EndsDiffer, EndAnswer
<1>6. OpenInv'
  BY <1>1, <1>2, <1>4, <1>5 DEF OpenInv
<1>7. \A n \in Requests : Stage(n)' = Stage(n)
  BY <1>1 DEF Stage
<1>. QED
  BY <1>2, <1>3, <1>6, <1>7, StageKept DEF LedgerRest

\* The END_REQUEST of a request that was due is written, and it is due no more.
LEMMA LedgerAnswer ==
  ASSUME LedgerInv, NEW types, Taking(types), NEW n \in Requests, NEW i \in Ids,
         Due(n), ~hungUp => open[i] = n, ends' = OneMore(ends, n),
         NEW answers \in Seq(Answers), Write(answers),
         \A k \in 1..Len(answers) : answers[k].type = "END" => answers[k].id = i /\ answers[k].req = n,
         \A j, k \in 1..Len(answers) : answers[j].type = "END" /\ answers[k].type = "END" => j = k,
         status' # "serving" \/ ~in_request', ~Awaited(n)'
  PROVE  LedgerRest' /\ Ledger!Answer(n)
<1>1. /\ TypeInv /\ Unanswered /\ AnsweredOnce /\ OpenInv
      /\ UNCHANGED <<open, hungUp, begun, credited>>
  BY DEF LedgerInv, LedgerRest, WholeInv, UnmixedInv, Taking, client
<1>2. /\ n <= begun /\ ends[n] = 0 /\ credited[n] = 0 /\ ends'[n] = 1
      /\ \A m \in Requests : m # n => ends'[m] = ends[m]
  BY <1>1, LedgerTypes, BoundsAssumption DEF Unanswered, AnsweredOnce, OneMore
<1>3. Unanswered'
  <2>. SUFFICES ASSUME NEW m \in Requests, Due(m)' PROVE m <= begun' /\ ends'[m] = 0
    BY DEF Unanswered
  <2>1. Due(m) /\ m # n
    BY DueTaken DEF Due, Runs
  <2>. QED
    BY <1>1, <1>2, <2>1 DEF Unanswered
<1>4. NoAborts' /\ (BeginsOpen => BeginsOpen')
  BY DueTaken
<1>5. AnsweredOnce'
  BY <1>1, <1>2 DEF AnsweredOnce
<1>6. ASSUME ~hungUp, EndsOpen, EndsDiffer PROVE EndsOpen' /\ EndsDiffer'
  <2>1. \A k \in 1..Len(reply) : EndAnswer(k) => reply[k].req # n
    BY <1>2, <1>6 DEF EndsOpen
  <2>2. \A k \in 1..Len(reply') : EndAnswer(k)' =>
           \/ k \in 1..Len(reply) /\ reply'[k] = reply[k] /\ EndAnswer(k)
           \/ /\ k - Len(reply) \in 1..Len(answers) /\ answers[k - Len(reply)].type = "END"
              /\ reply'[k].req = n /\ reply'[k].id = i
    BY <1>1, <1>6, Replied DEF EndAnswer
  <2>3. EndsOpen'
    BY <1>1, <1>2, <1>6, <2>1, <2>2 DEF EndsOpen
  <2>4. EndsDiffer'
    <3>. SUFFICES ASSUME NEW j \in 1..Len(reply'), NEW k \in 1..Len(reply'),
                         EndAnswer(j)', EndAnswer(k)', reply'[j].req = reply'[k].req
                  PROVE  j = k
      BY DEF EndsDiffer
    <3>1. Len(reply) \in Nat
      BY <1>1, LedgerTypes
    <3>. DEFINE Old(m) == m \in 1..Len(reply) /\ reply'[m] = reply[m] /\ EndAnswer(m)
                New(m) == /\ m - Len(reply) \in 1..Len(answers) /\ answers[m - Len(reply)].type = "END"
                          /\ reply'[m].req = n
    <3>2. (Old(j) \/ New(j)) /\ (Old(k) \/ New(k))
      BY <2>2
    <3>3. CASE Old(j) /\ Old(k)
      <4>1. reply[j].req = reply[k].req
        BY <3>3
      <4>. QED
        BY <1>6, <3>3, <4>1 DEF EndsDiffer
    <3>4. CASE New(j) /\ New(k)
      <4>1. j - Len(reply) = k - Len(reply)
        BY <3>4
      <4>. QED
        BY <3>1, <4>1
    <3>5. ASSUME Old(j), New(k) PROVE FALSE
      BY <2>1, <3>5
    <3>6. ASSUME New(j), Old(k) PROVE FALSE
      BY <2>1, <3>6
    <3>. HIDE DEF Old, New
    <3>. QED
      BY <3>2, <3>3, <3>4, <3>5, <3>6
  <2>. QED
    BY <2>3, <2>4
<1>7. OpenInv'
  BY <1>1, <1>4, <1>6 DEF OpenInv, RunsOpen
<1>8. Ledger!Answer(n)
  <2>1. Stage(n) = "open" /\ Stage(n)' = "answered"
    BY <1>1, <1>2, BoundsAssumption DEF Stage
  <2>2. \A m \in Requests : m # n => Stage(m)' = Stage(m)
    BY <1>1, <1>2 DEF Stage
  <2>. QED
    BY <2>1, <2>2, StageMoved DEF Ledger!Answer
<1>. QED
  BY <1>3, <1>4, <1>5, <1>7, <1>8 DEF LedgerRest

\* An END_REQUEST alone or behind one other record.
LEMMA OneEnd ==
  ASSUME NEW i \in Ids, NEW n \in Requests,
         NEW answers, \/ answers = <<Answer("END", i, n)>>
                      \/ \E type \in {"OUT", "ERR"} :
                           answers = <<Answer(type, i, n), Answer("END", i, n)>>
  PROVE  /\ answers \in Seq(Answers)
         /\ \A k \in 1..Len(answers) : answers[k].type = "END" => answers[k].id = i /\ answers[k].req = n
         /\ \A j, k \in 1..Len(answers) : answers[j].type = "END" /\ answers[k].type = "END" => j = k
<1>. PICK first \in {"OUT", "ERR"} :
       \/ answers = <<Answer("END", i, n)>>
       \/ answers = <<Answer(first, i, n), Answer("END", i, n)>>
  OBVIOUS
<1>1. /\ Answer("END", i, n) \in Answers /\ Answer(first, i, n) \in Answers
      /\ Answer("END", i, n).type = "END" /\ Answer(first, i, n).type # "END"
      /\ Answer("END", i, n).id = i /\ Answer("END", i, n).req = n
  BY DEF Answer, Answers
<1>. DEFINE e == Answer("END", i, n)
            f == Answer(first, i, n)
<1>. HIDE DEF e, f
<1>2. CASE answers = <<e>>
  <2>1. Len(answers) = 1 /\ answers[1] = e /\ answers \in Seq(Answers)
    BY <1>1, <1>2 DEF e
  <2>. QED
    BY <1>1, <2>1 DEF e
<1>3. CASE answers = <<f, e>>
  <2>1. Len(answers) = 2 /\ answers[1] = f /\ answers[2] = e /\ answers \in Seq(Answers)
    BY <1>1, <1>3 DEF e, f
  <2>. QED
    BY <1>1, <2>1 DEF e, f
<1>. QED
  BY <1>2, <1>3 DEF e, f

LEMMA LedgerReadBegin ==
  ASSUME LedgerInv, ReadBegin
  PROVE  LedgerRest' /\ [Ledger!Next]_(Ledger!vars)
<1>. DEFINE r == Head(wire)
<1>1. /\ Taking(Begins) /\ TypeInv /\ r = wire[1] /\ 1 \in 1..Len(wire) /\ r.type \in Begins
      /\ r.id \in Ids /\ r.req \in Requests
  BY TailShift, TakingType, RequestRecord DEF ReadBegin, LedgerInv, WholeInv, UnmixedInv, Taking
<1>2. CASE Failed /\ UNCHANGED <<reply, ends>>
  BY <1>1, <1>2, LedgerQuiet DEF Failed
<1>3. CASE /\ active_id' = r.id /\ active_req' = r.req /\ UNCHANGED <<reply, ends>>
  BY <1>1, <1>3, LedgerQuiet
<1>4. CASE /\ ~in_request /\ UNCHANGED in_request /\ ends' = OneMore(ends, r.req)
           /\ Write(<<Answer("END", r.id, r.req)>>)
  <2>0. PICK n \in Requests, i \in Ids : n = r.req /\ i = r.id
    BY <1>1
  <2>1. Due(n) /\ (~hungUp => open[i] = n)
    BY <1>1, <2>0 DEF Due, Awaited, LedgerInv, LedgerRest, OpenInv, BeginsOpen
  <2>2. ~in_request' /\ ~Awaited(n)'
    BY <1>1, <1>4, <2>0, DueTaken
  <2>3. Ledger!Answer(n) /\ LedgerRest'
    <3>0. PICK answers : answers = <<Answer("END", i, n)>>
      OBVIOUS
    <3>1. /\ answers \in Seq(Answers)
          /\ \A k \in 1..Len(answers) : answers[k].type = "END" => answers[k].id = i /\ answers[k].req = n
          /\ \A j, k \in 1..Len(answers) : answers[j].type = "END" /\ answers[k].type = "END" => j = k
      BY <3>0, OneEnd
    <3>2. Write(answers) /\ ends' = OneMore(ends, n)
      BY <1>4, <2>0, <3>0
    <3>. QED
      BY <1>1, <2>1, <2>2, <3>1, <3>2, LedgerAnswer
  <2>. QED
    BY <2>3 DEF Ledger!Next
<1>. QED
  BY <1>2, <1>3, <1>4 DEF ReadBegin

LEMMA LedgerReadParams ==
  ASSUME LedgerInv, ReadParams
  PROVE  LedgerRest' /\ [Ledger!Next]_(Ledger!vars)
<1>1. Taking({"PARAMS"}) /\ UNCHANGED <<ends, reply>>
  BY DEF ReadParams
<1>2. status' # "serving" \/ UNCHANGED <<in_request, active_req, active_id>>
  BY DEF ReadParams, Failed
<1>. QED
  BY <1>1, <1>2, LedgerQuiet

LEMMA LedgerReadStdin ==
  ASSUME LedgerInv, ReadStdin
  PROVE  LedgerRest' /\ [Ledger!Next]_(Ledger!vars)
<1>1. Taking({"STDIN"}) /\ TypeInv /\ WholeInv /\ status = "serving"
  BY DEF ReadStdin, LedgerInv, WholeInv, UnmixedInv, Taking
<1>2. CASE /\ status' # "serving" \/ UNCHANGED <<in_request, active_req, active_id>>
           /\ UNCHANGED <<ends, reply>>
  BY <1>1, <1>2, LedgerQuiet
<1>3. ASSUME in_request, NEW outcome \in {"response", "error", "invalid"}, Write(AnswerFor(outcome)),
             ends' = OneMore(ends, active_req), status' # "serving" \/ ~in_request'
      PROVE  LedgerRest' /\ [Ledger!Next]_(Ledger!vars)
  <2>1. PICK n \in Requests, i \in Ids : n = active_req /\ i = active_id
    BY <1>1, <1>3, LedgerTypes
  <2>2. Due(n) /\ (~hungUp => open[i] = n)
    BY <1>1, <1>3, <2>1 DEF Due, Runs, LedgerInv, LedgerRest, OpenInv, RunsOpen
  <2>3. ~Awaited(n)'
    BY <1>1, <1>3, <2>1, AwaitedTaken DEF Runs
  <2>4. PICK first \in {"OUT", "ERR"} : AnswerFor(outcome) = <<Answer(first, i, n), Answer("END", i, n)>>
    BY <2>1 DEF AnswerFor
  <2>5. Ledger!Answer(n) /\ LedgerRest'
    <3>0. PICK answers : answers = <<Answer(first, i, n), Answer("END", i, n)>>
      OBVIOUS
    <3>1. /\ answers \in Seq(Answers)
          /\ \A k \in 1..Len(answers) : answers[k].type = "END" => answers[k].id = i /\ answers[k].req = n
          /\ \A j, k \in 1..Len(answers) : answers[j].type = "END" /\ answers[k].type = "END" => j = k
      BY <3>0, OneEnd
    <3>2. Write(answers) /\ ends' = OneMore(ends, n)
      BY <1>3, <2>1, <2>4, <3>0
    <3>. QED
      BY <1>1, <1>3, <2>2, <2>3, <3>1, <3>2, LedgerAnswer
  <2>. QED
    BY <2>5 DEF Ledger!Next
<1>4. CASE Belongs(Head(wire)) /\ Dispatch
  <2>1. in_request
    BY <1>4 DEF Belongs
  <2>. QED
    BY <1>2, <1>3, <1>4, <2>1 DEF Dispatch, Failed, ClearedRequest
<1>. QED
  BY <1>2, <1>4 DEF ReadStdin, Failed

LEMMA LedgerReadOther ==
  ASSUME LedgerInv, ReadAbort \/ ReadManagement
  PROVE  LedgerRest' /\ [Ledger!Next]_(Ledger!vars)
<1>1. ~ReadAbort
  BY TailShift DEF ReadAbort, Taking, LedgerInv, LedgerRest, NoAborts, WholeInv, UnmixedInv
<1>2. /\ Taking({"GET_VALUES", "TORN"}) /\ UNCHANGED ends
      /\ status' # "serving" \/ UNCHANGED <<in_request, active_req, active_id>>
  BY <1>1 DEF ReadManagement, Failed, buffers
<1>3. UNCHANGED reply \/ Write(<<Answer("VALUES", 0, 0)>>)
  BY <1>1 DEF ReadManagement
<1>4. Answer("VALUES", 0, 0) \in Answers /\ Answer("VALUES", 0, 0).type # "END"
  BY BoundsAssumption DEF Answer, Answers
<1>. QED
  BY <1>2, <1>3, <1>4, LedgerQuiet

\* The client opens a request: it was nowhere.
LEMMA LedgerClientBegin ==
  ASSUME LedgerInv, NEW i \in Ids, NEW role \in Begins, ClientBegin(i, role)
  PROVE  LedgerRest' /\ [Ledger!Next]_(Ledger!vars)
<1>. DEFINE rec == Record(role, i, begun + 1, NoChunk)
<1>1. /\ TypeInv /\ LedgerRest
  BY DEF LedgerInv, WholeInv, UnmixedInv
<1>2. /\ begun' = begun + 1 /\ open' = [open EXCEPT ![i] = begun + 1] /\ open[i] = 0
      /\ UNCHANGED <<hungUp, reply, credited, ends, status, in_request, active_id, active_req>>
      /\ wire' = Append(wire, rec) /\ begun < NumRequests
  BY DEF ClientBegin, worker, buffers, Put
<1>3. PICK n \in Requests : n = begun + 1
  BY <1>1, <1>2, LedgerTypes
<1>4. rec.type = role /\ rec.id = i /\ rec.req = n /\ rec \in Records
  BY <1>3 DEF Record, Records, RequestRecords
<1>. HIDE DEF rec
<1>5. ends[n] = 0 /\ credited[n] = 0
  BY <1>1, <1>3, LedgerTypes DEF LedgerRest, AnsweredOnce
<1>6. begun \in Nat /\ n > 0 /\ n > begun
  BY <1>1, <1>3, LedgerTypes
<1>7. Unanswered'
  <2>1. \A m \in Requests : Due(m)' => Due(m) \/ m = n
    BY <1>1, <1>2, <1>4, AppendShift DEF Due, Runs, Awaited
  <2>2. ASSUME NEW m \in Requests, Due(m)' PROVE m <= begun' /\ ends'[m] = 0
    <3>1. CASE m = n
      BY <1>2, <1>3, <1>5, <1>6, <3>1
    <3>2. CASE Due(m)
      <4>1. m <= begun /\ ends[m] = 0
        BY <1>1, <3>2 DEF LedgerRest, Unanswered
      <4>. QED
        BY <1>2, <1>6, <4>1
    <3>. QED
      BY <2>1, <2>2, <3>1, <3>2
  <2>. QED
    BY <2>2 DEF Unanswered
<1>8. AnsweredOnce'
  BY <1>1, <1>2, LedgerTypes DEF LedgerRest, AnsweredOnce
<1>9. NoAborts'
  BY <1>1, <1>2, <1>4, AppendShift DEF LedgerRest, NoAborts, Begins
<1>10. ASSUME ~hungUp PROVE RunsOpen' /\ BeginsOpen' /\ EndsOpen' /\ EndsDiffer'
  <2>1. RunsOpen /\ BeginsOpen /\ EndsOpen /\ EndsDiffer
    BY <1>1, <1>10 DEF LedgerRest, OpenInv
  <2>2. RunsOpen'
    BY <1>1, <1>2, <2>1, LedgerTypes DEF RunsOpen
  <2>3. BeginsOpen'
    <3>. SUFFICES ASSUME NEW k \in 1..Len(wire'), wire'[k].type \in Begins
                  PROVE  open'[wire'[k].id] = wire'[k].req
      BY DEF BeginsOpen
    <3>1. CASE k \in 1..Len(wire)
      <4>1. wire'[k] = wire[k] /\ open[wire[k].id] = wire[k].req /\ wire[k].id \in Ids /\ wire[k].req \in Requests
        BY <1>1, <1>2, <1>4, <2>1, <3>1, AppendShift, LedgerTypes DEF BeginsOpen
      <4>. QED
        BY <1>1, <1>2, <4>1, LedgerTypes
    <3>2. CASE k = Len(wire) + 1
      BY <1>1, <1>2, <1>3, <1>4, <3>2, AppendShift, LedgerTypes
    <3>. QED
      BY <1>1, <1>2, <1>4, <3>1, <3>2, AppendShift
  <2>4. EndsOpen' /\ EndsDiffer'
    BY <1>1, <1>2, <2>1, LedgerTypes DEF EndsOpen, EndsDiffer, EndAnswer
  <2>. QED
    BY <2>2, <2>3, <2>4
<1>11. OpenInv'
  BY <1>2, <1>10 DEF OpenInv
<1>12. Ledger!Open(n)
  <2>1. Stage(n) = "unopened" /\ Stage(n)' = "open"
    BY <1>2, <1>3, <1>5, <1>6 DEF Stage
  <2>2. \A m \in Requests : m # n => Stage(m)' = Stage(m)
    <3>1. ASSUME NEW m \in Requests, m # n PROVE m <= begun' <=> m <= begun
      <4>1. m \in Int /\ begun' = n /\ n = begun + 1 /\ begun \in Int
        BY <1>2, <1>3, <1>6, <3>1, BoundsAssumption
      <4>. QED
        BY <3>1, <4>1
    <3>. QED
      BY <1>2, <3>1 DEF Stage
  <2>. QED
    BY <2>1, <2>2, StageMoved DEF Ledger!Open
<1>. QED
  BY <1>7, <1>8, <1>9, <1>11, <1>12 DEF LedgerRest, Ledger!Next

\* What else it sends opens and answers nothing.
LEMMA LedgerPut ==
  ASSUME LedgerInv, NEW rec, rec.type \notin Begins \cup {"ABORT"}, rec \in Records,
         wire' = Append(wire, rec), UNCHANGED <<open, begun, hungUp, reply, credited, worker>>
  PROVE  LedgerRest' /\ UNCHANGED Ledger!vars
<1>1. /\ TypeInv /\ LedgerRest
      /\ UNCHANGED <<ends, status, in_request, active_id, active_req>>
  BY DEF LedgerInv, WholeInv, UnmixedInv, worker, buffers
<1>2. \A k \in 1..Len(wire') : (k \in 1..Len(wire) /\ wire'[k] = wire[k]) \/ wire'[k] = rec
  BY <1>1, AppendShift
<1>3. Unanswered'
  BY <1>1, <1>2 DEF LedgerRest, Unanswered, Due, Runs, Awaited
<1>4. AnsweredOnce' /\ NoAborts'
  BY <1>1, <1>2 DEF LedgerRest, AnsweredOnce, NoAborts
<1>5. OpenInv'
  BY <1>1, <1>2 DEF LedgerRest, OpenInv, RunsOpen, BeginsOpen, EndsOpen, EndsDiffer, EndAnswer
<1>6. UNCHANGED Ledger!vars
  BY <1>1, StageKept DEF Stage
<1>. QED
  BY <1>3, <1>4, <1>5, <1>6 DEF LedgerRest

LEMMA LedgerClientSends ==
  ASSUME LedgerInv,
         \/ \E i \in Ids, type \in Streams, kind \in {"named", "plain", "garbled"} : ClientChunk(i, type, kind)
         \/ \E i \in Ids, type \in Streams : ClientEndStream(i, type)
         \/ \E type \in {"GET_VALUES", "TORN"} : ClientManage(type)
  PROVE  LedgerRest' /\ UNCHANGED Ledger!vars
<1>1. TypeInv
  BY DEF LedgerInv, WholeInv, UnmixedInv
<1>2. ASSUME NEW i \in Ids, NEW type \in Streams, NEW kind \in {"named", "plain", "garbled"},
             ClientChunk(i, type, kind)
      PROVE  LedgerRest' /\ UNCHANGED Ledger!vars
  <2>. DEFINE rec == Record(type, i, open[i], Chunk(open[i], chunks[i] + 1, kind))
  <2>1. open[i] \in Requests /\ chunks[i] + 1 \in Nat
    BY <1>1, <1>2, TypeParts DEF ClientChunk, PhaseOK, ClientTypeOK
  <2>2. rec \in Records /\ rec.type \notin Begins \cup {"ABORT"}
    BY <2>1 DEF Record, Records, RequestRecords, Chunk, Chunks, Streams, Begins
  <2>3. wire' = Append(wire, rec) /\ UNCHANGED <<open, begun, hungUp, reply, credited, worker>>
    BY <1>2 DEF ClientChunk, Put
  <2>. HIDE DEF rec
  <2>. QED
    BY <2>2, <2>3, LedgerPut
<1>3. ASSUME NEW i \in Ids, NEW type \in Streams, ClientEndStream(i, type)
      PROVE  LedgerRest' /\ UNCHANGED Ledger!vars
  <2>. DEFINE rec == Record(type, i, open[i], NoChunk)
  <2>1. open[i] \in Requests
    BY <1>1, <1>3, TypeParts DEF ClientEndStream, PhaseOK, ClientTypeOK
  <2>2. rec \in Records /\ rec.type \notin Begins \cup {"ABORT"}
    BY <2>1 DEF Record, Records, RequestRecords, Streams, Begins
  <2>3. wire' = Append(wire, rec) /\ UNCHANGED <<open, begun, hungUp, reply, credited, worker>>
    BY <1>3 DEF ClientEndStream, Put
  <2>. HIDE DEF rec
  <2>. QED
    BY <2>2, <2>3, LedgerPut
<1>4. ASSUME NEW type \in {"GET_VALUES", "TORN"}, ClientManage(type)
      PROVE  LedgerRest' /\ UNCHANGED Ledger!vars
  <2>. DEFINE rec == Record(type, 0, 0, NoChunk)
  <2>1. rec \in Records /\ rec.type \notin Begins \cup {"ABORT"}
    BY DEF Record, Records, Begins
  <2>2. wire' = Append(wire, rec) /\ UNCHANGED <<open, begun, hungUp, reply, credited, worker>>
    BY <1>4 DEF ClientManage, client, Put
  <2>. HIDE DEF rec
  <2>. QED
    BY <2>1, <2>2, LedgerPut
<1>. QED
  BY <1>2, <1>3, <1>4

\* The connection ends, or nothing happens.
LEMMA LedgerClosing ==
  ASSUME LedgerInv, ClientHangUp \/ ClientSeesClose \/ ReadEof \/ UNCHANGED vars
  PROVE  LedgerRest' /\ UNCHANGED Ledger!vars
<1>1. /\ TypeInv /\ LedgerRest
      /\ UNCHANGED <<wire, begun, ends, credited, reply, in_request, active_id, active_req>>
      /\ status' = "eof" \/ UNCHANGED status
      /\ hungUp' = TRUE \/ UNCHANGED <<open, hungUp>>
  BY DEF LedgerInv, WholeInv, UnmixedInv, ClientHangUp, ClientSeesClose, ReadEof, vars, client,
         worker, buffers
<1>2. Unanswered' /\ AnsweredOnce' /\ NoAborts'
  BY <1>1 DEF LedgerRest, Unanswered, Due, Runs, Awaited, AnsweredOnce, NoAborts
<1>3. OpenInv'
  BY <1>1 DEF LedgerRest, OpenInv, RunsOpen, BeginsOpen, EndsOpen, EndsDiffer, EndAnswer
<1>4. UNCHANGED Ledger!vars
  BY <1>1, StageKept DEF Stage
<1>. QED
  BY <1>2, <1>3, <1>4 DEF LedgerRest

\* The client takes an END_REQUEST for the request it was written for, and no
\* other answer or request is under that id.
LEMMA LedgerReceive ==
  ASSUME LedgerInv, ClientReceive
  PROVE  LedgerRest' /\ [Ledger!Next]_(Ledger!vars)
<1>. DEFINE r == Head(reply)
<1>1. /\ TypeInv /\ LedgerRest /\ ~hungUp
      /\ UNCHANGED <<wire, begun, ends, hungUp, status, in_request, active_id, active_req>>
  BY DEF LedgerInv, WholeInv, UnmixedInv, ClientReceive, worker, buffers
<1>2. /\ 1 \in 1..Len(reply) /\ r = reply[1]
      /\ \A k \in 1..Len(reply') : k + 1 \in 1..Len(reply) /\ reply'[k] = reply[k + 1] /\ k + 1 # 1
  <2>1. reply \in Seq(Answers) /\ reply # <<>> /\ reply' = Tail(reply)
    BY <1>1, LedgerTypes DEF ClientReceive
  <2>. QED
    BY <2>1, HeadTailProperties, EmptySeq, LenProperties
<1>3. RunsOpen /\ BeginsOpen /\ EndsOpen /\ EndsDiffer
  BY <1>1 DEF LedgerRest, OpenInv
<1>4. Unanswered' /\ NoAborts'
  BY <1>1 DEF LedgerRest, Unanswered, Due, Runs, Awaited, NoAborts
<1>. HIDE DEF r
<1>5. CASE r.type # "END"
  <2>1. UNCHANGED <<credited, open>>
    BY <1>5 DEF ClientReceive, r
  <2>2. AnsweredOnce'
    BY <1>1, <2>1 DEF LedgerRest, AnsweredOnce
  <2>3. OpenInv'
    <3>1. RunsOpen' /\ BeginsOpen'
      BY <1>1, <1>3, <2>1 DEF RunsOpen, BeginsOpen
    <3>2. EndsOpen'
      BY <1>1, <1>2, <1>3, <2>1 DEF EndsOpen, EndAnswer
    <3>3. EndsDiffer'
      <4>. SUFFICES ASSUME NEW j \in 1..Len(reply'), NEW k \in 1..Len(reply'),
                           EndAnswer(j)', EndAnswer(k)', reply'[j].req = reply'[k].req
                    PROVE  j = k
        BY DEF EndsDiffer
      <4>1. j + 1 = k + 1
        BY <1>2, <1>3 DEF EndsDiffer, EndAnswer
      <4>. QED
        BY <1>1, <4>1, LedgerTypes
    <3>. QED
      BY <3>1, <3>2, <3>3 DEF OpenInv
  <2>4. UNCHANGED Ledger!vars
    BY <1>1, <2>1, StageKept DEF Stage
  <2>. QED
    BY <1>4, <2>2, <2>3, <2>4 DEF LedgerRest
<1>6. CASE r.type = "END"
  <2>1. PICK i \in Ids, n \in Requests :
          /\ i = r.id /\ n = r.req /\ open[i] = n /\ ends[n] = 1 /\ credited[n] = 0
    BY <1>2, <1>3, <1>6 DEF EndsOpen, EndAnswer
  <2>2. /\ credited' = [credited EXCEPT ![n] = n] /\ open' = [open EXCEPT ![i] = 0]
    BY <1>6, <2>1 DEF ClientReceive, r
  <2>3. /\ credited'[n] = n /\ \A m \in Requests : m # n => credited'[m] = credited[m]
        /\ \A j \in Ids : open[j] # n => open'[j] = open[j]
    BY <1>1, <2>1, <2>2, LedgerTypes
  <2>4. AnsweredOnce'
    BY <1>1, <2>1, <2>3 DEF LedgerRest, AnsweredOnce
  <2>5. \A m \in Requests : Due(m) => m # n
    BY <1>1, <2>1 DEF LedgerRest, Unanswered
  <2>6. RunsOpen'
    <3>. SUFFICES ASSUME status = "serving", in_request PROVE open'[active_id] = active_req
      BY <1>1 DEF RunsOpen
    <3>1. active_id \in Ids /\ active_req \in Requests /\ open[active_id] = active_req
      BY <1>1, <1>3, LedgerTypes DEF RunsOpen
    <3>2. active_req # n
      BY <2>5, <3>1 DEF Due, Runs
    <3>. QED
      BY <2>3, <3>1, <3>2
  <2>7. BeginsOpen'
    <3>. SUFFICES ASSUME NEW k \in 1..Len(wire), wire[k].type \in Begins
                  PROVE  open'[wire[k].id] = wire[k].req
      BY <1>1 DEF BeginsOpen
    <3>1. wire[k].id \in Ids /\ wire[k].req \in Requests /\ open[wire[k].id] = wire[k].req
      BY <1>1, <1>3, LedgerTypes DEF BeginsOpen
    <3>2. wire[k].req # n
      BY <2>5, <3>1 DEF Due, Awaited
    <3>. QED
      BY <2>3, <3>1, <3>2
  <2>8. \A k \in 1..Len(reply') : EndAnswer(k)' => EndAnswer(k + 1) /\ reply'[k].req # n
    BY <1>2, <1>3, <1>6, <2>1 DEF EndsDiffer, EndAnswer
  <2>9. EndsOpen'
    <3>. SUFFICES ASSUME NEW k \in 1..Len(reply'), EndAnswer(k)'
                  PROVE  /\ reply'[k].id \in Ids /\ reply'[k].req \in Requests
                         /\ open'[reply'[k].id] = reply'[k].req
                         /\ ends'[reply'[k].req] = 1 /\ credited'[reply'[k].req] = 0
      BY DEF EndsOpen
    <3>1. PICK a : a = reply'[k]
      OBVIOUS
    <3>2. /\ a.id \in Ids /\ a.req \in Requests /\ open[a.id] = a.req
          /\ ends[a.req] = 1 /\ credited[a.req] = 0 /\ a.req # n
      BY <1>2, <1>3, <2>8, <3>1 DEF EndsOpen
    <3>. QED
      BY <1>1, <2>3, <3>1, <3>2
  <2>10. EndsDiffer'
    <3>. SUFFICES ASSUME NEW j \in 1..Len(reply'), NEW k \in 1..Len(reply'),
                         EndAnswer(j)', EndAnswer(k)', reply'[j].req = reply'[k].req
                  PROVE  j = k
      BY DEF EndsDiffer
    <3>1. j + 1 = k + 1
      BY <1>2, <1>3, <2>8 DEF EndsDiffer
    <3>. QED
      BY <3>1
  <2>11. Ledger!Deliver(n)
    <3>1. Stage(n) = "answered" /\ Stage(n)' = "delivered"
      BY <1>1, <2>1, <2>3, BoundsAssumption DEF Stage
    <3>2. \A m \in Requests : m # n => Stage(m)' = Stage(m)
      BY <1>1, <2>3 DEF Stage
    <3>. QED
      BY <3>1, <3>2, StageMoved DEF Ledger!Deliver
  <2>. QED
    BY <1>4, <2>4, <2>6, <2>7, <2>9, <2>10, <2>11 DEF LedgerRest, OpenInv, Ledger!Next
<1>. QED
  BY <1>5, <1>6

LEMMA LedgerStep ==
  ASSUME ~MayAbort, LedgerInv, [Next]_vars
  PROVE  LedgerInv' /\ [Ledger!Next]_(Ledger!vars)
<1>1. WholeInv'
  BY WholeStep DEF LedgerInv
<1>2. ASSUME ClientStep PROVE LedgerRest' /\ [Ledger!Next]_(Ledger!vars)
  <2>1. \A i \in Ids : ~ClientAbort(i)
    BY DEF ClientAbort
  <2>. QED
    BY <1>2, <2>1, LedgerClientBegin, LedgerClientSends, LedgerClosing DEF ClientStep, Streams
<1>3. ASSUME WorkerStep PROVE LedgerRest' /\ [Ledger!Next]_(Ledger!vars)
  BY <1>3, LedgerReadBegin, LedgerReadParams, LedgerReadStdin, LedgerReadOther, LedgerClosing
     DEF WorkerStep
<1>. QED
  BY <1>1, <1>2, <1>3, LedgerReceive, LedgerClosing DEF Next, ClientReads, LedgerInv

\* Until a client aborts, every request is answered at most once and the answer
\* a client takes for it is its own, whatever it pipelines, interleaves or sends
\* in error, and wherever the connection ends.
THEOREM OneForOne == ~MayAbort => (Spec => OneResponse)
<1>. SUFFICES ASSUME ~MayAbort PROVE Spec => OneResponse
  OBVIOUS
<1>1. Init => LedgerInv /\ Ledger!Init
  <2>1. Init => LedgerInv
    BY UnmixedInit, WholeInit, LedgerInit DEF LedgerInv, WholeInv, Rest
  <2>2. Init => \A n \in Requests : Stage(n) = "unopened"
    BY BoundsAssumption DEF Init, Stage
  <2>. QED
    BY <2>1, <2>2 DEF Ledger!Init
<1>2. LedgerInv /\ [Next]_vars => LedgerInv' /\ [Ledger!Next]_(Ledger!vars)
  BY LedgerStep
<1>. QED
  BY <1>1, <1>2, PTL DEF Spec, OneResponse, Ledger!Spec
=============================================================================
