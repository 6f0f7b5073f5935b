---------------------------- MODULE FastcgiStream ----------------------------
(***************************************************************************)
(* One FastCGI connection of separan-gw: the loop run_fastcgi_stream of    *)
(* reference/c/src/separan_gw_fastcgi.c, the web server that talks to it,  *)
(* and the two byte streams between them.                                  *)
(*                                                                         *)
(* The web server is a legal FastCGI client: it numbers the requests it    *)
(* opens, sends the records of a request in protocol order, may abort a    *)
(* request it has not seen answered, may interleave the records of two     *)
(* requests, and may hang up.  Records travel in FIFO order, so an ABORT   *)
(* can cross the END_REQUEST of the request it names.                      *)
(*                                                                         *)
(* `req', the number of the client's request a record belongs to, is       *)
(* history: no guard of the worker reads it.                               *)
(*                                                                         *)
(* An operator named X_Mistake is X with one mistake in it; no action uses *)
(* it, it shows which property would notice.                               *)
(***************************************************************************)
EXTENDS Naturals, Sequences, FiniteSets

CONSTANTS
  Ids,            \* FastCGI request ids in use (record header bytes 2-3)
  NumRequests,    \* bound: requests the client opens on the connection
  WireCap,        \* bound: records in flight to the worker
  MaxChunks,      \* bound: chunks of a stream the client sends
  MaxStream,      \* FCGI_MAX_STREAM, in chunks
  MaxServed,      \* max_requests of the worker, 0 for no limit
  MaxOpen,        \* requests the client keeps open at the same time
  MayRecycle,     \* max_memory or a stop signal may retire the worker at any check
  MayAbort,       \* the client sends FCGI_ABORT_REQUEST
  MayMisbehave    \* the client sends other roles, garbled or torn records

ASSUME IdsAssumption == Ids \subseteq Nat \ {0} /\ Ids # {}
ASSUME BoundsAssumption ==
  /\ NumRequests \in Nat /\ WireCap \in Nat /\ MaxChunks \in Nat
  /\ MaxStream \in Nat /\ MaxServed \in Nat /\ MaxOpen \in Nat
ASSUME ChoicesAssumption == {MayRecycle, MayAbort, MayMisbehave} \subseteq BOOLEAN

Requests == 1..NumRequests

VARIABLES
  \* the client
  open,        \* id -> number of the request open under it, 0 for none
  phase,       \* id -> what the client may send next for that request
  chunks,      \* id -> chunks sent of the stream in progress
  begun,       \* requests opened so far
  hungUp,      \* the client has closed the connection
  \* the connection
  wire,        \* records sent to the worker and not read
  reply,       \* records sent to the client and not read
  \* the locals of run_fastcgi_stream and its WorkerLimits
  in_request, active_id, params_done, params_data, params, body, requests,
  status,      \* "serving", or how run_fastcgi_stream returned
  \* history
  active_req,  \* the request in_request stands for
  latest,      \* id -> the last request whose BEGIN_REQUEST was read
  sizes,       \* stream -> request -> chunks the client sent of it
  ran,         \* what the application was handed, in order
  ends,        \* request -> END_REQUEST records written for it
  credited     \* request -> request whose END_REQUEST the client took for it

client  == <<open, phase, chunks, begun, hungUp, sizes>>
buffers == <<in_request, active_id, params_done, params_data, params, body, active_req>>
worker  == <<buffers, requests, status, latest, ran, ends>>
vars    == <<client, wire, reply, worker, credited>>

Phases == {"closed", "params", "stdin", "sent", "aborted"}

\* A chunk of a stream: the request it was sent for, its place in the stream,
\* and what it contributes to the request.
Chunk(n, k, kind) == [req |-> n, place |-> k, kind |-> kind]
Chunks == [req : Requests, place : Nat, kind : {"named", "plain", "garbled"}]
NoChunk == Chunk(0, 0, "empty")

Record(t, i, n, c) == [type |-> t, id |-> i, req |-> n, chunk |-> c]
Streams == {"PARAMS", "STDIN"}
Begins == {"RESPONDER", "OTHER_ROLE"}
RequestRecords == [type : Begins \cup Streams \cup {"ABORT"}, id : Ids, req : Requests,
                   chunk : Chunks \cup {NoChunk}]
Records == RequestRecords
             \cup [type : {"GET_VALUES", "TORN"}, id : {0}, req : {0}, chunk : {NoChunk}]

Answer(t, i, n) == [type |-> t, id |-> i, req |-> n]
Answers == [type : {"OUT", "ERR", "END", "VALUES"}, id : Ids \cup {0}, req : 0..NumRequests]

OneMore(f, x) == [f EXCEPT ![x] = f[x] + 1]

----------------------------------------------------------------------------
(* The client.                                                             *)

Put(rec) == /\ ~hungUp
            /\ Len(wire) < WireCap
            /\ wire' = Append(wire, rec)

NumOpen == Cardinality({i \in Ids : open[i] # 0})

\* The client opens its next request under an id it has free.
ClientBegin(i, role) ==
  /\ begun < NumRequests /\ NumOpen < MaxOpen /\ open[i] = 0
  /\ role = "RESPONDER" \/ MayMisbehave
  /\ Put(Record(role, i, begun + 1, NoChunk))
  /\ begun' = begun + 1
  /\ open' = [open EXCEPT ![i] = begun + 1]
  /\ phase' = [phase EXCEPT ![i] = "params"]
  /\ chunks' = [chunks EXCEPT ![i] = 0]
  /\ UNCHANGED <<hungUp, sizes, reply, worker, credited>>

\* A piece of the PARAMS stream, then of the STDIN stream, of a request.
ClientChunk(i, type, kind) ==
  /\ <<phase[i], type>> \in {<<"params", "PARAMS">>, <<"stdin", "STDIN">>}
  /\ chunks[i] < MaxChunks
  /\ kind = "garbled" => MayMisbehave
  /\ Put(Record(type, i, open[i], Chunk(open[i], chunks[i] + 1, kind)))
  /\ chunks' = [chunks EXCEPT ![i] = @ + 1]
  /\ sizes' = [sizes EXCEPT ![type] = OneMore(sizes[type], open[i])]
  /\ UNCHANGED <<open, phase, begun, hungUp, reply, worker, credited>>

\* The empty record that ends a stream.
ClientEndStream(i, type) ==
  /\ <<phase[i], type>> \in {<<"params", "PARAMS">>, <<"stdin", "STDIN">>}
  /\ Put(Record(type, i, open[i], NoChunk))
  /\ phase' = [phase EXCEPT ![i] = IF type = "PARAMS" THEN "stdin" ELSE "sent"]
  /\ chunks' = [chunks EXCEPT ![i] = 0]
  /\ UNCHANGED <<open, begun, hungUp, sizes, reply, worker, credited>>

\* The client gives a request up and waits for its END_REQUEST.
ClientAbort(i) ==
  /\ MayAbort /\ phase[i] \in {"params", "stdin", "sent"}
  /\ Put(Record("ABORT", i, open[i], NoChunk))
  /\ phase' = [phase EXCEPT ![i] = "aborted"]
  /\ UNCHANGED <<open, chunks, begun, hungUp, sizes, reply, worker, credited>>

\* A management record, or one cut short, of another protocol
\* version, or a BEGIN_REQUEST without a role: the worker fails on each.
ClientManage(type) ==
  /\ MayMisbehave /\ wire = <<>> /\ reply = <<>>     \* bound: one at a time
  /\ Put(Record(type, 0, 0, NoChunk))
  /\ UNCHANGED <<client, reply, worker, credited>>

ClientHangUp ==
  /\ ~hungUp
  /\ hungUp' = TRUE
  /\ open' = [i \in Ids |-> 0] /\ phase' = [i \in Ids |-> "closed"]
  /\ UNCHANGED <<chunks, begun, sizes, wire, reply, worker, credited>>

\* The client reads a record; END_REQUEST closes the request open under its id.
ClientReceive ==
  /\ ~hungUp /\ reply # <<>>
  /\ reply' = Tail(reply)
  /\ LET r == Head(reply)
     IN  IF r.type = "END" /\ r.id \in Ids /\ open[r.id] # 0
         THEN /\ credited' = [credited EXCEPT ![open[r.id]] = r.req]
              /\ open' = [open EXCEPT ![r.id] = 0]
              /\ phase' = [phase EXCEPT ![r.id] = "closed"]
         ELSE UNCHANGED <<credited, open, phase>>
  /\ UNCHANGED <<chunks, begun, hungUp, sizes, wire, worker>>

\* The client reads the end of the stream the worker closed, or a reset that
\* overtakes what it had not read: a socket closed with unread records resets.
ClientSeesClose ==
  /\ ~hungUp /\ status # "serving"
  /\ reply = <<>> \/ wire # <<>>
  /\ hungUp' = TRUE
  /\ open' = [i \in Ids |-> 0] /\ phase' = [i \in Ids |-> "closed"]
  /\ UNCHANGED <<chunks, begun, sizes, wire, reply, worker, credited>>

----------------------------------------------------------------------------
(* The worker: one disjunct per record type of the switch.                 *)

\* write_record and finish_request: what is written to a client that hung up
\* is lost, and the write may report the broken connection.
Write(answers) == reply' = IF hungUp THEN reply ELSE reply \o answers
WriteMayFail   == hungUp

ClearedRequest ==
  /\ in_request' = FALSE /\ active_id' = 0 /\ active_req' = 0
  /\ params_data' = <<>> /\ params' = <<>> /\ body' = <<>>

\* worker_should_recycle after a request.
AtLimit == MaxServed # 0 /\ requests + 1 >= MaxServed
Recycle == IF AtLimit THEN {"recycled"}
           ELSE IF MayRecycle THEN {"serving", "recycled"} ELSE {"serving"}
Counted == requests' = requests + 1 /\ status' \in Recycle

\* goto failed: the request is dropped with the stack frame.
Failed == /\ status' = "failed"
          /\ UNCHANGED <<buffers, requests>>

Taking(types) == /\ status = "serving" /\ wire # <<>>
                 /\ Head(wire).type \in types
                 /\ wire' = Tail(wire)
                 /\ UNCHANGED <<client, credited>>

\* case FCGI_BEGIN_REQUEST.
ReadBegin ==
  /\ Taking(Begins)
  /\ LET r == Head(wire)
     IN  /\ latest' = [latest EXCEPT ![r.id] = r.req]
         /\ UNCHANGED ran
         /\ \/ /\ in_request /\ Failed /\ UNCHANGED <<reply, ends>>
            \/ /\ ~in_request /\ r.type = "RESPONDER"
               /\ in_request' = TRUE /\ params_done' = FALSE
               /\ active_id' = r.id /\ active_req' = r.req
               /\ params_data' = <<>> /\ params' = <<>> /\ body' = <<>>
               /\ UNCHANGED <<requests, status, reply, ends>>
            \/ /\ ~in_request /\ r.type = "OTHER_ROLE"
               /\ active_id' = r.id /\ active_req' = r.req
               /\ Write(<<Answer("END", r.id, r.req)>>)
               /\ ends' = OneMore(ends, r.req)
               /\ UNCHANGED <<in_request, params_done, params_data, params, body,
                              requests, status>>
            \/ /\ ~in_request /\ r.type = "OTHER_ROLE" /\ WriteMayFail
               /\ Failed /\ UNCHANGED <<reply, ends>>

\* A record of the active request: the test that opens PARAMS and STDIN.
Belongs_AnyId(r) == in_request
Belongs_AnyTime(r) == r.id = active_id
Belongs(r) == in_request /\ r.id = active_id

\* buffer_append: a stream holds at most FCGI_MAX_STREAM.
Fits_OffByOne(stream) == Len(stream) <= MaxStream
Fits(stream) == Len(stream) + 1 <= MaxStream

\* case FCGI_PARAMS; parse_params runs at the empty record.
ReadParams ==
  /\ Taking({"PARAMS"})
  /\ LET r == Head(wire)
         garbled == \E k \in DOMAIN params_data : params_data[k].kind = "garbled"
     IN  \/ /\ Belongs(r) /\ r.chunk = NoChunk /\ ~garbled
            /\ params_done' = TRUE /\ params' = params \o params_data
            /\ UNCHANGED <<in_request, active_id, params_data, body, active_req, requests, status>>
         \/ /\ Belongs(r) /\ r.chunk # NoChunk /\ ~params_done /\ Fits(params_data)
            /\ params_data' = Append(params_data, r.chunk)
            /\ UNCHANGED <<in_request, active_id, params_done, params, body, active_req, requests, status>>
         \/ /\ \/ ~Belongs(r)
               \/ r.chunk = NoChunk /\ garbled
               \/ r.chunk # NoChunk /\ (params_done \/ ~Fits(params_data))
            /\ Failed
  /\ UNCHANGED <<latest, ran, ends, reply>>

\* request_json: the method and the path are present, and the request, its body
\* written in hexadecimal, fits a buffer of FCGI_MAX_STREAM.
RequestJson == /\ \E k \in DOMAIN params : params[k].kind = "named"
               /\ 2 * Len(body) <= MaxStream

\* What decode_request writes: the response, or a diagnostic on STDERR.
AnswerFor_NoEnd(outcome) ==
  IF outcome = "invalid" THEN <<Answer("ERR", active_id, active_req)>>
  ELSE <<Answer("OUT", active_id, active_req), Answer("END", active_id, active_req)>>
AnswerFor(outcome) ==
  <<Answer(IF outcome = "response" THEN "OUT" ELSE "ERR", active_id, active_req),
    Answer("END", active_id, active_req)>>

\* decode_request, from separan_runtime_dispatch_http_cgi to END_REQUEST: an
\* invalid request and an application error are both answered, but only the
\* error ends the connection.
Dispatch ==
  /\ IF RequestJson THEN ran' = Append(ran, [req |-> active_req, params |-> params, body |-> body])
                    ELSE UNCHANGED ran
  /\ \E outcome \in IF RequestJson THEN {"response", "error"} ELSE {"invalid"} :
       \/ /\ Write(AnswerFor(outcome))
          /\ ends' = OneMore(ends, active_req)
          /\ IF outcome = "error" THEN Failed
             ELSE /\ ClearedRequest /\ Counted /\ UNCHANGED params_done
       \/ WriteMayFail /\ Failed /\ UNCHANGED <<ends, reply>>

\* case FCGI_STDIN.
ReadStdin ==
  /\ Taking({"STDIN"})
  /\ LET r == Head(wire)
         belongs == Belongs(r) /\ params_done
     IN  \/ belongs /\ r.chunk = NoChunk /\ Dispatch
         \/ /\ belongs /\ r.chunk # NoChunk /\ Fits(body)
            /\ body' = Append(body, r.chunk)
            /\ UNCHANGED <<in_request, active_id, params_done, params_data, params,
                           active_req, requests, status, ran, ends, reply>>
         \/ /\ ~belongs \/ (r.chunk # NoChunk /\ ~Fits(body))
            /\ Failed /\ UNCHANGED <<ran, ends, reply>>
  /\ UNCHANGED latest

\* case FCGI_ABORT_REQUEST: answered and counted whatever id it names, and
\* whichever request is active is forgotten.
ReadAbort ==
  /\ Taking({"ABORT"})
  /\ LET r == Head(wire)
     IN  \/ /\ Write(<<Answer("END", r.id, r.req)>>)
            /\ ends' = OneMore(ends, r.req)
            /\ ClearedRequest /\ Counted /\ UNCHANGED params_done
         \/ WriteMayFail /\ Failed /\ UNCHANGED <<ends, reply>>
  /\ UNCHANGED <<latest, ran>>

\* case FCGI_GET_VALUES, and a header or content read_exact cannot complete.
ReadManagement ==
  /\ Taking({"GET_VALUES", "TORN"})
  /\ \/ /\ Head(wire).type = "GET_VALUES"
        /\ Write(<<Answer("VALUES", 0, 0)>>)
        /\ UNCHANGED <<buffers, requests, status>>
     \/ /\ Head(wire).type = "TORN" \/ WriteMayFail
        /\ Failed /\ UNCHANGED reply
  /\ UNCHANGED <<latest, ran, ends>>

\* A clean end of the stream at a record boundary, in or out of a request.
ReadEof ==
  /\ status = "serving" /\ hungUp /\ wire = <<>>
  /\ status' = "eof"
  /\ UNCHANGED <<client, wire, reply, buffers, requests, latest, ran, ends, credited>>

----------------------------------------------------------------------------
Init ==
  /\ open = [i \in Ids |-> 0] /\ phase = [i \in Ids |-> "closed"]
  /\ chunks = [i \in Ids |-> 0] /\ begun = 0 /\ hungUp = FALSE
  /\ wire = <<>> /\ reply = <<>>
  /\ in_request = FALSE /\ active_id = 0 /\ params_done = FALSE
  /\ params_data = <<>> /\ params = <<>> /\ body = <<>>
  /\ requests = 0 /\ status = "serving"
  /\ active_req = 0 /\ latest = [i \in Ids |-> 0]
  /\ sizes = [type \in Streams |-> [n \in Requests |-> 0]] /\ ran = <<>>
  /\ ends = [n \in Requests |-> 0] /\ credited = [n \in Requests |-> 0]

ClientStep ==
  \/ \E i \in Ids :
       \/ \E role \in Begins : ClientBegin(i, role)
       \/ \E kind \in {"named", "plain", "garbled"} : ClientChunk(i, "PARAMS", kind)
       \/ ClientChunk(i, "STDIN", "plain")
       \/ \E type \in Streams : ClientEndStream(i, type)
       \/ ClientAbort(i)
  \/ \E type \in {"GET_VALUES", "TORN"} : ClientManage(type)
  \/ ClientHangUp

WorkerStep == \/ ReadBegin \/ ReadParams \/ ReadStdin
              \/ ReadAbort \/ ReadManagement \/ ReadEof

ClientReads == ClientReceive \/ ClientSeesClose

Next == ClientStep \/ WorkerStep \/ ClientReads

Spec == Init /\ [][Next]_vars

\* The worker process is scheduled and its application returns; the client
\* reads what arrives.  Nothing obliges the client to send anything.
Fairness == WF_vars(WorkerStep) /\ WF_vars(ClientReads)
FairSpec == Spec /\ Fairness

----------------------------------------------------------------------------
FlagsTypeOK == hungUp \in BOOLEAN /\ in_request \in BOOLEAN /\ params_done \in BOOLEAN
ClientTypeOK ==
  /\ open \in [Ids -> 0..NumRequests] /\ phase \in [Ids -> Phases]
  /\ chunks \in [Ids -> Nat] /\ begun \in 0..NumRequests
  /\ sizes \in [Streams -> [Requests -> Nat]]
  /\ credited \in [Requests -> 0..NumRequests]
WireTypeOK == wire \in Seq(Records) /\ reply \in Seq(Answers)
BuffersTypeOK ==
  /\ active_id \in Ids \cup {0} /\ active_req \in 0..NumRequests
  /\ params_data \in Seq(Chunks) /\ params \in Seq(Chunks) /\ body \in Seq(Chunks)
  /\ Len(params_data) <= MaxStream /\ Len(body) <= MaxStream
WorkerTypeOK ==
  /\ requests \in Nat /\ status \in {"serving", "eof", "failed", "recycled"}
  /\ MaxServed # 0 /\ status = "serving" => requests < MaxServed
  /\ latest \in [Ids -> 0..NumRequests]
  /\ ran \in Seq([req : 0..NumRequests, params : Seq(Chunks), body : Seq(Chunks)])
  /\ ends \in [Requests -> Nat]

\* Every variable has its type, the buffers of the worker stay within
\* FCGI_MAX_STREAM and a worker that serves is below max_requests.
TypeOK == FlagsTypeOK /\ ClientTypeOK /\ WireTypeOK /\ BuffersTypeOK /\ WorkerTypeOK

\* The application is handed nothing of another request: whatever was aborted,
\* refused or interleaved, every chunk it gets was sent for the request it runs
\* (the resets in BEGIN, STDIN and ABORT and the id checks of PARAMS and STDIN).
Unmixed(stream, n) == \A k \in DOMAIN stream : stream[k].req = n
DispatchUnmixed ==
  \A j \in DOMAIN ran : Unmixed(ran[j].params, ran[j].req) /\ Unmixed(ran[j].body, ran[j].req)

\* And it is handed all of it: each stream whole, in the order it was sent,
\* though the worker may have been refusing records in between.
Whole(stream, size) == /\ Len(stream) = size
                       /\ \A k \in 1..size : stream[k].place = k
DispatchWhole ==
  \A j \in DOMAIN ran : /\ Whole(ran[j].params, sizes["PARAMS"][ran[j].req])
                        /\ Whole(ran[j].body, sizes["STDIN"][ran[j].req])

\* The END_REQUEST a client takes for a request is the one written for it.
CreditedOwn == \A n \in Requests : credited[n] \in {0, n}

\* A request the client has sent in full, or given up, does not stay open for
\* ever: it is answered or the connection closes.
RequestSettled ==
  \A i \in Ids, n \in Requests :
    (open[i] = n /\ phase[i] \in {"sent", "aborted"}) ~> open[i] # n

\* How far a request has come, for RequestLedger.
Stage(n) == IF credited[n] = n THEN "delivered"
            ELSE IF credited[n] # 0 THEN "misdelivered"
            ELSE IF ends[n] > 1 THEN "answered twice"
            ELSE IF ends[n] = 1 THEN "answered"
            ELSE IF n <= begun THEN "open" ELSE "unopened"

\* The connection keeps the promise of RequestLedger.
Ledger == INSTANCE RequestLedger WITH stage <- [n \in Requests |-> Stage(n)]
OneResponse == Ledger!Spec
=============================================================================
