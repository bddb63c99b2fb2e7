----------------------------- MODULE HttpSession -----------------------------
(***************************************************************************)
(* One connection of chmicro::http::HttpServer                             *)
(* (HttpSession, src/src/http/http_server.cpp:56-150) and its client,      *)
(* with the router that answers (Router) and the trace context of each     *)
(* request (TraceContext).                                                 *)
(*                                                                         *)
(* The session alternates one asynchronous read and one asynchronous       *)
(* write; its handlers run one at a time, and OnRead calls the router      *)
(* between the two.  The client may pipeline requests, ask for the         *)
(* connection to be closed, shut down its sending side between two         *)
(* requests or in the middle of one, or vanish.  Bytes that a read brings  *)
(* beyond one request stay in buffer_ for the next one.                    *)
(***************************************************************************)
EXTENDS Sequences, Router, TraceContext

CONSTANTS MaxRequests   \* bound: requests the client sends

ASSUME SessionAssumption == MaxRequests \in Nat

VARIABLES
    sent,         \* the requests sent, in order: keep_alive and traceparent
    wire,         \* requests in the socket, not read yet (positions in sent)
    sending,      \* client: "open", "shut" (end of stream), "cut" (within a
                  \* request) or "reset"
    buffer_,      \* requests read from the socket and not parsed yet
    op,           \* what the session is at: "read", "handle", "write", "none"
    req_,         \* the request that is being answered, 0: none
    trace,        \* req.trace of that request
    random,       \* how many random ids have been drawn by anybody
    answers       \* responses the client received, in order

client == <<sent, sending>>
vars == <<client, wire, buffer_, op, req_, trace, random, handling, answers>>

Init ==
    /\ sent = <<>>
    /\ wire = <<>>
    /\ sending = "open"
    /\ buffer_ = <<>>
    /\ op = "read"
    /\ req_ = 0
    /\ trace = Empty
    /\ random = 0
    /\ handling = NoCall
    /\ answers = <<>>

-----------------------------------------------------------------------------
(* The client *)

\* What a client may send: no trace header, a new child of the last context that it was
\* told, or that with a span of zeros.
Traceparents ==
    LET parent == IF answers = <<>> THEN Empty
                  ELSE ParseTraceParent(answers[Len(answers)].traceparent)
        child == NewChild(parent, random + 1)
    IN  {NoHeader, ToTraceParent(child),
         [wellFormed |-> TRUE, ctx |-> [child EXCEPT !.span_id = 0]]}

Send ==
    /\ sending = "open" /\ Len(sent) < MaxRequests
    /\ \E keep_alive \in BOOLEAN, traceparent \in Traceparents :
         sent' = Append(sent, [keep_alive |-> keep_alive, traceparent |-> traceparent])
    /\ wire' = Append(wire, Len(sent) + 1)
    /\ random' = random + 1
    /\ UNCHANGED <<sending, buffer_, op, req_, trace, handling, answers>>

\* A client that resets the connection discards what is under way.
EndSending ==
    /\ \/ sending = "open" /\ sending' \in {"shut", "cut"} /\ UNCHANGED wire
       \/ sending # "reset" /\ sending' = "reset" /\ wire' = <<>>
    /\ UNCHANGED <<sent, buffer_, op, req_, trace, random, handling, answers>>

-----------------------------------------------------------------------------
(* The session *)

\* req_ = {} and async_read: buffer_ keeps what was read beyond the last request.
Read == op' = "read" /\ req_' = 0

\* The read operation fetches bytes when buffer_ holds no complete request.
Fetch ==
    /\ op = "read" /\ buffer_ = <<>> /\ wire # <<>>
    /\ \E n \in 1 .. Len(wire) :
         /\ buffer_' = SubSeq(wire, 1, n)
         /\ wire' = SubSeq(wire, n + 1, Len(wire))
    /\ UNCHANGED <<client, op, req_, trace, random, handling, answers>>

\* The context of the header, or a new root.
SetTrace_Kept(h) ==
    trace' = IF valid(ParseTraceParent(h)) THEN ParseTraceParent(h)
             ELSE IF valid(trace) THEN trace ELSE NewRoot(random + 1)
SetTrace(h) ==
    trace' = IF valid(ParseTraceParent(h)) THEN ParseTraceParent(h) ELSE NewRoot(random + 1)

OnRead_ClearsBuffer ==
    /\ op = "read" /\ buffer_ # <<>>
    /\ req_' = Head(buffer_)
    /\ buffer_' = <<>>
    /\ SetTrace(sent[Head(buffer_)].traceparent) /\ random' = random + 1
    /\ \E found \in BOOLEAN : Handle(found)
    /\ op' = "handle"
    /\ UNCHANGED <<client, wire, answers>>
\* OnRead with a request, up to the call of Handle().
OnRead ==
    /\ op = "read" /\ buffer_ # <<>>
    /\ req_' = Head(buffer_)
    /\ buffer_' = Tail(buffer_)
    /\ SetTrace(sent[Head(buffer_)].traceparent) /\ random' = random + 1
    /\ \E found \in BOOLEAN : Handle(found)
    /\ op' = "handle"
    /\ UNCHANGED <<client, wire, answers>>

RunMiddleware ==
    /\ op = "handle"
    /\ CallNext \/ MiddlewareReturns
    /\ UNCHANGED <<client, wire, buffer_, op, req_, trace, random, answers>>

\* OnRead after the call: the response is built and its write started.
Respond ==
    /\ op = "handle" /\ ~InMiddleware
    /\ op' = "write"
    /\ handling' = NoCall
    /\ UNCHANGED <<client, wire, buffer_, req_, trace, random, answers>>

OnReadEnd_Retries ==
    /\ op = "read" /\ buffer_ = <<>> /\ wire = <<>>
    /\ sending # "open"
    /\ op' = IF sending = "shut" THEN "none" ELSE "read"
    /\ UNCHANGED <<client, wire, buffer_, req_, trace, random, handling, answers>>
\* OnRead with an error: end_of_stream is followed by DoClose(), any other error
\* by return; either way the last reference to the session goes.
OnReadEnd ==
    /\ op = "read" /\ buffer_ = <<>> /\ wire = <<>>
    /\ sending # "open"
    /\ op' = "none"
    /\ UNCHANGED <<client, wire, buffer_, req_, trace, random, handling, answers>>

\* The client takes the response, unless it has reset the connection.
Deliver ==
    answers' = IF sending = "reset" THEN answers
               ELSE Append(answers, [req |-> req_, traceparent |-> ToTraceParent(trace)])

OnWrite_IgnoresClose ==
    /\ op = "write" /\ Deliver
    /\ IF sending = "reset" THEN op' = "none" /\ UNCHANGED req_ ELSE Read
    /\ UNCHANGED <<client, wire, buffer_, trace, random, handling>>
OnWrite_AlwaysCloses ==
    /\ op = "write" /\ Deliver
    /\ op' = "none"
    /\ UNCHANGED <<client, wire, buffer_, req_, trace, random, handling>>
\* OnWrite: after an error nothing more; need_eof() closes; else the next read.  A
\* write to a client that has reset fails, or succeeds and reaches nobody.
OnWrite ==
    /\ op = "write" /\ Deliver
    /\ \/ sent[req_].keep_alive /\ Read
       \/ /\ sending = "reset" \/ ~sent[req_].keep_alive
          /\ op' = "none" /\ UNCHANGED req_
    /\ UNCHANGED <<client, wire, buffer_, trace, random, handling>>

-----------------------------------------------------------------------------
Session == Fetch \/ OnRead \/ RunMiddleware \/ Respond \/ OnReadEnd \/ OnWrite

Next == Send \/ EndSending \/ Session

Spec == Init /\ [][Next]_vars

\* The context's thread runs what is ready and the client takes what it is sent;
\* it need not send anything or ever close (the session has no timeout).  A middleware
\* and a handler return.
FairSpec == Spec /\ WF_vars(Session)

-----------------------------------------------------------------------------
(* Properties *)

\* Responses come one per request and in the order of the requests, however the
\* client pipelines them and however the bytes arrive, and no request is lost on the
\* way: those answered, the current one, buffer_ and the socket follow each other.
AnswersInOrder ==
    LET answered == [i \in DOMAIN answers |-> answers[i].req]
        current == IF op \in {"handle", "write"} THEN <<req_>> ELSE <<>>
        place == answered \o current \o buffer_ \o wire
    IN  /\ answered = [i \in DOMAIN answers |-> i]
        /\ sending # "reset" => place = [i \in DOMAIN sent |-> i]

\* Nothing is answered after a request that closes the connection.
NoAnswerAfterClose == \A i \in 1 .. Len(answers) - 1 : sent[answers[i].req].keep_alive

\* A response carries the trace context of its own request, or a valid new one when
\* the request had none that can be parsed, never that of another request.
TraceEchoed ==
    \A i \in DOMAIN answers :
        LET theirs == sent[answers[i].req].traceparent
            ours == ParseTraceParent(answers[i].traceparent)
        IN  /\ valid(ours)
            /\ IF valid(ParseTraceParent(theirs)) THEN ours = theirs.ctx
               ELSE \A j \in 1 .. i - 1 : ours.trace_id # answers[j].traceparent.ctx.trace_id

\* Every request that reached the server before the client shut down its sending
\* side, or cut a later request short, is answered, if no request before it closed
\* the connection and the client stays to take the answers.
PipelineIsServed ==
    \A i \in 1 .. MaxRequests :
        (i <= Len(sent) /\ \A j \in 1 .. i - 1 : sent[j].keep_alive)
            ~> (i <= Len(answers) \/ sending = "reset")

\* A connection whose client has stopped sending does not stay open.
SessionEnds == sending # "open" ~> op = "none"
=============================================================================
