-------------------------- MODULE HttpServerProofs --------------------------
(***************************************************************************)
(* Proofs about http_server.cpp.                                           *)
(*                                                                         *)
(* HttpServer: for any number of threads that call Start() and Stop(), and *)
(* any number of calls and accepts, as long as no Stop() begins while a    *)
(* Start() is under way.                                                   *)
(*                                                                         *)
(* HttpSession and Router: for any number of requests and of middlewares.  *)
(***************************************************************************)
EXTENDS HttpServer, HttpSession, SequenceTheorems, TLAPS

-----------------------------------------------------------------------------
(* The server *)

Results == {"ok", "error"}
Labels == {"idle"} \cup Starting \cup Stopping

LEMMA ServerInitInv == ServerInit => IInv
  <1> SUFFICES ASSUME ServerInit PROVE IInv
    OBVIOUS
  <1>1. queue \in Seq(Results) /\ Len(queue) = 0
    BY EmptySeq DEF ServerInit, Results
  <1>2. Loops = 0
    BY <1>1 DEF ServerInit, Loops
  <1>3. \A t \in Callers : pc[t] = "idle"
    BY DEF ServerInit
  <1>4. TypeOK
    <2>1. Loops <= starts /\ pending \in Nat /\ sessions \in Nat
          /\ starts \in Nat /\ accepts \in Nat
      BY <1>2 DEF ServerInit
    <2>2. QED
      BY <1>1, <2>1 DEF ServerInit, TypeOK, Results
  <1>5. QED
    BY <1>3, <1>4 DEF ServerInit, IInv, OneStarter, StartsRunning, BeingClosed,
       LoopCarried, LoopsCounted, Starting, Stopping

-----------------------------------------------------------------------------
(* How the operations of the acceptor change the number of accept loops. *)

LEMMA LoopsNat == ASSUME TypeOK PROVE Len(queue) \in Nat /\ Loops \in Nat
  BY LenProperties DEF TypeOK, Loops

\* An aborted accept is still a loop: its handler is queued.
LEMMA Aborted ==
    ASSUME TypeOK, AbortPending, UNCHANGED handler
    PROVE  pending' = 0 /\ queue' \in Seq(Results) /\ Loops' = Loops
  <1> DEFINE errors == [i \in 1 .. pending |-> "error"]
  <1>1. errors \in Seq(Results) /\ Len(errors) = pending
    BY DEF TypeOK, Results
  <1>2. queue' \in Seq(Results) /\ Len(queue') = Len(queue) + pending
    BY <1>1, ConcatProperties DEF AbortPending, TypeOK, Results
  <1>3. QED
    BY <1>2, LoopsNat DEF AbortPending, Loops, TypeOK

\* An accept that is started is one more loop, even on an acceptor that is closed.
LEMMA AcceptStarted ==
    ASSUME TypeOK, DoAccept
    PROVE  /\ pending' \in Nat /\ queue' \in Seq(Results)
           /\ pending' + Len(queue') = pending + Len(queue) + 1
           /\ acceptor # "listening" => pending' = pending
  <1>1. CASE acceptor = "listening"
    BY <1>1, LoopsNat DEF DoAccept, TypeOK, Results
  <1>2. CASE acceptor # "listening"
    BY <1>2, LoopsNat, AppendProperties DEF DoAccept, TypeOK, Results
  <1>3. QED
    BY <1>1, <1>2

-----------------------------------------------------------------------------
(* One lemma for each group of actions. *)

\* Start()
LEMMA StartInv ==
    ASSUME IInv, NEW t \in Callers, Start(t) \/ Listen(t) \/ FirstAccept(t)
    PROVE  IInv'
  <1> USE DEF IInv, TypeOK, OneStarter, StartsRunning, BeingClosed, LoopCarried,
              LoopsCounted, Starting, Stopping, Goto
  <1>0. Len(queue) \in Nat /\ Loops \in Nat
    BY LoopsNat
  <1>1. CASE Start(t)
    <2>1. Loops' = Loops
      BY <1>1 DEF Start, Loops
    <2>2. starts' = starts + 1
      BY <1>1 DEF Start
    <2>3. \A u \in Callers : pc[u] \notin Starting /\ pc[t] = "idle"
      BY <1>1 DEF Start
    <2>4. QED
      BY <1>0, <1>1, <2>1, <2>2, <2>3 DEF Start
  <1>2. CASE Listen(t)
    <2>1. Loops' = Loops
      BY <1>2 DEF Listen, Loops
    <2>2. running_ /\ Loops < starts
      BY <1>2 DEF Listen
    <2>3. QED
      BY <1>0, <1>2, <2>1, <2>2 DEF Listen
  <1>3. CASE FirstAccept(t)
    <2>1. /\ pending' \in Nat /\ queue' \in Seq({"ok", "error"})
          /\ pending' + Len(queue') = pending + Len(queue) + 1
      BY <1>3, AcceptStarted DEF FirstAccept, Results
    <2>2. Loops' = Loops + 1
      BY <1>0, <1>3, <2>1 DEF FirstAccept, Loops
    <2>3. running_ /\ Loops < starts
      BY <1>3 DEF FirstAccept
    <2>4. \A u \in Callers : pc'[u] \notin Starting
      BY <1>3 DEF FirstAccept
    <2>5. QED
      BY <1>0, <1>3, <2>1, <2>2, <2>3, <2>4 DEF FirstAccept
  <1>4. QED
    BY <1>1, <1>2, <1>3

\* Stop()
LEMMA StopInv ==
    ASSUME IInv, ~StopDuringStart,
           NEW t \in Callers, Stop(t) \/ Cancel(t) \/ Close(t)
    PROVE  IInv'
  <1> USE DEF IInv, TypeOK, OneStarter, StartsRunning, BeingClosed, LoopCarried,
              LoopsCounted, Starting, Stopping, Goto
  <1>0. Len(queue) \in Nat /\ Loops \in Nat
    BY LoopsNat
  <1>1. CASE Stop(t)
    <2>1. Loops' = Loops
      BY <1>1 DEF Stop, Loops
    <2>2. \A u \in Callers : pc'[u] \notin Starting
      BY <1>1 DEF Stop
    <2>3. QED
      BY <1>0, <1>1, <2>1, <2>2 DEF Stop
  <1>2. CASE Cancel(t)
    <2>1. pending' = 0 /\ queue' \in Seq({"ok", "error"}) /\ Loops' = Loops
      BY <1>2, Aborted DEF Cancel, Results
    <2>2. QED
      BY <1>0, <1>2, <2>1 DEF Cancel
  <1>3. CASE Close(t)
    <2>1. pending' = 0 /\ queue' \in Seq({"ok", "error"}) /\ Loops' = Loops
      BY <1>3, Aborted DEF Close, Results
    <2>2. QED
      BY <1>0, <1>3, <2>1 DEF Close
  <1>4. QED
    BY <1>1, <1>2, <1>3

\* The accept loop
LEMMA LoopInv == ASSUME IInv, Accepted \/ OnAccept \/ NextAccept PROVE IInv'
  <1> USE DEF IInv, TypeOK, OneStarter, StartsRunning, BeingClosed, LoopCarried,
              LoopsCounted, Starting, Stopping
  <1>0. Len(queue) \in Nat /\ Loops \in Nat
    BY LoopsNat
  <1>1. CASE Accepted
    <2>1. queue' \in Seq({"ok", "error"}) /\ Len(queue') = Len(queue) + 1
      BY <1>1, AppendProperties DEF Accepted
    <2>2. Loops' = Loops
      BY <1>0, <1>1, <2>1 DEF Accepted, Loops
    <2>3. QED
      BY <1>1, <2>1, <2>2 DEF Accepted
  <1>2. CASE OnAccept
    <2>1. queue' \in Seq({"ok", "error"}) /\ Len(queue') = Len(queue) - 1
      BY <1>2, HeadTailProperties DEF OnAccept
    <2>2. CASE handler' = "accept"
      <3>1. Loops' = Loops
        BY <1>0, <1>2, <2>1, <2>2 DEF OnAccept, Loops
      <3>2. QED
        BY <1>2, <2>1, <3>1 DEF OnAccept
    <2>3. CASE handler' # "accept"
      <3>1. ~running_ /\ handler' = "idle" /\ UNCHANGED sessions
        BY <1>2, <2>3 DEF OnAccept
      <3>2. Loops' = Loops - 1 /\ Loops' \in Nat
        BY <1>0, <1>2, <2>1, <3>1 DEF OnAccept, Loops
      <3>3. QED
        BY <1>0, <1>2, <2>1, <3>1, <3>2 DEF OnAccept
    <2>4. QED
      BY <2>2, <2>3
  <1>3. CASE NextAccept
    <2>1. /\ pending' \in Nat /\ queue' \in Seq({"ok", "error"})
          /\ pending' + Len(queue') = pending + Len(queue) + 1
          /\ acceptor # "listening" => pending' = pending
      BY <1>3, AcceptStarted DEF NextAccept, Results
    <2>2. Loops' = Loops
      BY <1>0, <1>3, <2>1 DEF NextAccept, Loops
    <2>3. QED
      BY <1>3, <2>1, <2>2 DEF NextAccept
  <1>4. QED
    BY <1>1, <1>2, <1>3

LEMMA ServerNextInv == ASSUME ~StopDuringStart PROVE IInv /\ [ServerNext]_server_vars => IInv'
  <1> SUFFICES ASSUME IInv, [ServerNext]_server_vars PROVE IInv'
    OBVIOUS
  <1>1. CASE UNCHANGED server_vars
    BY <1>1 DEF server_vars, IInv, TypeOK, OneStarter, StartsRunning, BeingClosed,
                LoopCarried, LoopsCounted, Loops
  <1>2. QED
    BY <1>1, StartInv, StopInv, LoopInv DEF ServerNext, CallerStep

LEMMA ServerInductive == ASSUME ~StopDuringStart PROVE ServerSpec => []IInv
  BY ServerInitInv, ServerNextInv, PTL DEF ServerSpec

-----------------------------------------------------------------------------

\* There are never more accept loops than calls of Start().
THEOREM TypeCorrect == ASSUME ~StopDuringStart PROVE ServerSpec => []TypeOK
  <1>1. IInv => TypeOK
    BY DEF IInv
  <1>2. QED
    BY <1>1, ServerInductive, PTL

\* No accept error and no order of Start(), Stop() and the handlers leaves a
\* running, listening server without an accept loop.
THEOREM KeepsAccepting == ASSUME ~StopDuringStart PROVE ServerSpec => []AcceptLoopAlive
  <1>1. IInv => AcceptLoopAlive
    BY DEF IInv, LoopCarried, AcceptLoopAlive, AllIdle, Stopping
  <1>2. QED
    BY <1>1, ServerInductive, PTL

\* When every call has returned, a server that does not run has no open port and
\* no accept waiting.
THEOREM StopCloses == ASSUME ~StopDuringStart PROVE ServerSpec => []StoppedIsClosed
  <1>1. IInv => StoppedIsClosed
    BY DEF IInv, TypeOK, BeingClosed, StoppedIsClosed, AllIdle, Stopping
  <1>2. QED
    BY <1>1, ServerInductive, PTL

-----------------------------------------------------------------------------
(* The session *)

AnyFlags == Flags \cup {""}
Contexts == [trace_id : Int, span_id : Int, flags : AnyFlags]
Headers == [wellFormed : BOOLEAN, ctx : Contexts]
Requests == [keep_alive : BOOLEAN, traceparent : Headers]
Responses == [req : Nat, traceparent : Headers]

\* A request is being answered.
Answering == op \in {"handle", "write"}

TypeInv ==
    /\ sent \in Seq(Requests) /\ answers \in Seq(Responses)
    /\ wire \in Seq(Nat) /\ buffer_ \in Seq(Nat)
    /\ sending \in {"open", "shut", "cut", "reset"}
    /\ op \in {"read", "handle", "write", "none"}
    /\ req_ \in Nat /\ random \in Nat /\ trace \in Contexts

-----------------------------------------------------------------------------
(* The order of the requests *)

\* The requests that have left buffer_, while nobody resets the connection.
Begun == Len(answers) + IF Answering THEN 1 ELSE 0

\* Whatever the session holds is a request that was sent,
HoldsRequests ==
    /\ \A i \in 1 .. Len(wire) : wire[i] \in 1 .. Len(sent)
    /\ \A i \in 1 .. Len(buffer_) : buffer_[i] \in 1 .. Len(sent)
    /\ Answering => req_ \in 1 .. Len(sent)
    /\ Len(answers) <= Len(sent)
    /\ \A i \in 1 .. Len(answers) : answers[i].req = i

\* and before a reset it holds them in their order, without a gap.
NoGap ==
    sending # "reset" =>
        /\ Answering => req_ = Begun
        /\ \A i \in 1 .. Len(buffer_) : buffer_[i] = Begun + i
        /\ \A i \in 1 .. Len(wire) : wire[i] = Begun + Len(buffer_) + i
        /\ Len(sent) = Begun + Len(buffer_) + Len(wire)

\* As long as the session goes on and its client listens, no answer has closed it.
OpenKeepsAlive ==
    op # "none" /\ sending # "reset" =>
        \A i \in 1 .. Len(answers) : sent[answers[i].req].keep_alive

OrderInv == TypeInv /\ HoldsRequests /\ NoGap /\ OpenKeepsAlive /\ NoAnswerAfterClose

-----------------------------------------------------------------------------
LEMMA Record ==
    ASSUME NEW t \in Int, NEW p \in Int, NEW f \in AnyFlags
    PROVE  [trace_id |-> t, span_id |-> p, flags |-> f] \in Contexts
  BY DEF Contexts

LEMMA Edited ==
    ASSUME NEW A, NEW c \in [trace_id : Int, span_id : Int, flags : A],
           NEW p \in Int, NEW f \in A
    PROVE  [c EXCEPT !.span_id = p, !.flags = f] \in [trace_id : Int, span_id : Int, flags : A]
  OBVIOUS

LEMMA ContextTypes ==
    /\ Empty \in Contexts /\ NoHeader \in Headers
    /\ \A r \in Nat : NewRoot(r) \in Contexts
    /\ \A h \in Headers : ParseTraceParent(h) \in Contexts
    /\ \A c \in Contexts : ToTraceParent(c) \in Headers
    /\ \A c \in Contexts, r \in Nat : NewChild(c, r) \in Contexts
  <1>0. /\ "" \in AnyFlags /\ "01" \in AnyFlags
        /\ -1 \in Int /\ \A r \in Nat : r \in Int
    BY DEF AnyFlags, Flags
  <1>1. Empty \in Contexts /\ NoHeader \in Headers
    <2>1. Empty \in Contexts
      BY <1>0, Record, Zenon DEF Empty
    <2>2. QED
      BY <2>1 DEF NoHeader, Headers
  <1>2. \A r \in Nat : NewRoot(r) \in Contexts
    BY <1>0, Record, Zenon DEF NewRoot
  <1>3. \A h \in Headers : ParseTraceParent(h) \in Contexts
    BY <1>1 DEF ParseTraceParent, Headers
  <1>4. \A c \in Contexts : ToTraceParent(c) \in Headers
    BY <1>1 DEF ToTraceParent, Headers
  <1>5. ASSUME NEW c \in Contexts, NEW r \in Nat PROVE NewChild(c, r) \in Contexts
    <2> DEFINE ctx == [c EXCEPT !.span_id = r, !.flags = IF @ = "" THEN "01" ELSE @]
    <2>1. ctx \in Contexts
      <3> DEFINE f == IF c.flags = "" THEN "01" ELSE c.flags
      <3>1. c.trace_id \in Int /\ c.flags \in AnyFlags
        BY DEF Contexts
      <3>2. f \in AnyFlags
        BY <1>0, <3>1
      <3> HIDE DEF f
      <3>3. [c EXCEPT !.span_id = r, !.flags = f] \in Contexts
        BY <1>0, <3>1, <3>2, Edited, Zenon DEF Contexts
      <3>4. QED
        BY <3>3 DEF f
    <2> HIDE DEF ctx
    <2>2. NewChild(c, r) = IF valid(ctx) THEN ctx ELSE NewRoot(r)
      BY DEF NewChild, ctx
    <2>3. QED
      BY <1>2, <2>1, <2>2
  <1>6. QED
    BY <1>1, <1>2, <1>3, <1>4, <1>5

LEMMA InitOrder == Init => OrderInv
  <1> SUFFICES ASSUME Init PROVE OrderInv
    OBVIOUS
  <1>1. Len(answers) = 0 /\ Len(wire) = 0 /\ Len(buffer_) = 0 /\ Len(sent) = 0
    BY EmptySeq DEF Init
  <1>2. TypeInv
    BY EmptySeq, ContextTypes DEF Init, TypeInv
  <1>3. ~Answering
    BY DEF Init, Answering
  <1>4. QED
    BY <1>1, <1>2, <1>3 DEF OrderInv, HoldsRequests, NoGap, OpenKeepsAlive,
       NoAnswerAfterClose, Begun

LEMMA Lengths ==
    ASSUME TypeInv
    PROVE  /\ Len(sent) \in Nat /\ Len(answers) \in Nat
           /\ Len(wire) \in Nat /\ Len(buffer_) \in Nat
  BY LenProperties DEF TypeInv

LEMMA TraceparentTypes == ASSUME TypeInv PROVE Traceparents \subseteq Headers
  <1> DEFINE parent == IF answers = <<>> THEN Empty
                       ELSE ParseTraceParent(answers[Len(answers)].traceparent)
             child == NewChild(parent, random + 1)
  <1>1. parent \in Contexts
    <2>1. CASE answers = <<>>
      BY <2>1, ContextTypes
    <2>2. CASE answers # <<>>
      <3>1. Len(answers) \in 1 .. Len(answers)
        BY <2>2, EmptySeq DEF TypeInv
      <3>2. answers[Len(answers)] \in Responses
        BY <3>1, ElementOfSeq DEF TypeInv
      <3>3. answers[Len(answers)].traceparent \in Headers
        BY <3>2 DEF Responses
      <3>4. QED
        BY <2>2, <3>3, ContextTypes
    <2>3. QED
      BY <2>1, <2>2
  <1> HIDE DEF parent
  <1>2. child \in Contexts
    BY <1>1, ContextTypes DEF TypeInv
  <1> HIDE DEF child
  <1>3. [wellFormed |-> TRUE, ctx |-> [child EXCEPT !.span_id = 0]] \in Headers
    <2>1. [child EXCEPT !.span_id = 0] \in Contexts
      BY <1>2 DEF Contexts
    <2>2. QED
      BY <2>1 DEF Headers
  <1>4. Traceparents = {NoHeader, ToTraceParent(child),
                        [wellFormed |-> TRUE, ctx |-> [child EXCEPT !.span_id = 0]]}
    BY DEF Traceparents, child, parent
  <1>5. QED
    BY <1>2, <1>3, <1>4, ContextTypes

-----------------------------------------------------------------------------
(* One lemma for each action *)

LEMMA SendOrder == ASSUME OrderInv, Send PROVE OrderInv'
  <1>1. PICK keep_alive \in BOOLEAN, traceparent \in Traceparents :
          sent' = Append(sent, [keep_alive |-> keep_alive, traceparent |-> traceparent])
    BY DEF Send
  <1> DEFINE r == [keep_alive |-> keep_alive, traceparent |-> traceparent]
  <1>2. r \in Requests
    BY TraceparentTypes DEF OrderInv, Requests
  <1> HIDE DEF r
  <1>3. /\ sent' \in Seq(Requests) /\ Len(sent') = Len(sent) + 1
        /\ \A i \in 1 .. Len(sent) : sent'[i] = sent[i]
    BY <1>1, <1>2, AppendProperties DEF OrderInv, TypeInv, r
  <1>4. /\ Len(sent) \in Nat /\ Len(answers) \in Nat
        /\ Len(wire) \in Nat /\ Len(buffer_) \in Nat
    BY Lengths DEF OrderInv
  <1>5. /\ wire' \in Seq(Nat) /\ Len(wire') = Len(wire) + 1
        /\ \A i \in 1 .. Len(wire) : wire'[i] = wire[i]
        /\ wire'[Len(wire) + 1] = Len(sent) + 1
    BY <1>4, AppendProperties DEF Send, OrderInv, TypeInv
  <1>6. UNCHANGED <<sending, buffer_, op, req_, trace, answers, Answering, Begun>>
    BY DEF Send, Answering, Begun
  <1>7. TypeInv'
    BY <1>3, <1>5, <1>6 DEF OrderInv, TypeInv, Send
  <1>8. HoldsRequests'
    <2>1. ASSUME NEW i \in 1 .. Len(wire') PROVE wire'[i] \in 1 .. Len(sent')
      <3>1. CASE i = Len(wire) + 1
        BY <1>3, <1>4, <1>5, <3>1
      <3>2. CASE i \in 1 .. Len(wire)
        <4>1. wire'[i] = wire[i] /\ wire[i] \in 1 .. Len(sent)
          BY <1>5, <3>2 DEF OrderInv, HoldsRequests
        <4>2. QED
          BY <1>3, <1>4, <4>1
      <3>3. QED
        BY <1>4, <1>5, <3>1, <3>2
    <2>2. ASSUME NEW i \in 1 .. Len(buffer_) PROVE buffer_[i] \in 1 .. Len(sent')
      BY <1>3, <1>4 DEF OrderInv, HoldsRequests
    <2>3. Answering => req_ \in 1 .. Len(sent')
      BY <1>3, <1>4 DEF OrderInv, HoldsRequests
    <2>4. Len(answers) <= Len(sent')
      BY <1>3, <1>4 DEF OrderInv, HoldsRequests
    <2>5. \A i \in 1 .. Len(answers) : answers[i].req = i
      BY DEF OrderInv, HoldsRequests
    <2>6. QED
      BY <1>6, <2>1, <2>2, <2>3, <2>4, <2>5 DEF HoldsRequests
  <1>9. NoGap'
    <2>1. Begun \in Nat
      BY <1>4 DEF Begun
    <2>2. QED
      BY <1>3, <1>4, <1>5, <1>6, <2>1 DEF OrderInv, NoGap, Send
  <1>10. (OpenKeepsAlive /\ NoAnswerAfterClose)'
    <2>1. ASSUME NEW i \in 1 .. Len(answers)
          PROVE  sent'[answers[i].req] = sent[answers[i].req]
      <3>1. answers[i].req = i /\ i \in 1 .. Len(sent)
        BY <1>4 DEF OrderInv, HoldsRequests
      <3>2. QED
        BY <1>3, <3>1
    <2>2. QED
      BY <1>4, <1>6, <2>1 DEF OrderInv, OpenKeepsAlive, NoAnswerAfterClose
  <1>11. QED
    BY <1>7, <1>8, <1>9, <1>10 DEF OrderInv

LEMMA EndSendingOrder == ASSUME OrderInv, EndSending PROVE OrderInv'
  <1>1. UNCHANGED <<sent, buffer_, op, req_, trace, random, answers, Answering, Begun>>
    BY DEF EndSending, Answering, Begun
  <1>2. CASE sending' = "reset" /\ wire' = <<>>
    <2>1. wire' \in Seq(Nat) /\ Len(wire') = 0
      BY <1>2, EmptySeq
    <2>2. QED
      BY <1>1, <1>2, <2>1 DEF OrderInv, TypeInv, HoldsRequests, NoGap, OpenKeepsAlive,
         NoAnswerAfterClose
  <1>3. CASE sending = "open" /\ sending' \in {"shut", "cut"} /\ UNCHANGED wire
    BY <1>1, <1>3 DEF OrderInv, TypeInv, HoldsRequests, NoGap, OpenKeepsAlive,
       NoAnswerAfterClose
  <1>4. QED
    BY <1>2, <1>3 DEF EndSending

LEMMA FetchOrder == ASSUME OrderInv, Fetch PROVE OrderInv'
  <1>1. PICK n \in 1 .. Len(wire) :
          buffer_' = SubSeq(wire, 1, n) /\ wire' = SubSeq(wire, n + 1, Len(wire))
    BY DEF Fetch
  <1>2. /\ Len(sent) \in Nat /\ Len(answers) \in Nat /\ Len(wire) \in Nat
        /\ Len(buffer_) = 0 /\ n \in Nat /\ n <= Len(wire)
    BY Lengths, EmptySeq DEF OrderInv, Fetch
  <1>3. \A i \in 1 .. Len(wire) : wire[i] \in Nat
    BY ElementOfSeq DEF OrderInv, TypeInv
  <1>4. /\ buffer_' \in Seq(Nat) /\ Len(buffer_') = n
        /\ \A i \in 1 .. n : buffer_'[i] = wire[i]
    BY <1>1, <1>2, <1>3, SubSeqProperties
  <1>5. /\ wire' \in Seq(Nat) /\ Len(wire') = Len(wire) - n
        /\ \A i \in 1 .. Len(wire) - n : wire'[i] = wire[n + i]
    BY <1>1, <1>2, <1>3, SubSeqProperties
  <1>6. UNCHANGED <<sent, sending, op, req_, trace, random, answers, Answering, Begun>>
    BY DEF Fetch, client, Answering, Begun
  <1>7. TypeInv'
    BY <1>4, <1>5, <1>6 DEF OrderInv, TypeInv
  <1>8. HoldsRequests'
    <2>1. ASSUME NEW i \in 1 .. Len(wire') PROVE wire'[i] \in 1 .. Len(sent)
      <3>1. n + i \in 1 .. Len(wire) /\ wire'[i] = wire[n + i]
        BY <1>2, <1>5
      <3>2. QED
        BY <3>1 DEF OrderInv, HoldsRequests
    <2>2. ASSUME NEW i \in 1 .. Len(buffer_') PROVE buffer_'[i] \in 1 .. Len(sent)
      <3>1. i \in 1 .. Len(wire) /\ buffer_'[i] = wire[i]
        BY <1>2, <1>4
      <3>2. QED
        BY <3>1 DEF OrderInv, HoldsRequests
    <2>3. QED
      BY <1>6, <2>1, <2>2 DEF OrderInv, HoldsRequests
  <1>9. NoGap'
    <2>1. Begun \in Nat
      BY <1>2 DEF Begun
    <2>2. SUFFICES ASSUME sending # "reset" PROVE NoGap'
      BY <1>6 DEF NoGap
    <2>3. /\ \A i \in 1 .. Len(wire) : wire[i] = Begun + i
          /\ Len(sent) = Begun + Len(wire) /\ (Answering => req_ = Begun)
      BY <1>2, <2>1, <2>2 DEF OrderInv, NoGap
    <2>4. \A i \in 1 .. Len(buffer_') : buffer_'[i] = Begun + i
      BY <1>2, <1>4, <2>3
    <2>5. ASSUME NEW i \in 1 .. Len(wire') PROVE wire'[i] = Begun + Len(buffer_') + i
      <3>1. n + i \in 1 .. Len(wire) /\ wire'[i] = wire[n + i]
        BY <1>2, <1>5
      <3>2. QED
        BY <1>2, <1>4, <2>1, <2>3, <3>1
    <2>6. Len(sent) = Begun + Len(buffer_') + Len(wire')
      BY <1>2, <1>4, <1>5, <2>1, <2>3
    <2>7. QED
      BY <1>6, <2>3, <2>4, <2>5, <2>6 DEF NoGap
  <1>10. QED
    BY <1>6, <1>7, <1>8, <1>9 DEF OrderInv, OpenKeepsAlive, NoAnswerAfterClose

LEMMA OnReadOrder == ASSUME OrderInv, OnRead PROVE OrderInv'
  <1>1. /\ Len(sent) \in Nat /\ Len(answers) \in Nat /\ Len(wire) \in Nat
        /\ Len(buffer_) \in Nat \ {0}
    BY Lengths, EmptySeq DEF OrderInv, TypeInv, OnRead
  <1>2. /\ buffer_' \in Seq(Nat) /\ Len(buffer_') = Len(buffer_) - 1
        /\ \A i \in 1 .. Len(buffer_) - 1 : buffer_'[i] = buffer_[i + 1]
        /\ req_' \in Nat /\ req_' = buffer_[1]
    BY HeadTailProperties DEF OrderInv, TypeInv, OnRead
  <1>3. /\ UNCHANGED <<sent, sending, wire, answers>> /\ op = "read" /\ op' = "handle"
        /\ Answering' /\ ~Answering
    BY DEF OnRead, client, Answering
  <1>4. Begun = Len(answers) /\ Begun' = Begun + 1
    BY <1>1, <1>3 DEF Begun
  <1>5. TypeInv'
    <2>1. req_' \in 1 .. Len(sent)
      BY <1>1, <1>2 DEF OrderInv, HoldsRequests
    <2>2. sent[req_'] \in Requests
      BY <2>1, ElementOfSeq DEF OrderInv, TypeInv
    <2>3. trace' \in Contexts
      <3>1. sent[req_'].traceparent \in Headers /\ random + 1 \in Nat
        BY <2>2 DEF Requests, OrderInv, TypeInv
      <3>2. SetTrace(sent[req_'].traceparent)
        BY DEF OnRead
      <3>3. QED
        BY <3>1, <3>2, ContextTypes DEF SetTrace
    <2>4. QED
      BY <1>2, <1>3, <2>3 DEF OrderInv, TypeInv, OnRead
  <1>6. HoldsRequests'
    <2>1. ASSUME NEW i \in 1 .. Len(buffer_') PROVE buffer_'[i] \in 1 .. Len(sent)
      <3>1. i + 1 \in 1 .. Len(buffer_) /\ buffer_'[i] = buffer_[i + 1]
        BY <1>1, <1>2
      <3>2. QED
        BY <3>1 DEF OrderInv, HoldsRequests
    <2>2. req_' \in 1 .. Len(sent)
      BY <1>1, <1>2 DEF OrderInv, HoldsRequests
    <2>3. QED
      BY <1>3, <2>1, <2>2 DEF OrderInv, HoldsRequests
  <1>7. NoGap'
    <2>1. Begun \in Nat
      BY <1>1, <1>4
    <2>2. SUFFICES ASSUME sending # "reset" PROVE NoGap'
      BY <1>3 DEF NoGap
    <2>3. /\ \A i \in 1 .. Len(buffer_) : buffer_[i] = Begun + i
          /\ \A i \in 1 .. Len(wire) : wire[i] = Begun + Len(buffer_) + i
          /\ Len(sent) = Begun + Len(buffer_) + Len(wire)
      BY <2>2 DEF OrderInv, NoGap
    <2>4. req_' = Begun'
      BY <1>1, <1>2, <1>4, <2>3
    <2>5. ASSUME NEW i \in 1 .. Len(buffer_') PROVE buffer_'[i] = Begun' + i
      <3>1. i + 1 \in 1 .. Len(buffer_) /\ buffer_'[i] = buffer_[i + 1]
        BY <1>1, <1>2
      <3>2. QED
        BY <1>4, <2>1, <2>3, <3>1
    <2>6. /\ \A i \in 1 .. Len(wire) : wire[i] = Begun' + Len(buffer_') + i
          /\ Len(sent) = Begun' + Len(buffer_') + Len(wire)
      BY <1>1, <1>2, <1>4, <2>1, <2>3
    <2>7. QED
      BY <1>3, <2>4, <2>5, <2>6 DEF NoGap
  <1>8. QED
    BY <1>3, <1>5, <1>6, <1>7 DEF OrderInv, OpenKeepsAlive, NoAnswerAfterClose

\* The steps that move no request.
LEMMA QuietOrder ==
    ASSUME OrderInv, RunMiddleware \/ Respond \/ OnReadEnd \/ UNCHANGED vars
    PROVE  OrderInv'
  <1>1. UNCHANGED <<sent, sending, wire, buffer_, req_, trace, random, answers>>
    BY DEF RunMiddleware, Respond, OnReadEnd, vars, client
  <1>2. op' \in {"read", "handle", "write", "none"} /\ (op' = "none" \/ op # "none")
        /\ Answering' = Answering
    BY DEF RunMiddleware, Respond, OnReadEnd, vars, OrderInv, TypeInv, Answering
  <1>3. UNCHANGED Begun
    BY <1>1, <1>2 DEF Begun
  <1>4. QED
    BY <1>1, <1>2, <1>3 DEF OrderInv, TypeInv, HoldsRequests, NoGap, OpenKeepsAlive,
       NoAnswerAfterClose

LEMMA OnWriteOrder == ASSUME OrderInv, OnWrite PROVE OrderInv'
  <1>1. /\ Len(sent) \in Nat /\ Len(answers) \in Nat /\ Len(wire) \in Nat
        /\ Len(buffer_) \in Nat
    BY Lengths DEF OrderInv
  <1>2. /\ UNCHANGED <<sent, sending, wire, buffer_, trace, random>>
        /\ op = "write" /\ op' \in {"read", "none"} /\ Answering /\ ~Answering'
        /\ req_' \in Nat
    BY DEF OnWrite, Read, client, Answering, OrderInv, TypeInv
  <1>3. CASE sending = "reset"
    <2>1. UNCHANGED answers
      BY <1>3 DEF OnWrite, Deliver
    <2>2. QED
      BY <1>2, <1>3, <2>1 DEF OrderInv, TypeInv, HoldsRequests, NoGap, OpenKeepsAlive,
         NoAnswerAfterClose
  <1>4. CASE sending # "reset"
    <2> DEFINE a == [req |-> req_, traceparent |-> ToTraceParent(trace)]
    <2>1. a \in Responses /\ a.req = req_
      BY ContextTypes DEF OrderInv, TypeInv, Responses
    <2>2. answers' = Append(answers, a)
      BY <1>4 DEF OnWrite, Deliver
    <2> HIDE DEF a
    <2>3. /\ answers' \in Seq(Responses) /\ Len(answers') = Len(answers) + 1
          /\ \A i \in 1 .. Len(answers) : answers'[i] = answers[i]
          /\ answers'[Len(answers) + 1] = a
      BY <2>1, <2>2, AppendProperties DEF OrderInv, TypeInv
    <2>4. Begun = Len(answers) + 1 /\ Begun' = Begun /\ req_ = Begun
      BY <1>1, <1>2, <1>4, <2>3 DEF Begun, OrderInv, NoGap
    <2>5. TypeInv'
      BY <1>2, <2>3 DEF OrderInv, TypeInv
    <2>6. HoldsRequests'
      BY <1>1, <1>2, <2>1, <2>3, <2>4 DEF OrderInv, HoldsRequests
    <2>7. NoGap'
      BY <1>1, <1>2, <2>4 DEF OrderInv, NoGap
    <2>8. \A i \in 1 .. Len(answers) : sent[answers[i].req].keep_alive
      BY <1>2, <1>4 DEF OrderInv, OpenKeepsAlive
    <2>9. NoAnswerAfterClose'
      BY <1>1, <1>2, <2>3, <2>8 DEF NoAnswerAfterClose
    <2>10. OpenKeepsAlive'
      <3>1. op' = "none" \/ sent[req_].keep_alive
        BY DEF OnWrite
      <3>2. QED
        BY <1>1, <1>2, <2>1, <2>3, <2>8, <3>1 DEF OpenKeepsAlive
    <2>11. QED
      BY <2>5, <2>6, <2>7, <2>9, <2>10 DEF OrderInv
  <1>5. QED
    BY <1>3, <1>4

LEMMA StepOrder == OrderInv /\ [Next]_vars => OrderInv'
  BY SendOrder, EndSendingOrder, FetchOrder, OnReadOrder, QuietOrder, OnWriteOrder
     DEF Next, Session


\* A sequence that counts to n, continued from there.
LEMMA CountsOn ==
    ASSUME NEW s \in Seq(Nat), NEW t \in Seq(Nat),
           \A i \in 1 .. Len(s) : s[i] = i, \A i \in 1 .. Len(t) : t[i] = Len(s) + i
    PROVE  /\ s \o t \in Seq(Nat) /\ Len(s \o t) = Len(s) + Len(t)
           /\ \A i \in 1 .. Len(s \o t) : (s \o t)[i] = i
  <1>1. /\ s \o t \in Seq(Nat) /\ Len(s \o t) = Len(s) + Len(t)
        /\ \A i \in 1 .. Len(s) + Len(t) :
             (s \o t)[i] = IF i <= Len(s) THEN s[i] ELSE t[i - Len(s)]
    BY ConcatProperties
  <1>2. Len(s) \in Nat /\ Len(t) \in Nat
    BY LenProperties
  <1>3. ASSUME NEW i \in 1 .. Len(s) + Len(t) PROVE (s \o t)[i] = i
    <2>1. CASE i <= Len(s)
      BY <1>1, <1>2, <2>1
    <2>2. CASE ~(i <= Len(s))
      <3>1. i - Len(s) \in 1 .. Len(t) /\ (s \o t)[i] = t[i - Len(s)]
        BY <1>1, <1>2, <2>2
      <3>2. QED
        BY <1>2, <3>1
    <2>3. QED
      BY <2>1, <2>2
  <1>4. QED
    BY <1>1, <1>3

\* What the answers, the request at hand, buffer_ and the socket hold, one after the
\* other, are the numbers of the requests.
LEMMA OrderIsKept == OrderInv => AnswersInOrder
  <1> SUFFICES ASSUME OrderInv PROVE AnswersInOrder
    OBVIOUS
  <1> DEFINE answered == [i \in DOMAIN answers |-> answers[i].req]
             current == IF op \in {"handle", "write"} THEN <<req_>> ELSE <<>>
  <1>1. /\ Len(sent) \in Nat /\ Len(answers) \in Nat /\ Len(wire) \in Nat
        /\ Len(buffer_) \in Nat
        /\ DOMAIN sent = 1 .. Len(sent) /\ DOMAIN answers = 1 .. Len(answers)
    BY LenProperties DEF OrderInv, TypeInv
  <1>2. answered = [i \in DOMAIN answers |-> i]
    BY <1>1 DEF OrderInv, HoldsRequests
  <1>3. ASSUME sending # "reset"
        PROVE  answered \o current \o buffer_ \o wire = [i \in DOMAIN sent |-> i]
    <2> DEFINE all == [i \in DOMAIN sent |-> i]
    <2>1. /\ answered \in Seq(Nat) /\ Len(answered) = Len(answers)
          /\ \A i \in 1 .. Len(answered) : answered[i] = i
      <3>1. answered \in [1 .. Len(answers) -> Nat]
        BY <1>1, <1>2
      <3>2. QED
        BY <1>1, <1>2, <3>1
    <2>2. /\ all \in Seq(Nat) /\ Len(all) = Len(sent)
          /\ \A i \in 1 .. Len(all) : all[i] = i
      <3>1. all \in [1 .. Len(sent) -> Nat]
        BY <1>1
      <3>2. QED
        BY <1>1, <3>1
    <2>3. Begun \in Nat /\ Begun = IF Answering THEN Len(answers) + 1 ELSE Len(answers)
      BY <1>1 DEF Begun
    <2>4. /\ current \in Seq(Nat) /\ Len(answers) + Len(current) = Begun
          /\ \A i \in 1 .. Len(current) : current[i] = Len(answers) + i
      <3>1. CASE Answering
        <4>1. current = <<req_>> /\ req_ \in Nat /\ req_ = Begun
          BY <1>3, <3>1 DEF Answering, OrderInv, TypeInv, NoGap
        <4>2. <<req_>> \in Seq(Nat) /\ Len(<<req_>>) = 1 /\ <<req_>>[1] = req_
          BY <4>1
        <4>3. QED
          BY <1>1, <2>3, <3>1, <4>1, <4>2
      <3>2. CASE ~Answering
        <4>1. current = <<>>
          BY <3>2 DEF Answering
        <4> HIDE DEF current
        <4>2. current \in Seq(Nat) /\ Len(current) = 0
          BY <4>1, EmptySeq
        <4>3. QED
          BY <1>1, <2>3, <3>2, <4>2
      <3>3. QED
        BY <3>1, <3>2
    <2>5. buffer_ \in Seq(Nat) /\ wire \in Seq(Nat)
      BY DEF OrderInv, TypeInv
    <2>6. /\ \A i \in 1 .. Len(buffer_) : buffer_[i] = Begun + i
          /\ \A i \in 1 .. Len(wire) : wire[i] = Begun + Len(buffer_) + i
          /\ Len(sent) = Begun + Len(buffer_) + Len(wire)
      BY <1>3 DEF OrderInv, NoGap
    <2> HIDE DEF answered, current, all
    <2> DEFINE front == answered \o current
               held == front \o buffer_
    <2>7. /\ front \in Seq(Nat) /\ Len(front) = Begun
          /\ \A i \in 1 .. Len(front) : front[i] = i
      BY <2>1, <2>4, CountsOn
    <2> HIDE DEF front
    <2>8. /\ held \in Seq(Nat) /\ Len(held) = Begun + Len(buffer_)
          /\ \A i \in 1 .. Len(held) : held[i] = i
      BY <2>5, <2>6, <2>7, CountsOn
    <2> HIDE DEF held
    <2>9. /\ held \o wire \in Seq(Nat) /\ Len(held \o wire) = Len(sent)
          /\ \A i \in 1 .. Len(held \o wire) : (held \o wire)[i] = i
      BY <2>5, <2>6, <2>8, CountsOn
    <2>10. held \o wire = all
      BY <2>2, <2>9, SeqEqual
    <2>11. QED
      BY <2>10 DEF held, front, all
  <1>4. QED
    BY <1>2, <1>3 DEF AnswersInOrder

-----------------------------------------------------------------------------
(* The trace context of the answers *)

\* The trace id of a header, and that of an answer.
Asked(i) == sent[i].traceparent.ctx.trace_id
Told(i) == answers[i].traceparent.ctx.trace_id

\* No id was drawn after `random': the next one that is drawn is new.
IdsAreDrawn ==
    /\ \A i \in 1 .. Len(sent) : Asked(i) <= random
    /\ \A i \in 1 .. Len(answers) :
         /\ Told(i) <= random
         /\ answers[i].traceparent.wellFormed /\ valid(answers[i].traceparent.ctx)

\* The request at hand has the context of its header, or one that no answer had.
TraceIsOurs ==
    Answering =>
        /\ valid(trace) /\ trace.trace_id <= random
        /\ IF valid(ParseTraceParent(sent[req_].traceparent))
           THEN trace = sent[req_].traceparent.ctx
           ELSE \A j \in 1 .. Len(answers) : trace.trace_id # Told(j)

TraceInv == OrderInv /\ IdsAreDrawn /\ TraceIsOurs /\ TraceEchoed

LEMMA HeaderFacts ==
    /\ ~valid(Empty) /\ Empty.trace_id = -1 /\ NoHeader.ctx = Empty
    /\ \A h : ParseTraceParent(h) = Empty \/ ParseTraceParent(h) = h.ctx
    /\ \A h : h.wellFormed /\ valid(h.ctx) => ParseTraceParent(h) = h.ctx
    /\ \A c : valid(c) => ToTraceParent(c).wellFormed /\ ToTraceParent(c).ctx = c
    /\ \A c : ~valid(c) => ToTraceParent(c) = NoHeader
    /\ \A r : NewRoot(r).trace_id = r
    /\ \A r \in Nat \ {0} : valid(NewRoot(r))
  <1>1. ~valid(Empty) /\ Empty.trace_id = -1 /\ NoHeader.ctx = Empty
    BY DEF valid, Empty, NoHeader
  <1>2. \A r : NewRoot(r).trace_id = r
    BY DEF NewRoot
  <1>3. \A r \in Nat \ {0} : valid(NewRoot(r))
    BY DEF NewRoot, valid, Flags
  <1>4. QED
    BY <1>1, <1>2, <1>3 DEF ParseTraceParent, ToTraceParent

LEMMA ChildId ==
    ASSUME NEW c \in Contexts, NEW r \in Nat, c.trace_id <= r
    PROVE  NewChild(c, r).trace_id <= r
  <1> DEFINE ctx == [c EXCEPT !.span_id = r, !.flags = IF @ = "" THEN "01" ELSE @]
  <1>1. ctx.trace_id = c.trace_id
    BY DEF Contexts
  <1>2. NewChild(c, r) = ctx \/ NewChild(c, r) = NewRoot(r)
    BY DEF NewChild
  <1> HIDE DEF ctx
  <1>3. QED
    BY <1>1, <1>2, HeaderFacts

\* Whatever a client sends, its trace id was drawn before.
LEMMA SentIds ==
    ASSUME TypeInv, IdsAreDrawn, NEW h \in Traceparents
    PROVE  h.ctx.trace_id <= random + 1
  <1> DEFINE parent == IF answers = <<>> THEN Empty
                       ELSE ParseTraceParent(answers[Len(answers)].traceparent)
             child == NewChild(parent, random + 1)
  <1>1. parent \in Contexts /\ parent.trace_id <= random + 1
    <2>1. random \in Nat
      BY DEF TypeInv
    <2>2. CASE answers = <<>>
      BY <2>1, <2>2, ContextTypes, HeaderFacts
    <2>3. CASE answers # <<>>
      <3>1. Len(answers) \in 1 .. Len(answers)
        BY <2>3, EmptySeq DEF TypeInv
      <3>2. answers[Len(answers)] \in Responses
        BY <3>1, ElementOfSeq DEF TypeInv
      <3>3. answers[Len(answers)].traceparent \in Headers
        BY <3>2 DEF Responses
      <3>4. Told(Len(answers)) <= random /\ Told(Len(answers)) \in Int
        BY <3>1, <3>3 DEF IdsAreDrawn, Headers, Contexts, Told
      <3>5. parent = Empty \/ parent.trace_id = Told(Len(answers))
        BY <2>3, HeaderFacts DEF Told
      <3>6. parent \in Contexts
        BY <2>3, <3>3, ContextTypes
      <3>7. QED
        BY <2>1, <3>4, <3>5, <3>6, HeaderFacts
    <2>4. QED
      BY <2>2, <2>3
  <1>2. Traceparents = {NoHeader, ToTraceParent(child),
                        [wellFormed |-> TRUE, ctx |-> [child EXCEPT !.span_id = 0]]}
    BY DEF Traceparents
  <1>3. random + 1 \in Nat
    BY DEF TypeInv
  <1> HIDE DEF parent
  <1>4. child \in Contexts /\ child.trace_id <= random + 1
    BY <1>1, <1>3, ChildId, ContextTypes
  <1> HIDE DEF child
  <1>5. CASE h = NoHeader
    BY <1>3, <1>5, HeaderFacts
  <1>6. CASE h = ToTraceParent(child)
    BY <1>3, <1>4, <1>6, HeaderFacts
  <1>7. CASE h = [wellFormed |-> TRUE, ctx |-> [child EXCEPT !.span_id = 0]]
    <2>1. h.ctx = [child EXCEPT !.span_id = 0]
      BY <1>7
    <2>2. h.ctx.trace_id = child.trace_id
      BY <1>4, <2>1 DEF Contexts
    <2>3. QED
      BY <1>4, <2>2
  <1>8. QED
    BY <1>2, <1>5, <1>6, <1>7

LEMMA IdTypes ==
    ASSUME TypeInv
    PROVE  /\ \A i \in 1 .. Len(sent) : sent[i].traceparent \in Headers /\ Asked(i) \in Int
           /\ \A i \in 1 .. Len(answers) : Told(i) \in Int
           /\ random \in Nat /\ trace.trace_id \in Int
  <1>1. ASSUME NEW i \in 1 .. Len(sent)
        PROVE  sent[i].traceparent \in Headers /\ Asked(i) \in Int
    <2>1. sent[i] \in Requests
      BY ElementOfSeq DEF TypeInv
    <2>2. sent[i].traceparent \in Headers
      BY <2>1 DEF Requests
    <2>3. QED
      BY <2>2 DEF Headers, Contexts, Asked
  <1>2. ASSUME NEW i \in 1 .. Len(answers) PROVE Told(i) \in Int
    <2>1. answers[i] \in Responses
      BY ElementOfSeq DEF TypeInv
    <2>2. answers[i].traceparent \in Headers
      BY <2>1 DEF Responses
    <2>3. QED
      BY <2>2 DEF Headers, Contexts, Told
  <1>3. QED
    BY <1>1, <1>2 DEF TypeInv, Contexts

LEMMA InitTrace == Init => TraceInv
  <1> SUFFICES ASSUME Init PROVE TraceInv
    OBVIOUS
  <1>1. Len(answers) = 0 /\ Len(sent) = 0 /\ DOMAIN answers = {} /\ ~Answering
    BY EmptySeq DEF Init, Answering
  <1>2. QED
    BY <1>1, InitOrder DEF TraceInv, IdsAreDrawn, TraceIsOurs, TraceEchoed

\* Steps that change neither the answers nor the requests nor the one at hand; they
\* may draw a random id.
LEMMA SameTrace ==
    ASSUME TraceInv, OrderInv', random' \in Nat, random <= random',
           UNCHANGED <<sent, answers>>,
           Answering' => Answering /\ UNCHANGED <<req_, trace>>
    PROVE  TraceInv'
  <1>1. \A i \in 1 .. Len(sent) : Asked(i)' = Asked(i) /\ Asked(i) \in Int
    BY IdTypes DEF Asked, TraceInv, OrderInv
  <1>2. \A i \in 1 .. Len(answers) : Told(i)' = Told(i) /\ Told(i) \in Int
    BY IdTypes DEF Told, TraceInv, OrderInv
  <1>3. random \in Nat /\ trace.trace_id \in Int
    BY IdTypes DEF TraceInv, OrderInv
  <1>4. IdsAreDrawn'
    BY <1>1, <1>2, <1>3 DEF TraceInv, IdsAreDrawn
  <1>5. TraceIsOurs'
    BY <1>2, <1>3 DEF TraceInv, TraceIsOurs
  <1>6. TraceEchoed'
    BY DEF TraceInv, TraceEchoed
  <1>7. QED
    BY <1>4, <1>5, <1>6 DEF TraceInv

LEMMA SendTrace == ASSUME TraceInv, Send PROVE TraceInv'
  <1>1. OrderInv'
    BY SendOrder DEF TraceInv
  <1>2. PICK keep_alive \in BOOLEAN, h \in Traceparents :
          sent' = Append(sent, [keep_alive |-> keep_alive, traceparent |-> h])
    BY DEF Send
  <1> DEFINE r == [keep_alive |-> keep_alive, traceparent |-> h]
  <1>3. r \in Requests /\ r.traceparent = h
    BY TraceparentTypes DEF TraceInv, OrderInv, Requests
  <1> HIDE DEF r
  <1>4. /\ Len(sent) \in Nat /\ Len(sent') = Len(sent) + 1 /\ sent'[Len(sent) + 1] = r
        /\ \A i \in 1 .. Len(sent) : sent'[i] = sent[i]
    BY <1>2, <1>3, AppendProperties, Lengths DEF TraceInv, OrderInv, TypeInv, r
  <1>5. UNCHANGED <<answers, req_, trace, op>> /\ random' = random + 1 /\ random \in Nat
        /\ (Answering' <=> Answering)
    BY DEF Send, Answering, TraceInv, OrderInv, TypeInv
  <1>6. h.ctx.trace_id <= random'
    BY <1>5, SentIds DEF TraceInv, OrderInv
  <1>7. \A i \in 1 .. Len(sent) : Asked(i)' = Asked(i) /\ Asked(i) \in Int
    BY <1>4, IdTypes DEF Asked, TraceInv, OrderInv
  <1>8. IdsAreDrawn'
    <2>1. ASSUME NEW i \in 1 .. Len(sent') PROVE Asked(i)' <= random'
      <3>1. CASE i \in 1 .. Len(sent)
        BY <1>5, <1>7, <3>1 DEF TraceInv, IdsAreDrawn
      <3>2. CASE i = Len(sent) + 1
        <4>1. sent'[i].traceparent = h
          BY <1>3, <1>4, <3>2
        <4>2. QED
          BY <1>6, <4>1 DEF Asked
      <3>3. QED
        BY <1>4, <3>1, <3>2
    <2>2. ASSUME NEW i \in 1 .. Len(answers)
          PROVE  /\ Told(i)' <= random'
                 /\ answers[i].traceparent.wellFormed /\ valid(answers[i].traceparent.ctx)
      <3>1. Told(i)' = Told(i) /\ Told(i) \in Int
        BY <1>5, IdTypes DEF Told, TraceInv, OrderInv
      <3>2. QED
        BY <1>5, <3>1 DEF TraceInv, IdsAreDrawn
    <2>3. QED
      BY <1>5, <2>1, <2>2 DEF IdsAreDrawn
  <1>9. TraceIsOurs'
    <2>1. Answering => sent'[req_] = sent[req_]
      BY <1>4 DEF TraceInv, OrderInv, HoldsRequests
    <2>2. \A j : Told(j)' = Told(j)
      BY <1>5 DEF Told
    <2>3. trace.trace_id \in Int
      BY IdTypes DEF TraceInv, OrderInv
    <2>4. QED
      BY <1>5, <2>1, <2>2, <2>3 DEF TraceInv, TraceIsOurs
  <1>10. TraceEchoed'
    <2>1. ASSUME NEW i \in DOMAIN answers PROVE sent'[answers[i].req] = sent[answers[i].req]
      <3>1. i \in 1 .. Len(answers)
        BY LenProperties DEF TraceInv, OrderInv, TypeInv
      <3>2. answers[i].req \in 1 .. Len(sent)
        BY <1>4, <3>1, Lengths DEF TraceInv, OrderInv, HoldsRequests
      <3>3. QED
        BY <1>4, <3>2
    <2>2. QED
      BY <1>5, <2>1 DEF TraceInv, TraceEchoed
  <1>11. QED
    BY <1>1, <1>8, <1>9, <1>10 DEF TraceInv

LEMMA OnReadTrace == ASSUME TraceInv, OnRead PROVE TraceInv'
  <1>1. OrderInv'
    BY OnReadOrder DEF TraceInv
  <1> DEFINE h == sent[req_'].traceparent
  <1>2. UNCHANGED <<sent, answers>> /\ random' = random + 1 /\ random \in Nat
        /\ req_' \in 1 .. Len(sent) /\ SetTrace(h)
    <2>1. Answering' /\ UNCHANGED sent
      BY DEF OnRead, Answering, client
    <2>2. req_' \in 1 .. Len(sent)
      BY <1>1, <2>1 DEF OrderInv, HoldsRequests
    <2>3. QED
      BY <2>2 DEF OnRead, client, TraceInv, OrderInv, TypeInv
  <1>3. \A i \in 1 .. Len(sent) : Asked(i)' = Asked(i) /\ Asked(i) \in Int
    BY <1>2, IdTypes DEF Asked, TraceInv, OrderInv
  <1>4. \A i \in 1 .. Len(answers) : Told(i)' = Told(i) /\ Told(i) \in Int
    BY <1>2, IdTypes DEF Told, TraceInv, OrderInv
  <1>5. IdsAreDrawn'
    BY <1>2, <1>3, <1>4 DEF TraceInv, IdsAreDrawn
  <1>6. TraceIsOurs'
    <2>1. CASE valid(ParseTraceParent(h))
      <3>1. trace' = h.ctx /\ ParseTraceParent(h) = h.ctx
        BY <1>2, <2>1, HeaderFacts DEF SetTrace
      <3>2. trace'.trace_id <= random'
        BY <1>2, <1>3, <3>1 DEF TraceInv, IdsAreDrawn, Asked
      <3>3. QED
        BY <1>2, <2>1, <3>1, <3>2 DEF TraceIsOurs
    <2>2. CASE ~valid(ParseTraceParent(h))
      <3>1. trace' = NewRoot(random + 1)
        BY <1>2, <2>2 DEF SetTrace
      <3>2. valid(trace') /\ trace'.trace_id = random + 1
        BY <1>2, <3>1, HeaderFacts
      <3>3. \A j \in 1 .. Len(answers) : trace'.trace_id # Told(j)'
        BY <1>2, <1>4, <3>2 DEF TraceInv, IdsAreDrawn
      <3>4. QED
        BY <1>2, <2>2, <3>2, <3>3 DEF TraceIsOurs
    <2>3. QED
      BY <2>1, <2>2
  <1>7. TraceEchoed'
    BY <1>2 DEF TraceInv, TraceEchoed
  <1>8. QED
    BY <1>1, <1>5, <1>6, <1>7 DEF TraceInv

LEMMA OnWriteTrace == ASSUME TraceInv, OnWrite PROVE TraceInv'
  <1>1. OrderInv'
    BY OnWriteOrder DEF TraceInv
  <1>2. UNCHANGED <<sent, sending, trace, random>> /\ Answering /\ ~Answering'
        /\ random \in Nat
    BY DEF OnWrite, Read, client, Answering, TraceInv, OrderInv, TypeInv
  <1>3. CASE sending = "reset"
    <2>1. UNCHANGED answers
      BY <1>3 DEF OnWrite, Deliver
    <2>2. QED
      BY <1>1, <1>2, <2>1, SameTrace
  <1>4. CASE sending # "reset"
    <2> DEFINE a == [req |-> req_, traceparent |-> ToTraceParent(trace)]
               n == Len(answers) + 1
    <2>1. /\ a \in Responses /\ a.req = req_ /\ a.traceparent.ctx = trace
          /\ a.traceparent.wellFormed /\ valid(trace) /\ trace.trace_id <= random
      BY <1>2, ContextTypes, HeaderFacts
         DEF TraceInv, OrderInv, TypeInv, Responses, TraceIsOurs
    <2>2. answers' = Append(answers, a)
      BY <1>4 DEF OnWrite, Deliver
    <2> HIDE DEF a
    <2>3. /\ Len(answers') = n /\ Len(answers) \in Nat
          /\ \A i \in 1 .. Len(answers) : answers'[i] = answers[i]
          /\ answers'[n] = a
      BY <2>1, <2>2, AppendProperties, Lengths DEF TraceInv, OrderInv, TypeInv
    <2>4. /\ DOMAIN answers = 1 .. Len(answers) /\ DOMAIN answers' = 1 .. n
      BY <1>1, <2>3, LenProperties DEF TraceInv, OrderInv, TypeInv
    <2>5. IdsAreDrawn'
      <3>1. ASSUME NEW i \in 1 .. Len(answers')
            PROVE  /\ Told(i)' <= random
                   /\ answers'[i].traceparent.wellFormed
                   /\ valid(answers'[i].traceparent.ctx)
        <4>1. CASE i \in 1 .. Len(answers)
          <5>1. answers'[i] = answers[i]
            BY <2>3, <4>1
          <5>2. QED
            BY <4>1, <5>1 DEF TraceInv, IdsAreDrawn, Told
        <4>2. CASE i = n
          BY <2>1, <2>3, <4>2 DEF Told
        <4>3. QED
          BY <2>3, <4>1, <4>2
      <3>2. \A i \in 1 .. Len(sent) : Asked(i)' = Asked(i)
        BY <1>2 DEF Asked
      <3>3. QED
        BY <1>2, <3>1, <3>2 DEF TraceInv, IdsAreDrawn
    <2>6. TraceEchoed'
      <3>1. ASSUME NEW i \in DOMAIN answers'
            PROVE  LET theirs == sent[answers'[i].req].traceparent
                       ours == ParseTraceParent(answers'[i].traceparent)
                   IN  /\ valid(ours)
                       /\ IF valid(ParseTraceParent(theirs)) THEN ours = theirs.ctx
                          ELSE \A j \in 1 .. i - 1 :
                                 ours.trace_id # answers'[j].traceparent.ctx.trace_id
        <4>1. \A j \in 1 .. i - 1 : answers'[j] = answers[j] /\ j \in 1 .. Len(answers)
          BY <2>3, <2>4
        <4>2. CASE i \in DOMAIN answers
          <5>1. answers'[i] = answers[i]
            BY <2>3, <2>4, <4>2
          <5>2. QED
            BY <4>1, <4>2, <5>1 DEF TraceInv, TraceEchoed
        <4>3. CASE i = n
          <5>1. ParseTraceParent(answers'[i].traceparent) = trace /\ answers'[i].req = req_
            BY <2>1, <2>3, <4>3, HeaderFacts
          <5>2. QED
            BY <1>2, <2>1, <4>1, <5>1 DEF TraceInv, TraceIsOurs, Told
        <4>4. QED
          BY <2>3, <2>4, <4>2, <4>3
      <3>2. QED
        BY <1>2, <3>1 DEF TraceEchoed
    <2>7. TraceIsOurs'
      BY <1>2 DEF TraceIsOurs
    <2>8. QED
      BY <1>1, <2>5, <2>6, <2>7 DEF TraceInv
  <1>5. QED
    BY <1>3, <1>4

LEMMA StepTrace == TraceInv /\ [Next]_vars => TraceInv'
  <1> SUFFICES ASSUME TraceInv, [Next]_vars PROVE TraceInv'
    OBVIOUS
  <1>1. OrderInv' /\ random \in Nat
    BY StepOrder DEF TraceInv, OrderInv, TypeInv
  <1>2. CASE EndSending \/ Fetch \/ RunMiddleware \/ Respond \/ OnReadEnd \/ UNCHANGED vars
    <2>1. /\ UNCHANGED <<sent, answers, random, req_, trace>>
          /\ Answering' => Answering
      BY <1>2 DEF EndSending, Fetch, RunMiddleware, Respond, OnReadEnd, vars, client, Answering
    <2>2. QED
      BY <1>1, <2>1, SameTrace
  <1>3. QED
    BY <1>2, SendTrace, OnReadTrace, OnWriteTrace DEF Next, Session

-----------------------------------------------------------------------------
(* The middleware chain *)

Frames == [mw : Nat, left : Nat]
Calls == [idx : Nat, stack : Seq(Frames), passed : SUBSET Nat, handled : Nat]

\* The middlewares are entered in their order, each of them once; only the innermost has
\* a call of run() left, and then every one outside of it has made its call.
ChainOf(c) ==
    /\ c \in Calls
    /\ Len(c.stack) <= c.idx /\ c.idx <= Middlewares
    /\ \A k \in 1 .. Len(c.stack) :
         /\ c.stack[k].mw = Len(c.stack) - k
         /\ c.stack[k].left = 0 \/ (k = 1 /\ c.stack[k].left = 1)
    /\ Len(c.stack) > 0 /\ c.stack[1].left > 0 =>
         c.handled = 0 /\ Len(c.stack) = c.idx /\ c.passed = 0 .. c.idx - 2
    /\ c.handled > 0 => c.handled = 1 /\ c.passed = 0 .. Middlewares - 1

ChainInv == ChainOf(handling)

\* The calls of Handle() that may go on: all that has been entered has made its call.
Through(c) ==
    /\ ChainOf(c) /\ c.handled = 0
    /\ Len(c.stack) = c.idx /\ c.passed = 0 .. c.idx - 1
    /\ \A k \in 1 .. Len(c.stack) : c.stack[k].left = 0

Call(i, s, p, h) == [idx |-> i, stack |-> s, passed |-> p, handled |-> h]

LEMMA CallFields ==
    ASSUME NEW i \in Nat, NEW s \in Seq(Frames), NEW p \in SUBSET Nat, NEW h \in Nat
    PROVE  LET c == Call(i, s, p, h)
           IN  c \in Calls /\ c.idx = i /\ c.stack = s /\ c.passed = p /\ c.handled = h
  BY DEF Call, Calls

LEMMA CallTypes ==
    ASSUME NEW c \in Calls
    PROVE  /\ c = Call(c.idx, c.stack, c.passed, c.handled)
           /\ c.idx \in Nat /\ c.stack \in Seq(Frames) /\ c.passed \in SUBSET Nat
           /\ c.handled \in Nat
  BY DEF Call, Calls

LEMMA ChainFields ==
    ASSUME NEW i \in Nat, NEW s \in Seq(Frames), NEW p \in SUBSET Nat, NEW h \in Nat,
           Len(s) <= i, i <= Middlewares,
           \A k \in 1 .. Len(s) :
             s[k].mw = Len(s) - k /\ (s[k].left = 0 \/ (k = 1 /\ s[k].left = 1)),
           Len(s) > 0 /\ s[1].left > 0 => h = 0 /\ Len(s) = i /\ p = 0 .. i - 2,
           h > 0 => h = 1 /\ p = 0 .. Middlewares - 1
    PROVE  ChainOf(Call(i, s, p, h))
  <1> DEFINE c == Call(i, s, p, h)
  <1>1. c \in Calls /\ c.idx = i /\ c.stack = s /\ c.passed = p /\ c.handled = h
    BY CallFields
  <1> HIDE DEF c
  <1>2. ChainOf(c)
    BY <1>1 DEF ChainOf
  <1>3. QED
    BY <1>2 DEF c

LEMMA NoCallIsChain == Through(NoCall)
  <1>1. NoCall.stack \in Seq(Frames) /\ Len(NoCall.stack) = 0
    BY EmptySeq DEF NoCall
  <1>2. 0 .. -1 = {}
    OBVIOUS
  <1>3. NoCall \in Calls
    BY <1>1 DEF NoCall, Calls
  <1>4. QED
    BY <1>1, <1>2, <1>3, RouterAssumption DEF ChainOf, Through, NoCall

\* run() enters the next middleware, or the handler when there is none.
LEMMA RunKeepsChain ==
    ASSUME NextCalls \subseteq {0, 1}, NEW c, Through(c), NEW d \in Run(c)
    PROVE  ChainOf(d)
  <1>1. PICK i \in Nat, s \in Seq(Frames), p \in SUBSET Nat :
          /\ c = Call(i, s, p, 0) /\ Len(s) = i /\ p = 0 .. i - 1 /\ i <= Middlewares
          /\ \A k \in 1 .. Len(s) : s[k].mw = Len(s) - k /\ s[k].left = 0
    <2>1. c \in Calls
      BY DEF Through, ChainOf
    <2>2. PICK i \in Nat, s \in Seq(Frames), p \in SUBSET Nat, n \in Nat : c = Call(i, s, p, n)
      BY <2>1, CallTypes
    <2>3. c.idx = i /\ c.stack = s /\ c.passed = p /\ c.handled = n
      BY <2>2, CallFields
    <2>4. n = 0 /\ Len(s) = i /\ p = 0 .. i - 1 /\ i <= Middlewares
          /\ \A k \in 1 .. Len(s) : s[k].mw = Len(s) - k /\ s[k].left = 0
      BY <2>3 DEF Through, ChainOf
    <2>5. QED
      BY <2>2, <2>4
  <1>2. c.idx = i /\ Middlewares \in Nat
    BY <1>1, CallFields, RouterAssumption
  <1>3. CASE i < Middlewares
    <2>1. PICK n \in NextCalls :
            d = [c EXCEPT !.idx = @ + 1, !.stack = <<[mw |-> c.idx, left |-> n]>> \o @]
      BY <1>2, <1>3 DEF Run
    <2> DEFINE frame == [mw |-> i, left |-> n]
    <2>2. frame \in Frames /\ frame.mw = i /\ (frame.left = 0 \/ frame.left = 1)
      BY DEF Frames
    <2>3. d = Call(i + 1, <<frame>> \o s, p, 0)
      BY <1>1, <1>2, <2>1 DEF Call
    <2> HIDE DEF frame
    <2> DEFINE t == <<frame>> \o s
    <2>4. <<frame>> \in Seq(Frames) /\ Len(<<frame>>) = 1 /\ <<frame>>[1] = frame
      BY <2>2
    <2>5. /\ t \in Seq(Frames) /\ Len(t) = i + 1
          /\ \A k \in 1 .. i + 1 : t[k] = IF k <= 1 THEN <<frame>>[k] ELSE s[k - 1]
      BY <1>1, <2>4, ConcatProperties
    <2> HIDE DEF t
    <2>6. ASSUME NEW k \in 1 .. Len(t)
          PROVE  t[k].mw = Len(t) - k /\ (t[k].left = 0 \/ (k = 1 /\ t[k].left = 1))
      <3>1. CASE k = 1
        <4>1. t[k] = frame
          BY <2>4, <2>5, <3>1
        <4>2. QED
          BY <2>2, <2>5, <3>1, <4>1
      <3>2. CASE k # 1
        <4>1. k - 1 \in 1 .. Len(s) /\ t[k] = s[k - 1]
          BY <1>1, <2>5, <3>2
        <4>2. s[k - 1].mw = Len(s) - (k - 1) /\ s[k - 1].left = 0
          BY <1>1, <4>1
        <4>3. QED
          BY <1>1, <2>5, <4>1, <4>2
      <3>3. QED
        BY <3>1, <3>2
    <2>7. p = 0 .. (i + 1) - 2
      BY <1>1
    <2>8. ChainOf(Call(i + 1, t, p, 0))
      <3>1. i + 1 \in Nat /\ Len(t) <= i + 1 /\ i + 1 <= Middlewares
        BY <1>2, <1>3, <2>5
      <3>2. 0 \in Nat /\ ~(0 > 0)
        OBVIOUS
      <3>3. QED
        BY <2>5, <2>6, <2>7, <3>1, <3>2, ChainFields
    <2>9. QED
      BY <2>3, <2>8 DEF t
  <1>4. CASE ~(i < Middlewares)
    <2>1. d = Call(i, s, p, 1)
      BY <1>1, <1>2, <1>4 DEF Run, Call
    <2>2. i = Middlewares
      BY <1>1, <1>2, <1>4
    <2>3. Len(s) > 0 => s[1].left = 0
      BY <1>1
    <2>4. p = 0 .. Middlewares - 1
      BY <1>1, <2>2
    <2>5. ChainOf(Call(i, s, p, 1))
      BY <1>1, <2>2, <2>3, <2>4, ChainFields
    <2>6. QED
      BY <2>1, <2>5
  <1>5. QED
    BY <1>3, <1>4

LEMMA HandleKeepsChain ==
    ASSUME NextCalls \subseteq {0, 1}, NEW found \in BOOLEAN, Handle(found)
    PROVE  ChainInv'
  BY NoCallIsChain, RunKeepsChain DEF Handle, ChainInv, Through

LEMMA NextKeepsChain ==
    ASSUME NextCalls \subseteq {0, 1}, ChainInv, CallNext
    PROVE  ChainInv'
  <1>1. PICK i \in Nat, s \in Seq(Frames), p \in SUBSET Nat, h \in Nat :
          handling = Call(i, s, p, h)
    BY CallTypes DEF ChainInv, ChainOf
  <1>2. handling.idx = i /\ handling.stack = s /\ handling.passed = p /\ handling.handled = h
    BY <1>1, CallFields
  <1>3. s # <<>> /\ Len(s) \in Nat \ {0} /\ s[1].left > 0
    BY <1>2, EmptySeq DEF CallNext, InMiddleware
  <1>4. /\ h = 0 /\ Len(s) = i /\ p = 0 .. i - 2 /\ i <= Middlewares
        /\ \A k \in 1 .. Len(s) : s[k].mw = Len(s) - k /\ (s[k].left = 0 \/ (k = 1 /\ s[k].left = 1))
    BY <1>2, <1>3 DEF ChainInv, ChainOf
  <1>5. s[1] \in Frames /\ s[1].mw = i - 1 /\ s[1].left = 1
    BY <1>3, <1>4, ElementOfSeq
  <1> DEFINE top == [s[1] EXCEPT !.left = @ - 1]
             t == [s EXCEPT ![1] = top]
             q == p \cup {s[1].mw}
  <1>6. top \in Frames /\ top.mw = i - 1 /\ top.left = 0
    BY <1>5 DEF Frames
  <1>7. [handling EXCEPT !.stack[1].left = @ - 1, !.passed = @ \cup {handling.stack[1].mw}]
          = Call(i, t, q, h)
    <2>1. [handling EXCEPT !.stack[1].left = @ - 1]
            = [handling EXCEPT !.stack =
                 [handling.stack EXCEPT ![1] = [handling.stack[1] EXCEPT !.left = @ - 1]]]
      BY <1>1 DEF Call
    <2>2. [handling EXCEPT !.stack =
             [handling.stack EXCEPT ![1] = [handling.stack[1] EXCEPT !.left = @ - 1]]]
            = Call(i, t, p, h)
      BY <1>1, <1>2 DEF Call
    <2>3. [Call(i, t, p, h) EXCEPT !.passed = @ \cup {s[1].mw}] = Call(i, t, q, h)
      <3> HIDE DEF t, q
      <3>1. [Call(i, t, p, h) EXCEPT !.passed = q] = Call(i, t, q, h)
        BY DEF Call
      <3>2. Call(i, t, p, h).passed \cup {s[1].mw} = q
        BY DEF Call, q
      <3>3. QED
        BY <3>1, <3>2
    <2>4. [handling EXCEPT !.stack[1].left = @ - 1, !.passed = @ \cup {handling.stack[1].mw}]
            = [[handling EXCEPT !.stack[1].left = @ - 1]
                 EXCEPT !.passed = @ \cup {handling.stack[1].mw}]
      BY <1>1 DEF Call
    <2>5. QED
      BY <1>2, <2>1, <2>2, <2>3, <2>4
  <1> HIDE DEF top
  <1>8. /\ t \in Seq(Frames) /\ Len(t) = i
        /\ \A k \in 1 .. i : t[k] = IF k = 1 THEN top ELSE s[k]
    BY <1>3, <1>4, <1>6, ExceptSeq
  <1>9. q = 0 .. i - 1 /\ q \in SUBSET Nat
    BY <1>3, <1>4, <1>5
  <1> HIDE DEF t, q
  <1>10. ASSUME NEW k \in 1 .. Len(t) PROVE t[k].mw = Len(t) - k /\ t[k].left = 0
    <2>1. CASE k = 1
      BY <1>6, <1>8, <2>1
    <2>2. CASE k # 1
      BY <1>4, <1>8, <2>2
    <2>3. QED
      BY <2>1, <2>2
  <1>11. t[1].left = 0
    BY <1>3, <1>4, <1>6, <1>8
  <1>12. ChainOf(Call(i, t, q, h))
    <2>1. Len(t) <= i /\ i <= Middlewares /\ ~(h > 0) /\ ~(Len(t) > 0 /\ t[1].left > 0)
      BY <1>4, <1>8, <1>11
    <2>2. QED
      BY <1>8, <1>9, <1>10, <2>1, ChainFields
  <1>13. Through(Call(i, t, q, h))
    BY <1>4, <1>8, <1>9, <1>10, <1>12, CallFields DEF Through
  <1>14. handling' \in Run(Call(i, t, q, h))
    BY <1>7 DEF CallNext
  <1>15. QED
    BY <1>13, <1>14, RunKeepsChain DEF ChainInv

LEMMA ReturnKeepsChain == ASSUME ChainInv, MiddlewareReturns PROVE ChainInv'
  <1>1. PICK i \in Nat, s \in Seq(Frames), p \in SUBSET Nat, h \in Nat :
          handling = Call(i, s, p, h)
    BY CallTypes DEF ChainInv, ChainOf
  <1>2. handling.idx = i /\ handling.stack = s /\ handling.passed = p /\ handling.handled = h
    BY <1>1, CallFields
  <1>3. s # <<>> /\ Len(s) \in Nat \ {0}
    BY <1>2, EmptySeq DEF MiddlewareReturns, InMiddleware
  <1>4. /\ Len(s) <= i /\ i <= Middlewares
        /\ \A k \in 1 .. Len(s) : s[k].mw = Len(s) - k /\ (s[k].left = 0 \/ k = 1)
        /\ h > 0 => h = 1 /\ p = 0 .. Middlewares - 1
    BY <1>2 DEF ChainInv, ChainOf
  <1> DEFINE t == Tail(s)
  <1>5. /\ t \in Seq(Frames) /\ Len(t) = Len(s) - 1
        /\ \A k \in 1 .. Len(t) : t[k] = s[k + 1]
    BY <1>3, HeadTailProperties
  <1>6. handling' = Call(i, t, p, h)
    BY <1>1, <1>2 DEF MiddlewareReturns, Call
  <1> HIDE DEF t
  <1>7. ASSUME NEW k \in 1 .. Len(t) PROVE t[k].mw = Len(t) - k /\ t[k].left = 0
    <2>1. k + 1 \in 1 .. Len(s) /\ k + 1 # 1 /\ t[k] = s[k + 1]
      BY <1>3, <1>5
    <2>2. s[k + 1].mw = Len(s) - (k + 1) /\ s[k + 1].left = 0
      BY <1>4, <2>1
    <2>3. QED
      BY <1>3, <1>5, <2>1, <2>2
  <1>8. Len(t) <= i /\ (Len(t) > 0 => t[1].left = 0)
    BY <1>3, <1>4, <1>5, <1>7
  <1>9. ChainOf(Call(i, t, p, h))
    BY <1>4, <1>5, <1>7, <1>8, ChainFields
  <1>10. QED
    BY <1>6, <1>9 DEF ChainInv

LEMMA StepChain ==
    ASSUME NextCalls \subseteq {0, 1}
    PROVE  ChainInv /\ [Next]_vars => ChainInv'
  <1> SUFFICES ASSUME ChainInv, [Next]_vars PROVE ChainInv'
    OBVIOUS
  <1>1. CASE OnRead
    BY <1>1, HandleKeepsChain DEF OnRead
  <1>2. CASE RunMiddleware
    BY <1>2, NextKeepsChain, ReturnKeepsChain DEF RunMiddleware
  <1>3. CASE Respond
    BY <1>3, NoCallIsChain DEF Respond, ChainInv, Through
  <1>4. CASE UNCHANGED handling
    BY <1>4 DEF ChainInv
  <1>5. QED
    BY <1>1, <1>2, <1>3, <1>4
       DEF Next, Session, Send, EndSending, Fetch, OnReadEnd, OnWrite, vars

-----------------------------------------------------------------------------
(* The theorems *)

\* However the client pipelines and the bytes arrive, requests are answered once and in
\* order, and none is lost between the socket and the answers (HttpSession, OnRead).
THEOREM InOrder == Spec => []AnswersInOrder
  BY InitOrder, StepOrder, OrderIsKept, PTL DEF Spec

\* Nothing is answered after a request that closes the connection (need_eof in OnWrite).
THEOREM ClosesForGood == Spec => []NoAnswerAfterClose
  <1>1. OrderInv => NoAnswerAfterClose
    BY DEF OrderInv
  <1>2. QED
    BY <1>1, InitOrder, StepOrder, PTL DEF Spec

\* Every response has the trace context of its own request, or a valid new one that no
\* earlier response had (OnRead: ParseTraceParent, NewRoot, ToTraceParent).
THEOREM TracesEchoed == Spec => []TraceEchoed
  <1>1. TraceInv => TraceEchoed
    BY DEF TraceInv
  <1>2. QED
    BY <1>1, InitTrace, StepTrace, PTL DEF Spec

\* The handler runs at most once, after every middleware has called its continuation,
\* for any number of middlewares that call it at most once each (Router::Handle).
THEOREM GuardedHandler ==
    ASSUME NextCalls \subseteq {0, 1}
    PROVE  Spec => []HandlerIsGuarded
  <1>1. Init => ChainInv
    BY NoCallIsChain DEF Init, ChainInv, Through
  <1>2. ChainInv => HandlerIsGuarded
    BY DEF ChainInv, ChainOf, HandlerIsGuarded
  <1>3. QED
    BY <1>1, <1>2, StepChain, PTL DEF Spec
====
