---------------------------- MODULE TraceContext ----------------------------
(***************************************************************************)
(* chmicro::TraceContext (src/src/core/trace.cpp) as operators.            *)
(*                                                                         *)
(* An id that has the right length, is lower-case hexadecimal and not all  *)
(* zero is a positive number, one that is all zero 0, an ill-formed one -1.*)
(* A header is what it looks like apart from the ids (length, dashes and   *)
(* version: wellFormed) and the context that it spells.  Random ids are    *)
(* given by the caller, r, and taken to be new and not all zero.           *)
(***************************************************************************)
EXTENDS Integers

Flags == {"00", "01"}
Empty == [trace_id |-> -1, span_id |-> -1, flags |-> ""]

valid(ctx) == ctx.trace_id > 0 /\ ctx.span_id > 0 /\ ctx.flags \in Flags

NewRoot(r) == [trace_id |-> r, span_id |-> r, flags |-> "01"]

NewChild(parent, r) ==
    LET ctx == [parent EXCEPT !.span_id = r, !.flags = IF @ = "" THEN "01" ELSE @]
    IN  IF valid(ctx) THEN ctx ELSE NewRoot(r)

NoHeader == [wellFormed |-> FALSE, ctx |-> Empty]

ParseTraceParent(h) == IF h.wellFormed /\ valid(h.ctx) THEN h.ctx ELSE Empty

ToTraceParent(ctx) == IF valid(ctx) THEN [wellFormed |-> TRUE, ctx |-> ctx] ELSE NoHeader
=============================================================================
