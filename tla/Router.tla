------------------------------- MODULE Router -------------------------------
(***************************************************************************)
(* Router::Handle (src/src/http/router.cpp:22-46): the lookup of the route *)
(* and the middleware chain.                                               *)
(*                                                                         *)
(* Every middleware is handed the same continuation, run(), and the calls  *)
(* of run() made by one Handle() share one position idx.  A middleware is  *)
(* user code; what matters of it is how often it calls its continuation:   *)
(* not at all when it answers itself, once, or more often.                 *)
(***************************************************************************)
EXTENDS Naturals, Sequences

CONSTANTS
    Middlewares,  \* number of middlewares in middleware_
    NextCalls     \* how often a middleware may call its continuation

ASSUME RouterAssumption == Middlewares \in Nat /\ NextCalls \subseteq Nat

\* The call of Handle(): the shared idx, the middlewares that have been entered and
\* have not returned (innermost first, with the calls of run() they will still make),
\* ghosts: which middlewares have called run(), how often the handler has run.
VARIABLE handling

NoCall == [idx |-> 0, stack |-> <<>>, passed |-> {}, handled |-> 0]

\* run(): the chain's next middleware is entered, or the handler runs.
Run(call) ==
    IF call.idx < Middlewares
    THEN {[call EXCEPT !.idx = @ + 1, !.stack = <<[mw |-> call.idx, left |-> n]>> \o @] :
            n \in NextCalls}
    ELSE {[call EXCEPT !.handled = @ + 1]}

\* Without a route for the request Handle() answers 404 and enters nothing.
Handle(found) == IF found THEN handling' \in Run(NoCall) ELSE handling' = NoCall

InMiddleware == handling.stack # <<>>

CallNext ==
    /\ InMiddleware /\ handling.stack[1].left > 0
    /\ handling' \in Run([handling EXCEPT !.stack[1].left = @ - 1,
                                          !.passed = @ \cup {handling.stack[1].mw}])

MiddlewareReturns_Falls ==
    /\ InMiddleware /\ handling.stack[1].left = 0
    /\ handling' = [handling EXCEPT !.stack = Tail(@), !.handled = @ + 1]
MiddlewareReturns ==
    /\ InMiddleware /\ handling.stack[1].left = 0
    /\ handling' = [handling EXCEPT !.stack = Tail(@)]

\* The handler runs once at most, and only when every middleware has called its
\* continuation: none can be passed by, and one that answers itself ends the chain.
\* (Holds for middlewares that call it once at most: see the README.)
HandlerIsGuarded ==
    handling.handled > 0 =>
        handling.handled = 1 /\ handling.passed = 0 .. Middlewares - 1
=============================================================================
