----------------------------- MODULE AppContract -----------------------------
(***************************************************************************)
(* What an application promises, without flags, locks or loops.  Run()     *)
(* brings up all workers, then all servers, then serves until it is        *)
(* stopped; a stop takes the servers down, then the workers, and only then *)
(* does Run() return.  There is no way back to an earlier phase.  A signal *)
(* that a worker handles is the exception: it ends the process, and Run()  *)
(* never returns.  Module App implements this specification.               *)
(***************************************************************************)
CONSTANTS Workers, Servers

VARIABLES phase,      \* "new", "starting", "serving", "stopping", "stopped" or "over";
                      \* after a signal "dying" and "dead"
          busy,       \* the workers that run their context
          accepting   \* the servers that run

vars == <<phase, busy, accepting>>

Init ==
    /\ phase = "new"
    /\ busy = {}
    /\ accepting = {}

Become(from, to) == phase = from /\ phase' = to /\ UNCHANGED <<busy, accepting>>

Enter == Become("new", "starting")

StartWorker(w) ==
    /\ phase = "starting" /\ accepting = {}
    /\ busy' = busy \cup {w}
    /\ UNCHANGED <<phase, accepting>>

StartServer(s) ==
    /\ phase = "starting" /\ busy = Workers
    /\ accepting' = accepting \cup {s}
    /\ UNCHANGED <<phase, busy>>

Serve == busy = Workers /\ accepting = Servers /\ Become("starting", "serving")

Stop == Become("serving", "stopping")

StopServer(s) ==
    /\ phase = "stopping"
    /\ accepting' = accepting \ {s}
    /\ UNCHANGED <<phase, busy>>

EndWorker(w) ==
    /\ phase = "stopping" /\ accepting = {}
    /\ busy' = busy \ {w}
    /\ UNCHANGED <<phase, accepting>>

Stopped == busy = {} /\ accepting = {} /\ Become("stopping", "stopped")

\* Run() returns, or the application is destroyed without a Run().
Leave == Become("stopped", "over") \/ Become("new", "over")

Signal == busy # {} /\ (Become("starting", "dying") \/ Become("serving", "dying"))

Die ==
    /\ phase = "dying" /\ phase' \in {"dying", "dead"}
    /\ busy' \subseteq Workers /\ accepting' \subseteq Servers

Next ==
    \/ Enter \/ Serve \/ Stop \/ Stopped \/ Leave \/ Signal \/ Die
    \/ \E w \in Workers : StartWorker(w) \/ EndWorker(w)
    \/ \E s \in Servers : StartServer(s) \/ StopServer(s)

Spec == Init /\ [][Next]_vars
=============================================================================
