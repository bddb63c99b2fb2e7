------------------------------ MODULE KvService ------------------------------
(***************************************************************************)
(* The KV service (src/examples/kv/kv_service.cpp): its sharded store and  *)
(* the handlers of /put, /get and /stats, called by clients that have one  *)
(* request each under way.                                                 *)
(*                                                                         *)
(* A critical section of a shard's mutex is one step; Size() takes one     *)
(* shard after the other.  The n-th value that is put under a key is n, so *)
(* that a value tells how fresh it is.  In this program the server's one   *)
(* context has one thread, and Threads = 1; the store's mutexes are there  *)
(* for more, and so is the checked instance.                               *)
(***************************************************************************)
EXTENDS Naturals, FiniteSets

CONSTANTS
    Clients, Keys,
    Shards,        \* shards_
    ShardIndex,    \* per key: its shard
    Threads,       \* handlers that run at the same time
    MaxRequests    \* bound: requests that the clients send

ASSUME KvAssumption ==
    /\ Keys # {} /\ IsFiniteSet(Keys)
    /\ Shards \in Nat \ {0} /\ ShardIndex \in [Keys -> 0 .. Shards - 1]
    /\ Threads \in Nat \ {0} /\ MaxRequests \in Nat

VARIABLES
    table_,    \* per shard and key: the value, 0: none
    call,      \* per client: its request and where it is (see Idle)
    requests,  \* requests sent so far
    acked      \* ghost: per key, the latest value whose put was answered with 200

vars == <<table_, call, requests, acked>>

\* at: "idle", "sent", "handler" or "answered"; input: "ok", "invalid" (no JSON, no key)
\* or "large"; next: the shard that Size() reads next; result: a value or a size;
\* floor: what must be visible to the request, as it was sent after that was answered.
Idle == [at |-> "idle", op |-> "get", key |-> CHOOSE k \in Keys : TRUE, input |-> "ok",
         next |-> 0, result |-> 0, status |-> 0, floor |-> 0]

KeysIn(shard) == {k \in Keys : table_[shard][k] # 0}
Stored == UNION {KeysIn(i) : i \in 0 .. Shards - 1}

Init ==
    /\ table_ = [i \in 0 .. Shards - 1 |-> [k \in Keys |-> 0]]
    /\ call = [c \in Clients |-> Idle]
    /\ requests = 0
    /\ acked = [k \in Keys |-> 0]

-----------------------------------------------------------------------------
(* The clients *)

Send(c) ==
    /\ call[c].at = "idle" /\ requests < MaxRequests
    /\ \E k \in Keys :
         \/ \E input \in {"ok", "invalid", "large"} : call' = [call EXCEPT ![c] =
              [Idle EXCEPT !.at = "sent", !.op = "put", !.key = k, !.input = input]]
         \/ \E input \in {"ok", "invalid"} : call' = [call EXCEPT ![c] =
              [Idle EXCEPT !.at = "sent", !.key = k, !.input = input, !.floor = acked[k]]]
         \/ call' = [call EXCEPT ![c] = [Idle EXCEPT !.at = "sent", !.op = "stats",
              !.floor = Cardinality({j \in Keys : acked[j] > 0})]]
    /\ requests' = requests + 1
    /\ UNCHANGED <<table_, acked>>

TakeAnswer(c) ==
    /\ call[c].at = "answered"
    /\ call' = [call EXCEPT ![c] = Idle]
    /\ acked' = IF call[c].op = "put" /\ call[c].status = 200
                THEN [acked EXCEPT ![call[c].key] = IF @ > call[c].result THEN @ ELSE call[c].result]
                ELSE acked
    /\ UNCHANGED <<table_, requests>>

-----------------------------------------------------------------------------
(* The handlers *)

Begin(c) ==
    /\ call[c].at = "sent"
    /\ Cardinality({d \in Clients : call[d].at = "handler"}) < Threads
    /\ call' = [call EXCEPT ![c].at = "handler"]
    /\ UNCHANGED <<table_, requests, acked>>

Handling(c, op) == call[c].at = "handler" /\ call[c].op = op
Answer(c, status, result) ==
    call' = [call EXCEPT ![c].at = "answered", ![c].status = status, ![c].result = result]

\* /put and /get with an input that they refuse.
Refuse(c) ==
    /\ call[c].at = "handler"
    /\ \/ call[c].input = "invalid" /\ Answer(c, 400, 0)
       \/ call[c].input = "large" /\ Answer(c, 413, 0)
    /\ UNCHANGED <<table_, requests, acked>>

\* Under the mutex of the key's shard: the value that Get() finds, and Put().
Value(k) == table_[ShardIndex[k]][k]
Store_Emplaces(k) == table_' = [table_ EXCEPT ![ShardIndex[k]][k] = 1]
Store(k) == table_' = [table_ EXCEPT ![ShardIndex[k]][k] = @ + 1]

Put(c) ==
    /\ Handling(c, "put") /\ call[c].input = "ok"
    /\ Store(call[c].key)
    /\ Answer(c, 200, Value(call[c].key) + 1)
    /\ UNCHANGED <<requests, acked>>

Get(c) ==
    /\ Handling(c, "get") /\ call[c].input = "ok"
    /\ LET v == Value(call[c].key) IN Answer(c, IF v = 0 THEN 404 ELSE 200, v)
    /\ UNCHANGED <<table_, requests, acked>>

\* Size(): one shard after the other.
AddShard_LastMissed(c) ==
    /\ Handling(c, "stats")
    /\ LET q == call[c]
           total == q.result + Cardinality(KeysIn(q.next))
       IN  IF q.next + 2 < Shards
           THEN call' = [call EXCEPT ![c].next = @ + 1, ![c].result = total]
           ELSE Answer(c, 200, total)
    /\ UNCHANGED <<table_, requests, acked>>
AddShard(c) ==
    /\ Handling(c, "stats")
    /\ LET q == call[c]
           total == q.result + Cardinality(KeysIn(q.next))
       IN  IF q.next + 1 < Shards
           THEN call' = [call EXCEPT ![c].next = @ + 1, ![c].result = total]
           ELSE Answer(c, 200, total)
    /\ UNCHANGED <<table_, requests, acked>>

-----------------------------------------------------------------------------
Handler(c) == Begin(c) \/ Refuse(c) \/ Put(c) \/ Get(c) \/ AddShard(c)

Next == \E c \in Clients : Send(c) \/ TakeAnswer(c) \/ Handler(c)

Spec == Init /\ [][Next]_vars

-----------------------------------------------------------------------------
(* Properties *)

\* A read returns a value at least as new as every one whose put was answered before
\* the read was sent, by whatever client; in particular it then finds the key.
ReadsAreFresh ==
    \A c \in Clients :
        call[c].at = "answered" /\ call[c].op = "get" /\ call[c].status # 400 =>
            call[c].result >= call[c].floor

\* Size() is no snapshot, but what /stats answers was the number of keys at some moment
\* of the call: not fewer than were acknowledged when the request was sent, and not
\* more than are stored when the answer is given.
SizeWasReal ==
    \A c \in Clients :
        call[c].at = "answered" /\ call[c].op = "stats" =>
            call[c].result \in call[c].floor .. Cardinality(Stored)
=============================================================================
