-------------------------- MODULE KvServiceProofs --------------------------
(***************************************************************************)
(* Proofs about KvService, for any clients, keys, shards and threads.      *)
(***************************************************************************)
EXTENDS KvService, FiniteSetTheorems, TLAPS

\* What a key holds in a table.
In(t, k) == t[ShardIndex[k]][k]
Tables == [0 .. Shards - 1 -> [Keys -> Nat]]

Calls == [at : {"idle", "sent", "handler", "answered"}, op : {"put", "get", "stats"},
          key : Keys, input : {"ok", "invalid", "large"}, next : Nat, result : Nat,
          status : Nat, floor : Nat]

\* What the proof needs of the types.
TypeInv ==
    /\ table_ \in Tables
    /\ call \in [Clients -> Calls]
    /\ acked \in [Keys -> Nat]

\* No value of the table is older than
\* one that was acknowledged, than the floor of a get or than the result of a put.
FloorsStored ==
    /\ \A k \in Keys : acked[k] <= Value(k)
    /\ \A c \in Clients :
         LET q == call[c]
         IN  /\ q.op = "get" => q.floor <= Value(q.key) /\ q.input # "large"
             /\ q.op = "put" /\ q.status = 200 => q.result <= Value(q.key)

IInv == TypeInv /\ FloorsStored /\ ReadsAreFresh

LEMMA KeysFinite == IsFiniteSet(Keys)
  BY KvAssumption

LEMMA IdleType == Idle \in Calls /\ Idle.op = "get" /\ Idle.floor = 0
                  /\ Idle.at = "idle" /\ Idle.input = "ok" /\ Idle.status = 0
  BY KvAssumption DEF Idle, Calls

LEMMA InNat == ASSUME NEW t \in Tables, NEW k \in Keys PROVE In(t, k) \in Nat
  BY KvAssumption DEF Tables, In

LEMMA InitInv == Init => IInv
  <1> SUFFICES ASSUME Init PROVE IInv
    OBVIOUS
  <1>1. TypeInv
    BY IdleType DEF Init, TypeInv, Tables
  <1>2. \A k \in Keys : Value(k) = 0 /\ acked[k] = 0
    BY KvAssumption DEF Init, Value
  <1>3. \A c \in Clients : call[c] = Idle
    BY DEF Init
  <1>4. FloorsStored
    <2>1. Idle.key \in Keys
      BY IdleType DEF Calls
    <2>2. QED
      BY <1>2, <1>3, <2>1, IdleType DEF FloorsStored
  <1>5. ReadsAreFresh
    BY <1>3, IdleType DEF ReadsAreFresh
  <1>6. QED
    BY <1>1, <1>4, <1>5 DEF IInv

-----------------------------------------------------------------------------
(* Of a step only the call that it changes is to be examined, as long as no value of *)
(* the table gets older and what is acknowledged is in the table.                     *)

\* What IInv says of one call q over a table t.
Sound(q, t) ==
    /\ q \in Calls
    /\ q.op = "get" => q.floor <= In(t, q.key) /\ q.input # "large"
    /\ q.op = "put" /\ q.status = 200 => q.result <= In(t, q.key)
    /\ q.at = "answered" /\ q.op = "get" /\ q.status # 400 => q.result >= q.floor

AckedIn(a, t) == \A k \in Keys : a[k] <= In(t, k)

LEMMA Inductive ==
    IInv <=> /\ table_ \in Tables /\ acked \in [Keys -> Nat] /\ AckedIn(acked, table_)
             /\ call \in [Clients -> Calls]
             /\ \A c \in Clients : Sound(call[c], table_)
  BY DEF IInv, TypeInv, FloorsStored, ReadsAreFresh, Sound, AckedIn, In, Value

LEMMA InductiveNext ==
    ASSUME table_' \in Tables, acked' \in [Keys -> Nat], AckedIn(acked', table_'),
           call' \in [Clients -> Calls], \A c \in Clients : Sound(call'[c], table_')
    PROVE  IInv'
  BY DEF IInv, TypeInv, FloorsStored, ReadsAreFresh, Sound, AckedIn, In, Value

\* A call that was sound stays so over a table with newer values.
LEMMA SoundOverNewer ==
    ASSUME NEW t \in Tables, NEW u \in Tables, NEW q, Sound(q, t),
           \A k \in Keys : In(u, k) >= In(t, k)
    PROVE  Sound(q, u)
  <1>1. q.key \in Keys /\ q.floor \in Nat /\ q.result \in Nat
    BY DEF Sound, Calls
  <1>2. In(t, q.key) \in Nat /\ In(u, q.key) \in Nat /\ In(u, q.key) >= In(t, q.key)
    BY <1>1, InNat
  <1>3. QED
    BY <1>1, <1>2 DEF Sound

LEMMA OneCall ==
    ASSUME IInv, NEW c \in Clients, NEW q, call' = [call EXCEPT ![c] = q],
           table_' \in Tables, Sound(q, table_'),
           acked' \in [Keys -> Nat], AckedIn(acked', table_'),
           \A k \in Keys : In(table_', k) >= In(table_, k)
    PROVE  IInv'
  <1>1. table_ \in Tables /\ call \in [Clients -> Calls]
        /\ \A d \in Clients : Sound(call[d], table_)
    BY Inductive
  <1>2. call' \in [Clients -> Calls] /\ call'[c] = q
    BY <1>1 DEF Sound
  <1>3. ASSUME NEW d \in Clients PROVE Sound(call'[d], table_')
    <2>1. CASE d = c
      BY <1>2, <2>1
    <2>2. CASE d # c
      <3>1. call'[d] = call[d]
        BY <1>1, <2>2
      <3>2. Sound(call[d], table_')
        BY <1>1, SoundOverNewer
      <3>3. QED
        BY <3>1, <3>2
    <2>3. QED
      BY <2>1, <2>2
  <1>4. QED
    BY <1>2, <1>3, InductiveNext

\* The same for a step that leaves the table and the acknowledged values alone.
LEMMA OnlyTheCall ==
    ASSUME IInv, NEW c \in Clients, NEW q, call' = [call EXCEPT ![c] = q],
           UNCHANGED <<table_, acked>>, Sound(q, table_)
    PROVE  IInv'
  <1>1. table_ \in Tables /\ acked \in [Keys -> Nat] /\ AckedIn(acked, table_)
    BY Inductive
  <1>2. \A k \in Keys : In(table_', k) >= In(table_, k)
    BY <1>1, InNat
  <1>3. QED
    BY <1>1, <1>2, OneCall

\* What IInv says of the call of one client, and of its key.
LEMMA AtCall ==
    ASSUME IInv, NEW c \in Clients
    PROVE  /\ Sound(call[c], table_) /\ call[c] \in Calls /\ call \in [Clients -> Calls]
           /\ Value(call[c].key) = In(table_, call[c].key)
           /\ Value(call[c].key) \in Nat
  <1>1. call[c] \in Calls /\ table_ \in Tables
    BY Inductive
  <1>2. call[c].key \in Keys
    BY <1>1 DEF Calls
  <1>3. QED
    BY <1>1, <1>2, Inductive, InNat DEF In, Value

LEMMA SendInv == ASSUME IInv, NEW c \in Clients, Send(c) PROVE IInv'
  <1>1. UNCHANGED <<table_, acked>>
    BY DEF Send
  <1>2. ASSUME NEW k \in Keys, NEW input \in {"ok", "invalid", "large"},
               call' = [call EXCEPT ![c] =
                 [Idle EXCEPT !.at = "sent", !.op = "put", !.key = k, !.input = input]]
        PROVE  IInv'
    <2> DEFINE q == [Idle EXCEPT !.at = "sent", !.op = "put", !.key = k, !.input = input]
    <2>1. q \in Calls /\ q.op = "put" /\ q.status = 0
      BY IdleType DEF Calls
    <2>2. Sound(q, table_)
      BY <2>1 DEF Sound
    <2>3. QED
      BY <1>1, <1>2, <2>2, OnlyTheCall
  <1>3. ASSUME NEW k \in Keys, NEW input \in {"ok", "invalid"},
               call' = [call EXCEPT ![c] =
                 [Idle EXCEPT !.at = "sent", !.key = k, !.input = input, !.floor = acked[k]]]
        PROVE  IInv'
    <2> DEFINE q == [Idle EXCEPT !.at = "sent", !.key = k, !.input = input,
                                 !.floor = acked[k]]
    <2>1. acked[k] \in Nat /\ acked[k] <= In(table_, k)
      BY Inductive DEF AckedIn
    <2>2. q \in Calls /\ q.at = "sent" /\ q.op = "get" /\ q.key = k /\ q.floor = acked[k]
          /\ q.input # "large"
      BY <2>1, IdleType DEF Calls
    <2>3. Sound(q, table_)
      BY <2>1, <2>2 DEF Sound
    <2>4. QED
      BY <1>1, <1>3, <2>3, OnlyTheCall
  <1>4. ASSUME NEW k \in Keys,
               call' = [call EXCEPT ![c] = [Idle EXCEPT !.at = "sent", !.op = "stats",
                 !.floor = Cardinality({j \in Keys : acked[j] > 0})]]
        PROVE  IInv'
    <2> DEFINE n == Cardinality({j \in Keys : acked[j] > 0})
               q == [Idle EXCEPT !.at = "sent", !.op = "stats", !.floor = n]
    <2>1. n \in Nat
      BY KeysFinite, FS_Subset, FS_CardinalityType
    <2> HIDE DEF n
    <2>2. q \in Calls /\ q.op = "stats"
      BY <2>1, IdleType DEF Calls
    <2>3. Sound(q, table_)
      BY <2>2 DEF Sound
    <2>4. QED
      BY <1>1, <1>4, <2>3, OnlyTheCall DEF n
  <1>5. QED
    BY <1>2, <1>3, <1>4 DEF Send

LEMMA TakeAnswerInv == ASSUME IInv, NEW c \in Clients, TakeAnswer(c) PROVE IInv'
  <1>1. table_' = table_ /\ call' = [call EXCEPT ![c] = Idle]
    BY DEF TakeAnswer
  <1>2. table_ \in Tables /\ acked \in [Keys -> Nat] /\ AckedIn(acked, table_)
        /\ Sound(call[c], table_)
    BY Inductive
  <1>3. Idle.key \in Keys /\ Sound(Idle, table_)
    BY <1>2, IdleType, InNat DEF Sound, Calls
  <1>4. acked' \in [Keys -> Nat] /\ AckedIn(acked', table_)
    <2>1. CASE call[c].op = "put" /\ call[c].status = 200
      <3>1. call[c].key \in Keys /\ call[c].result \in Nat
            /\ call[c].result <= In(table_, call[c].key)
        BY <1>2, <2>1 DEF Sound, Calls
      <3>2. acked' = [acked EXCEPT ![call[c].key] =
                        IF @ > call[c].result THEN @ ELSE call[c].result]
        BY <2>1 DEF TakeAnswer
      <3>3. QED
        BY <1>2, <3>1, <3>2 DEF AckedIn
    <2>2. CASE ~(call[c].op = "put" /\ call[c].status = 200)
      BY <1>2, <2>2 DEF TakeAnswer
    <2>3. QED
      BY <2>1, <2>2
  <1>5. \A k \in Keys : In(table_', k) >= In(table_, k)
    BY <1>1, <1>2, InNat
  <1>6. QED
    BY <1>1, <1>2, <1>3, <1>4, <1>5, OneCall

LEMMA BeginInv == ASSUME IInv, NEW c \in Clients, Begin(c) PROVE IInv'
  <1> DEFINE q == [call[c] EXCEPT !.at = "handler"]
  <1>1. UNCHANGED <<table_, acked>> /\ call' = [call EXCEPT ![c] = q]
    BY DEF Begin
  <1>2. Sound(q, table_)
    BY AtCall DEF Sound, Calls
  <1>3. QED
    BY <1>1, <1>2, OnlyTheCall

\* An answer's status and result, and the rest of the call.
Answered(q, status, result) ==
    [q EXCEPT !.at = "answered", !.status = status, !.result = result]

LEMMA AnswerCall ==
    ASSUME IInv, NEW c \in Clients, NEW status, NEW result, Answer(c, status, result)
    PROVE  call' = [call EXCEPT ![c] = Answered(call[c], status, result)]
  BY AtCall DEF Answer, Answered, Calls

LEMMA AnsweredFields ==
    ASSUME NEW q \in Calls, NEW status \in Nat, NEW result \in Nat
    PROVE  LET r == Answered(q, status, result)
           IN  /\ r \in Calls /\ r.at = "answered" /\ r.op = q.op /\ r.key = q.key
               /\ r.input = q.input /\ r.floor = q.floor
               /\ r.status = status /\ r.result = result
  BY DEF Answered, Calls

LEMMA RefuseInv == ASSUME IInv, NEW c \in Clients, Refuse(c) PROVE IInv'
  <1>1. PICK status \in {400, 413} :
          Answer(c, status, 0) /\ (status = 413 => call[c].input = "large")
    BY DEF Refuse
  <1> DEFINE q == Answered(call[c], status, 0)
  <1>2. Sound(call[c], table_) /\ call[c] \in Calls
    BY AtCall
  <1>3. /\ q \in Calls /\ q.op = call[c].op /\ q.key = call[c].key
        /\ q.input = call[c].input /\ q.floor = call[c].floor
        /\ q.status = status /\ q.result = 0
    BY <1>2, AnsweredFields
  <1> HIDE DEF q
  <1>4. Sound(q, table_)
    BY <1>1, <1>2, <1>3 DEF Sound
  <1>5. UNCHANGED <<table_, acked>> /\ call' = [call EXCEPT ![c] = q]
    BY <1>1, AnswerCall DEF Refuse, q
  <1>6. QED
    BY <1>4, <1>5, OnlyTheCall

\* A value of the table that Put() overwrites gets newer, the others stay.
LEMMA StoreNewer ==
    ASSUME IInv, NEW k \in Keys, Store(k)
    PROVE  /\ table_' \in Tables /\ In(table_', k) = In(table_, k) + 1
           /\ \A j \in Keys : In(table_', j) >= In(table_, j)
  <1>1. table_ \in Tables /\ ShardIndex \in [Keys -> 0 .. Shards - 1]
    BY Inductive, KvAssumption
  <1>2. table_' \in Tables
    BY <1>1 DEF Store, Tables
  <1>3. In(table_', k) = In(table_, k) + 1
    BY <1>1 DEF Store, Tables, In
  <1>4. ASSUME NEW j \in Keys, j # k PROVE In(table_', j) = In(table_, j)
    BY <1>1, <1>4 DEF Store, Tables, In
  <1>5. QED
    BY <1>1, <1>2, <1>3, <1>4, InNat

LEMMA PutInv == ASSUME IInv, NEW c \in Clients, Put(c) PROVE IInv'
  <1> DEFINE v == In(table_, call[c].key) + 1
             q == Answered(call[c], 200, v)
  <1>1. Sound(call[c], table_) /\ call[c] \in Calls /\ call[c].key \in Keys
        /\ v \in Nat /\ v = Value(call[c].key) + 1
    BY AtCall DEF Calls
  <1>2. /\ table_' \in Tables /\ In(table_', call[c].key) = v
        /\ \A j \in Keys : In(table_', j) >= In(table_, j)
    BY <1>1, StoreNewer DEF Put
  <1>3. call' = [call EXCEPT ![c] = q] /\ call[c].op = "put"
    BY <1>1, AnswerCall DEF Put, Handling
  <1>4. q \in Calls /\ q.op = "put" /\ q.key = call[c].key /\ q.result = v
    BY <1>1, <1>3, AnsweredFields
  <1> HIDE DEF q, v
  <1>5. Sound(q, table_')
    BY <1>1, <1>2, <1>4 DEF Sound
  <1>6. acked' \in [Keys -> Nat] /\ AckedIn(acked', table_')
    <2>1. acked' = acked /\ acked \in [Keys -> Nat] /\ AckedIn(acked, table_)
          /\ table_ \in Tables
      BY Inductive DEF Put
    <2>2. \A k \in Keys : In(table_, k) \in Nat /\ In(table_', k) \in Nat
      BY <1>2, <2>1, InNat
    <2>3. QED
      BY <1>2, <2>1, <2>2 DEF AckedIn
  <1>7. QED
    BY <1>2, <1>3, <1>5, <1>6, OneCall

LEMMA GetInv == ASSUME IInv, NEW c \in Clients, Get(c) PROVE IInv'
  <1> DEFINE v == In(table_, call[c].key)
             status == IF v = 0 THEN 404 ELSE 200
             q == Answered(call[c], status, v)
  <1>1. Sound(call[c], table_) /\ call[c] \in Calls /\ v \in Nat
        /\ v = Value(call[c].key) /\ status \in Nat
    BY AtCall
  <1>2. call' = [call EXCEPT ![c] = q] /\ call[c].op = "get" /\ UNCHANGED <<table_, acked>>
    BY <1>1, AnswerCall DEF Get, Handling
  <1>3. call[c].floor <= v /\ v = In(table_, call[c].key) /\ call[c].floor \in Nat
        /\ call[c].input # "large"
    BY <1>1, <1>2 DEF Sound, Calls
  <1> HIDE DEF v, status
  <1>4. /\ q \in Calls /\ q.op = call[c].op /\ q.key = call[c].key
        /\ q.input = call[c].input /\ q.floor = call[c].floor /\ q.result = v
    <2>1. call[c] \in Calls /\ status \in Nat /\ v \in Nat
      BY <1>1
    <2>2. QED
      BY ONLY <2>1, AnsweredFields
  <1> HIDE DEF q
  <1>5. Sound(q, table_)
    BY <1>1, <1>2, <1>3, <1>4 DEF Sound
  <1>6. QED
    BY <1>2, <1>5, OnlyTheCall

LEMMA OnwardFields ==
    ASSUME NEW q \in Calls, NEW total \in Nat
    PROVE  LET r == [q EXCEPT !.next = @ + 1, !.result = total]
           IN  /\ r \in Calls /\ r.op = q.op /\ r.at = q.at /\ r.input = q.input
               /\ r.next = q.next + 1 /\ r.result = total /\ r.floor = q.floor
  <1> DEFINE n == q.next + 1
             r == [q EXCEPT !.next = n, !.result = total]
  <1>1. n \in Nat
    BY DEF Calls
  <1> HIDE DEF n
  <1>2. /\ r \in Calls /\ r.op = q.op /\ r.at = q.at /\ r.input = q.input
        /\ r.next = n /\ r.result = total /\ r.floor = q.floor
    BY <1>1 DEF Calls
  <1>3. QED
    BY <1>2 DEF n

LEMMA AddShardInv == ASSUME IInv, NEW c \in Clients, AddShard(c) PROVE IInv'
  <1> DEFINE total == call[c].result + Cardinality(KeysIn(call[c].next))
             onward == [call[c] EXCEPT !.next = @ + 1, !.result = total]
  <1>1. call[c] \in Calls /\ call[c].op = "stats" /\ call \in [Clients -> Calls]
        /\ UNCHANGED <<table_, acked>>
    BY AtCall DEF AddShard, Handling
  <1>2. total \in Nat
    <2>1. Cardinality(KeysIn(call[c].next)) \in Nat
      BY KeysFinite, FS_Subset, FS_CardinalityType DEF KeysIn
    <2>2. QED
      BY <1>1, <2>1 DEF Calls
  <1> HIDE DEF total
  <1>3. \/ call' = [call EXCEPT ![c] = onward]
        \/ Answer(c, 200, total)
    BY <1>1 DEF AddShard, total
  <1>4. CASE call' = [call EXCEPT ![c] = onward]
    <2>1. onward \in Calls /\ onward.op = "stats"
      BY <1>1, <1>2, OnwardFields
    <2>2. Sound(onward, table_)
      BY <2>1 DEF Sound
    <2>3. QED
      BY <1>1, <1>4, <2>2, OnlyTheCall
  <1>5. CASE Answer(c, 200, total)
    <2> DEFINE q == Answered(call[c], 200, total)
    <2>1. q \in Calls /\ q.op = "stats"
      BY <1>1, <1>2, AnsweredFields
    <2>2. call' = [call EXCEPT ![c] = q]
      BY <1>2, <1>5, AnswerCall
    <2> HIDE DEF q
    <2>3. Sound(q, table_)
      BY <2>1 DEF Sound
    <2>4. QED
      BY <1>1, <2>2, <2>3, OnlyTheCall
  <1>6. QED
    BY <1>3, <1>4, <1>5

-----------------------------------------------------------------------------
LEMMA StepInv == IInv /\ [Next]_vars => IInv'
  <1> SUFFICES ASSUME IInv, [Next]_vars PROVE IInv'
    OBVIOUS
  <1>1. CASE Next
    BY <1>1, SendInv, TakeAnswerInv, BeginInv, RefuseInv, PutInv, GetInv, AddShardInv
       DEF Next, Handler
  <1>2. CASE UNCHANGED vars
    BY <1>2 DEF vars, IInv, TypeInv, FloorsStored, ReadsAreFresh, Value
  <1>3. QED
    BY <1>1, <1>2

\* Whatever clients, keys, shards and threads there are, a /get that begins after a /put
\* of its key was answered returns that value or a newer one (ShardedKvStore::Put, Get).
THEOREM ReadsFresh == Spec => []ReadsAreFresh
  <1>1. IInv => ReadsAreFresh
    BY DEF IInv
  <1>2. QED
    BY <1>1, InitInv, StepInv, PTL DEF Spec
-----------------------------------------------------------------------------
(* The size that /stats answers *)

\* The keys of A in the shards before n, and in shard n.
Before(A, n) == {k \in A : ShardIndex[k] < n}
Within(A, n) == {k \in A : ShardIndex[k] = n}

\* A key is stored in its own shard only.
InItsShard ==
    \A i \in 0 .. Shards - 1 : \A k \in Keys : table_[i][k] # 0 => ShardIndex[k] = i

\* What a call q of Size() has counted so far, when the keys in T are stored: in the shards
\* that it has read, no fewer than of the set A of those that were acknowledged when it
\* was sent, and no more than there are by now.
Counted(q, T, A) ==
    /\ A \subseteq T /\ Cardinality(A) = q.floor
    /\ Cardinality(Before(A, q.next)) <= q.result
    /\ q.result <= Cardinality(Before(T, q.next))

Counts(q, T) ==
    q.op = "stats" =>
        /\ q.input = "ok"
        /\ q.at \in {"sent", "handler"} =>
             q.next \in 0 .. Shards - 1 /\ \E A : Counted(q, T, A)
        /\ q.at = "answered" => q.floor <= q.result /\ q.result <= Cardinality(T)

SizeInv == InItsShard /\ \A c \in Clients : Counts(call[c], Stored)

LEMMA Shelves ==
    /\ Shards \in Nat \ {0} /\ ShardIndex \in [Keys -> 0 .. Shards - 1]
    /\ \A A \in SUBSET Keys : IsFiniteSet(A) /\ Cardinality(A) \in Nat
  BY KvAssumption, KeysFinite, FS_Subset, FS_CardinalityType

LEMMA MoreKeys ==
    ASSUME NEW T \in SUBSET Keys, NEW A \in SUBSET T
    PROVE  Cardinality(A) <= Cardinality(T)
  BY Shelves, FS_Subset

\* Counting one shard more,
LEMMA NextShard ==
    ASSUME NEW A \in SUBSET Keys, NEW n \in Nat
    PROVE  Cardinality(Before(A, n + 1)) = Cardinality(Before(A, n)) + Cardinality(Within(A, n))
  <1>1. Before(A, n) \cup Within(A, n) = Before(A, n + 1)
    BY Shelves DEF Before, Within
  <1>2. Before(A, n) \cap Within(A, n) = {}
    BY Shelves DEF Before, Within
  <1>3. Before(A, n) \in SUBSET Keys /\ Within(A, n) \in SUBSET Keys
    BY DEF Before, Within
  <1>4. /\ IsFiniteSet(Before(A, n)) /\ Cardinality(Before(A, n)) \in Nat
        /\ IsFiniteSet(Within(A, n)) /\ Cardinality(Within(A, n)) \in Nat
    BY <1>3, Shelves
  <1>5. Cardinality(Before(A, n) \cup Within(A, n))
          = Cardinality(Before(A, n)) + Cardinality(Within(A, n)) - Cardinality({})
    BY <1>2, <1>4, FS_Union
  <1>6. Cardinality({}) = 0
    BY FS_EmptySet
  <1>7. Cardinality(Before(A, n) \cup Within(A, n)) = Cardinality(Before(A, n + 1))
    BY <1>1
  <1>8. QED
    BY <1>4, <1>5, <1>6, <1>7

\* from none of them to all.
LEMMA AllShards ==
    ASSUME NEW A \in SUBSET Keys
    PROVE  Before(A, 0) = {} /\ Before(A, Shards) = A
  BY Shelves DEF Before

LEMMA StoredKeys ==
    ASSUME InItsShard
    PROVE  /\ Stored \in SUBSET Keys
           /\ \A k \in Keys : k \in Stored <=> Value(k) # 0
           /\ \A n \in 0 .. Shards - 1 : KeysIn(n) = Within(Stored, n)
  <1>1. Stored \in SUBSET Keys
    BY DEF Stored, KeysIn
  <1>2. ASSUME NEW k \in Keys PROVE k \in Stored <=> Value(k) # 0
    BY Shelves DEF Stored, KeysIn, Value, InItsShard
  <1>3. ASSUME NEW n \in 0 .. Shards - 1 PROVE KeysIn(n) = Within(Stored, n)
    BY <1>1, <1>2, Shelves DEF KeysIn, Within, Value, InItsShard
  <1>4. QED
    BY <1>1, <1>2, <1>3

\* Keys that are put later spoil no count.
LEMMA CountsOn ==
    ASSUME NEW q \in Calls, NEW U \in SUBSET Keys, NEW T \in SUBSET U, Counts(q, T)
    PROVE  Counts(q, U)
  <1>1. /\ T \in SUBSET Keys /\ Cardinality(T) \in Nat /\ Cardinality(U) \in Nat
        /\ Cardinality(T) <= Cardinality(U)
    BY Shelves, MoreKeys
  <1>2. q.result \in Nat
    BY DEF Calls
  <1>3. ASSUME NEW A, Counted(q, T, A) PROVE Counted(q, U, A)
    <2>1. Before(T, q.next) \in SUBSET Before(U, q.next) /\ Before(U, q.next) \in SUBSET Keys
      BY DEF Before
    <2>2. /\ Cardinality(Before(T, q.next)) <= Cardinality(Before(U, q.next))
          /\ Cardinality(Before(T, q.next)) \in Nat /\ Cardinality(Before(U, q.next)) \in Nat
      BY <2>1, Shelves, MoreKeys
    <2>3. QED
      BY <1>2, <1>3, <2>2 DEF Counted
  <1>4. QED
    BY <1>1, <1>2, <1>3 DEF Counts

\* A step that changes one call, and stores keys or not.
LEMMA OneCount ==
    ASSUME IInv, SizeInv, NEW c \in Clients, NEW q, call' = [call EXCEPT ![c] = q],
           InItsShard', Stored \subseteq Stored', Counts(q, Stored')
    PROVE  SizeInv'
  <1>1. call \in [Clients -> Calls]
    BY DEF IInv, TypeInv
  <1>2. Stored' \in SUBSET Keys
    BY DEF Stored, KeysIn
  <1>3. ASSUME NEW d \in Clients, d # c PROVE Counts(call'[d], Stored')
    <2>1. call'[d] = call[d] /\ call[d] \in Calls /\ Counts(call[d], Stored)
      BY <1>1, <1>3 DEF SizeInv
    <2>2. QED
      BY <1>2, <2>1, CountsOn
  <1>4. call'[c] = q
    BY <1>1
  <1>5. QED
    BY <1>3, <1>4 DEF SizeInv

LEMMA SendSize == ASSUME IInv, SizeInv, NEW c \in Clients, Send(c) PROVE SizeInv'
  <1>1. InItsShard' /\ Stored' = Stored /\ InItsShard
    BY DEF Send, SizeInv, InItsShard, Stored, KeysIn
  <1>2. ASSUME NEW q, q.op # "stats", call' = [call EXCEPT ![c] = q] PROVE SizeInv'
    BY <1>1, <1>2, OneCount DEF Counts
  <1>3. ASSUME NEW k \in Keys, NEW input \in {"ok", "invalid", "large"},
               call' = [call EXCEPT ![c] =
                 [Idle EXCEPT !.at = "sent", !.op = "put", !.key = k, !.input = input]]
        PROVE  SizeInv'
    <2>1. [Idle EXCEPT !.at = "sent", !.op = "put", !.key = k, !.input = input].op # "stats"
      BY IdleType DEF Calls
    <2>2. QED
      BY <1>2, <1>3, <2>1
  <1>4. ASSUME NEW k \in Keys, NEW input \in {"ok", "invalid"},
               call' = [call EXCEPT ![c] =
                 [Idle EXCEPT !.at = "sent", !.key = k, !.input = input, !.floor = acked[k]]]
        PROVE  SizeInv'
    <2>1. [Idle EXCEPT !.at = "sent", !.key = k, !.input = input,
                       !.floor = acked[k]].op # "stats"
      BY IdleType DEF Calls
    <2>2. QED
      BY <1>2, <1>4, <2>1
  <1>5. ASSUME call' = [call EXCEPT ![c] = [Idle EXCEPT !.at = "sent", !.op = "stats",
                 !.floor = Cardinality({j \in Keys : acked[j] > 0})]]
        PROVE  SizeInv'
    <2> DEFINE A == {j \in Keys : acked[j] > 0}
               n == Cardinality(A)
               q == [Idle EXCEPT !.at = "sent", !.op = "stats", !.floor = n]
    <2>1. A \subseteq Stored
      BY <1>1, StoredKeys, Inductive, InNat DEF AckedIn, Value, In
    <2>2. A \in SUBSET Keys /\ Stored \in SUBSET Keys
      BY <1>1, StoredKeys
    <2> HIDE DEF A, n
    <2>3. /\ q.op = "stats" /\ q.at = "sent" /\ q.input = "ok" /\ q.next = 0
          /\ q.result = 0 /\ q.floor = n
      BY DEF Idle
    <2> HIDE DEF q
    <2>4. Counted(q, Stored, A)
      BY <2>1, <2>2, <2>3, AllShards, FS_EmptySet DEF Counted, n
    <2>5. Counts(q, Stored)
      BY <2>3, <2>4, Shelves DEF Counts
    <2>6. call' = [call EXCEPT ![c] = q]
      BY <1>5 DEF q, n, A
    <2>7. QED
      BY <1>1, <2>5, <2>6, OneCount
  <1>6. QED
    BY <1>3, <1>4, <1>5 DEF Send

LEMMA AddShardSize == ASSUME IInv, SizeInv, NEW c \in Clients, AddShard(c) PROVE SizeInv'
  <1> DEFINE n == call[c].next
             total == call[c].result + Cardinality(KeysIn(n))
             onward == [call[c] EXCEPT !.next = @ + 1, !.result = total]
  <1>1. InItsShard' /\ Stored' = Stored /\ InItsShard
    BY DEF AddShard, SizeInv, InItsShard, Stored, KeysIn
  <1>2. /\ call[c] \in Calls /\ call[c].op = "stats" /\ call[c].at = "handler"
        /\ call \in [Clients -> Calls] /\ call[c].input = "ok"
        /\ n \in 0 .. Shards - 1
    BY AtCall DEF AddShard, Handling, SizeInv, Counts
  <1>3. PICK A : Counted(call[c], Stored, A)
    BY <1>2 DEF SizeInv, Counts
  <1>4. /\ A \in SUBSET Stored /\ A \in SUBSET Keys /\ Stored \in SUBSET Keys
        /\ KeysIn(n) = Within(Stored, n) /\ n \in Nat
    BY <1>1, <1>2, <1>3, StoredKeys DEF Counted
  <1>5. /\ Cardinality(Before(A, n + 1)) = Cardinality(Before(A, n)) + Cardinality(Within(A, n))
        /\ Cardinality(Before(Stored, n + 1))
             = Cardinality(Before(Stored, n)) + Cardinality(Within(Stored, n))
    BY <1>4, NextShard
  <1>6. Cardinality(Within(A, n)) <= Cardinality(Within(Stored, n))
    <2>1. Within(A, n) \in SUBSET Within(Stored, n) /\ Within(Stored, n) \in SUBSET Keys
      BY <1>4 DEF Within
    <2>2. QED
      BY <2>1, MoreKeys
  <1>7. /\ Cardinality(Before(A, n)) \in Nat /\ Cardinality(Within(A, n)) \in Nat
        /\ Cardinality(Before(Stored, n)) \in Nat /\ Cardinality(Within(Stored, n)) \in Nat
    BY <1>4, Shelves DEF Before, Within
  <1>8. /\ total \in Nat /\ Cardinality(Before(A, n + 1)) <= total
        /\ total <= Cardinality(Before(Stored, n + 1)) /\ call[c].floor = Cardinality(A)
    BY <1>2, <1>3, <1>4, <1>5, <1>6, <1>7 DEF Counted, Calls
  <1> HIDE DEF total
  <1>9. \/ n + 1 < Shards /\ call' = [call EXCEPT ![c] = onward]
        \/ ~(n + 1 < Shards) /\ Answer(c, 200, total)
    BY <1>2 DEF AddShard, total
  <1>10. CASE n + 1 < Shards /\ call' = [call EXCEPT ![c] = onward]
    <2>1. /\ onward.op = "stats" /\ onward.at = "handler" /\ onward.input = "ok"
          /\ onward.next = n + 1 /\ onward.result = total /\ onward.floor = call[c].floor
      BY <1>2, <1>8, OnwardFields
    <2> HIDE DEF onward
    <2>2. Counted(onward, Stored, A)
      BY <1>4, <1>8, <2>1 DEF Counted
    <2>3. n + 1 \in 0 .. Shards - 1
      BY <1>2, <1>10, Shelves
    <2>4. Counts(onward, Stored)
      BY <2>1, <2>2, <2>3 DEF Counts
    <2>5. QED
      BY <1>1, <1>10, <2>4, OneCount
  <1>11. CASE ~(n + 1 < Shards) /\ Answer(c, 200, total)
    <2> DEFINE q == Answered(call[c], 200, total)
    <2>1. /\ q.op = "stats" /\ q.at = "answered" /\ q.input = "ok"
          /\ q.floor = call[c].floor /\ q.result = total
      <3>1. call[c] \in Calls /\ 200 \in Nat /\ total \in Nat
        BY <1>2, <1>8
      <3>2. /\ q.op = call[c].op /\ q.at = "answered" /\ q.input = call[c].input
            /\ q.floor = call[c].floor /\ q.result = total
        BY ONLY <3>1, AnsweredFields
      <3>3. QED
        BY <1>2, <3>2
    <2>2. call' = [call EXCEPT ![c] = q]
      BY <1>11, AnswerCall
    <2> HIDE DEF q
    <2>3. n + 1 = Shards
      BY <1>2, <1>11, Shelves
    <2>4. Before(A, n + 1) = A /\ Before(Stored, n + 1) = Stored
      BY <1>4, <2>3, AllShards
    <2>5. Counts(q, Stored)
      BY <1>8, <2>1, <2>4 DEF Counts
    <2>6. QED
      BY <1>1, <2>2, <2>5, OneCount
  <1>12. QED
    BY <1>9, <1>10, <1>11

LEMMA PutSize == ASSUME IInv, SizeInv, NEW c \in Clients, Put(c) PROVE SizeInv'
  <1> DEFINE k == call[c].key
             v == Value(k) + 1
             q == Answered(call[c], 200, v)
  <1>1. /\ call[c] \in Calls /\ k \in Keys /\ table_ \in Tables /\ v \in Nat
        /\ call[c].op = "put" /\ Store(k) /\ InItsShard
    BY AtCall, Inductive DEF Put, Handling, SizeInv, Calls
  <1>2. table_' = [table_ EXCEPT ![ShardIndex[k]][k] = @ + 1]
    BY <1>1 DEF Store
  <1>3. q.op = "put" /\ call' = [call EXCEPT ![c] = q]
    BY <1>1, AnsweredFields, AnswerCall DEF Put
  <1> HIDE DEF q, v, k
  <1>4. ASSUME NEW i \in 0 .. Shards - 1, NEW j \in Keys
        PROVE  /\ table_'[i][j] # table_[i][j] => i = ShardIndex[k] /\ j = k
               /\ table_[i][j] # 0 => table_'[i][j] # 0
    BY <1>1, <1>2, Shelves DEF Tables
  <1>5. InItsShard'
    BY <1>1, <1>4 DEF InItsShard
  <1>6. Stored \subseteq Stored'
    BY <1>4 DEF Stored, KeysIn
  <1>7. Counts(q, Stored')
    BY <1>3 DEF Counts
  <1>8. QED
    BY <1>3, <1>5, <1>6, <1>7, OneCount

LEMMA OtherSize ==
    ASSUME IInv, SizeInv, NEW c \in Clients,
           TakeAnswer(c) \/ Begin(c) \/ Refuse(c) \/ Get(c)
    PROVE  SizeInv'
  <1>1. InItsShard' /\ Stored' = Stored /\ call[c] \in Calls /\ Counts(call[c], Stored)
    <2>1. UNCHANGED table_
      BY DEF TakeAnswer, Begin, Refuse, Get
    <2>2. InItsShard' /\ Stored' = Stored
      BY <2>1 DEF SizeInv, InItsShard, Stored, KeysIn
    <2>3. QED
      BY <2>2, AtCall DEF SizeInv
  <1>2. CASE TakeAnswer(c)
    <2>1. Counts(Idle, Stored)
      BY IdleType DEF Counts
    <2>2. QED
      BY <1>1, <1>2, <2>1, OneCount DEF TakeAnswer
  <1>3. CASE Begin(c)
    <2> DEFINE q == [call[c] EXCEPT !.at = "handler"]
    <2>1. /\ q.at = "handler" /\ q.op = call[c].op /\ q.input = call[c].input
          /\ q.next = call[c].next /\ q.result = call[c].result /\ q.floor = call[c].floor
      BY <1>1 DEF Calls
    <2>2. call' = [call EXCEPT ![c] = q] /\ call[c].at = "sent"
      BY <1>3 DEF Begin
    <2> HIDE DEF q
    <2>3. \A A : Counted(q, Stored, A) <=> Counted(call[c], Stored, A)
      BY <2>1 DEF Counted
    <2>4. Counts(q, Stored)
      BY <1>1, <2>1, <2>2, <2>3 DEF Counts
    <2>5. QED
      BY <1>1, <2>2, <2>4, OneCount
  <1>4. ASSUME NEW status \in Nat, NEW result \in Nat, call[c].op # "stats",
               Answer(c, status, result)
        PROVE  SizeInv'
    <2> DEFINE q == Answered(call[c], status, result)
    <2>1. q.op # "stats"
      <3>1. call[c] \in Calls /\ status \in Nat /\ result \in Nat
        BY <1>1, <1>4
      <3>2. q.op = call[c].op
        BY ONLY <3>1, AnsweredFields
      <3>3. QED
        BY <1>4, <3>2
    <2>2. call' = [call EXCEPT ![c] = q]
      BY <1>4, AnswerCall
    <2> HIDE DEF q
    <2>3. QED
      BY <1>1, <2>1, <2>2, OneCount DEF Counts
  <1>5. CASE Refuse(c)
    <2>1. call[c].op # "stats"
      BY <1>1, <1>5 DEF Refuse, Counts
    <2>2. QED
      BY <1>4, <1>5, <2>1 DEF Refuse
  <1>6. CASE Get(c)
    <2>1. call[c].op # "stats" /\ Value(call[c].key) \in Nat
      BY <1>6, AtCall DEF Get, Handling
    <2>2. QED
      BY <1>4, <1>6, <2>1 DEF Get
  <1>7. QED
    BY <1>2, <1>3, <1>5, <1>6

LEMMA StepSize == IInv /\ SizeInv /\ [Next]_vars => SizeInv'
  <1> SUFFICES ASSUME IInv, SizeInv, [Next]_vars PROVE SizeInv'
    OBVIOUS
  <1>1. CASE Next
    BY <1>1, SendSize, AddShardSize, PutSize, OtherSize DEF Next, Handler
  <1>2. CASE UNCHANGED vars
    <2>1. InItsShard' /\ Stored' = Stored /\ UNCHANGED call
      BY <1>2 DEF vars, SizeInv, InItsShard, Stored, KeysIn
    <2>2. QED
      BY <2>1 DEF SizeInv
  <1>3. QED
    BY <1>1, <1>2

LEMMA InitSize == Init => SizeInv
  <1> SUFFICES ASSUME Init PROVE SizeInv
    OBVIOUS
  <1>1. InItsShard
    BY DEF Init, InItsShard
  <1>2. \A c \in Clients : call[c].op = "get"
    BY IdleType DEF Init
  <1>3. QED
    BY <1>1, <1>2 DEF SizeInv, Counts

\* What /stats answers was the size at some moment of the call, whatever is put while Size()
\* goes from shard to shard (ShardedKvStore::Size).
THEOREM SizesReal == Spec => []SizeWasReal
  <1>1. IInv /\ SizeInv => SizeWasReal
    <2> SUFFICES ASSUME IInv, SizeInv, NEW c \in Clients,
                        call[c].at = "answered", call[c].op = "stats"
                 PROVE  call[c].result \in call[c].floor .. Cardinality(Stored)
      BY DEF SizeWasReal
    <2>1. call[c].floor \in Nat /\ call[c].result \in Nat /\ Cardinality(Stored) \in Nat
      BY AtCall, StoredKeys, Shelves DEF SizeInv, Calls
    <2>2. QED
      BY <2>1 DEF SizeInv, Counts
  <1>2. QED
    BY <1>1, InitInv, StepInv, InitSize, StepSize, PTL DEF Spec
=============================================================================
