---------------------------- MODULE MCKvService ----------------------------
(* The instance of KvService that TLC checks: three keys in two shards, two of them *)
(* in the same one.                                                                 *)
EXTENDS KvService, TLC

ThreeKeys == {"k1", "k2", "k3"}
TwoShards == "k1" :> 0 @@ "k2" :> 1 @@ "k3" :> 1
ClientSymmetry == Permutations(Clients)
=============================================================================
