----------------------------- MODULE WriteBatch -----------------------------
(***************************************************************************)
(* What the coordinator promises for a batch of writes: it succeeds only   *)
(* once enough replicas have acknowledged every write of it, and its       *)
(* version is the largest of one acknowledged version per write.  Which    *)
(* acknowledgement speaks for a write is left open: with several replicas  *)
(* the code takes the last one, not the largest.                           *)
(***************************************************************************)
EXTENDS Naturals, FiniteSets, FiniteSetsExt

CONSTANTS Batches,    \* disjoint sets of writes
          Replicas,
          BlockFor,   \* acknowledgements the consistency level asks for
          Versions    \* commit versions, a set of naturals

VARIABLES acked,      \* write -> pairs of a replica and its commit version
          result      \* batch -> what the client is told

batchVars == <<acked, result>>

Pending == [kind |-> "pending", version |-> 0]
Failed == [kind |-> "failed", version |-> 0]
Ok(v) == [kind |-> "ok", version |-> v]

BatchInit ==
    /\ acked = [w \in UNION Batches |-> {}]
    /\ result = [b \in Batches |-> Pending]

Acknowledge(w, r, v) ==
    /\ \A a \in acked[w] : a[1] # r
    /\ acked' = [acked EXCEPT ![w] = @ \union {<<r, v>>}]

Succeed(b) ==
    /\ result[b] = Pending
    /\ \A w \in b : Cardinality(acked[w]) >= BlockFor
    /\ \E pick \in [b -> Versions] :
         /\ \A w \in b : \E a \in acked[w] : a[2] = pick[w]
         /\ result' = [result EXCEPT ![b] = Ok(Max({pick[w] : w \in b}))]

Fail(b) ==
    /\ result[b] = Pending
    /\ result' = [result EXCEPT ![b] = Failed]

BatchNext ==
    \/ /\ UNCHANGED result
       /\ \E w \in UNION Batches, r \in Replicas, v \in Versions : Acknowledge(w, r, v)
    \/ /\ UNCHANGED acked
       /\ \E b \in Batches : Succeed(b) \/ Fail(b)
=============================================================================
