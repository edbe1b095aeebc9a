--------------------------- MODULE SnapshotStore ---------------------------
(***************************************************************************)
(* What the store promises its clients: a multi-version map in which a     *)
(* read-only transaction is one instantaneous read of all its keys at one  *)
(* version, and the past of that version never changes again.              *)
(*                                                                         *)
(* log[k] maps version numbers of key k to writes.  frozen[k] is a version *)
(* up to which the history of k is closed.                                 *)
(***************************************************************************)
EXTENDS Naturals

CONSTANTS Clients, Keys,
          Writes,     \* the writes, each the same in all its retries
          Versions    \* version numbers, a set of naturals

VARIABLES log, frozen, rots

storeVars == <<log, frozen, rots>>

LoadVersion == 1

\* The newest write of a key at or below a version.
Latest(l, v) ==
    CHOOSE n \in DOMAIN l : n <= v /\ \A m \in DOMAIN l : m <= v => m <= n

StoreInit(loaded) ==
    /\ log = [k \in Keys |-> [n \in {LoadVersion} |-> loaded]]
    /\ frozen = [k \in Keys |-> 0]
    /\ rots = {}

\* A write takes effect once, above everything written and everything closed.
Commit(k, n, w) ==
    /\ n > frozen[k]
    /\ \A m \in DOMAIN log[k] : m < n /\ log[k][m] # w
    /\ log' = [log EXCEPT ![k] = [m \in DOMAIN @ \union {n} |-> IF m = n THEN w ELSE @[m]]]

\* The history of a key up to v is closed.
Freeze(k, v) ==
    /\ v > frozen[k]
    /\ frozen' = [frozen EXCEPT ![k] = v]

\* A read-only transaction returns, for all its keys, the state at version v.
ReadOnlyTxn(c, ks, v) ==
    /\ v >= LoadVersion
    /\ \A k \in ks : v <= frozen[k]
    /\ rots' = rots \union
         {[client |-> c, ver |-> v, res |-> [k \in ks |-> Latest(log[k], v)]]}

StoreNext ==
    \/ /\ log' # log
       /\ UNCHANGED <<frozen, rots>>
       /\ \E k \in Keys, n \in Versions, w \in Writes : Commit(k, n, w)
    \/ /\ frozen' # frozen
       /\ UNCHANGED <<log, rots>>
       /\ \E k \in Keys, v \in Versions : Freeze(k, v)
    \/ /\ rots' # rots
       /\ UNCHANGED <<log, frozen>>
       /\ \E c \in Clients, ks \in SUBSET Keys, v \in Versions : ReadOnlyTxn(c, ks, v)
=============================================================================
