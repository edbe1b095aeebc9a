-------------------------------- MODULE Port --------------------------------
(***************************************************************************)
(* The read-only transaction protocol: clients with a version clock, the   *)
(* coordinators that split their requests by key, and one partition_entry  *)
(* per key on the key's replica.                                           *)
(*                                                                         *)
(* A client thread has one request outstanding.  The requests a client has *)
(* given up on stay in flight and may reach the replica at any later time. *)
(* Requests for the keys of one transaction or batch run at the replicas   *)
(* in any order, among those of the other clients.  The window of the      *)
(* chains is not reached here: PartitionEntry is about what happens then.  *)
(***************************************************************************)
EXTENDS VersionList, ClientView, FiniteSetsExt

CONSTANTS Clients,
          RotSets,    \* the sets of keys transactions read
          WriteSets,  \* the sets of keys batches write
          MaxOps,     \* bound: operations per client
          MaxTotal,   \* bound: operations of all clients
          MaxTries,   \* operationRetries, 300 in the code
          Versions,   \* version numbers, for the abstract store
          DeadSlot    \* what else than the commit version the stack slot that
                      \* do_moon_mutate() reads after it has returned may hold

ASSUME PortAssumption ==
    /\ RotSets \subseteq (SUBSET Keys) \ {{}}
    /\ WriteSets \subseteq (SUBSET Keys) \ {{}}
    /\ MaxOps \in Nat
    /\ MaxTotal \in Nat
    /\ MaxTries \in Nat \ {0}
    /\ DeadSlot \subseteq Nat
    /\ Versions \subseteq Nat

VARIABLES
    clock,      \* client -> current_version_to_read
    view,       \* client -> ClientView.view
    op,         \* client -> the operation it is waiting for
    ops,        \* client -> operations started
    requests,   \* the requests on their way to the replicas
    entry,      \* key -> its partition_entry
    data,       \* key -> version number -> the write stored there
    rots,       \* history: the read-only transactions that returned
    floor,      \* history: client -> key -> newest version it knows of
    deps        \* history: write -> what its client knew when it began

clientVars == <<clock, view, op, ops>>
historyVars == <<rots, floor, deps>>
vars == <<clock, view, op, ops, requests, entry, data, rots, floor, deps>>

Loader == "loader"

\* A write is the same in all its tries.  What it stores is left out: insert()
\* builds a try from iterators the first try has consumed, so that the values
\* of the later tries are empty.
Writes == [client : Clients \union {Loader}, op : 0 .. MaxOps]
LoadWrite == [client |-> Loader, op |-> 0]

Idle == [kind |-> "none"]

Init ==
    /\ clock = [c \in Clients |-> InitialVersion]
    /\ view = [c \in Clients |-> EmptyView]
    /\ op = [c \in Clients |-> Idle]
    /\ ops = [c \in Clients |-> 0]
    /\ requests = {}
    \* After the load phase: one write per key, proposed with isLoading.
    /\ entry = [k \in Keys |-> Inserted(NewEntry, VersionToWrite(InitialVersion, TRUE))]
    /\ data = [k \in Keys |-> [n \in {1} |-> LoadWrite]]
    /\ rots = {}
    /\ floor = [c \in Clients |-> [k \in Keys |-> 1]]
    /\ deps = [w \in {LoadWrite} |-> [k \in Keys |-> 0]]

-----------------------------------------------------------------------------

\* The client sends try number t of operation n; its coordinator makes one
\* request per key.
Send(c, kind, n, t, ks, v) ==
    /\ op' = [op EXCEPT ![c] = [kind |-> kind, try |-> t, keys |-> ks, ver |-> v, got |-> <<>>]]
    /\ requests' = requests \union
         {[kind |-> kind, client |-> c, op |-> n, try |-> t, key |-> k, ver |-> v] : k \in ks}

\* CassandraClient10.read, and each try of it: one multiget_slice.
SendRot(c, n, t, ks) ==
    LET v == VersionToRead(clock[c], view[c], ks)
    IN  /\ clock' = [clock EXCEPT ![c] = v]
        /\ Send(c, "rot", n, t, ks, v)

\* CassandraClient10.insert, and each try of it: one batch_mutate.
SendWrite(c, n, t, ks) ==
    /\ Send(c, "write", n, t, ks, VersionToWrite(clock[c], FALSE))
    /\ UNCHANGED clock

Begin(c) ==
    /\ op[c] = Idle
    /\ ops[c] < MaxOps
    /\ MapThenSumSet(LAMBDA d : ops[d], Clients) < MaxTotal
    /\ ops' = [ops EXCEPT ![c] = @ + 1]

BeginRot(c, ks) ==
    /\ Begin(c)
    /\ SendRot(c, ops[c] + 1, 1, ks)
    /\ UNCHANGED <<view, entry, data, rots, floor, deps>>

BeginWrite(c, ks) ==
    /\ Begin(c)
    /\ SendWrite(c, ops[c] + 1, 1, ks)
    /\ LET w == [client |-> c, op |-> ops[c] + 1]
       IN  deps' = [u \in DOMAIN deps \union {w} |-> IF u = w THEN floor[c] ELSE deps[u]]
    /\ UNCHANGED <<view, entry, data, rots, floor>>

WithAnswer(got, k, v) == [q \in DOMAIN got \union {k} |-> IF q = k THEN v ELSE got[q]]

\* Mutant: an answer counts for whatever the client waits for now.
AnswerAnyone(m, v) ==
    op' = IF op[m.client].kind = m.kind
          THEN [op EXCEPT ![m.client].got = WithAnswer(@, m.key, v)]
          ELSE op

\* The coordinator takes the answer for a key if the client still waits for
\* this try; otherwise nobody does.
Answer(m, v) ==
    op' = IF /\ op[m.client].kind = m.kind
             /\ ops[m.client] = m.op
             /\ op[m.client].try = m.try
          THEN [op EXCEPT ![m.client].got = WithAnswer(@, m.key, v)]
          ELSE op

\* Mutants: the read does not update highest_version_read; it returns the
\* newest version; it waits for the writes in flight for its key.
HandleReadUnrecorded(m) ==
    /\ m \in requests
    /\ m.kind = "rot"
    /\ requests' = requests \ {m}
    /\ Answer(m, VersionRead(entry[m.key].versions, m.ver))
    /\ UNCHANGED <<clock, view, ops, entry, data, rots, floor, deps>>

HandleReadNewest(m) ==
    /\ m \in requests
    /\ m.kind = "rot"
    /\ requests' = requests \ {m}
    /\ Answer(m, VersionRead(entry[m.key].versions, 0))
    /\ entry' = [entry EXCEPT ![m.key] = AfterRead(@, m.ver)]
    /\ UNCHANGED <<clock, view, ops, data, rots, floor, deps>>

HandleReadBlocking(m) ==
    /\ m \in requests
    /\ m.kind = "rot"
    /\ \A n \in requests : n.key = m.key => n.kind = "rot"
    /\ requests' = requests \ {m}
    /\ Answer(m, VersionRead(entry[m.key].versions, m.ver))
    /\ entry' = [entry EXCEPT ![m.key] = AfterRead(@, m.ver)]
    /\ UNCHANGED <<clock, view, ops, data, rots, floor, deps>>

HandleRead(m) ==
    /\ m \in requests
    /\ m.kind = "rot"
    /\ requests' = requests \ {m}
    /\ Answer(m, VersionRead(entry[m.key].versions, m.ver))
    /\ entry' = [entry EXCEPT ![m.key] = AfterRead(@, m.ver)]
    /\ UNCHANGED <<clock, view, ops, data, rots, floor, deps>>

HandleWrite(m) ==
    LET e == entry[m.key]
        w == [client |-> m.client, op |-> m.op]
        n == Promoted(e, m.ver)
    IN  /\ m \in requests
        /\ m.kind = "write"
        /\ e.num_versions < MaxVersions
        /\ requests' = requests \ {m}
        /\ Answer(m, CommitVersion(e, m.ver))
        /\ IF Dropped(e, m.ver)
           THEN UNCHANGED <<entry, data>>
           ELSE /\ entry' = [entry EXCEPT ![m.key] = Inserted(@, m.ver)]
                /\ data' = [data EXCEPT ![m.key] =
                              [i \in DOMAIN @ \union {n} |-> IF i = n THEN w ELSE @[i]]]
        /\ UNCHANGED <<clock, view, ops, rots, floor, deps>>

\* All the keys of the operation have been answered.
Answered(c) == op[c] # Idle /\ DOMAIN op[c].got = op[c].keys

KnownTo(c) == [k \in Keys |-> IF k \in op[c].keys /\ op[c].got[k] > floor[c][k]
                              THEN op[c].got[k] ELSE floor[c][k]]

CompleteRot(c) ==
    /\ Answered(c)
    /\ op[c].kind = "rot"
    /\ view' = [view EXCEPT ![c] = UpdateView(@, op[c].got)]
    /\ rots' = rots \union {[client |-> c, ver |-> op[c].ver, res |-> op[c].got]}
    /\ floor' = [floor EXCEPT ![c] = KnownTo(c)]
    /\ op' = [op EXCEPT ![c] = Idle]
    /\ UNCHANGED <<clock, ops, requests, entry, data, deps>>

\* moon_parallel_for_each() takes the largest commit version of the batch and
\* do_moon_mutate() returns what it finds in a slot of its dead frame.
CompleteWrite(c) ==
    /\ Answered(c)
    /\ op[c].kind = "write"
    /\ \E v \in {op[c].got[k] : k \in op[c].keys} \union DeadSlot :
         /\ v \in DeadSlot \/ \A k \in op[c].keys : op[c].got[k] <= v
         /\ clock' = [clock EXCEPT ![c] = SetCurrent(@, v)]
    /\ floor' = [floor EXCEPT ![c] = KnownTo(c)]
    /\ op' = [op EXCEPT ![c] = Idle]
    /\ UNCHANGED <<view, ops, requests, entry, data, rots, deps>>

\* The request fails or times out: the client tries again, up to a limit.
Timeout(c) ==
    /\ op[c] # Idle
    /\ IF op[c].try = MaxTries
       THEN /\ op' = [op EXCEPT ![c] = Idle]
            /\ UNCHANGED <<clock, requests>>
       ELSE \/ op[c].kind = "rot" /\ SendRot(c, ops[c], op[c].try + 1, op[c].keys)
            \/ op[c].kind = "write" /\ SendWrite(c, ops[c], op[c].try + 1, op[c].keys)
    /\ UNCHANGED <<view, ops, entry, data, rots, floor, deps>>

Next ==
    \/ \E c \in Clients, ks \in RotSets : BeginRot(c, ks)
    \/ \E c \in Clients, ks \in WriteSets : BeginWrite(c, ks)
    \/ \E m \in requests : HandleRead(m) \/ HandleWrite(m)
    \/ \E c \in Clients : CompleteRot(c) \/ CompleteWrite(c) \/ Timeout(c)

Spec == Init /\ [][Next]_vars

-----------------------------------------------------------------------------

TypeOK ==
    /\ clock \in [Clients -> Nat]
    /\ view \in [Clients -> [Buckets -> Nat]]
    /\ ops \in [Clients -> 0 .. MaxOps]
    /\ entry \in [Keys -> Entry]
    /\ \A c \in Clients : op[c] # Idle =>
         /\ op[c].kind \in {"rot", "write"} /\ op[c].try \in 1 .. MaxTries
         /\ op[c].keys \subseteq Keys /\ DOMAIN op[c].got \subseteq op[c].keys
         /\ op[c].ver \in Nat

\* Every read-only transaction that ever returned is still the state of its
\* keys at its version: no write that was in flight, late or retried when the
\* keys were read, one after the other, has committed into its past.
SnapshotsAreStable ==
    \A t \in rots : \A k \in DOMAIN t.res :
        /\ t.res[k] \in DOMAIN data[k]
        /\ t.res[k] <= t.ver
        /\ \A n \in DOMAIN data[k] : n <= t.ver => n <= t.res[k]

\* A write takes effect at most once on each key, although each try of it is
\* sent to every key again and the earlier tries may still arrive.
AppliedAtMostOnce ==
    \A k \in Keys : \A m, n \in DOMAIN data[k] :
        data[k][m] = data[k][n] => m = n

\* A client never reads a key at an older version than one it read before, or
\* than the version its own write to the key committed at.
SessionOrder ==
    \A c \in Clients : op[c] # Idle /\ op[c].kind = "rot" =>
        \A k \in DOMAIN op[c].got : op[c].got[k] >= floor[c][k]

\* A transaction that returns a write also returns, for its other keys,
\* everything that write's client knew of when it began it (or newer).
SnapshotsAreCausal ==
    \A t \in rots : \A k \in DOMAIN t.res :
        LET known == deps[data[k][t.res[k]]]
        IN  \A q \in DOMAIN t.res : t.res[q] >= known[q]

\* The protocol implements the abstract store.
Store == INSTANCE SnapshotStore
           WITH log <- data,
                frozen <- [k \in Keys |-> entry[k].highest_version_read]

StoreSpec == Store!StoreInit(LoadWrite) /\ [][Store!StoreNext]_(Store!storeVars)

\* A read-only transaction needs one round and waits for nobody: at any time it
\* can return, or else every key it still misses has a request of its current
\* try on the way that the key's replica can answer in one step, whatever writes
\* and whichever earlier tries are in flight for its keys.
RotsNeverWait ==
    \A c \in Clients : op[c] # Idle /\ op[c].kind = "rot" =>
        \/ Answered(c)
        \/ \A k \in op[c].keys \ DOMAIN op[c].got :
             \E m \in requests :
                /\ m.client = c /\ m.op = ops[c] /\ m.try = op[c].try /\ m.key = k
                /\ ENABLED HandleRead(m)

-----------------------------------------------------------------------------
(* What comments in the code say that the code does not do.                *)

\* "update version_to_read" with the commit version batch_mutate returned: a
\* client's clock has reached the commit versions of its completed writes.
ClockCoversCommits ==
    \A c \in Clients : \A k \in Keys : floor[c][k] <= clock[c]

\* most_recent_version is "for piggybacking current version to client" and "set
\* after each read", for a view of "the most recent commit time on each server":
\* the answer to a read reports the newest version the key has by then.  In the
\* code the field is set when the cell is written, to the version of that write,
\* so that what an answer reports is the version it returns.
ReadsReportTheNewest ==
    [][\A m \in requests \ requests' : m.kind = "rot" /\ op' # op =>
          \A n \in DOMAIN data[m.key] : n <= op'[m.client].got[m.key]]_vars
=============================================================================
