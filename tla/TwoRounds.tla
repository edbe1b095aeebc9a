----------------------------- MODULE TwoRounds -----------------------------
(***************************************************************************)
(* The two-round client on the same replicas: its writes carry no version  *)
(* and its read-only transactions first read the newest version of every   *)
(* key and then, if the keys are not at one version, read them all again   *)
(* at the largest version they have seen.                                  *)
(*                                                                         *)
(* A reader runs one transaction over all keys at a time, a writer one     *)
(* batch.  The requests of a try a client has given up on may arrive at    *)
(* any later time; what is answered to a read given up on reaches nobody,  *)
(* but the read still raises highest_version_read.  Nothing holds a        *)
(* snapshot open here: PartitionEntry is about those.                      *)
(***************************************************************************)
EXTENDS VersionList, FiniteSetsExt

CONSTANTS Keys, Readers, Writers,
          MaxTries,   \* client -> operationRetries, 300 for all in the code
          MaxReads    \* bound: transactions per reader

ASSUME TwoRoundsAssumption ==
    /\ Keys # {} /\ IsFiniteSet(Keys)
    /\ MaxTries \in [Readers \union Writers -> Nat \ {0}]
    /\ MaxReads \in Nat

VARIABLES
    entry,      \* key -> its partition_entry
    sent,       \* mutations on their way to the replicas
    strays,     \* second-round reads their client has given up on
    writer,     \* writer -> its batch
    reader,     \* reader -> its transaction
    acked,      \* history: key -> newest version some batch was acknowledged at
    base        \* history: reader -> acked when its transaction began, and what it read before

vars == <<entry, sent, strays, writer, reader, acked, base>>

Unstarted == [try |-> 0, got |-> <<>>, done |-> FALSE]
Idle == [phase |-> "idle", try |-> 0, at |-> 0, first |-> <<>>, got |-> <<>>, reads |-> 0]

\* After the load phase, at version 1.
Init ==
    /\ entry = [k \in Keys |-> Inserted(NewEntry, 1)]
    /\ sent = {}
    /\ strays = {}
    /\ writer = [w \in Writers |-> Unstarted]
    /\ reader = [r \in Readers |-> Idle]
    /\ acked = [k \in Keys |-> 1]
    /\ base = [r \in Readers |-> acked]

Larger(f, g) == [k \in Keys |-> Max({f[k], g[k]})]
Extended(f, k, v) == [q \in DOMAIN f \union {k} |-> IF q = k THEN v ELSE f[q]]

-----------------------------------------------------------------------------

\* A try of insert(): batch_mutate() with version 0.
SendBatch(w) ==
    LET t == writer[w].try + 1
    IN  /\ ~writer[w].done
        /\ t <= MaxTries[w]
        /\ writer' = [writer EXCEPT ![w] = [Unstarted EXCEPT !.try = t]]
        /\ sent' = sent \union {[writer |-> w, try |-> t, key |-> k] : k \in Keys}
        /\ UNCHANGED <<entry, strays, reader, acked, base>>

HandleWrite(m) ==
    /\ m \in sent
    /\ sent' = sent \ {m}
    /\ ~ApplyFaults(entry[m.key], 0, {})
    /\ entry' = [entry EXCEPT ![m.key] = Applied(@, 0, {})]
    /\ writer' = [writer EXCEPT ![m.writer].got =
                    IF writer[m.writer].try = m.try
                    THEN Extended(@, m.key, CommitVersion(entry[m.key], 0)) ELSE @]
    /\ UNCHANGED <<strays, reader, acked, base>>

BatchDone(w) ==
    /\ ~writer[w].done
    /\ DOMAIN writer[w].got = Keys
    /\ writer' = [writer EXCEPT ![w] = [Unstarted EXCEPT !.done = TRUE]]
    /\ acked' = Larger(acked, writer[w].got)
    /\ UNCHANGED <<entry, sent, strays, reader, base>>

-----------------------------------------------------------------------------

\* read(): the first multiget_slice(), at version 0.
BeginRead(r) ==
    /\ reader[r].phase = "idle"
    /\ reader[r].reads < MaxReads
    /\ reader' = [reader EXCEPT ![r] =
                    [Idle EXCEPT !.phase = "first", !.try = 1, !.reads = reader[r].reads + 1]]
    /\ base' = [base EXCEPT ![r] = Larger(@, acked)]
    /\ UNCHANGED <<entry, sent, strays, writer, acked>>

\* Mutant: the read waits for the writes in flight for its key.
HandleReadBlocking(r, k) ==
    LET at == reader[r].at
    IN  /\ reader[r].phase \in {"first", "second"}
        /\ k \notin DOMAIN reader[r].got
        /\ \A m \in sent : m.key # k
        /\ entry' = [entry EXCEPT ![k] = AfterRead(@, at)]
        /\ reader' = [reader EXCEPT ![r].got = Extended(@, k, VersionRead(entry[k].versions, at))]
        /\ UNCHANGED <<sent, strays, writer, acked, base>>

\* A key is read, at the newest version or at the version of the second round.
HandleRead(r, k) ==
    LET at == reader[r].at
    IN  /\ reader[r].phase \in {"first", "second"}
        /\ k \notin DOMAIN reader[r].got
        /\ entry' = [entry EXCEPT ![k] = AfterRead(@, at)]
        /\ reader' = [reader EXCEPT ![r].got = Extended(@, k, VersionRead(entry[k].versions, at))]
        /\ UNCHANGED <<sent, strays, writer, acked, base>>

\* A read that was given up on reaches its replica.
HandleStray(m) ==
    /\ m \in strays
    /\ strays' = strays \ {m}
    /\ entry' = [entry EXCEPT ![m.key] = AfterRead(@, m.at)]
    /\ UNCHANGED <<sent, writer, reader, acked, base>>

\* Mutant: the second round is at the smallest version.
ReadTSLow(got) == Min({got[k] : k \in Keys})

\* The largest version of the first round.
ReadTS(got) == Max({got[k] : k \in Keys})

\* "cols_ts != keys_ts && keys_ts != 0": some key is not at the version of the
\* keys before it.
Inconsistent(got) == \E k, q \in Keys : got[k] # got[q]

FirstRoundDone(r) == reader[r].phase = "first" /\ DOMAIN reader[r].got = Keys

Return(r) ==
    /\ reader' = [reader EXCEPT ![r] = [Idle EXCEPT !.reads = reader[r].reads]]
    /\ base' = [base EXCEPT ![r] = Larger(@, reader[r].got)]
    /\ UNCHANGED <<entry, sent, strays, writer, acked>>

ReturnFirst(r) ==
    /\ FirstRoundDone(r)
    /\ ~Inconsistent(reader[r].got)
    /\ Return(r)

BeginSecond(r) ==
    /\ FirstRoundDone(r)
    /\ Inconsistent(reader[r].got)
    /\ reader' = [reader EXCEPT ![r] = [@ EXCEPT !.phase = "second", !.at = ReadTS(reader[r].got),
                                                 !.first = reader[r].got, !.got = <<>>]]
    /\ UNCHANGED <<entry, sent, strays, writer, acked, base>>

ReturnSecond(r) ==
    /\ reader[r].phase = "second"
    /\ DOMAIN reader[r].got = Keys
    /\ Return(r)

\* The round fails or times out: read() starts over, up to a limit.
ReadFails(r) ==
    LET rd == reader[r]
        open == IF rd.phase = "second" THEN Keys \ DOMAIN rd.got ELSE {}
    IN  /\ rd.phase # "idle"
        /\ strays' = strays \union {[key |-> k, at |-> rd.at] : k \in open}
        /\ reader' = [reader EXCEPT ![r] =
                        IF rd.try = MaxTries[r] THEN [Idle EXCEPT !.reads = rd.reads]
                        ELSE [Idle EXCEPT !.phase = "first", !.try = rd.try + 1, !.reads = rd.reads]]
        /\ UNCHANGED <<entry, sent, writer, acked, base>>

ReaderStep(r) ==
    \/ \E k \in Keys : HandleRead(r, k)
    \/ ReturnFirst(r) \/ BeginSecond(r) \/ ReturnSecond(r)

Next ==
    \/ \E w \in Writers : SendBatch(w) \/ BatchDone(w)
    \/ \E m \in sent : HandleWrite(m)
    \/ \E m \in strays : HandleStray(m)
    \/ \E r \in Readers : BeginRead(r) \/ ReaderStep(r) \/ ReadFails(r)

\* The replicas serve reads and answers reach the client; nothing is assumed
\* of writers.
Spec == Init /\ [][Next]_vars /\ \A r \in Readers : WF_vars(ReaderStep(r))

-----------------------------------------------------------------------------

\* A key is never read at a version older than what any batch was acknowledged
\* at when the transaction began, what the reader has read before, or what the
\* first round of the transaction found.  The second round, at an old version
\* that writes may have overtaken or trimmed meanwhile, does not go back.
ReadsAreRecent ==
    \A r \in Readers : \A k \in DOMAIN reader[r].got :
        /\ reader[r].got[k] >= base[r][k]
        /\ reader[r].phase = "second" => reader[r].got[k] >= reader[r].first[k]

\* A transaction ends, in two rounds per try, whatever writers do.
ReadsReturn == \A r \in Readers : (reader[r].phase # "idle") ~> (reader[r].phase = "idle")
=============================================================================
