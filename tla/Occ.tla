--------------------------------- MODULE Occ ---------------------------------
(***************************************************************************)
(* The baseline with optimistic concurrency control: a store without       *)
(* versions, where the cell with the larger timestamp wins, and a client   *)
(* whose read-only transactions read everything twice and return when both *)
(* passes saw the same values.  The caller's map holds iterators, and the  *)
(* comparison reads them to their end, as the first try of a batch does    *)
(* with the values it sends.                                               *)
(*                                                                         *)
(* A reader runs one transaction over all keys, a writer one batch; a key  *)
(* holds one cell.  The requests of a try a writer has given up on may     *)
(* arrive at any later time.  What the store answers to a try a reader has *)
(* given up on reaches nobody.                                             *)
(***************************************************************************)
EXTENDS Naturals, FiniteSets

CONSTANTS Keys, Readers,
          Writers,    \* numbers above LoadValue; each is also the value it writes
          MaxTries,   \* operationRetries, 300 in the code
          MaxTime     \* bound on System.currentTimeMillis()

Blank == 0          \* what ByteIterator.toArray() returns the second time
Drained == [k \in Keys |-> Blank]
LoadValue == 1      \* what the load phase wrote

ASSUME OccAssumption ==
    /\ \A w \in Writers : w \in Nat /\ w > LoadValue
    /\ MaxTries \in Nat \ {0}
    /\ MaxTime \in Nat

VARIABLES
    now,        \* the clients' clock
    store,      \* key -> its cell
    sent,       \* the mutations on their way to the replicas
    writer,     \* writer -> its batch
    reader,     \* reader -> its transaction
    between,    \* history: reader -> the store when its second pass began
    changed     \* history: reader -> keys that changed since its first pass read them

vars == <<now, store, sent, writer, reader, between, changed>>

Values == [k \in Keys |-> store[k].value]

\* first and second are what the two passes were answered, result is what is
\* left to read in the iterators of the caller's map, m when the try begins.
NewTry(t, e, m) ==
    [phase |-> "first", try |-> t, exception |-> e, first |-> <<>>, second |-> <<>>, result |-> m]

Init ==
    /\ now = 1
    /\ store = [k \in Keys |-> [ts |-> 0, value |-> LoadValue]]
    /\ sent = {}
    /\ writer = [w \in Writers |-> [try |-> 0, ts |-> 0, done |-> FALSE]]
    /\ reader = [r \in Readers |-> NewTry(1, FALSE, <<>>)]
    /\ between = [r \in Readers |-> Values]
    /\ changed = [r \in Readers |-> {}]

Tick ==
    /\ now < MaxTime
    /\ now' = now + 1
    /\ UNCHANGED <<store, sent, writer, reader, between, changed>>

-----------------------------------------------------------------------------

\* A try of insert(), the first one or one after an exception and a sleep.
SendBatch(w) ==
    LET t == writer[w].try + 1
        v == IF t = 1 THEN w ELSE Blank
    IN  /\ ~writer[w].done
        /\ t <= MaxTries
        /\ now > writer[w].ts
        /\ writer' = [writer EXCEPT ![w] = [@ EXCEPT !.try = t, !.ts = now]]
        /\ sent' = sent \union {[writer |-> w, try |-> t, key |-> k, ts |-> now, value |-> v] : k \in Keys}
        /\ UNCHANGED <<now, store, reader, between, changed>>

\* compare_atomic_cell_for_merge() for live cells.
Newer(c, d) == c.ts > d.ts \/ (c.ts = d.ts /\ c.value > d.value)

Apply(m) ==
    LET k == m.key
        cell == [ts |-> m.ts, value |-> m.value]
    IN  /\ m \in sent
        /\ sent' = sent \ {m}
        /\ store' = IF Newer(cell, store[k]) THEN [store EXCEPT ![k] = cell] ELSE store
        /\ changed' = [r \in Readers |->
                         IF store'[k].value # store[k].value /\ k \in DOMAIN reader[r].first
                         THEN changed[r] \union {k} ELSE changed[r]]
        /\ UNCHANGED <<now, writer, reader, between>>

\* batch_mutate() returns: every mutation of the current try was applied.
BatchDone(w) ==
    /\ ~writer[w].done
    /\ writer[w].try > 0
    /\ \A m \in sent : ~(m.writer = w /\ m.try = writer[w].try)
    /\ writer' = [writer EXCEPT ![w].done = TRUE]
    /\ UNCHANGED <<now, store, sent, reader, between, changed>>

-----------------------------------------------------------------------------

Extended(f, k, v) == [q \in DOMAIN f \union {k} |-> IF q = k THEN v ELSE f[q]]

ReadFirst(r, k) ==
    /\ reader[r].phase = "first"
    /\ k \notin DOMAIN reader[r].first
    /\ reader' = [reader EXCEPT ![r].first = Extended(@, k, store[k].value)]
    /\ UNCHANGED <<now, store, sent, writer, between, changed>>

\* All keys were read once: the answers replace what the map held and the
\* second multiget_slice() is sent.
BeginValidation(r) ==
    /\ reader[r].phase = "first"
    /\ DOMAIN reader[r].first = Keys
    /\ reader' = [reader EXCEPT ![r] = [@ EXCEPT !.phase = "second", !.result = reader[r].first]]
    /\ between' = [between EXCEPT ![r] = Values]
    /\ UNCHANGED <<now, store, sent, writer, changed>>

ReadSecond(r, k) ==
    /\ reader[r].phase = "second"
    /\ k \notin DOMAIN reader[r].second
    /\ reader' = [reader EXCEPT ![r].second = Extended(@, k, store[k].value)]
    /\ UNCHANGED <<now, store, sent, writer, between, changed>>

\* Mutant: only the last key that is compared counts.
ValidLast(first, second) == \E k \in Keys : first[k] = second[k]

Valid(first, second) == \A k \in Keys : first[k] = second[k]

\* Mutant: the first pass is not repeated.
RestartKept(r, e, m) ==
    /\ reader' = [reader EXCEPT ![r] = [NewTry(@.try + 1, e, m) EXCEPT !.first = reader[r].first]]
    /\ changed' = [changed EXCEPT ![r] = {}]

Restart(r, e, m) ==
    /\ reader' = [reader EXCEPT ![r] = NewTry(@.try + 1, e, m)]
    /\ changed' = [changed EXCEPT ![r] = {}]

\* The iterators of the caller's map are compared with the second pass, which
\* leaves them at their end.  A map that differs is cleared, one that agrees
\* is returned as it is.  After the last try read() calls
\* errorexception.printStackTrace(), which throws if there was no exception.
Validate(r) ==
    LET rd == reader[r]
        valid == Valid(rd.result, rd.second)
        End(p, m) == /\ reader' = [reader EXCEPT ![r] = [@ EXCEPT !.phase = p, !.result = m]]
                     /\ UNCHANGED changed
    IN  /\ rd.phase = "second"
        /\ DOMAIN rd.second = Keys
        /\ \/ valid /\ End("ok", Drained)
           \/ ~valid /\ rd.try < MaxTries /\ Restart(r, rd.exception, <<>>)
           \/ ~valid /\ rd.try = MaxTries /\ End(IF rd.exception THEN "error" ELSE "null", <<>>)
        /\ UNCHANGED <<now, store, sent, writer, between>>

\* A pass fails or times out: the map stays as it is.
ReadFails(r) ==
    /\ reader[r].phase \in {"first", "second"}
    /\ \/ /\ reader[r].try < MaxTries
          /\ Restart(r, TRUE, reader[r].result)
       \/ /\ reader[r].try = MaxTries
          /\ reader' = [reader EXCEPT ![r] = [@ EXCEPT !.phase = "error", !.exception = TRUE]]
          /\ UNCHANGED changed
    /\ UNCHANGED <<now, store, sent, writer, between>>

Next ==
    \/ Tick
    \/ \E w \in Writers : SendBatch(w) \/ BatchDone(w)
    \/ \E m \in sent : Apply(m)
    \/ \E r \in Readers, k \in Keys : ReadFirst(r, k) \/ ReadSecond(r, k)
    \/ \E r \in Readers : BeginValidation(r) \/ Validate(r) \/ ReadFails(r)

Spec == Init /\ [][Next]_vars

-----------------------------------------------------------------------------

\* Validation accepts snapshots only: when read() decides for OK, the values
\* its first pass was answered were all in the store at one moment, when its
\* second pass began, however the keys of the batches were interleaved and
\* whichever late tries arrived.  This is about the decision; the caller finds
\* the iterators of these values drained (Validate).  Blank values are
\* excluded: two writers' second tries leave the same value, so that a key may
\* change and change back between the passes.
ValidatedReadsAreSnapshots ==
    \A r \in Readers : reader[r].phase = "ok" =>
        \A k \in Keys : reader[r].first[k] # Blank => reader[r].first[k] = between[r][k]

\* Validation refuses a transaction only because of a write: some key changed
\* between the reads of this try.  Without writers the first try succeeds.
RefusedOnlyByWrites ==
    \A r \in Readers :
        /\ reader[r].phase = "second" /\ DOMAIN reader[r].second = Keys
        /\ ~Valid(reader[r].first, reader[r].second)
        => changed[r] # {}
=============================================================================
