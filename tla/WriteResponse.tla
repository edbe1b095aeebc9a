--------------------------- MODULE WriteResponse ---------------------------
(***************************************************************************)
(* The write path of one coordinator: a response handler per write counts  *)
(* the acknowledgements of the replicas, holds its answer back while too   *)
(* many writes are unfinished in the background, expires, and is destroyed *)
(* when nothing refers to it any more; moon_parallel_for_each() combines   *)
(* the answers of a batch.                                                 *)
(*                                                                         *)
(* The coordinator is one shard: each action is one task that runs to its  *)
(* end.  What a replica does is external: it commits a write at some       *)
(* version and may answer late or never.  Hints are never stored           *)
(* (should_hint() is false), so nobody but replicas acknowledges.          *)
(***************************************************************************)
EXTENDS Naturals, Sequences, FiniteSets, FiniteSetsExt

CONSTANTS Batches,      \* disjoint sets of writes, each write on one key
          Replicas,     \* replicas of every key
          Local,        \* those of them that are this node
          BlockFor,     \* acknowledgements the consistency level asks for
          Versions,     \* write -> the commit versions its replicas may answer with
          Size,         \* write -> its size
          BackgroundLimit,  \* memory for background writes, a tenth of the shard's
          QueueLimit    \* bytes waiting to be sent, 6 MB in the code

Writes == UNION Batches

ASSUME WriteResponseAssumption ==
    /\ \A b \in Batches : b # {} /\ IsFiniteSet(b)
    /\ \A b, c \in Batches : b \intersect c # {} => b = c
    /\ IsFiniteSet(Replicas)
    /\ Local \subseteq Replicas
    /\ BlockFor \in 1 .. Cardinality(Replicas)
    /\ Versions \in [Writes -> SUBSET Nat]
    /\ Size \in [Writes -> Nat \ {0}]
    /\ BackgroundLimit \in Nat /\ QueueLimit \in Nat

VARIABLES
    proxy,      \* storage_proxy: the handlers, the counters, _throttled_writes
    batch,      \* batch -> moon_parallel_for_each_state and the answer
    acked       \* history: write -> the acknowledgements it had when it answered

vars == <<proxy, batch, acked>>

Pending == [kind |-> "pending", version |-> 0]
Failed == [kind |-> "failed", version |-> 0]
Broken == [kind |-> "broken", version |-> 0]
Ok(v) == [kind |-> "ok", version |-> v]

\* No handler yet.  "registered" is being in _response_handlers, "refs" are
\* the replicas whose send or local apply still holds a pointer to it, and
\* "ready" is the promise the batch waits for.
NoHandler ==
    [ registered |-> FALSE, refs |-> {}, targets |-> {}, cl_acks |-> 0,
      cl_achieved |-> FALSE, timedout |-> FALSE, throttled |-> FALSE,
      commit_version |-> 0, ready |-> Pending ]

NewHandler(live) ==
    [ NoHandler EXCEPT !.registered = TRUE, !.refs = live, !.targets = live ]

NewBatch(b) == [ todo |-> b, ex |-> FALSE, max_commit_version |-> 0, result |-> Pending ]

Init ==
    /\ proxy = [ handler |-> [w \in Writes |-> NoHandler],
                 background_writes |-> 0,
                 background_write_bytes |-> 0,
                 queued_write_bytes |-> 0,
                 throttled_writes |-> <<>> ]
    /\ batch = [b \in Batches |-> NewBatch(b)]
    /\ acked = [w \in Writes |-> {}]

-----------------------------------------------------------------------------
(* The methods of the handler and of storage_proxy, on the proxy's state.  *)

need_throttle_writes(p) ==
    \/ p.background_write_bytes > BackgroundLimit
    \/ p.queued_write_bytes > QueueLimit

With(p, w, h) == [p EXCEPT !.handler[w] = h]

\* A handler whose client has its answer.
Released(h) == [h EXCEPT !.throttled = FALSE, !.ready = Ok(h.commit_version)]

\* Mutant: the write is not counted.
ReleaseUncounted(p, w) == With(p, w, Released(p.handler[w]))

\* Mutant: throttled stays set.
ReleaseAgain(p, w) ==
    [ p EXCEPT !.background_writes = @ + 1,
               !.background_write_bytes = @ + Size[w],
               !.handler[w] = [@ EXCEPT !.ready = Ok(p.handler[w].commit_version)] ]

\* abstract_write_response_handler::unthrottle: the client gets its answer and
\* what is left of the write goes on in the background.
Release(p, w) ==
    [ p EXCEPT !.background_writes = @ + 1,
               !.background_write_bytes = @ + Size[w],
               !.handler[w] = Released(p.handler[w]) ]

\* Mutant: the first in the queue is taken out before the limit is looked at.
PopFirst(p, w) ==
    LET q == [p EXCEPT !.throttled_writes = Tail(@)]
    IN  IF p.handler[w].registered /\ ~need_throttle_writes(p) THEN Release(q, w) ELSE q

\* One turn of the loop of storage_proxy::unthrottle: w is the first in the
\* queue.  A handler that is no longer registered is skipped.
Pop(p, w) ==
    IF need_throttle_writes(p) THEN p
    ELSE LET q == [p EXCEPT !.throttled_writes = Tail(@)]
         IN  IF p.handler[w].registered THEN Release(q, w) ELSE q

Unthrottle(p) ==
    LET q == p.throttled_writes
        turn[n \in 0 .. Len(q)] == IF n = 0 THEN p ELSE Pop(turn[n - 1], q[n])
    IN  turn[Len(q)]

\* signal(1): one more acknowledgement.
Signal(p, w) ==
    LET h == [p.handler[w] EXCEPT !.cl_acks = @ + 1]
    IN  IF h.cl_achieved \/ h.cl_acks < BlockFor THEN With(p, w, h)
        ELSE IF need_throttle_writes(p)
        THEN [ With(p, w, [h EXCEPT !.cl_achieved = TRUE, !.throttled = TRUE])
               EXCEPT !.throttled_writes = Append(@, w) ]
        ELSE Release(With(p, w, [h EXCEPT !.cl_achieved = TRUE]), w)

\* got_response: the version of the last answer is kept, and the handler is
\* removed with its last target.
GotResponse(p, w, from, v) ==
    LET q == Signal(With(p, w, [p.handler[w] EXCEPT !.commit_version = v]), w)
    IN  With(q, w, [ q.handler[w] EXCEPT !.targets = @ \ {from},
                                         !.registered = (p.handler[w].targets # {from}) ])

\* What is left of a handler that is gone: the answer it gave.
Gone(ready) == [NoHandler EXCEPT !.ready = ready]

\* Mutant: a handler that was held back and is destroyed gives no answer.
DestroyedSilently(p, w) ==
    LET h == p.handler[w]
    IN  IF h.registered \/ h.refs # {} THEN p
        ELSE IF h.cl_achieved /\ ~h.throttled
        THEN Unthrottle([ p EXCEPT !.background_writes = @ - 1,
                                   !.background_write_bytes = @ - Size[w],
                                   !.handler[w] = Gone(h.ready) ])
        ELSE [p EXCEPT !.handler[w] = Gone(IF h.cl_achieved THEN Broken ELSE Failed)]

\* ~abstract_write_response_handler, if nothing refers to the handler any more.
\* A promise destroyed without a value or an exception is broken.
Destroyed(p, w) ==
    LET h == p.handler[w]
    IN  IF h.registered \/ h.refs # {} THEN p
        ELSE IF h.cl_achieved /\ ~h.throttled
        THEN Unthrottle([ p EXCEPT !.background_writes = @ - 1,
                                   !.background_write_bytes = @ - Size[w],
                                   !.handler[w] = Gone(h.ready) ])
        ELSE [p EXCEPT !.handler[w] = Gone(IF h.cl_achieved THEN Ok(h.commit_version)
                                           ELSE IF h.timedout THEN Failed ELSE Broken)]

Unreferenced(p, w, r) ==
    Destroyed(With(p, w, [p.handler[w] EXCEPT !.refs = @ \ {r}]), w)

-----------------------------------------------------------------------------

BatchOf(w) == CHOOSE b \in Batches : w \in b

Begun(b) == \E w \in b : proxy.handler[w] # NoHandler

\* moon_mutate_internal: one handler per write with the replicas that are
\* alive as its targets, its timer armed and the mutation on its way to each.
\* mutate_prepare and moon_parallel_for_each are loops without a wait, and
\* database::apply only queues a local write (apply_stage), so the writes of a
\* batch meet the same live replicas and none is answered before all are sent.
Begin(b, live) ==
    /\ batch[b].result = Pending
    /\ ~Begun(b)
    /\ Cardinality(live) >= BlockFor
    /\ proxy' = [ proxy EXCEPT
         !.handler = [w \in Writes |-> IF w \in b THEN NewHandler(live) ELSE @[w]],
         !.queued_write_bytes =
             @ + Cardinality(live \ Local) * MapThenSumSet(LAMBDA w : Size[w], b) ]
    /\ UNCHANGED <<batch, acked>>

\* assure_sufficient_live_nodes throws: the handlers made so far are dropped.
Refuse(b, live) ==
    /\ batch[b].result = Pending
    /\ ~Begun(b)
    /\ Cardinality(live) < BlockFor
    /\ batch' = [batch EXCEPT ![b].result = Failed]
    /\ UNCHANGED <<proxy, acked>>

Acks(w, r, v) ==
    acked' = [acked EXCEPT ![w] = IF proxy.handler[w].ready = Pending
                                  THEN @ \union {<<r, v>>} ELSE @]

\* MUTATION_DONE of another node, while the handler is still registered; one
\* that comes later finds no handler and changes nothing.
RemoteDone(w, r, v) ==
    /\ r \notin Local
    /\ proxy.handler[w].registered
    /\ r \in proxy.handler[w].targets
    /\ proxy' = Destroyed(GotResponse(proxy, w, r, v), w)
    /\ Acks(w, r, v)
    /\ UNCHANGED batch

\* The send to another node is over, well or not.
SendOver(w, r) ==
    /\ r \notin Local
    /\ r \in proxy.handler[w].refs
    /\ proxy' = Unreferenced(Unthrottle([proxy EXCEPT !.queued_write_bytes = @ - Size[w]]), w, r)
    /\ UNCHANGED <<batch, acked>>

\* mutate_locally has applied the write, or failed.
LocalDone(w, r, v) ==
    /\ r \in Local
    /\ r \in proxy.handler[w].refs
    /\ IF proxy.handler[w].registered
       THEN /\ proxy' = Unreferenced(GotResponse(proxy, w, r, v), w, r)
            /\ Acks(w, r, v)
       ELSE /\ proxy' = Unreferenced(proxy, w, r)
            /\ UNCHANGED acked
    /\ UNCHANGED batch

LocalFails(w, r) ==
    /\ r \in Local
    /\ r \in proxy.handler[w].refs
    /\ proxy' = Unreferenced(proxy, w, r)
    /\ UNCHANGED <<batch, acked>>

\* Mutant: the timer answers at once, although the handler may have done so.
ExpireAtOnce(w) ==
    /\ proxy.handler[w].registered
    /\ proxy' = Destroyed(With(proxy, w, [ proxy.handler[w] EXCEPT
                            !.timedout = TRUE, !.ready = Failed, !.registered = FALSE ]), w)
    /\ UNCHANGED <<batch, acked>>

\* Mutant: the timer does not remove the handler.
ExpireUnremoved(w) ==
    /\ proxy.handler[w].registered
    /\ proxy' = [proxy EXCEPT !.handler[w].timedout = TRUE]
    /\ UNCHANGED <<batch, acked>>

\* The expiry timer: on_timeout and remove_response_handler.
Expire(w) ==
    /\ proxy.handler[w].registered
    /\ proxy' = Destroyed(With(proxy, w, [ proxy.handler[w] EXCEPT
                            !.timedout = TRUE, !.registered = FALSE ]), w)
    /\ UNCHANGED <<batch, acked>>

\* Mutant: the last answer stands for the batch.
CompletedLast(s, w, ready) ==
    LET t == [ s EXCEPT !.todo = @ \ {w},
                        !.ex = @ \/ ready.kind # "ok",
                        !.max_commit_version = ready.version ]
    IN  [ t EXCEPT !.result = IF t.todo # {} THEN @
                              ELSE IF t.ex THEN Failed ELSE Ok(t.max_commit_version) ]

\* moon_parallel_for_each_state::complete, and moon_mutate_end after the last.
Completed(s, w, ready) ==
    LET t == [ s EXCEPT !.todo = @ \ {w},
                        !.ex = @ \/ ready.kind # "ok",
                        !.max_commit_version = IF ready.version > @ THEN ready.version ELSE @ ]
    IN  [ t EXCEPT !.result = IF t.todo # {} THEN @
                              ELSE IF t.ex THEN Failed ELSE Ok(t.max_commit_version) ]

Collect(w) ==
    LET b == BatchOf(w)
    IN  /\ w \in batch[b].todo
        /\ proxy.handler[w].ready # Pending
        /\ batch' = [batch EXCEPT ![b] = Completed(@, w, proxy.handler[w].ready)]
        /\ UNCHANGED <<proxy, acked>>

\* What happens on the coordinator whether or not other nodes answer.
OwnStep ==
    \/ \E w \in Writes : Expire(w) \/ Collect(w)
    \/ \E w \in Writes, r \in Replicas : SendOver(w, r) \/ LocalFails(w, r)
    \/ \E w \in Writes, r \in Replicas : \E v \in Versions[w] : LocalDone(w, r, v)

Next ==
    \/ \E b \in Batches, live \in SUBSET Replicas : Begin(b, live) \/ Refuse(b, live)
    \/ \E w \in Writes, r \in Replicas : \E v \in Versions[w] : RemoteDone(w, r, v)
    \/ OwnStep

Spec == Init /\ [][Next]_vars

\* The reactor does not idle while a timer is due, a send or a local apply is
\* over (both end, at the latest with the time-out of the request) or a promise
\* is resolved.  Nothing is assumed of the other replicas.
FairSpec == Spec /\ WF_vars(OwnStep)

-----------------------------------------------------------------------------

AllVersions == UNION {Versions[w] : w \in Writes}
Results == {Pending, Failed, Broken} \union {Ok(v) : v \in AllVersions}

TypeOK ==
    /\ proxy.handler \in [Writes ->
         [ registered : BOOLEAN, refs : SUBSET Replicas, targets : SUBSET Replicas,
           cl_acks : 0 .. Cardinality(Replicas), cl_achieved : BOOLEAN,
           timedout : BOOLEAN, throttled : BOOLEAN,
           commit_version : {0} \union AllVersions, ready : Results ]]
    /\ proxy.background_writes \in Nat
    /\ proxy.background_write_bytes \in Nat
    /\ proxy.queued_write_bytes \in Nat
    /\ proxy.throttled_writes \in Seq(Writes)
    /\ acked \in [Writes -> SUBSET (Replicas \X AllVersions)]

\* A handler answers once: whatever comes after it (more acknowledgements, the
\* timer, its release from the queue, its destruction) leaves the promise
\* alone.  A second set_value() on a promise is undefined in the code.
AnsweredOnce ==
    [][ \A w \in Writes : proxy.handler[w].ready # Pending =>
          proxy'.handler[w].ready = proxy.handler[w].ready ]_vars

\* No promise is dropped without an answer: a handler that is destroyed has
\* reached its consistency level or has timed out.
NoBrokenPromise == \A w \in Writes : proxy.handler[w].ready # Broken

\* The write whose answer is out and whose handler is still alive.
InBackground(w) ==
    LET h == proxy.handler[w]
    IN  /\ h.registered \/ h.refs # {}
        /\ h.cl_achieved /\ ~h.throttled

\* The counters of background writes are exactly the writes that have answered
\* and are not finished, so need_throttle_writes() never works with a drifted
\* (or wrapped) value; and they never exceed the limit by more than one write.
BackgroundIsCounted ==
    /\ proxy.background_writes = Cardinality({w \in Writes : InBackground(w)})
    /\ proxy.background_write_bytes =
         MapThenSumSet(LAMBDA w : Size[w], {w \in Writes : InBackground(w)})
    /\ \/ proxy.background_write_bytes <= BackgroundLimit
       \/ \E w \in Writes : proxy.background_write_bytes <= BackgroundLimit + Size[w]

\* A write that is held back is in the queue from which it will be released,
\* as long as its handler is registered.
ThrottledIsQueued ==
    \A w \in Writes : proxy.handler[w].throttled /\ proxy.handler[w].registered =>
        \E i \in DOMAIN proxy.throttled_writes : proxy.throttled_writes[i] = w

\* The coordinator implements the abstract batch.
Batch == INSTANCE WriteBatch
           WITH result <- [b \in Batches |-> batch[b].result], Versions <- AllVersions

BatchSpec == Batch!BatchInit /\ [][Batch!BatchNext]_(Batch!batchVars)

\* Every batch that was begun gets an answer, although replicas may never
\* answer and writes may be held back behind one another.
BatchesReturn == \A b \in Batches : Begun(b) ~> (batch[b].result # Pending)
=============================================================================
