------------------------------ MODULE OccProofs ------------------------------
(***************************************************************************)
(* Validation by reading twice, proved for every set of keys, readers and  *)
(* writers and every number of tries.                                      *)
(***************************************************************************)
EXTENDS Occ, TLAPS

Answers == UNION {[D -> Nat] : D \in SUBSET Keys}

Cell == [ts : Nat, value : Nat]
Mutation == [writer : Writers, try : Nat, key : Keys, ts : Nat, value : Nat]
Batch == [try : Nat, ts : Nat, done : BOOLEAN]
Transaction == [phase : {"first", "second", "ok", "error", "null"}, try : Nat,
                exception : BOOLEAN, first : Answers, second : Answers, result : Answers]

Types ==
    /\ now \in Nat
    /\ store \in [Keys -> Cell]
    /\ sent \subseteq Mutation
    /\ writer \in [Writers -> Batch]
    /\ reader \in [Readers -> Transaction]
    /\ between \in [Readers -> [Keys -> Nat]]
    /\ changed \in [Readers -> SUBSET Keys]

\* A mutation is named by its batch, try and key, and only a first try carries
\* the value of its writer: the iterator is at its end in the later ones.
InFlight ==
    /\ \A m \in sent :
         /\ m.try <= writer[m.writer].try
         /\ m.value = IF m.try = 1 THEN m.writer ELSE Blank
    /\ \A m, q \in sent :
         m.writer = q.writer /\ m.try = q.try /\ m.key = q.key => m = q

\* With the mutations s in flight for the batches wr, value v was sent before
\* to key k and no longer is: once replaced it does not come back.
Spent(s, wr, k, v) ==
    /\ \A m \in s : m.key = k => m.value # v
    /\ v \in Writers => wr[v].try > 0

StoredIsSpent ==
    \A k \in Keys : store[k].value # Blank => Spent(sent, writer, k, store[k].value)

\* Transaction rd, whose second pass began with the values b and for which the
\* keys ch changed, in a store st.  What its first pass read is spent, and is
\* in the caller's map until it is compared.  A key
\* that had changed when the second pass began is seen to have changed.  A key
\* that has not changed is still as both passes read it.
Sound(rd, b, ch, st, s, wr) ==
    /\ rd.phase = "first" => DOMAIN rd.second = {}
    /\ rd.phase # "first" /\ rd.phase # "error" => DOMAIN rd.first = Keys
    /\ \A k \in DOMAIN rd.first : rd.first[k] # Blank => Spent(s, wr, k, rd.first[k])
    /\ rd.phase = "second" =>
         \A k \in Keys : rd.first[k] # Blank /\ rd.first[k] # b[k] =>
            /\ st[k].value # rd.first[k]
            /\ k \in DOMAIN rd.second => rd.second[k] # rd.first[k]
    /\ rd.phase = "second" => rd.result = rd.first
    /\ rd.phase = "ok" =>
         \A k \in Keys : rd.first[k] # Blank => rd.first[k] = b[k]
    /\ rd.phase \in {"first", "second"} =>
         \A k \in DOMAIN rd.first \ ch :
            /\ st[k].value = rd.first[k]
            /\ k \in DOMAIN rd.second => rd.second[k] = rd.first[k]

IndInv ==
    /\ Types
    /\ InFlight
    /\ StoredIsSpent
    /\ \A r \in Readers :
         Sound(reader[r], between[r], changed[r], store, sent, writer)

-----------------------------------------------------------------------------

\* What a pass has read grows by one key at a time.
LEMMA ExtendedShape ==
  ASSUME NEW g \in Answers, NEW k \in Keys, NEW v \in Nat
  PROVE  /\ Extended(g, k, v) \in Answers
         /\ DOMAIN Extended(g, k, v) = DOMAIN g \union {k}
         /\ Extended(g, k, v)[k] = v
         /\ \A q \in DOMAIN g : q # k => Extended(g, k, v)[q] = g[q]
<1>1. PICK D \in SUBSET Keys : g \in [D -> Nat]
  BY DEF Answers
<1>2. Extended(g, k, v) \in [D \union {k} -> Nat] /\ D \union {k} \in SUBSET Keys
  BY <1>1 DEF Extended
<1>3. Extended(g, k, v) \in Answers
  BY <1>2 DEF Answers
<1> QED
  BY <1>1, <1>3 DEF Extended

\* A transaction's answers are numbers for some of the keys, none at first; so
\* is what is left of them.
LEMMA AnswersShape ==
  /\ <<>> \in Answers /\ DOMAIN <<>> = {}
  /\ Drained \in Answers
  /\ \A g \in Answers : g \in [DOMAIN g -> Nat] /\ DOMAIN g \subseteq Keys
<1>1. <<>> \in [{} -> Nat] /\ DOMAIN <<>> = {}
  OBVIOUS
<1>2. {} \in SUBSET Keys
  OBVIOUS
<1>3. Drained \in [Keys -> Nat] /\ Keys \in SUBSET Keys
  BY DEF Drained, Blank
<1> QED
  BY <1>1, <1>2, <1>3 DEF Answers

\* A new try has read nothing and is sound whatever the store holds.
LEMMA NewTrySound ==
  ASSUME NEW t \in Nat, NEW e \in BOOLEAN, NEW m \in Answers, NEW b, NEW ch, NEW st, NEW s, NEW wr
  PROVE  /\ NewTry(t, e, m) \in Transaction
         /\ Sound(NewTry(t, e, m), b, ch, st, s, wr)
<1>1. NewTry(t, e, m) \in Transaction
  BY AnswersShape DEF NewTry, Transaction
<1>2. /\ NewTry(t, e, m).phase = "first"
      /\ DOMAIN NewTry(t, e, m).first = {} /\ DOMAIN NewTry(t, e, m).second = {}
  BY AnswersShape DEF NewTry
<1> QED
  BY <1>1, <1>2 DEF Sound

\* The loaded store, with nothing sent and nothing read.
LEMMA InitIndInv == Init => IndInv
<1>1. SUFFICES ASSUME Init PROVE IndInv
  OBVIOUS
<1>2. \A r \in Readers : reader[r] = NewTry(1, FALSE, <<>>)
  BY <1>1 DEF Init
<1>3. \A r \in Readers : /\ reader[r] \in Transaction
                         /\ Sound(reader[r], between[r], changed[r], store, sent, writer)
  <2>1. <<>> \in Answers
    BY AnswersShape
  <2>2. ASSUME NEW b, NEW ch, NEW st, NEW s, NEW wr
        PROVE  /\ NewTry(1, FALSE, <<>>) \in Transaction
               /\ Sound(NewTry(1, FALSE, <<>>), b, ch, st, s, wr)
    BY <2>1, NewTrySound
  <2> QED
    BY <1>2, <2>2, Zenon
<1>4. Types
  <2>1. now \in Nat /\ store \in [Keys -> Cell] /\ sent \subseteq Mutation
    BY <1>1 DEF Init, Cell, LoadValue
  <2>2. writer \in [Writers -> Batch] /\ changed \in [Readers -> SUBSET Keys]
    BY <1>1 DEF Init, Batch
  <2>3. between \in [Readers -> [Keys -> Nat]]
    BY <1>1, <2>1 DEF Init, Values, Cell
  <2>4. reader \in [Readers -> Transaction]
    BY <1>1, <1>3 DEF Init
  <2> QED
    BY <2>1, <2>2, <2>3, <2>4 DEF Types
<1>5. InFlight
  BY <1>1 DEF Init, InFlight
<1>6. StoredIsSpent
  BY <1>1, OccAssumption DEF Init, StoredIsSpent, Spent, LoadValue
<1> QED
  BY <1>3, <1>4, <1>5, <1>6 DEF IndInv

\* A step of one reader that leaves its transaction sound.
LEMMA ReaderMoves ==
  ASSUME IndInv, NEW r \in Readers,
         NEW rd \in Transaction, NEW b \in [Keys -> Nat], NEW ch \in SUBSET Keys,
         reader' = [reader EXCEPT ![r] = rd],
         between' = [between EXCEPT ![r] = b],
         changed' = [changed EXCEPT ![r] = ch],
         UNCHANGED <<now, store, sent, writer>>,
         Sound(rd, b, ch, store, sent, writer)
  PROVE  IndInv'
<1>1. Types'
  BY DEF IndInv, Types
<1>2. InFlight' /\ StoredIsSpent'
  BY DEF IndInv, InFlight, StoredIsSpent
<1>3. ASSUME NEW q \in Readers
      PROVE  Sound(reader'[q], between'[q], changed'[q], store, sent, writer)
  <2>1. CASE q = r
    BY <2>1 DEF IndInv, Types
  <2>2. CASE q # r
    <3>1. reader'[q] = reader[q] /\ between'[q] = between[q] /\ changed'[q] = changed[q]
      BY <2>2 DEF IndInv, Types
    <3> QED
      BY <3>1 DEF IndInv
  <2> QED
    BY <2>1, <2>2
<1> QED
  BY <1>1, <1>2, <1>3 DEF IndInv

-----------------------------------------------------------------------------
(* The steps of the readers.                                               *)

\* A key is read in the first round.
LEMMA ReadFirstIndInv ==
  ASSUME IndInv, NEW r \in Readers, NEW k \in Keys, ReadFirst(r, k)
  PROVE  IndInv'
<1> DEFINE v == store[k].value
           o == reader[r]
           rd == [o EXCEPT !.first = Extended(o.first, k, v)]
<1>1. /\ o \in Transaction /\ o.phase = "first" /\ k \notin DOMAIN o.first
      /\ o.first \in Answers /\ v \in Nat
      /\ Sound(o, between[r], changed[r], store, sent, writer)
      /\ UNCHANGED <<now, store, sent, writer, between, changed>>
  BY DEF ReadFirst, IndInv, Types, Transaction, Cell
<1>2. reader' = [reader EXCEPT ![r] = rd]
  BY DEF ReadFirst
<1>3. /\ Extended(o.first, k, v) \in Answers
      /\ DOMAIN Extended(o.first, k, v) = DOMAIN o.first \union {k}
      /\ Extended(o.first, k, v)[k] = v
      /\ \A q \in DOMAIN o.first : q # k => Extended(o.first, k, v)[q] = o.first[q]
  <2> HIDE DEF o, v
  <2> QED
    BY Zenon, <1>1, ExtendedShape
<1>4. /\ rd \in Transaction /\ rd.phase = "first" /\ rd.second = o.second
      /\ rd.first = Extended(o.first, k, v)
  BY <1>1, <1>3 DEF Transaction
<1>5. v # Blank => Spent(sent, writer, k, v)
  BY DEF IndInv, StoredIsSpent
<1>6. between[r] \in [Keys -> Nat] /\ changed[r] \in SUBSET Keys
      /\ between = [between EXCEPT ![r] = between[r]]
      /\ changed = [changed EXCEPT ![r] = changed[r]]
  BY DEF IndInv, Types
<1> HIDE DEF o, rd, v
<1>7. Sound(rd, between[r], changed[r], store, sent, writer)
  <2>1. DOMAIN rd.second = {} /\ DOMAIN rd.first = DOMAIN o.first \union {k}
    BY <1>1, <1>3, <1>4 DEF Sound
  <2>2. \A q \in DOMAIN rd.first : rd.first[q] # Blank => Spent(sent, writer, q, rd.first[q])
    BY <1>1, <1>3, <1>4, <1>5 DEF Sound
  <2>3. \A q \in DOMAIN rd.first \ changed[r] : store[q].value = rd.first[q]
    BY <1>1, <1>3, <1>4 DEF Sound, v
  <2> QED
    BY <1>4, <2>1, <2>2, <2>3 DEF Sound
<1> QED
  BY <1>1, <1>2, <1>4, <1>6, <1>7, ReaderMoves

\* A key is read again in the second round.
LEMMA ReadSecondIndInv ==
  ASSUME IndInv, NEW r \in Readers, NEW k \in Keys, ReadSecond(r, k)
  PROVE  IndInv'
<1> DEFINE v == store[k].value
           o == reader[r]
           rd == [o EXCEPT !.second = Extended(o.second, k, v)]
<1>1. /\ o \in Transaction /\ o.phase = "second" /\ k \notin DOMAIN o.second
      /\ o.second \in Answers /\ v \in Nat
      /\ Sound(o, between[r], changed[r], store, sent, writer)
      /\ UNCHANGED <<now, store, sent, writer, between, changed>>
  BY DEF ReadSecond, IndInv, Types, Transaction, Cell
<1>2. reader' = [reader EXCEPT ![r] = rd]
  BY DEF ReadSecond
<1>3. /\ Extended(o.second, k, v) \in Answers
      /\ DOMAIN Extended(o.second, k, v) = DOMAIN o.second \union {k}
      /\ Extended(o.second, k, v)[k] = v
      /\ \A q \in DOMAIN o.second : q # k => Extended(o.second, k, v)[q] = o.second[q]
  <2> HIDE DEF o, v
  <2> QED
    BY Zenon, <1>1, ExtendedShape
<1>4. /\ rd \in Transaction /\ rd.phase = "second" /\ rd.first = o.first
      /\ rd.second = Extended(o.second, k, v) /\ rd.result = o.result
  BY <1>1, <1>3 DEF Transaction
<1>5. between[r] \in [Keys -> Nat] /\ changed[r] \in SUBSET Keys
      /\ between = [between EXCEPT ![r] = between[r]]
      /\ changed = [changed EXCEPT ![r] = changed[r]]
  BY DEF IndInv, Types
<1> HIDE DEF o, rd, v
<1>6. Sound(rd, between[r], changed[r], store, sent, writer)
  <2>1. DOMAIN rd.first = Keys /\ rd.result = rd.first
        /\ \A q \in Keys : rd.first[q] # Blank => Spent(sent, writer, q, rd.first[q])
    BY <1>1, <1>4 DEF Sound
  <2>2. \A q \in Keys : rd.first[q] # Blank /\ rd.first[q] # between[r][q] =>
            /\ store[q].value # rd.first[q]
            /\ q \in DOMAIN rd.second => rd.second[q] # rd.first[q]
    BY <1>1, <1>3, <1>4 DEF Sound, v
  <2>3. \A q \in DOMAIN rd.first \ changed[r] :
            /\ store[q].value = rd.first[q]
            /\ q \in DOMAIN rd.second => rd.second[q] = rd.first[q]
    BY <1>1, <1>3, <1>4 DEF Sound, v
  <2> QED
    BY <1>4, <2>1, <2>2, <2>3 DEF Sound
<1> QED
  BY <1>1, <1>2, <1>4, <1>5, <1>6, ReaderMoves

\* The first round is over: the second begins with nothing read.
LEMMA BeginValidationIndInv ==
  ASSUME IndInv, NEW r \in Readers, BeginValidation(r)
  PROVE  IndInv'
<1> DEFINE o == reader[r]
           rd == [o EXCEPT !.phase = "second", !.result = o.first]
<1>1. /\ o \in Transaction /\ o.phase = "first" /\ DOMAIN o.first = Keys
      /\ Sound(o, between[r], changed[r], store, sent, writer)
      /\ UNCHANGED <<now, store, sent, writer, changed>>
      /\ reader' = [reader EXCEPT ![r] = rd]
      /\ between' = [between EXCEPT ![r] = Values]
  BY DEF BeginValidation, IndInv, Types
<1>2. /\ rd \in Transaction /\ rd.phase = "second" /\ rd.first = o.first
      /\ rd.second = o.second /\ rd.result = o.first
  BY <1>1 DEF Transaction
<1>3. Values \in [Keys -> Nat] /\ \A k \in Keys : Values[k] = store[k].value
  BY DEF Values, IndInv, Types, Cell
<1>4. changed[r] \in SUBSET Keys /\ changed = [changed EXCEPT ![r] = changed[r]]
  BY DEF IndInv, Types
<1> HIDE DEF o, rd
<1>5. Sound(rd, Values, changed[r], store, sent, writer)
  <2>1. DOMAIN o.second = {}
    BY <1>1 DEF Sound
  <2> QED
    BY <1>1, <1>2, <1>3, <2>1 DEF Sound
<1> QED
  BY <1>1, <1>2, <1>3, <1>4, <1>5, ReaderMoves

\* A try is given up and the next one starts from nothing.
LEMMA RestartIndInv ==
  ASSUME IndInv, NEW r \in Readers, NEW e \in BOOLEAN, NEW m \in Answers, Restart(r, e, m),
         UNCHANGED <<now, store, sent, writer, between>>
  PROVE  IndInv'
<1> DEFINE t == reader[r].try + 1
           rd == NewTry(t, e, m)
           ch == {}
<1>1. t \in Nat
  BY DEF IndInv, Types, Transaction
<1>2. reader' = [reader EXCEPT ![r] = rd] /\ changed' = [changed EXCEPT ![r] = ch]
  BY DEF Restart
<1>3. between[r] \in [Keys -> Nat] /\ between' = [between EXCEPT ![r] = between[r]]
      /\ ch \in SUBSET Keys
  BY DEF IndInv, Types
<1>4. rd \in Transaction /\ Sound(rd, between[r], ch, store, sent, writer)
  BY <1>1, NewTrySound
<1> HIDE DEF t, rd, ch
<1> QED
  BY <1>2, <1>3, <1>4, ReaderMoves

\* The two rounds are compared: the transaction returns or starts over.
LEMMA ValidateIndInv ==
  ASSUME IndInv, NEW r \in Readers, Validate(r)
  PROVE  IndInv'
<1> DEFINE o == reader[r]
<1>1. /\ o \in Transaction /\ o.phase = "second" /\ DOMAIN o.second = Keys
      /\ Sound(o, between[r], changed[r], store, sent, writer)
      /\ UNCHANGED <<now, store, sent, writer, between>>
  BY DEF Validate, IndInv, Types
<1>2. CASE Restart(r, o.exception, <<>>)
  BY <1>1, <1>2, RestartIndInv, AnswersShape DEF Transaction
<1>3. ASSUME NEW p \in {"ok", "error", "null"}, NEW m \in Answers,
             p = "ok" => Valid(o.result, o.second),
             reader' = [reader EXCEPT ![r] = [@ EXCEPT !.phase = p, !.result = m]],
             UNCHANGED changed
      PROVE  IndInv'
  <2> DEFINE rd == [o EXCEPT !.phase = p, !.result = m]
  <2>1. reader' = [reader EXCEPT ![r] = rd]
    BY <1>3
  <2>2. /\ rd \in Transaction /\ rd.phase = p /\ rd.first = o.first
        /\ rd.second = o.second
    BY <1>1 DEF Transaction
  <2>3. /\ between[r] \in [Keys -> Nat] /\ between' = [between EXCEPT ![r] = between[r]]
        /\ changed[r] \in SUBSET Keys /\ changed' = [changed EXCEPT ![r] = changed[r]]
    BY <1>1, <1>3 DEF IndInv, Types
  <2> HIDE DEF o, rd
  <2>4. Sound(rd, between[r], changed[r], store, sent, writer)
    <3>1. DOMAIN rd.first = Keys
          /\ \A q \in Keys : rd.first[q] # Blank => Spent(sent, writer, q, rd.first[q])
      BY <1>1, <2>2 DEF Sound
    <3>2. p = "ok" => \A q \in Keys : rd.first[q] # Blank => rd.first[q] = between[r][q]
      BY <1>1, <1>3, <2>2 DEF Sound, Valid
    <3> QED
      BY <2>2, <1>3, <3>1, <3>2 DEF Sound
  <2> QED
    BY <1>1, <2>1, <2>2, <2>3, <2>4, ReaderMoves
<1> QED
  <2>1. \/ /\ Valid(o.result, o.second)
           /\ reader' = [reader EXCEPT ![r] = [@ EXCEPT !.phase = "ok", !.result = Drained]]
           /\ UNCHANGED changed
        \/ Restart(r, o.exception, <<>>)
        \/ /\ reader' = [reader EXCEPT ![r] = [@ EXCEPT
                           !.phase = IF o.exception THEN "error" ELSE "null", !.result = <<>>]]
           /\ UNCHANGED changed
    BY DEF Validate
  <2> QED
    BY <1>2, <1>3, <2>1, AnswersShape

\* A round fails: the client starts over or gives up.
LEMMA ReadFailsIndInv ==
  ASSUME IndInv, NEW r \in Readers, ReadFails(r)
  PROVE  IndInv'
<1>1. UNCHANGED <<now, store, sent, writer, between>>
  BY DEF ReadFails
<1>2. CASE Restart(r, TRUE, reader[r].result)
  BY <1>1, <1>2, RestartIndInv DEF IndInv, Types, Transaction
<1>3. CASE /\ reader' = [reader EXCEPT ![r] = [@ EXCEPT !.phase = "error", !.exception = TRUE]]
           /\ UNCHANGED changed
  <2> DEFINE o == reader[r]
             rd == [o EXCEPT !.phase = "error", !.exception = TRUE]
  <2>1. reader' = [reader EXCEPT ![r] = rd]
    BY <1>3
  <2>2. /\ o \in Transaction
        /\ Sound(o, between[r], changed[r], store, sent, writer)
        /\ between[r] \in [Keys -> Nat] /\ between' = [between EXCEPT ![r] = between[r]]
        /\ changed[r] \in SUBSET Keys /\ changed' = [changed EXCEPT ![r] = changed[r]]
    BY <1>1, <1>3 DEF IndInv, Types
  <2>3. /\ rd \in Transaction /\ rd.phase = "error" /\ rd.first = o.first
        /\ rd.second = o.second
    BY <2>2 DEF Transaction
  <2> HIDE DEF o, rd
  <2>4. Sound(rd, between[r], changed[r], store, sent, writer)
    BY <2>2, <2>3 DEF Sound
  <2> QED
    BY <1>1, <2>1, <2>2, <2>3, <2>4, ReaderMoves
<1> QED
  BY <1>2, <1>3 DEF ReadFails

-----------------------------------------------------------------------------
(* The steps of the writers and the replicas.                              *)

\* A value that is spent stays spent.
LEMMA SpentStays ==
  ASSUME IndInv, NEW k \in Keys, NEW v, v # Blank, Spent(sent, writer, k, v),
         \/ \E w \in Writers : SendBatch(w) \/ BatchDone(w)
         \/ \E m \in sent : Apply(m)
  PROVE  Spent(sent', writer', k, v)
<1>1. ASSUME NEW w \in Writers, SendBatch(w)
      PROVE  Spent(sent', writer', k, v)
  <2> DEFINE t == writer[w].try + 1
             x == IF t = 1 THEN w ELSE Blank
  <2>1. /\ writer' = [writer EXCEPT ![w] = [writer[w] EXCEPT !.try = t, !.ts = now]]
        /\ sent' = sent \union {[writer |-> w, try |-> t, key |-> q, ts |-> now, value |-> x] : q \in Keys}
        /\ writer[w].try \in Nat /\ writer \in [Writers -> Batch]
    BY <1>1 DEF SendBatch, IndInv, Types, Batch
  <2>2. \A u \in Writers : writer'[u].try >= writer[u].try /\ writer[u].try \in Nat
                           /\ writer'[u].try \in Nat
    BY <2>1 DEF Batch
  <2>3. x # v
    BY <2>1 DEF Spent
  <2>4. \A m \in sent' : m \in sent \/ m.value = x
    BY <2>1
  <2> HIDE DEF x
  <2> QED
    BY <2>2, <2>3, <2>4 DEF Spent
<1>2. ASSUME NEW w \in Writers, BatchDone(w)
      PROVE  Spent(sent', writer', k, v)
  <2>1. sent' = sent /\ writer' = [writer EXCEPT ![w].done = TRUE]
        /\ writer \in [Writers -> Batch]
    BY <1>2 DEF BatchDone, IndInv, Types
  <2>2. \A u \in Writers : writer'[u].try = writer[u].try
    BY <2>1 DEF Batch
  <2> QED
    BY <2>1, <2>2 DEF Spent
<1>3. ASSUME NEW m \in sent, Apply(m)
      PROVE  Spent(sent', writer', k, v)
  BY <1>3 DEF Apply, Spent
<1> QED
  BY <1>1, <1>2, <1>3

\* A step that does not touch the store, nor any transaction.
LEMMA WriterMoves ==
  ASSUME IndInv, Types', InFlight', UNCHANGED <<store, reader, between, changed>>,
         \E w \in Writers : SendBatch(w) \/ BatchDone(w)
  PROVE  IndInv'
<1>1. StoredIsSpent'
  <2>1. SUFFICES ASSUME NEW k \in Keys, store[k].value # Blank
                 PROVE  Spent(sent', writer', k, store[k].value)
    BY DEF StoredIsSpent
  <2> QED
    BY <2>1, SpentStays DEF IndInv, StoredIsSpent
<1>2. ASSUME NEW r \in Readers
      PROVE  Sound(reader[r], between[r], changed[r], store, sent', writer')
  <2> DEFINE o == reader[r]
  <2>1. Sound(o, between[r], changed[r], store, sent, writer) /\ DOMAIN o.first \subseteq Keys
    BY AnswersShape DEF IndInv, Types, Transaction
  <2>2. \A k \in DOMAIN o.first : o.first[k] # Blank => Spent(sent', writer', k, o.first[k])
    BY <2>1, SpentStays DEF Sound
  <2> HIDE DEF o
  <2>3. Sound(o, between[r], changed[r], store, sent', writer')
    BY <2>1, <2>2 DEF Sound
  <2> QED
    BY <2>3 DEF o
<1> QED
  BY <1>1, <1>2 DEF IndInv

\* insert() sends a batch with the time of the client's clock.
LEMMA SendBatchIndInv ==
  ASSUME IndInv, NEW w \in Writers, SendBatch(w)
  PROVE  IndInv'
<1> DEFINE t == writer[w].try + 1
           x == IF t = 1 THEN w ELSE Blank
           Sent(q) == [writer |-> w, try |-> t, key |-> q, ts |-> now, value |-> x]
<1>1. /\ writer' = [writer EXCEPT ![w] = [writer[w] EXCEPT !.try = t, !.ts = now]]
      /\ sent' = sent \union {Sent(q) : q \in Keys}
      /\ UNCHANGED <<now, store, reader, between, changed>>
  BY DEF SendBatch
<1>2. /\ writer \in [Writers -> Batch] /\ sent \subseteq Mutation /\ now \in Nat
      /\ writer[w].try \in Nat /\ t \in Nat /\ x \in Nat
  BY OccAssumption DEF IndInv, Types, Batch, Blank
<1>3. Types'
  <2>1. \A q \in Keys : Sent(q) \in Mutation
    BY <1>2 DEF Mutation
  <2>2. sent' \subseteq Mutation
    BY <1>1, <1>2, <2>1
  <2>3. writer' \in [Writers -> Batch]
    BY <1>1, <1>2 DEF Batch
  <2> QED
    BY <1>1, <2>2, <2>3 DEF IndInv, Types
<1>4. /\ \A u \in Writers : writer'[u].try \in Nat /\ writer[u].try \in Nat
                            /\ writer'[u].try >= writer[u].try
      /\ writer'[w].try = t
  BY <1>1, <1>2 DEF Batch
<1>5. \A m \in sent : m.writer \in Writers /\ m.try \in Nat /\ m.try <= writer[m.writer].try
  BY <1>2 DEF IndInv, InFlight, Mutation
<1>6. \A m \in sent : m.writer = w => m.try # t
  BY <1>2, <1>5
<1>7. InFlight'
  <2>1. ASSUME NEW m \in sent'
        PROVE  /\ m.try <= writer'[m.writer].try
               /\ m.value = IF m.try = 1 THEN m.writer ELSE Blank
    <3>1. CASE m \in sent
      BY <1>4, <1>5, <3>1 DEF IndInv, InFlight
    <3>2. CASE \E q \in Keys : m = Sent(q)
      BY <1>2, <1>4, <3>2
    <3> QED
      BY <1>1, <3>1, <3>2
  <2>2. ASSUME NEW m \in sent', NEW u \in sent',
               m.writer = u.writer, m.try = u.try, m.key = u.key
        PROVE  m = u
    <3>1. CASE m \in sent /\ u \in sent
      BY <2>2, <3>1 DEF IndInv, InFlight
    <3>2. \A a \in sent' : a \notin sent => a.writer = w /\ a.try = t /\ a = Sent(a.key)
      BY <1>1
    <3> QED
      BY <1>6, <2>2, <3>1, <3>2
  <2> QED
    BY <2>1, <2>2 DEF InFlight
<1> QED
  BY <1>1, <1>3, <1>7, WriterMoves

\* The last try of a batch is applied, although requests of earlier ones may be in flight.
LEMMA BatchDoneIndInv ==
  ASSUME IndInv, NEW w \in Writers, BatchDone(w)
  PROVE  IndInv'
<1>1. /\ writer' = [writer EXCEPT ![w].done = TRUE]
      /\ UNCHANGED <<now, store, sent, reader, between, changed>>
      /\ writer \in [Writers -> Batch] /\ sent \subseteq Mutation
  BY DEF BatchDone, IndInv, Types
<1>2. Types'
  <2>1. writer' \in [Writers -> Batch]
    BY <1>1 DEF Batch
  <2> QED
    BY <1>1, <2>1 DEF IndInv, Types
<1>3. \A u \in Writers : writer'[u].try = writer[u].try
  BY <1>1 DEF Batch
<1>4. InFlight'
  BY <1>1, <1>3 DEF IndInv, InFlight, Mutation
<1> QED
  BY <1>1, <1>2, <1>4, WriterMoves

\* A mutation reaches its replica.  What it stores was on its way, so it is not
\* what any transaction has read from that key, and no longer is.
LEMMA ApplyIndInv ==
  ASSUME IndInv, NEW m \in sent, Apply(m)
  PROVE  IndInv'
<1> DEFINE x == m.key
<1>1. /\ sent' = sent \ {m} /\ UNCHANGED <<now, writer, reader, between>>
      /\ store' = store \/ store' = [store EXCEPT ![x] = [ts |-> m.ts, value |-> m.value]]
      /\ changed' = [r \in Readers |->
                       IF store'[x].value # store[x].value /\ x \in DOMAIN reader[r].first
                       THEN changed[r] \union {x} ELSE changed[r]]
  BY DEF Apply
<1>2. m \in Mutation /\ store \in [Keys -> Cell] /\ x \in Keys /\ m.value \in Nat /\ m.ts \in Nat
  BY DEF IndInv, Types, Mutation
<1>3. /\ \A k \in Keys : k # x => store'[k] = store[k]
      /\ store'[x].value = store[x].value \/ store'[x].value = m.value
  BY <1>1, <1>2
<1>4. Types'
  <2>1. store' \in [Keys -> Cell]
    BY <1>1, <1>2 DEF Cell
  <2>2. changed' \in [Readers -> SUBSET Keys]
    BY <1>1, <1>2 DEF IndInv, Types
  <2> QED
    BY <1>1, <2>1, <2>2 DEF IndInv, Types
<1>5. InFlight'
  BY <1>1 DEF IndInv, InFlight
<1>6. m.value # Blank => Spent(sent', writer', x, m.value)
  <2>1. SUFFICES ASSUME m.value # Blank PROVE Spent(sent', writer', x, m.value)
    OBVIOUS
  <2>2. m.try = 1 /\ m.value = m.writer /\ m.try <= writer[m.writer].try
    BY <2>1 DEF IndInv, InFlight
  <2>3. writer[m.value].try > 0
    BY <1>2, <2>2 DEF IndInv, Types, Batch, Mutation
  <2>4. \A q \in sent' : q.key = x => q.value # m.value
    <3>1. SUFFICES ASSUME NEW q \in sent, q # m, q.key = x, q.value = m.value PROVE FALSE
      BY <1>1
    <3>2. q.try = 1 /\ q.writer = m.writer
      BY <2>1, <2>2, <3>1 DEF IndInv, InFlight
    <3> QED
      BY <2>2, <3>1, <3>2 DEF IndInv, InFlight
  <2> QED
    BY <1>1, <2>3, <2>4 DEF Spent
<1>7. StoredIsSpent'
  <2>1. SUFFICES ASSUME NEW k \in Keys, store'[k].value # Blank
                 PROVE  Spent(sent', writer', k, store'[k].value)
    BY DEF StoredIsSpent
  <2>2. CASE store'[k].value = store[k].value
    BY <2>1, <2>2, SpentStays DEF IndInv, StoredIsSpent
  <2>3. CASE store'[k].value # store[k].value
    BY <1>3, <1>6, <2>1, <2>3
  <2> QED
    BY <2>2, <2>3
<1>8. ASSUME NEW r \in Readers
      PROVE  Sound(reader[r], between[r], changed'[r], store', sent', writer')
  <2> DEFINE o == reader[r]
  <2>1. /\ Sound(o, between[r], changed[r], store, sent, writer)
        /\ o \in Transaction /\ DOMAIN o.first \subseteq Keys
    BY AnswersShape DEF IndInv, Types, Transaction
  <2>2. \A k \in DOMAIN o.first : o.first[k] # Blank => Spent(sent', writer', k, o.first[k])
    BY <2>1, SpentStays DEF Sound
  <2>3. \A k \in DOMAIN o.first : o.first[k] # Blank /\ store[k].value # o.first[k] =>
           store'[k].value # o.first[k]
    <3>1. x \in DOMAIN o.first /\ o.first[x] # Blank => m.value # o.first[x]
      BY <2>1 DEF Sound, Spent
    <3> QED
      BY <1>3, <2>1, <3>1
  <2>4. changed'[r] = IF store'[x].value # store[x].value /\ x \in DOMAIN o.first
                      THEN changed[r] \union {x} ELSE changed[r]
    BY <1>1
  <2>5. \A k \in DOMAIN o.first \ changed'[r] :
           k \notin changed[r] /\ store'[k].value = store[k].value
    BY <1>3, <2>1, <2>4
  <2> HIDE DEF o
  <2>6. o.phase = "second" =>
           \A k \in Keys : o.first[k] # Blank /\ o.first[k] # between[r][k] =>
              /\ store'[k].value # o.first[k]
              /\ k \in DOMAIN o.second => o.second[k] # o.first[k]
    BY <2>1, <2>3 DEF Sound
  <2>7. o.phase \in {"first", "second"} =>
           \A k \in DOMAIN o.first \ changed'[r] :
              /\ store'[k].value = o.first[k]
              /\ k \in DOMAIN o.second => o.second[k] = o.first[k]
    BY <2>1, <2>5 DEF Sound
  <2>8. Sound(o, between[r], changed'[r], store', sent', writer')
    BY <2>1, <2>2, <2>6, <2>7 DEF Sound
  <2> QED
    BY <2>8 DEF o
<1> QED
  BY <1>1, <1>4, <1>5, <1>7, <1>8 DEF IndInv

-----------------------------------------------------------------------------

\* IndInv holds in every reachable state.
THEOREM IndInvHolds == Spec => []IndInv
<1>1. Init => IndInv
  BY InitIndInv
<1>2. IndInv /\ [Next]_vars => IndInv'
  <2>1. ASSUME IndInv, UNCHANGED <<store, sent, writer, reader, between, changed>>, now' \in Nat
        PROVE  IndInv'
    <3>1. Types'
      BY <2>1 DEF IndInv, Types
    <3>2. InFlight' /\ StoredIsSpent'
      BY <2>1 DEF IndInv, InFlight, StoredIsSpent
    <3> QED
      BY <2>1, <3>1, <3>2 DEF IndInv
  <2>2. ASSUME IndInv, Tick PROVE IndInv'
    BY <2>1, <2>2 DEF Tick, IndInv, Types
  <2>3. ASSUME IndInv, UNCHANGED vars PROVE IndInv'
    BY <2>1, <2>3 DEF vars, IndInv, Types
  <2> QED
    BY <2>2, <2>3, SendBatchIndInv, BatchDoneIndInv, ApplyIndInv, ReadFirstIndInv,
       ReadSecondIndInv, BeginValidationIndInv, ValidateIndInv, ReadFailsIndInv DEF Next
<1> QED
  BY <1>1, <1>2, PTL DEF Spec

\* What validation accepts is what the store held when the second pass began,
\* blank values excepted: read() never decides for OK on a mixture of batches.
THEOREM ValidatedIsSnapshot == Spec => []ValidatedReadsAreSnapshots
<1>1. IndInv => ValidatedReadsAreSnapshots
  BY DEF IndInv, Sound, ValidatedReadsAreSnapshots
<1> QED
  BY <1>1, IndInvHolds, PTL

\* read() refuses what it has read twice only if a write changed a key between
\* the two passes.
THEOREM RefusedByWrites == Spec => []RefusedOnlyByWrites
<1>1. IndInv => RefusedOnlyByWrites
  <2>1. SUFFICES ASSUME IndInv, NEW r \in Readers, reader[r].phase = "second",
                        DOMAIN reader[r].second = Keys, changed[r] = {}
                 PROVE  Valid(reader[r].first, reader[r].second)
    BY DEF RefusedOnlyByWrites
  <2>2. Sound(reader[r], between[r], changed[r], store, sent, writer)
    BY <2>1 DEF IndInv
  <2> QED
    BY <2>1, <2>2 DEF Sound, Valid
<1> QED
  BY <1>1, IndInvHolds, PTL
=============================================================================
