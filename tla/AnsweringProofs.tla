--------------------------- MODULE AnsweringProofs ---------------------------
(***************************************************************************)
(* Proofs about Answering: for any number of turns, permits, attempts,     *)
(* tokens and index generations and any history window, a turn's stream,   *)
(* its evidence, its history, its outcome and its permit are what the      *)
(* service promises.                                                       *)
(***************************************************************************)
EXTENDS Answering, SequenceTheorems, FiniteSetTheorems, TLAPS

-----------------------------------------------------------------------------
(* The inductive invariant, a turn's part of it a predicate of its record  *)

\* Nothing has been searched or said.
Untouched(r) ==
    /\ r.wire = <<>> /\ r.emitted = 0 /\ r.parts = 0 /\ r.citations = None /\ r.heard = 0
    /\ r.cited = {} /\ r.answer = 0 /\ r.failure = None
    /\ r.attempts = 0 /\ r.spans.count = 0 /\ r.judged = "none"

\* c is the citation list the turn sends: what its first search found, or nothing when it
\* is no question about the code.
Listed(r, c) ==
    IF r.intent = "codebase_question"
    THEN c \in Spans /\ c.generation = r.generation /\ (r.attempts = 1 => c = r.spans)
    ELSE c = None

\* Before its terminator, a stream holds tokens that nobody has read, after the citation
\* list if that was not read either.
Unread(r, c) ==
    /\ r.heard = 0 /\ r.parts = 0 /\ r.citations = None
    /\ r.wire # <<>> /\ Head(r.wire) = [kind |-> "citations", spans |-> c]
    /\ \A i \in 2..Len(r.wire) : r.wire[i] = Token
    /\ r.emitted = Len(r.wire) - 1

Read(r, c) ==
    /\ r.heard = 1 /\ r.citations = c
    /\ \A i \in 1..Len(r.wire) : r.wire[i] = Token
    /\ r.emitted = r.parts + Len(r.wire)

Said(r) ==
    /\ r.finish = "disconnected" /\ r.cited = {}
    /\ \E c \in Spans \cup {None} : Listed(r, c) /\ (Unread(r, c) \/ Read(r, c))

\* The present spans come from a search of the turn's own generation.
Searched(r) ==
    /\ r.intent = "codebase_question" /\ r.attempts > 0
    /\ r.spans.generation = r.generation

\* The grader has judged the present spans.
Judged(r) ==
    /\ r.judged = "ok" => r.evidence_ok
    /\ r.judged = "weak" => ~r.evidence_ok
    /\ r.judged # "none"

\* What the graph leaves behind when it ends.
Grounded(r) ==
    IF r.intent = "codebase_question"
    THEN Searched(r) /\ (r.spans.count # 0 => Judged(r))
    ELSE r.attempts = 0 /\ r.spans.count = 0

Unanswered(r) == r.emitted = 0 /\ r.answer = 0 /\ r.failure = None

\* e ends the stream of the turn.
Terminator(r, e) ==
    \/ \E how \in {"error", "timeout"} : e = [kind |-> "error", finish |-> how]
    \/ \E cited \in {{}, 1..r.spans.count}, warnings \in SUBSET Warnings :
          /\ e = [kind |-> "done", cited |-> cited, warnings |-> warnings]
          /\ r.spans.count > 0 => ("weak_evidence" \in warnings <=> r.judged = "weak")

\* A stream whose answerer is done: the refusal, if it was one, and the terminator are on
\* their way, or everything has been read.
Closing(r) ==
    /\ r.heard = 1 /\ Listed(r, r.citations)
    /\ \/ /\ r.wire = <<>> /\ r.finish # "disconnected" /\ r.emitted = r.parts
          /\ r.finish = "stop" => r.cited \in {{}, 1..r.spans.count}
       \/ /\ r.finish = "disconnected" /\ r.cited = {}
          /\ \E e \in Event : Terminator(r, e) /\
               \/ r.wire = <<e>> /\ r.emitted = r.parts
               \/ r.wire = <<Token, e>> /\ r.emitted = r.parts + 1

\* The turn at each node of the graph.
AtNode(r) ==
    CASE r.node \in {"queued", "classify"} -> Untouched(r) /\ r.finish = "disconnected"
      [] r.node \in {"answer_from_history", "refuse"} ->
            Untouched(r) /\ r.finish = "disconnected" /\ r.intent # "codebase_question"
      [] r.node = "retrieve" ->
            /\ r.intent = "codebase_question" /\ r.attempts < MaxAttempts
            /\ Unanswered(r) /\ r.finish = "disconnected"
            /\ IF r.attempts = 0 THEN Untouched(r) ELSE Searched(r) /\ Said(r)
      [] r.node = "grade" -> Searched(r) /\ r.spans.count # 0 /\ Unanswered(r) /\ Said(r)
      [] r.node = "generate" ->
            /\ Searched(r) /\ r.spans.count # 0 /\ Judged(r) /\ Said(r)
            /\ r.answer = 0 /\ r.failure = None
      [] r.node = "reply" ->
            /\ r.intent # "codebase_question" /\ r.attempts = 0 /\ r.spans.count = 0
            /\ Said(r) /\ r.answer = 0 /\ r.failure = None
      [] r.node = "end" ->
            /\ Grounded(r) /\ Said(r)
            /\ r.intent = "codebase_question" /\ r.spans.count = 0 => Unanswered(r)
      [] r.node = "terminated" -> Grounded(r) /\ Closing(r)
      [] r.node = "raised" ->
            /\ r.intent = "codebase_question" /\ r.wire = <<>>
            /\ Unanswered(r) /\ r.parts = 0 /\ r.heard <= 1 /\ r.finish = "disconnected"
            /\ r.attempts > 0 => Searched(r)
            /\ r.citations # None => r.citations.generation = r.generation
      [] OTHER -> FALSE

StreamInv(r) ==
    /\ r.stream # "open" => Untouched(r) /\ r.node = "none"
    /\ r.stream \in {"none", "committed", "prepared"} => r.finish = "disconnected"
    /\ r.stream = "open" => AtNode(r)

StreamsInv == \A t \in Turns : StreamInv(turn[t])

\* A turn has one question, from its commit on, and its answer.
OutcomeInv ==
    /\ \A t \in Turns : \A i, j \in QuestionsOf(t) : i = j
    /\ \A t \in Turns : turn[t].stream = "none" <=> QuestionsOf(t) = {}
    /\ \A t \in Turns :
          IF turn[t].stream = "closed" /\ turn[t].why = "none"
          THEN \E i \in DOMAIN messages : AnswersOf(t) = {i}
          ELSE AnswersOf(t) = {}

HistoryInv ==
    \A t \in Turns : turn[t].stream \in {"prepared", "open"} =>
        /\ turn[t].history \subseteq DOMAIN messages
        /\ Cardinality(turn[t].history) <= HistoryTurns
        /\ \A i \in turn[t].history : Replayable(i)
        /\ turn[t].alone => turn[t].history = PastOf(t)

NoRepeat(w) == \A i, j \in DOMAIN w : w[i] = w[j] => i = j

\* The semaphore s hands out no more permits than it has, and nobody queues twice or with
\* a permit.
Orderly(s) ==
    /\ s \in [holders : SUBSET Turns, waiters : Seq(Turns)]
    /\ IsFiniteSet(s.holders) /\ Cardinality(s.holders) <= Permits
    /\ NoRepeat(s.waiters)
    /\ \A t \in ToSet(s.waiters) : t \notin s.holders

Known(s) == s.holders \cup ToSet(s.waiters)

SemaphoreInv == Orderly(semaphore) /\ PermitsAccountedFor

Inv ==
    /\ TypeOK /\ StreamsInv /\ OutcomeInv /\ HistoryInv /\ SemaphoreInv
    /\ NotesGoWithTheTurn

-----------------------------------------------------------------------------
(* What an update of a turn's record keeps, a lemma for each shape of it.  *)

\* Which groups of a turn's fields a step leaves alone.
SameRequest(r, n) ==
    /\ n.stream = r.stream /\ n.generation = r.generation
    /\ n.history = r.history /\ n.alone = r.alone
SameEvidence(r, n) ==
    /\ n.intent = r.intent /\ n.spans = r.spans /\ n.attempts = r.attempts
    /\ n.evidence_ok = r.evidence_ok /\ n.judged = r.judged
SameAnswer(r, n) == n.answer = r.answer /\ n.failure = r.failure
SameSpeech(r, n) ==
    /\ n.wire = r.wire /\ n.emitted = r.emitted /\ n.parts = r.parts
    /\ n.citations = r.citations /\ n.heard = r.heard /\ n.cited = r.cited
    /\ n.finish = r.finish
\* The consumer's locals.
SameLocals(r, n) ==
    /\ n.parts = r.parts /\ n.citations = r.citations /\ n.heard = r.heard
    /\ n.cited = r.cited /\ n.finish = r.finish

LEMMA NodeRecord ==
    ASSUME NEW r \in Turn, NEW d \in Nodes, NEW n, n = [r EXCEPT !.node = d]
    PROVE  /\ n \in Turn /\ n.node = d
           /\ SameRequest(r, n) /\ SameEvidence(r, n) /\ SameAnswer(r, n) /\ SameSpeech(r, n)
<1>1. n \in Turn
  BY DEF Turn
<1>2. n.node = d /\ SameRequest(r, n) /\ SameEvidence(r, n)
  BY DEF Turn, SameRequest, SameEvidence
<1>3. SameAnswer(r, n) /\ SameSpeech(r, n)
  BY DEF Turn, SameAnswer, SameSpeech
<1> QED BY <1>1, <1>2, <1>3

LEMMA OpenedRecord ==
    ASSUME NEW r \in Turn, NEW n, n = [r EXCEPT !.stream = "open", !.node = "queued"]
    PROVE  /\ n \in Turn /\ n.stream = "open" /\ n.node = "queued"
           /\ n.history = r.history /\ n.alone = r.alone /\ n.generation = r.generation
           /\ SameEvidence(r, n) /\ SameAnswer(r, n) /\ SameSpeech(r, n)
<1>1. "open" \in Streams /\ "queued" \in Nodes
  BY DEF Streams, Nodes
<1>2. n \in Turn
  BY <1>1 DEF Turn
<1>3. /\ n.stream = "open" /\ n.node = "queued"
      /\ n.history = r.history /\ n.alone = r.alone /\ n.generation = r.generation
  BY DEF Turn
<1>4. SameEvidence(r, n) /\ SameAnswer(r, n) /\ SameSpeech(r, n)
  BY DEF Turn, SameEvidence, SameAnswer, SameSpeech
<1> QED BY <1>2, <1>3, <1>4

LEMMA ClassifiedRecord ==
    ASSUME NEW r \in Turn, NEW i \in Intents, NEW a \in 0..MaxAttempts, NEW d \in Nodes,
           NEW n, n = [r EXCEPT !.intent = i, !.attempts = a, !.node = d]
    PROVE  /\ n \in Turn /\ n.intent = i /\ n.attempts = a /\ n.node = d
           /\ n.spans = r.spans /\ n.judged = r.judged
           /\ SameRequest(r, n) /\ SameAnswer(r, n) /\ SameSpeech(r, n)
<1>1. n \in Turn
  BY DEF Turn
<1>2. /\ n.intent = i /\ n.attempts = a /\ n.node = d
      /\ n.spans = r.spans /\ n.judged = r.judged
  BY DEF Turn
<1>3. SameRequest(r, n) /\ SameAnswer(r, n) /\ SameSpeech(r, n)
  BY DEF Turn, SameRequest, SameAnswer, SameSpeech
<1> QED BY <1>1, <1>2, <1>3

AfterSearch(r, s, a, w, d) ==
    [r EXCEPT !.spans = s, !.judged = "none", !.attempts = a, !.wire = w, !.node = d]

LEMMA SearchedRecord ==
    ASSUME NEW r \in Turn, NEW s \in Spans, NEW a \in 0..MaxAttempts, NEW w \in Seq(Event),
           NEW d \in Nodes, NEW n, n = AfterSearch(r, s, a, w, d)
    PROVE  /\ n \in Turn /\ n.spans = s /\ n.attempts = a /\ n.wire = w /\ n.node = d
           /\ n.intent = r.intent /\ n.emitted = r.emitted
           /\ SameRequest(r, n) /\ SameAnswer(r, n) /\ SameLocals(r, n)
<1>1. n \in Turn
  BY DEF Turn, AfterSearch
<1>2. /\ n.spans = s /\ n.attempts = a /\ n.wire = w /\ n.node = d
      /\ n.intent = r.intent /\ n.emitted = r.emitted
  BY DEF Turn, AfterSearch
<1>3. SameRequest(r, n) /\ SameAnswer(r, n) /\ SameLocals(r, n)
  BY DEF Turn, AfterSearch, SameRequest, SameAnswer, SameLocals
<1> QED BY <1>1, <1>2, <1>3

AfterGrade(r, ok, j, d) ==
    [r EXCEPT !.evidence_ok = ok, !.judged = j, !.node = d]

LEMMA GradedRecord ==
    ASSUME NEW r \in Turn, NEW ok \in BOOLEAN, NEW j \in {"ok", "weak"}, NEW d \in Nodes,
           NEW n, n = AfterGrade(r, ok, j, d)
    PROVE  /\ n \in Turn /\ n.evidence_ok = ok /\ n.judged = j /\ n.node = d
           /\ n.intent = r.intent /\ n.spans = r.spans /\ n.attempts = r.attempts
           /\ SameRequest(r, n) /\ SameAnswer(r, n) /\ SameSpeech(r, n)
<1>1. n \in Turn
  BY DEF Turn, AfterGrade
<1>2. /\ n.evidence_ok = ok /\ n.judged = j /\ n.node = d
      /\ n.intent = r.intent /\ n.spans = r.spans /\ n.attempts = r.attempts
  BY DEF Turn, AfterGrade
<1>3. SameRequest(r, n) /\ SameAnswer(r, n) /\ SameSpeech(r, n)
  BY DEF Turn, AfterGrade, SameRequest, SameAnswer, SameSpeech
<1> QED BY <1>1, <1>2, <1>3

AfterReply(r, d, w) ==
    [r EXCEPT !.node = d, !.wire = w]

LEMMA RepliedRecord ==
    ASSUME NEW r \in Turn, NEW w \in Seq(Event), NEW d \in Nodes, NEW n,
           n = AfterReply(r, d, w)
    PROVE  /\ n \in Turn /\ n.node = d /\ n.wire = w /\ n.emitted = r.emitted
           /\ SameRequest(r, n) /\ SameEvidence(r, n) /\ SameAnswer(r, n) /\ SameLocals(r, n)
<1>1. n \in Turn
  BY DEF Turn, AfterReply
<1>2. n.node = d /\ n.wire = w /\ n.emitted = r.emitted
  BY DEF Turn, AfterReply
<1>3. SameRequest(r, n) /\ SameEvidence(r, n)
  BY DEF Turn, AfterReply, SameRequest, SameEvidence
<1>4. SameAnswer(r, n) /\ SameLocals(r, n)
  BY DEF Turn, AfterReply, SameAnswer, SameLocals
<1> QED BY <1>1, <1>2, <1>3, <1>4

LEMMA EmittedRecord ==
    ASSUME NEW r \in Turn, NEW k \in 0..MaxTokens, NEW w \in Seq(Event), NEW n,
           n = [r EXCEPT !.emitted = k, !.wire = w]
    PROVE  /\ n \in Turn /\ n.emitted = k /\ n.wire = w /\ n.node = r.node
           /\ SameRequest(r, n) /\ SameEvidence(r, n) /\ SameAnswer(r, n) /\ SameLocals(r, n)
<1>1. n \in Turn
  BY DEF Turn
<1>2. n.emitted = k /\ n.wire = w /\ n.node = r.node
  BY DEF Turn
<1>3. SameRequest(r, n) /\ SameEvidence(r, n)
  BY DEF Turn, SameRequest, SameEvidence
<1>4. SameAnswer(r, n) /\ SameLocals(r, n)
  BY DEF Turn, SameAnswer, SameLocals
<1> QED BY <1>1, <1>2, <1>3, <1>4

AfterFinish(r, a, f, d) ==
    [r EXCEPT !.answer = a, !.failure = f, !.node = d]

LEMMA FinishedRecord ==
    ASSUME NEW r \in Turn, NEW a \in 0..MaxTokens, NEW f \in {None, "timeout", "error"},
           NEW d \in Nodes, NEW n, n = AfterFinish(r, a, f, d)
    PROVE  /\ n \in Turn /\ n.answer = a /\ n.failure = f /\ n.node = d
           /\ SameRequest(r, n) /\ SameEvidence(r, n) /\ SameSpeech(r, n)
<1>1. n \in Turn
  BY DEF Turn, AfterFinish
<1>2. n.answer = a /\ n.failure = f /\ n.node = d /\ SameRequest(r, n)
  BY DEF Turn, AfterFinish, SameRequest
<1>3. SameEvidence(r, n) /\ SameSpeech(r, n)
  BY DEF Turn, AfterFinish, SameEvidence, SameSpeech
<1> QED BY <1>1, <1>2, <1>3

AfterRefusal(r, a, d, w) ==
    [r EXCEPT !.answer = a, !.emitted = a, !.node = d, !.wire = w]

LEMMA RefusedRecord ==
    ASSUME NEW r \in Turn, NEW a \in 0..MaxTokens, NEW d \in Nodes, NEW w \in Seq(Event),
           NEW n, n = AfterRefusal(r, a, d, w)
    PROVE  /\ n \in Turn /\ n.answer = a /\ n.emitted = a /\ n.node = d /\ n.wire = w
           /\ n.failure = r.failure
           /\ SameRequest(r, n) /\ SameEvidence(r, n) /\ SameLocals(r, n)
<1>1. n \in Turn
  BY DEF Turn, AfterRefusal
<1>2. /\ n.answer = a /\ n.emitted = a /\ n.node = d /\ n.wire = w
      /\ n.failure = r.failure
  BY DEF Turn, AfterRefusal
<1>3. SameRequest(r, n) /\ SameEvidence(r, n) /\ SameLocals(r, n)
  BY DEF Turn, AfterRefusal, SameRequest, SameEvidence, SameLocals
<1> QED BY <1>1, <1>2, <1>3

AfterEnd(r, d, k, w) ==
    [r EXCEPT !.node = d, !.emitted = k, !.wire = w]

LEMMA TerminatedRecord ==
    ASSUME NEW r \in Turn, NEW k \in 0..MaxTokens, NEW w \in Seq(Event), NEW d \in Nodes,
           NEW n, n = AfterEnd(r, d, k, w)
    PROVE  /\ n \in Turn /\ n.node = d /\ n.emitted = k /\ n.wire = w
           /\ SameRequest(r, n) /\ SameEvidence(r, n) /\ SameAnswer(r, n) /\ SameLocals(r, n)
<1>1. n \in Turn
  BY DEF Turn, AfterEnd
<1>2. n.node = d /\ n.emitted = k /\ n.wire = w
  BY DEF Turn, AfterEnd
<1>3. SameRequest(r, n) /\ SameEvidence(r, n)
  BY DEF Turn, AfterEnd, SameRequest, SameEvidence
<1>4. SameAnswer(r, n) /\ SameLocals(r, n)
  BY DEF Turn, AfterEnd, SameAnswer, SameLocals
<1> QED BY <1>1, <1>2, <1>3, <1>4

\* A turn before its request, or after its stream: the graph's state is gone.
IsIdle(n, s, f, y) ==
    /\ n \in Turn /\ Untouched(n) /\ n.node = "none"
    /\ n.stream = s /\ n.finish = f /\ n.why = y

LEMMA IdleIsIdle == IsIdle(Idle, "none", "disconnected", "none")
<1>1. /\ NoSpans \in Spans /\ NoSpans.count = 0
      /\ 0 \in 0..MaxAttempts /\ 0 \in 0..MaxTokens /\ 1 \in Generations
  BY AttemptsAssumption, BoundsAssumption DEF NoSpans, Spans, Generations, SpanCounts
<1>2. /\ Untouched(Idle) /\ Idle.node = "none" /\ Idle.stream = "none"
      /\ Idle.finish = "disconnected" /\ Idle.why = "none"
  BY <1>1 DEF Idle, Untouched
<1>3. "none" \in Streams /\ "none" \in Nodes /\ "codebase_question" \in Intents
      /\ "disconnected" \in FinishReason /\ <<>> \in Seq(Event)
  BY DEF Streams, Nodes, Intents, FinishReason
<1>4. Idle \in Turn
  BY <1>1, <1>3 DEF Idle, Turn
<1> QED BY <1>2, <1>4 DEF IsIdle

IdleAt(s) == [Idle EXCEPT !.stream = s]
IdleWith(s, f) == [Idle EXCEPT !.stream = s, !.finish = f]
IdleAfter(s, y) == [Idle EXCEPT !.stream = s, !.why = y]

LEMMA IdleRecords ==
    ASSUME NEW s \in Streams, NEW f \in FinishReason, NEW y \in {"none", "raised", "write"}
    PROVE  /\ IsIdle(IdleAt(s), s, "disconnected", "none")
           /\ IsIdle(IdleWith(s, f), s, f, "none")
           /\ IsIdle(IdleAfter(s, y), s, "disconnected", y)
<1>1. /\ Idle \in Turn /\ Untouched(Idle) /\ Idle.node = "none"
      /\ Idle.finish = "disconnected" /\ Idle.why = "none"
  BY IdleIsIdle DEF IsIdle
<1>2. IsIdle(IdleAt(s), s, "disconnected", "none")
  <2> DEFINE n == IdleAt(s)
  <2>1. n \in Turn
    BY <1>1 DEF Turn, IdleAt
  <2>2. n.node = "none" /\ n.stream = s /\ n.finish = "disconnected" /\ n.why = "none"
    BY <1>1 DEF Turn, IdleAt
  <2>3. Untouched(n)
    BY <1>1 DEF Turn, Untouched, IdleAt
  <2> QED BY <2>1, <2>2, <2>3 DEF IsIdle
<1>3. IsIdle(IdleWith(s, f), s, f, "none")
  <2> DEFINE n == IdleWith(s, f)
  <2>1. n \in Turn
    BY <1>1 DEF Turn, IdleWith
  <2>2. n.node = "none" /\ n.stream = s /\ n.finish = f /\ n.why = "none"
    BY <1>1 DEF Turn, IdleWith
  <2>3. Untouched(n)
    BY <1>1 DEF Turn, Untouched, IdleWith
  <2> QED BY <2>1, <2>2, <2>3 DEF IsIdle
<1>4. IsIdle(IdleAfter(s, y), s, "disconnected", y)
  <2> DEFINE n == IdleAfter(s, y)
  <2>1. n \in Turn
    BY <1>1 DEF Turn, IdleAfter
  <2>2. n.node = "none" /\ n.stream = s /\ n.finish = "disconnected" /\ n.why = y
    BY <1>1 DEF Turn, IdleAfter
  <2>3. Untouched(n)
    BY <1>1 DEF Turn, Untouched, IdleAfter
  <2> QED BY <2>1, <2>2, <2>3 DEF IsIdle
<1> QED BY <1>2, <1>3, <1>4

LEMMA FieldTypes ==
    ASSUME NEW r \in Turn
    PROVE  /\ r.wire \in Seq(Event) /\ r.generation \in Generations
           /\ r.attempts \in 0..MaxAttempts /\ r.emitted \in 0..MaxTokens
           /\ r.parts \in 0..MaxTokens /\ r.heard \in 0..MaxAttempts
           /\ r.spans \in Spans /\ r.spans.count \in Nat /\ r.spans.count <= MaxSpans
           /\ r.citations \in Spans \cup {None} /\ r.evidence_ok \in BOOLEAN
           /\ r.judged \in {"none", "ok", "weak"} /\ r.failure \in {None, "timeout", "error"}
           /\ r.intent \in Intents /\ r.node \in Nodes /\ r.finish \in FinishReason
           /\ r.answer \in 0..MaxTokens
<1>1. r.spans \in Spans
  BY DEF Turn
<1>2. r.spans.count \in Nat /\ r.spans.count <= MaxSpans
  BY <1>1, SpansAssumption DEF Spans, SpanCounts
<1> QED BY <1>1, <1>2 DEF Turn

LEMMA EventTypes ==
    /\ Token \in Event /\ Token.kind = "token"
    /\ \A c \in Spans \cup {None} : [kind |-> "citations", spans |-> c] \in Event
    /\ \A cited \in SUBSET (1..MaxSpans), w \in SUBSET Warnings :
          [kind |-> "done", cited |-> cited, warnings |-> w] \in Event
    /\ \A how \in {"error", "timeout"} : [kind |-> "error", finish |-> how] \in Event
  BY DEF Event, Token

-----------------------------------------------------------------------------
(* Steps of the answerer                                                   *)

\* The turn goes on, past the queue.
Onward(r, n) ==
    /\ n \in Turn /\ StreamInv(n)
    /\ n.stream = "open" /\ n.node \notin {"queued", "raised"}
    /\ n.history = r.history /\ n.alone = r.alone

\* A step of the graph or of the consumer is one of its turn's record.
Advances(t) == \E n : Onward(turn[t], n) /\ turn' = [turn EXCEPT ![t] = n]

\* The shape the invariant gives a turn before any of its steps.
Good(t) == t \in Turns /\ turn \in [Turns -> Turn] /\ StreamInv(turn[t])

LEMMA SaidKept ==
    ASSUME NEW r \in Turn, NEW n \in Turn, SameRequest(r, n), SameSpeech(r, n),
           n.intent = r.intent,
           \/ n.attempts = r.attempts /\ n.spans = r.spans
           \/ r.attempts > 0 /\ n.attempts = r.attempts + 1,
           Said(r)
    PROVE  Said(n)
<1>1. PICK c \in Spans \cup {None} : Listed(r, c) /\ (Unread(r, c) \/ Read(r, c))
  BY DEF Said
<1>2. Listed(n, c)
  BY <1>1, FieldTypes DEF Listed, SameRequest
<1>3. Unread(n, c) \/ Read(n, c)
  BY <1>1 DEF Unread, Read, SameSpeech
<1>4. n.finish = "disconnected" /\ n.cited = {}
  BY DEF Said, SameSpeech
<1> QED BY <1>1, <1>2, <1>3, <1>4 DEF Said

\* A citation list is the first thing a turn says.
LEMMA SaidFirst ==
    ASSUME NEW r \in Turn, Untouched(r), r.finish = "disconnected", NEW n \in Turn,
           NEW c \in Spans \cup {None}, Listed(n, c), SameLocals(r, n),
           n.wire = <<[kind |-> "citations", spans |-> c]>> /\ n.emitted = 0
    PROVE  Said(n)
<1>1. Unread(n, c)
  BY DEF Unread, Untouched, SameLocals
<1> QED BY <1>1 DEF Said, Untouched, SameLocals

LEMMA EnterAdvances ==
    ASSUME NEW t, Good(t), Enter(t)
    PROVE  Advances(t)
<1> DEFINE r == turn[t]
           n == [r EXCEPT !.node = "classify"]
<1>1. turn' = [turn EXCEPT ![t] = n] /\ r.stream = "open" /\ r.node = "queued" /\ r \in Turn
  BY DEF Enter, Running, Good
<1>2. "classify" \in Nodes
  BY DEF Nodes
<1>3. /\ n \in Turn /\ n.node = "classify"
      /\ SameRequest(r, n) /\ SameEvidence(r, n) /\ SameAnswer(r, n) /\ SameSpeech(r, n)
  BY <1>1, <1>2, NodeRecord
<1>4. Untouched(r) /\ r.finish = "disconnected"
  BY <1>1 DEF Good, StreamInv, AtNode
<1> HIDE DEF n
<1>5. Untouched(n) /\ n.finish = "disconnected"
  BY <1>3, <1>4 DEF Untouched, SameEvidence, SameAnswer, SameSpeech
<1>6. Onward(r, n)
  BY <1>1, <1>3, <1>5 DEF Onward, StreamInv, AtNode, SameRequest
<1> QED BY <1>1, <1>6 DEF Advances

LEMMA ClassifyAdvances ==
    ASSUME NEW t, Good(t), Classify(t)
    PROVE  Advances(t)
<1> DEFINE r == turn[t]
<1>1. PICK i \in Intents :
         turn' = [turn EXCEPT ![t] = [r EXCEPT !.intent = i, !.attempts = 0,
                                               !.node = RouteIntent(i)]]
  BY DEF Classify, Good
<1> DEFINE n == [r EXCEPT !.intent = i, !.attempts = 0, !.node = RouteIntent(i)]
<1>2. r.stream = "open" /\ r.node = "classify" /\ r \in Turn
  BY DEF Classify, Running, Good
<1>3. /\ RouteIntent(i) \in {"answer_from_history", "refuse", "retrieve"}
      /\ RouteIntent(i) = "retrieve" <=> i = "codebase_question"
  BY DEF RouteIntent, Intents
<1>4. 0 \in 0..MaxAttempts /\ RouteIntent(i) \in Nodes
  BY <1>3, AttemptsAssumption DEF Nodes
<1>5. /\ n \in Turn /\ n.intent = i /\ n.attempts = 0 /\ n.node = RouteIntent(i)
      /\ n.spans = r.spans /\ n.judged = r.judged
      /\ SameRequest(r, n) /\ SameAnswer(r, n) /\ SameSpeech(r, n)
  BY <1>2, <1>4, ClassifiedRecord
<1> HIDE DEF n
<1>6. Untouched(r) /\ r.finish = "disconnected"
  BY <1>2 DEF Good, StreamInv, AtNode
<1>7. Untouched(n) /\ n.finish = "disconnected" /\ Unanswered(n)
  BY <1>5, <1>6 DEF Untouched, Unanswered, SameAnswer, SameSpeech
<1>8. AtNode(n)
  BY <1>3, <1>5, <1>7, AttemptsAssumption DEF AtNode
<1>9. Onward(r, n)
  BY <1>2, <1>3, <1>5, <1>8 DEF Onward, StreamInv, SameRequest
<1> QED BY <1>1, <1>9 DEF Advances, n

LEMMA RetrieveAdvances ==
    ASSUME NEW t, Good(t), RetrieveNode(t)
    PROVE  Advances(t)
<1> DEFINE r == turn[t]
<1>1. r.stream = "open" /\ r.node = "retrieve" /\ r \in Turn
  BY DEF RetrieveNode, Running, Good
<1>2. PICK s \in [generation : {r.generation}, attempt : {r.attempts + 1}, count : SpanCounts] :
         turn' = [turn EXCEPT ![t] =
            AfterSearch(r, s, r.attempts + 1, r.wire \o CitationsFor(r.attempts, s),
                        RouteAfterRetrieval(s, r.attempts + 1))]
  <2>1. PICK count \in SpanCounts :
          LET attempts == turn[t].attempts
              spans == [generation |-> SearchedGeneration(t), attempt |-> attempts + 1,
                        count |-> count]
          IN  turn' = [turn EXCEPT ![t].spans = spans, ![t].judged = "none",
                                   ![t].attempts = attempts + 1,
                                   ![t].wire = @ \o CitationsFor(attempts, spans),
                                   ![t].node = RouteAfterRetrieval(spans, attempts + 1)]
    BY DEF RetrieveNode, SpanCounts
  <2> DEFINE s == [generation |-> turn[t].generation, attempt |-> turn[t].attempts + 1,
                   count |-> count]
  <2>2. s \in [generation : {r.generation}, attempt : {r.attempts + 1}, count : SpanCounts]
    OBVIOUS
  <2>3. turn' = [turn EXCEPT ![t].spans = s, ![t].judged = "none",
                             ![t].attempts = turn[t].attempts + 1,
                             ![t].wire = @ \o CitationsFor(turn[t].attempts, s),
                             ![t].node = RouteAfterRetrieval(s, turn[t].attempts + 1)]
    BY <2>1 DEF SearchedGeneration
  <2> HIDE DEF s
  <2> QED BY <2>2, <2>3 DEF Good, AfterSearch
<1> DEFINE w == r.wire \o CitationsFor(r.attempts, s)
           a == r.attempts + 1
           d == RouteAfterRetrieval(s, a)
           n == AfterSearch(r, s, a, w, d)
<1> HIDE DEF n
<1>3. /\ r.intent = "codebase_question" /\ r.attempts < MaxAttempts
      /\ Unanswered(r) /\ r.finish = "disconnected"
      /\ r.attempts = 0 => Untouched(r)
      /\ r.attempts # 0 => Searched(r) /\ Said(r)
  BY <1>1 DEF Good, StreamInv, AtNode
<1>4. r.attempts \in 0..MaxAttempts /\ r.wire \in Seq(Event) /\ r.generation \in Generations
  BY <1>1, FieldTypes
<1>5. s \in Spans /\ s.generation = r.generation /\ a \in 1..MaxAttempts
  BY <1>3, <1>4, AttemptsAssumption DEF Spans
<1>6. /\ w \in Seq(Event)
      /\ r.attempts = 0 => w = <<[kind |-> "citations", spans |-> s]>>
      /\ r.attempts # 0 => w = r.wire
  <2>1. [kind |-> "citations", spans |-> s] \in Event
    BY <1>5, EventTypes
  <2>2. r.attempts = 0 => r.wire = <<>>
    BY <1>3 DEF Untouched
  <2>3. CASE r.attempts = 0
    <3> DEFINE e == <<[kind |-> "citations", spans |-> s]>>
    <3>1. w = <<>> \o e
      BY <2>2, <2>3 DEF CitationsFor
    <3>2. e \in Seq(Event)
      BY <2>1
    <3> HIDE DEF e
    <3>3. w = e
      BY <3>1, <3>2, ConcatEmptySeq
    <3> QED BY <2>3, <3>2, <3>3 DEF e
  <2>4. CASE r.attempts # 0
    <3>1. w = r.wire \o <<>>
      BY <2>4 DEF CitationsFor
    <3> HIDE DEF w
    <3> QED BY <1>4, <2>4, <3>1, ConcatEmptySeq
  <2> QED BY <2>3, <2>4
<1> HIDE DEF w
<1>8. /\ d \in {"end", "grade"} /\ d \in Nodes
      /\ d = "end" <=> s.count = 0
  BY DEF RouteAfterRetrieval, Nodes
<1>9. /\ n \in Turn /\ n.spans = s /\ n.attempts = a /\ n.wire = w /\ n.node = d
      /\ n.intent = r.intent /\ n.emitted = r.emitted
      /\ SameRequest(r, n) /\ SameAnswer(r, n) /\ SameLocals(r, n)
  <2>1. a \in 0..MaxAttempts
    BY <1>5, AttemptsAssumption
  <2> HIDE DEF a, d
  <2>2. n = AfterSearch(r, s, a, w, d)
    BY DEF n
  <2>3. r \in Turn /\ s \in Spans /\ w \in Seq(Event) /\ d \in Nodes
    BY <1>1, <1>5, <1>6, <1>8
  <2> QED BY <2>1, <2>2, <2>3, SearchedRecord
<1> HIDE DEF d
<1>10. Searched(n) /\ Unanswered(n)
  BY <1>3, <1>4, <1>5, <1>9 DEF Searched, Unanswered, SameRequest, SameAnswer
<1>11. Said(n)
  <2>1. CASE r.attempts = 0
    <3>1. Listed(n, s)
      BY <1>3, <1>5, <1>9 DEF Listed, SameRequest
    <3> QED BY <1>1, <1>3, <1>5, <1>6, <1>9, <2>1, <3>1, SaidFirst DEF Unanswered
  <2>2. CASE r.attempts # 0
    <3>1. SameSpeech(r, n)
      BY <1>6, <1>9, <2>2 DEF SameSpeech, SameLocals
    <3> QED BY <1>1, <1>3, <1>4, <1>9, <2>2, <3>1, SaidKept
  <2> QED BY <2>1, <2>2
<1>12. AtNode(n)
  BY <1>3, <1>8, <1>9, <1>10, <1>11 DEF AtNode, Grounded
<1>13. Onward(r, n)
  BY <1>1, <1>8, <1>9, <1>12 DEF Onward, StreamInv, SameRequest
<1> QED BY <1>2, <1>13 DEF Advances, n, w, d

LEMMA GradeAdvances ==
    ASSUME NEW t, Good(t), Grade(t)
    PROVE  Advances(t)
<1> DEFINE r == turn[t]
<1>1. PICK ok \in BOOLEAN :
         turn' = [turn EXCEPT ![t] =
            AfterGrade(r, ok, IF ok THEN "ok" ELSE "weak", RouteAfterGrading(ok, r.attempts))]
  BY DEF Grade, Good, AfterGrade
<1> DEFINE j == IF ok THEN "ok" ELSE "weak"
           d == RouteAfterGrading(ok, r.attempts)
           n == AfterGrade(r, ok, j, d)
<1>2. r.stream = "open" /\ r.node = "grade" /\ r \in Turn
  BY DEF Grade, Running, Good
<1>3. r.attempts \in 0..MaxAttempts
  BY <1>2, FieldTypes
<1>4. /\ j \in {"ok", "weak"} /\ d \in Nodes /\ d \in {"generate", "retrieve"}
      /\ d = "retrieve" => r.attempts < MaxAttempts
  BY <1>3, AttemptsAssumption DEF RouteAfterGrading, Nodes
<1>5. /\ n \in Turn /\ n.evidence_ok = ok /\ n.judged = j /\ n.node = d
      /\ n.intent = r.intent /\ n.spans = r.spans /\ n.attempts = r.attempts
      /\ SameRequest(r, n) /\ SameAnswer(r, n) /\ SameSpeech(r, n)
  <2> HIDE DEF j, d
  <2> QED BY <1>2, <1>4, GradedRecord
<1> HIDE DEF n, d
<1>6. Searched(r) /\ r.spans.count # 0 /\ Unanswered(r) /\ Said(r)
  BY <1>2 DEF Good, StreamInv, AtNode
<1>7. Said(n)
  BY <1>2, <1>5, <1>6, SaidKept
<1>8. Searched(n) /\ Judged(n) /\ Unanswered(n)
  BY <1>5, <1>6 DEF Searched, Judged, Unanswered, SameRequest, SameAnswer, SameSpeech
<1>9. n.intent = "codebase_question" /\ n.attempts # 0 /\ n.finish = "disconnected"
      /\ n.spans.count # 0 /\ n.answer = 0 /\ n.failure = None
  BY <1>3, <1>5, <1>6, <1>7, <1>8 DEF Searched, Said, Unanswered
<1>10. AtNode(n)
  BY <1>4, <1>5, <1>7, <1>8, <1>9 DEF AtNode
<1>11. Onward(r, n)
  BY <1>2, <1>4, <1>5, <1>10 DEF Onward, StreamInv, SameRequest
<1> QED BY <1>1, <1>11 DEF Advances, n, d

LEMMA StartReplyAdvances ==
    ASSUME NEW t, Good(t), StartReply(t)
    PROVE  Advances(t)
<1> DEFINE r == turn[t]
           e == [kind |-> "citations", spans |-> None]
           w == Append(r.wire, e)
           n == AfterReply(r, "reply", w)
<1>1. turn' = [turn EXCEPT ![t] = n] /\ r.stream = "open" /\ r.node = "answer_from_history"
      /\ r \in Turn
  BY DEF StartReply, Running, Good, AfterReply
<1>2. Untouched(r) /\ r.finish = "disconnected" /\ r.intent # "codebase_question"
  BY <1>1 DEF Good, StreamInv, AtNode
<1>3. e \in Event
  BY EventTypes
<1>4. w = <<e>> /\ w \in Seq(Event) /\ "reply" \in Nodes
  <2> HIDE DEF e
  <2> QED BY <1>2, <1>3 DEF Untouched, Nodes
<1>5. /\ n \in Turn /\ n.node = "reply" /\ n.wire = w /\ n.emitted = r.emitted
      /\ SameRequest(r, n) /\ SameEvidence(r, n) /\ SameAnswer(r, n) /\ SameLocals(r, n)
  <2>1. r \in Turn /\ w \in Seq(Event) /\ "reply" \in Nodes /\ n = AfterReply(r, "reply", w)
    BY <1>1, <1>4
  <2> HIDE DEF r, w, n
  <2> QED BY <2>1, RepliedRecord
<1> HIDE DEF n, w
<1>6. Listed(n, None)
  BY <1>2, <1>5 DEF Listed, SameEvidence
<1>7. Said(n)
  BY <1>1, <1>2, <1>4, <1>5, <1>6, SaidFirst DEF Untouched
<1>8. AtNode(n)
  BY <1>2, <1>5, <1>7 DEF AtNode, SameEvidence, SameAnswer, Untouched
<1>9. Onward(r, n)
  BY <1>1, <1>5, <1>8 DEF Onward, StreamInv, SameRequest
<1> QED BY <1>1, <1>9 DEF Advances

\* One more token at the end of the wire.
LEMMA SaidMore ==
    ASSUME NEW r \in Turn, NEW n \in Turn, SameRequest(r, n), SameEvidence(r, n),
           SameLocals(r, n), n.emitted = r.emitted + 1, n.wire = Append(r.wire, Token),
           Said(r)
    PROVE  Said(n)
<1>1. PICK c \in Spans \cup {None} : Listed(r, c) /\ (Unread(r, c) \/ Read(r, c))
  BY DEF Said
<1>2. Listed(n, c) /\ n.finish = "disconnected" /\ n.cited = {}
  BY <1>1 DEF Listed, SameRequest, SameEvidence, SameLocals, Said
<1>3. /\ r.wire \in Seq(Event) /\ Token \in Event
      /\ r.emitted \in Nat /\ r.parts \in Nat
  BY FieldTypes, EventTypes, BoundsAssumption
<1>4. /\ Len(n.wire) = Len(r.wire) + 1 /\ Len(r.wire) \in Nat
      /\ n.wire \in Seq(Event)
      /\ \A i \in 1..Len(r.wire) : n.wire[i] = r.wire[i]
      /\ n.wire[Len(r.wire) + 1] = Token
  BY <1>3
<1>5. CASE Unread(r, c)
  <2>1. /\ n.wire # <<>> /\ Len(r.wire) > 0 /\ Head(n.wire) = n.wire[1]
        /\ Head(r.wire) = r.wire[1]
    BY <1>3, <1>4, <1>5 DEF Unread
  <2>2. Head(n.wire) = [kind |-> "citations", spans |-> c]
    BY <1>4, <1>5, <2>1 DEF Unread
  <2>3. ASSUME NEW i \in 2..Len(n.wire) PROVE n.wire[i] = Token
    <3>1. CASE i = Len(r.wire) + 1
      BY <1>4, <3>1
    <3>2. CASE i # Len(r.wire) + 1
      <4>1. i \in 2..Len(r.wire) /\ i \in 1..Len(r.wire)
        BY <1>4, <3>2
      <4> QED BY <1>4, <1>5, <4>1 DEF Unread
    <3> QED BY <3>1, <3>2
  <2>4. n.emitted = Len(n.wire) - 1
    BY <1>3, <1>4, <1>5 DEF Unread
  <2>5. Unread(n, c)
    BY <1>5, <2>1, <2>2, <2>3, <2>4 DEF Unread, SameLocals
  <2> QED BY <1>1, <1>2, <2>5 DEF Said
<1>6. CASE Read(r, c)
  <2>1. ASSUME NEW i \in 1..Len(n.wire) PROVE n.wire[i] = Token
    BY <1>4, <1>6 DEF Read
  <2>2. n.emitted = n.parts + Len(n.wire)
    BY <1>3, <1>4, <1>6 DEF Read, SameLocals
  <2>3. Read(n, c)
    BY <1>6, <2>1, <2>2 DEF Read, SameLocals
  <2> QED BY <1>1, <1>2, <2>3 DEF Said
<1> QED BY <1>1, <1>5, <1>6

LEMMA EmitTokenAdvances ==
    ASSUME NEW t, Good(t), EmitToken(t)
    PROVE  Advances(t)
<1> DEFINE r == turn[t]
           k == r.emitted + 1
           w == Append(r.wire, Token)
           n == [r EXCEPT !.emitted = k, !.wire = w]
<1>1. /\ turn' = [turn EXCEPT ![t] = n] /\ r.stream = "open" /\ r.node \in {"generate", "reply"}
      /\ r \in Turn /\ r.emitted < MaxTokens
  BY DEF EmitToken, Streaming, Running, Good
<1>2. k \in 0..MaxTokens /\ w \in Seq(Event)
  BY <1>1, FieldTypes, EventTypes, BoundsAssumption
<1>3. /\ n \in Turn /\ n.emitted = k /\ n.wire = w /\ n.node = r.node
      /\ SameRequest(r, n) /\ SameEvidence(r, n) /\ SameAnswer(r, n) /\ SameLocals(r, n)
  <2> HIDE DEF k, w
  <2> QED BY <1>1, <1>2, EmittedRecord
<1> HIDE DEF n
<1>4. Said(r) /\ r.answer = 0 /\ r.failure = None
  BY <1>1 DEF Good, StreamInv, AtNode
<1>5. Said(n)
  BY <1>1, <1>3, <1>4, SaidMore
<1>6. AtNode(n)
  <2>1. CASE r.node = "generate"
    <3>1. Searched(r) /\ r.spans.count # 0 /\ Judged(r)
      BY <1>1, <2>1 DEF Good, StreamInv, AtNode
    <3>2. Searched(n) /\ n.spans.count # 0 /\ Judged(n)
      BY <1>3, <3>1 DEF Searched, Judged, SameRequest, SameEvidence
    <3> QED BY <1>3, <1>4, <1>5, <2>1, <3>2 DEF AtNode, SameAnswer
  <2>2. CASE r.node = "reply"
    <3>1. r.intent # "codebase_question" /\ r.attempts = 0 /\ r.spans.count = 0
      BY <1>1, <2>2 DEF Good, StreamInv, AtNode
    <3> QED BY <1>3, <1>4, <1>5, <2>2, <3>1 DEF AtNode, SameEvidence, SameAnswer
  <2> QED BY <1>1, <2>1, <2>2
<1>7. Onward(r, n)
  BY <1>1, <1>3, <1>6 DEF Onward, StreamInv, SameRequest
<1> QED BY <1>1, <1>7 DEF Advances

LEMMA FinishNodeAdvances ==
    ASSUME NEW t, Good(t), FinishNode(t)
    PROVE  Advances(t)
<1> DEFINE r == turn[t]
<1>1. PICK f \in {None, "timeout", "error"} :
         turn' = [turn EXCEPT ![t] = AfterFinish(r, r.emitted, f, "end")]
  BY DEF FinishNode, Good, AfterFinish
<1> DEFINE a == r.emitted
           n == AfterFinish(r, a, f, "end")
<1>2. r.stream = "open" /\ r.node \in {"generate", "reply"} /\ r \in Turn
  BY DEF FinishNode, Streaming, Running, Good
<1>3. a \in 0..MaxTokens /\ "end" \in Nodes
  BY <1>2, FieldTypes DEF Nodes
<1>4. /\ n \in Turn /\ n.answer = a /\ n.failure = f /\ n.node = "end"
      /\ SameRequest(r, n) /\ SameEvidence(r, n) /\ SameSpeech(r, n)
  <2> HIDE DEF a
  <2> QED BY <1>2, <1>3, FinishedRecord
<1> HIDE DEF n
<1>5. Said(r)
  BY <1>2 DEF Good, StreamInv, AtNode
<1>6. Said(n)
  BY <1>2, <1>4, <1>5, SaidKept DEF SameEvidence
<1>7. Grounded(n) /\ (n.intent = "codebase_question" => n.spans.count # 0)
  <2>1. CASE r.node = "generate"
    <3>1. Searched(r) /\ r.spans.count # 0 /\ Judged(r)
      BY <1>2, <2>1 DEF Good, StreamInv, AtNode
    <3> QED BY <1>4, <3>1 DEF Grounded, Searched, Judged, SameRequest, SameEvidence
  <2>2. CASE r.node = "reply"
    <3>1. r.intent # "codebase_question" /\ r.attempts = 0 /\ r.spans.count = 0
      BY <1>2, <2>2 DEF Good, StreamInv, AtNode
    <3> QED BY <1>4, <3>1 DEF Grounded, SameEvidence
  <2> QED BY <1>2, <2>1, <2>2
<1>8. AtNode(n)
  BY <1>4, <1>6, <1>7 DEF AtNode
<1>9. Onward(r, n)
  BY <1>2, <1>4, <1>8 DEF Onward, StreamInv, SameRequest
<1> QED BY <1>1, <1>9 DEF Advances, n

LEMMA RefuseAdvances ==
    ASSUME NEW t, Good(t), Refuse(t)
    PROVE  Advances(t)
<1> DEFINE r == turn[t]
           e == [kind |-> "citations", spans |-> None]
           w == r.wire \o <<e, Token>>
           n == AfterRefusal(r, 1, "end", w)
<1>1. turn' = [turn EXCEPT ![t] = n] /\ r.stream = "open" /\ r.node = "refuse" /\ r \in Turn
  BY DEF Refuse, Running, Good, AfterRefusal
<1>2. Untouched(r) /\ r.finish = "disconnected" /\ r.intent # "codebase_question"
  BY <1>1 DEF Good, StreamInv, AtNode
<1>3. e \in Event /\ Token \in Event
  BY EventTypes
<1>4. w = <<e, Token>> /\ w \in Seq(Event)
  <2> HIDE DEF e
  <2>1. <<e, Token>> \in Seq(Event) /\ r.wire = <<>>
    BY <1>2, <1>3 DEF Untouched
  <2> DEFINE ww == <<e, Token>>
  <2>2. ww \in Seq(Event) /\ w = <<>> \o ww
    BY <2>1
  <2> HIDE DEF ww, w
  <2>3. w = ww
    BY <2>2, ConcatEmptySeq
  <2> QED BY <2>2, <2>3 DEF ww
<1>5. /\ n \in Turn /\ n.answer = 1 /\ n.emitted = 1 /\ n.node = "end" /\ n.wire = w
      /\ n.failure = r.failure
      /\ SameRequest(r, n) /\ SameEvidence(r, n) /\ SameLocals(r, n)
  <2>1. 1 \in 0..MaxTokens /\ "end" \in Nodes
    BY BoundsAssumption DEF Nodes
  <2>2. r \in Turn /\ w \in Seq(Event) /\ n = AfterRefusal(r, 1, "end", w)
    BY <1>1, <1>4
  <2> HIDE DEF r, w, n
  <2> QED BY <2>1, <2>2, RefusedRecord
<1> HIDE DEF n, w
<1>6. Unread(n, None)
  <2> HIDE DEF e
  <2>1. n.wire # <<>> /\ Head(n.wire) = e /\ Len(n.wire) = 2 /\ n.wire[2] = Token
    BY <1>4, <1>5
  <2>2. \A i \in 2..Len(n.wire) : n.wire[i] = Token
    BY <2>1
  <2> QED BY <1>2, <1>5, <2>1, <2>2 DEF Unread, Untouched, SameLocals, e
<1>7. Said(n)
  BY <1>2, <1>5, <1>6 DEF Said, Listed, Untouched, SameLocals, SameEvidence
<1>8. Grounded(n)
  BY <1>2, <1>5 DEF Grounded, Untouched, SameEvidence
<1>9. AtNode(n)
  BY <1>2, <1>5, <1>7, <1>8 DEF AtNode, SameEvidence
<1>10. Onward(r, n)
  BY <1>1, <1>5, <1>9 DEF Onward, StreamInv, SameRequest
<1> QED BY <1>1, <1>10 DEF Advances

LEMMA AppendToOne ==
    ASSUME NEW S, NEW a \in S, NEW b \in S
    PROVE  Append(<<a>>, b) = <<a, b>>
<1> DEFINE u == Append(<<a>>, b)
           v == <<a, b>>
<1>1. u \in Seq(S) /\ Len(u) = 2 /\ u[1] = a /\ u[2] = b
  OBVIOUS
<1>2. v \in Seq(S) /\ Len(v) = 2 /\ v[1] = a /\ v[2] = b
  OBVIOUS
<1> HIDE DEF u, v
<1>3. Len(u) = Len(v) /\ \A i \in 1..Len(u) : u[i] = v[i]
  BY <1>1, <1>2
<1>4. u = v
  BY <1>1, <1>2, <1>3, SeqEqual
<1> QED BY <1>4 DEF u, v

LEMMA TerminateAdvances ==
    ASSUME NEW t, Good(t), Terminate(t)
    PROVE  Advances(t)
<1> DEFINE r == turn[t]
           refusal == IF NoContext(t) THEN <<Token>> ELSE <<>>
           Done(cited) == [kind |-> "done", cited |-> cited, warnings |-> WarningsFor(t, cited)]
           Terminal(cited) == IF r.failure # None THEN [kind |-> "error", finish |-> r.failure]
                              ELSE Done(cited)
           k == r.emitted + Len(refusal)
<1>1. r.stream = "open" /\ r.node = "end" /\ r.wire = <<>> /\ r \in Turn
  BY DEF Terminate, Running, Good
<1>2. PICK cited \in CitedIndexes(t) :
         turn' = [turn EXCEPT ![t] =
                     AfterEnd(r, "terminated", k, Append(refusal, Terminal(cited)))]
  <2>1. PICK cited \in CitedIndexes(t) :
           turn' = [turn EXCEPT ![t].node = "terminated", ![t].emitted = @ + Len(refusal),
                                ![t].wire = Append(refusal, Terminal(cited))]
    BY DEF Terminate
  <2> HIDE DEF refusal, Terminal
  <2>2. turn' = [turn EXCEPT ![t] =
                    AfterEnd(r, "terminated", k, Append(refusal, Terminal(cited)))]
    BY <2>1 DEF Good, AfterEnd
  <2> QED BY <2>2
<1> DEFINE e == Terminal(cited)
           w == Append(refusal, e)
           n == AfterEnd(r, "terminated", k, w)
<1>0. turn' = [turn EXCEPT ![t] = n]
  BY <1>2
<1>3. /\ Grounded(r) /\ Said(r)
      /\ r.intent = "codebase_question" /\ r.spans.count = 0 => Unanswered(r)
  BY <1>1 DEF Good, StreamInv, AtNode
<1>4. /\ r.emitted \in 0..MaxTokens /\ r.parts \in 0..MaxTokens /\ r.spans.count \in Nat
      /\ r.spans.count <= MaxSpans
      /\ r.failure \in {None, "timeout", "error"} /\ r.judged \in {"none", "ok", "weak"}
      /\ r.evidence_ok \in BOOLEAN
  BY <1>1, FieldTypes
<1>5. r.heard = 1 /\ Listed(r, r.citations) /\ r.emitted = r.parts
      /\ r.finish = "disconnected" /\ r.cited = {}
  <2>1. PICK c \in Spans \cup {None} : Listed(r, c) /\ (Unread(r, c) \/ Read(r, c))
    BY <1>3 DEF Said
  <2>2. Read(r, c) /\ Len(r.wire) = 0
    BY <1>1, <2>1 DEF Unread
  <2> QED BY <1>3, <1>4, <2>1, <2>2 DEF Read, Said
<1>6. cited \in {{}, 1..r.spans.count} /\ cited \in SUBSET (1..MaxSpans)
  BY <1>4, SpansAssumption DEF CitedIndexes
<1>7. WarningsFor(t, cited) \in SUBSET Warnings
  BY DEF WarningsFor, Warnings
<1>8. r.spans.count > 0 =>
         ("weak_evidence" \in WarningsFor(t, cited) <=> r.judged = "weak")
  <2> SUFFICES ASSUME r.spans.count > 0
               PROVE  "weak_evidence" \in WarningsFor(t, cited) <=> r.judged = "weak"
    OBVIOUS
  <2>1. r.intent = "codebase_question" /\ Judged(r)
    BY <1>3, <1>4 DEF Grounded
  <2>2. ~NoContext(t)
    BY <1>4 DEF NoContext
  <2>3. "weak_evidence" \in WarningsFor(t, cited) <=> ~r.evidence_ok
    BY <2>1, <2>2 DEF WarningsFor
  <2> QED BY <1>4, <2>1, <2>3 DEF Judged
<1>9. e \in Event /\ Terminator(r, e)
  <2>1. CASE r.failure # None
    BY <1>4, <2>1, EventTypes DEF Terminator
  <2>2. CASE r.failure = None
    <3>1. e = Done(cited)
      BY <2>2
    <3>2. Done(cited) \in Event
      BY <1>6, <1>7, EventTypes
    <3> QED BY <1>6, <1>7, <1>8, <3>1, <3>2 DEF Terminator
  <2> QED BY <2>1, <2>2
<1> HIDE DEF Terminal
<1>10. /\ k \in 0..MaxTokens /\ w \in Seq(Event)
       /\ \/ w = <<e>> /\ k = r.emitted
          \/ w = <<Token, e>> /\ k = r.emitted + 1
  <2> HIDE DEF e
  <2>1. CASE NoContext(t)
    <3>1. r.emitted = 0
      BY <1>3, <2>1 DEF NoContext, Unanswered
    <3>2. refusal = <<Token>> /\ Len(refusal) = 1
      BY <2>1
    <3>3. w = <<Token, e>> /\ k = r.emitted + 1
      <4>1. w = Append(<<Token>>, e)
        BY <3>2
      <4> HIDE DEF w, n
      <4>2. w = <<Token, e>>
        BY <1>9, <4>1, EventTypes, AppendToOne
      <4>3. k = r.emitted + 1
        BY <3>2
      <4> QED BY <4>2, <4>3
    <3>4. k \in 0..MaxTokens
      BY <3>1, <3>3, BoundsAssumption
    <3>5. w \in Seq(Event)
      BY <1>9, <3>3, EventTypes
    <3> QED BY <3>3, <3>4, <3>5
  <2>2. CASE ~NoContext(t)
    <3>1. w = <<e>> /\ k = r.emitted
      BY <1>4, <2>2
    <3> QED BY <1>4, <1>9, <3>1
  <2> QED BY <2>1, <2>2
<1> HIDE DEF e, w, k
<1>11. "terminated" \in Nodes
  BY DEF Nodes
<1>12. /\ n \in Turn /\ n.node = "terminated" /\ n.emitted = k /\ n.wire = w
       /\ SameRequest(r, n) /\ SameEvidence(r, n) /\ SameAnswer(r, n) /\ SameLocals(r, n)
  <2>1. n = AfterEnd(r, "terminated", k, w)
    OBVIOUS
  <2> HIDE DEF n
  <2> QED BY <1>1, <1>10, <1>11, <2>1, TerminatedRecord
<1> HIDE DEF n
<1>13. Grounded(n)
  BY <1>3, <1>12 DEF Grounded, Searched, Judged, SameRequest, SameEvidence
<1>14. Terminator(n, e)
  BY <1>9, <1>12 DEF Terminator, SameEvidence
<1>15. Closing(n)
  <2>1. n.heard = 1 /\ Listed(n, n.citations) /\ n.finish = "disconnected" /\ n.cited = {}
    BY <1>5, <1>12 DEF Listed, SameRequest, SameEvidence, SameLocals
  <2>2. \/ n.wire = <<e>> /\ n.emitted = n.parts
        \/ n.wire = <<Token, e>> /\ n.emitted = n.parts + 1
    BY <1>5, <1>10, <1>12 DEF SameLocals
  <2> QED BY <1>9, <1>14, <2>1, <2>2 DEF Closing
<1>16. AtNode(n)
  BY <1>12, <1>13, <1>15 DEF AtNode
<1>17. Onward(r, n)
  BY <1>1, <1>12, <1>16 DEF Onward, StreamInv, SameRequest
<1> QED BY <1>0, <1>17 DEF Advances

-----------------------------------------------------------------------------
(* Steps of the consumer                                                   *)

\* What the head of the wire leaves behind, of whatever kind it is.
SameForward(r, n) ==
    /\ n \in Turn /\ n.node = r.node /\ n.wire = Tail(r.wire) /\ n.emitted = r.emitted
    /\ SameRequest(r, n) /\ SameEvidence(r, n) /\ SameAnswer(r, n)

LEMMA WireRecord ==
    ASSUME NEW k \in Turn, k.wire # <<>>, NEW n, n = [k EXCEPT !.wire = Tail(@)]
    PROVE  SameForward(k, n) /\ SameLocals(k, n)
<1> DEFINE w == Tail(k.wire)
<1>1. w \in Seq(Event) /\ n = [k EXCEPT !.wire = w]
  BY FieldTypes
<1> HIDE DEF w
<1>2. n \in Turn
  BY <1>1 DEF Turn
<1>3. n.wire = w /\ n.node = k.node /\ n.emitted = k.emitted /\ SameRequest(k, n)
  BY <1>1 DEF Turn, SameRequest
<1>4. SameEvidence(k, n) /\ SameAnswer(k, n) /\ SameLocals(k, n)
  BY <1>1 DEF Turn, SameEvidence, SameAnswer, SameLocals
<1> QED BY <1>2, <1>3, <1>4 DEF SameForward, w

LEMMA ForwardedToken ==
    ASSUME NEW r \in Turn, r.wire # <<>>, Head(r.wire) = Token, r.parts + 1 \in 0..MaxTokens,
           NEW n, n = Forwarded(r)
    PROVE  /\ SameForward(r, n) /\ n.parts = r.parts + 1
           /\ n.citations = r.citations /\ n.heard = r.heard
           /\ n.cited = r.cited /\ n.finish = r.finish
<1> DEFINE p == r.parts + 1
           k == [r EXCEPT !.parts = p]
<1>1. n = [k EXCEPT !.wire = Tail(@)] /\ p \in 0..MaxTokens
  <2>1. Kept(r, Head(r.wire)) = k
    BY DEF Kept, Token
  <2> HIDE DEF k
  <2>2. n = [k EXCEPT !.wire = Tail(@)]
    BY <2>1 DEF Forwarded
  <2> QED BY <2>2
<1> HIDE DEF p
<1>2. k \in Turn
  BY <1>1 DEF Turn
<1>3. /\ k.parts = p /\ k.wire = r.wire /\ k.node = r.node /\ k.emitted = r.emitted
      /\ k.citations = r.citations /\ k.heard = r.heard
      /\ k.cited = r.cited /\ k.finish = r.finish
  BY DEF Turn
<1>4. SameRequest(r, k) /\ SameEvidence(r, k) /\ SameAnswer(r, k)
  BY DEF Turn, SameRequest, SameEvidence, SameAnswer
<1> HIDE DEF k
<1>5. SameForward(k, n) /\ SameLocals(k, n)
  BY <1>1, <1>2, <1>3, WireRecord
<1>6. SameForward(r, n)
  BY <1>3, <1>4, <1>5 DEF SameForward, SameRequest, SameEvidence, SameAnswer
<1> QED BY <1>3, <1>5, <1>6 DEF SameLocals, p

LEMMA ForwardedCitations ==
    ASSUME NEW r \in Turn, r.wire # <<>>, NEW c \in Spans \cup {None},
           Head(r.wire) = [kind |-> "citations", spans |-> c], r.heard = 0,
           NEW n, n = Forwarded(r)
    PROVE  /\ SameForward(r, n) /\ n.citations = c /\ n.heard = 1
           /\ n.parts = r.parts /\ n.cited = r.cited /\ n.finish = r.finish
<1> DEFINE h == r.heard + 1
           k == [r EXCEPT !.citations = c, !.heard = h]
<1>1. n = [k EXCEPT !.wire = Tail(@)]
  <2> DEFINE e == Head(r.wire)
  <2>1. e = [kind |-> "citations", spans |-> c]
    OBVIOUS
  <2>2. n = [Kept(r, e) EXCEPT !.wire = Tail(@)]
    BY DEF Forwarded
  <2> HIDE DEF e
  <2>3. Kept(r, e) = k
    BY <2>1 DEF Kept
  <2> HIDE DEF k
  <2> QED BY <2>2, <2>3
<1>2. h = 1 /\ h \in 0..MaxAttempts
  BY AttemptsAssumption
<1> HIDE DEF h
<1>3. k \in Turn
  <2> DEFINE listed == [r EXCEPT !.citations = c]
  <2>1. listed \in Turn /\ k = [listed EXCEPT !.heard = h]
    BY DEF Turn
  <2> HIDE DEF listed, k
  <2> QED BY <1>2, <2>1, SMTT(30) DEF Turn
<1>4. /\ k.parts = r.parts /\ k.wire = r.wire /\ k.node = r.node /\ k.emitted = r.emitted
      /\ k.citations = c /\ k.heard = h
      /\ k.cited = r.cited /\ k.finish = r.finish
  BY DEF Turn
<1>5. SameRequest(r, k) /\ SameEvidence(r, k) /\ SameAnswer(r, k)
  BY DEF Turn, SameRequest, SameEvidence, SameAnswer
<1> HIDE DEF k
<1>6. SameForward(k, n) /\ SameLocals(k, n)
  BY <1>1, <1>3, <1>4, WireRecord
<1>7. SameForward(r, n)
  BY <1>4, <1>5, <1>6 DEF SameForward, SameRequest, SameEvidence, SameAnswer
<1> QED BY <1>2, <1>4, <1>6, <1>7 DEF SameLocals

LEMMA ForwardedDone ==
    ASSUME NEW r \in Turn, r.wire # <<>>, NEW c \in SUBSET (1..MaxSpans), NEW ws,
           Head(r.wire) = [kind |-> "done", cited |-> c, warnings |-> ws],
           NEW n, n = Forwarded(r)
    PROVE  /\ SameForward(r, n) /\ n.finish = "stop" /\ n.cited = c
           /\ n.parts = r.parts /\ n.citations = r.citations /\ n.heard = r.heard
<1> DEFINE k == [r EXCEPT !.finish = "stop", !.cited = c]
<1>1. n = [k EXCEPT !.wire = Tail(@)]
  <2> DEFINE e == Head(r.wire)
  <2>1. e = [kind |-> "done", cited |-> c, warnings |-> ws]
    OBVIOUS
  <2>2. n = [Kept(r, e) EXCEPT !.wire = Tail(@)]
    BY DEF Forwarded
  <2> HIDE DEF e
  <2>3. Kept(r, e) = k
    BY <2>1 DEF Kept
  <2> HIDE DEF k
  <2> QED BY <2>2, <2>3
<1>2. "stop" \in FinishReason
  BY DEF FinishReason
<1>3. k \in Turn
  BY <1>2 DEF Turn
<1>4. /\ k.parts = r.parts /\ k.wire = r.wire /\ k.node = r.node /\ k.emitted = r.emitted
      /\ k.citations = r.citations /\ k.heard = r.heard
      /\ k.cited = c /\ k.finish = "stop"
  BY DEF Turn
<1>5. SameRequest(r, k) /\ SameEvidence(r, k) /\ SameAnswer(r, k)
  BY DEF Turn, SameRequest, SameEvidence, SameAnswer
<1> HIDE DEF k
<1>6. SameForward(k, n) /\ SameLocals(k, n)
  BY <1>1, <1>3, <1>4, WireRecord
<1>7. SameForward(r, n)
  BY <1>4, <1>5, <1>6 DEF SameForward, SameRequest, SameEvidence, SameAnswer
<1> QED BY <1>4, <1>6, <1>7 DEF SameLocals

LEMMA ForwardedError ==
    ASSUME NEW r \in Turn, r.wire # <<>>, NEW how \in {"error", "timeout"},
           Head(r.wire) = [kind |-> "error", finish |-> how], NEW n, n = Forwarded(r)
    PROVE  /\ SameForward(r, n) /\ n.finish = how
           /\ n.parts = r.parts /\ n.citations = r.citations /\ n.heard = r.heard
           /\ n.cited = r.cited
<1> DEFINE k == [r EXCEPT !.finish = how]
<1>1. n = [k EXCEPT !.wire = Tail(@)]
  <2> DEFINE e == Head(r.wire)
  <2>1. e = [kind |-> "error", finish |-> how]
    OBVIOUS
  <2>2. n = [Kept(r, e) EXCEPT !.wire = Tail(@)]
    BY DEF Forwarded
  <2> HIDE DEF e
  <2>3. Kept(r, e) = k
    BY <2>1 DEF Kept
  <2> HIDE DEF k
  <2> QED BY <2>2, <2>3
<1>2. how \in FinishReason
  BY DEF FinishReason
<1>3. k \in Turn
  BY <1>2 DEF Turn
<1>4. /\ k.parts = r.parts /\ k.wire = r.wire /\ k.node = r.node /\ k.emitted = r.emitted
      /\ k.citations = r.citations /\ k.heard = r.heard
      /\ k.cited = r.cited /\ k.finish = how
  BY DEF Turn
<1>5. SameRequest(r, k) /\ SameEvidence(r, k) /\ SameAnswer(r, k)
  BY DEF Turn, SameRequest, SameEvidence, SameAnswer
<1> HIDE DEF k
<1>6. SameForward(k, n) /\ SameLocals(k, n)
  BY <1>1, <1>3, <1>4, WireRecord
<1>7. SameForward(r, n)
  BY <1>4, <1>5, <1>6 DEF SameForward, SameRequest, SameEvidence, SameAnswer
<1> QED BY <1>4, <1>6, <1>7 DEF SameLocals

\* A turn that is still speaking keeps what it has said, the head of its wire read.
LEMMA SaidForwarded ==
    ASSUME NEW r \in Turn, Said(r), r.wire # <<>>, NEW n, n = Forwarded(r)
    PROVE  SameForward(r, n) /\ Said(n)
<1>1. PICK c \in Spans \cup {None} : Listed(r, c) /\ (Unread(r, c) \/ Read(r, c))
  BY DEF Said
<1>2. /\ r.wire \in Seq(Event) /\ r.emitted \in 0..MaxTokens /\ r.parts \in 0..MaxTokens
      /\ MaxTokens \in Nat
  BY FieldTypes, BoundsAssumption
<1>3. /\ Len(r.wire) \in Nat \ {0} /\ Len(Tail(r.wire)) = Len(r.wire) - 1
      /\ \A i \in 1..Len(Tail(r.wire)) : Tail(r.wire)[i] = r.wire[i + 1]
      /\ Head(r.wire) = r.wire[1]
  BY <1>2, HeadTailProperties, EmptySeq
<1>4. CASE Unread(r, c)
  <2>1. Head(r.wire) = [kind |-> "citations", spans |-> c] /\ r.heard = 0
    BY <1>4 DEF Unread
  <2>2. /\ SameForward(r, n) /\ n.citations = c /\ n.heard = 1
        /\ n.parts = r.parts /\ n.cited = r.cited /\ n.finish = r.finish
    BY <2>1, ForwardedCitations
  <2>3. Listed(n, c) /\ n.finish = "disconnected" /\ n.cited = {}
    BY <1>1, <2>2 DEF Listed, SameForward, SameRequest, SameEvidence, Said
  <2>4. \A i \in 1..Len(n.wire) : n.wire[i] = Token
    BY <1>3, <1>4, <2>2 DEF Unread, SameForward
  <2>5. n.emitted = n.parts + Len(n.wire)
    BY <1>2, <1>3, <1>4, <2>2 DEF Unread, SameForward
  <2>6. Read(n, c)
    BY <2>2, <2>4, <2>5 DEF Read
  <2> QED BY <1>1, <2>2, <2>3, <2>6 DEF Said
<1>5. CASE Read(r, c)
  <2>1. Head(r.wire) = Token /\ r.parts + 1 \in 0..MaxTokens
    BY <1>2, <1>3, <1>5 DEF Read
  <2>2. /\ SameForward(r, n) /\ n.parts = r.parts + 1
        /\ n.citations = r.citations /\ n.heard = r.heard
        /\ n.cited = r.cited /\ n.finish = r.finish
    BY <2>1, ForwardedToken
  <2>3. Listed(n, c) /\ n.finish = "disconnected" /\ n.cited = {}
    BY <1>1, <2>2 DEF Listed, SameForward, SameRequest, SameEvidence, Said
  <2>4. \A i \in 1..Len(n.wire) : n.wire[i] = Token
    BY <1>3, <1>5, <2>2 DEF Read, SameForward
  <2>5. n.emitted = n.parts + Len(n.wire)
    <3>1. /\ r.emitted = r.parts + Len(r.wire) /\ n.emitted = r.emitted
          /\ n.parts = r.parts + 1 /\ Len(n.wire) = Len(r.wire) - 1
      BY <1>3, <1>5, <2>2 DEF Read, SameForward
    <3>2. r.parts \in Nat /\ Len(r.wire) \in Nat
      BY <1>2, <1>3
    <3> QED BY <3>1, <3>2
  <2>6. Read(n, c)
    BY <1>5, <2>2, <2>4, <2>5 DEF Read
  <2> QED BY <1>1, <2>2, <2>3, <2>6 DEF Said
<1> QED BY <1>1, <1>4, <1>5

\* A turn whose answerer is done keeps the outcome on its way, the head of its wire read.
LEMMA ClosingForwarded ==
    ASSUME NEW r \in Turn, Closing(r), r.wire # <<>>, NEW n, n = Forwarded(r)
    PROVE  SameForward(r, n) /\ Closing(n)
<1>1. r.heard = 1 /\ Listed(r, r.citations) /\ r.finish = "disconnected" /\ r.cited = {}
  BY DEF Closing
<1>2. PICK e \in Event : Terminator(r, e) /\
         \/ r.wire = <<e>> /\ r.emitted = r.parts
         \/ r.wire = <<Token, e>> /\ r.emitted = r.parts + 1
  BY DEF Closing
<1>3. /\ r.wire \in Seq(Event) /\ r.emitted \in 0..MaxTokens /\ r.parts \in 0..MaxTokens
      /\ r.spans.count \in Nat /\ r.spans.count <= MaxSpans /\ MaxTokens \in Nat
  BY FieldTypes, BoundsAssumption
<1>4. CASE r.wire = <<e>> /\ r.emitted = r.parts
  <2>1. Head(r.wire) = e /\ Tail(r.wire) = <<>>
    BY <1>4
  <2>2. CASE \E how \in {"error", "timeout"} : e = [kind |-> "error", finish |-> how]
    <3>1. PICK how \in {"error", "timeout"} : e = [kind |-> "error", finish |-> how]
      BY <2>2
    <3>2. /\ SameForward(r, n) /\ n.finish = how
          /\ n.parts = r.parts /\ n.citations = r.citations /\ n.heard = r.heard
          /\ n.cited = r.cited
      BY <2>1, <3>1, ForwardedError
    <3> QED BY <1>1, <1>4, <2>1, <3>2
            DEF Closing, Listed, SameForward, SameRequest, SameEvidence
  <2>3. CASE \E cited \in {{}, 1..r.spans.count}, warnings \in SUBSET Warnings :
                e = [kind |-> "done", cited |-> cited, warnings |-> warnings]
    <3>1. PICK cited \in {{}, 1..r.spans.count}, warnings \in SUBSET Warnings :
             e = [kind |-> "done", cited |-> cited, warnings |-> warnings]
      BY <2>3
    <3>2. cited \in SUBSET (1..MaxSpans)
      BY <1>3, SpansAssumption
    <3>3. /\ SameForward(r, n) /\ n.finish = "stop" /\ n.cited = cited
          /\ n.parts = r.parts /\ n.citations = r.citations /\ n.heard = r.heard
      BY <2>1, <3>1, <3>2, ForwardedDone
    <3> QED BY <1>1, <1>4, <2>1, <3>3
            DEF Closing, Listed, SameForward, SameRequest, SameEvidence
  <2> QED BY <1>2, <2>2, <2>3 DEF Terminator
<1>5. CASE r.wire = <<Token, e>> /\ r.emitted = r.parts + 1
  <2>1. Head(r.wire) = Token /\ Tail(r.wire) = <<e>>
    BY <1>5
  <2>2. r.parts + 1 \in 0..MaxTokens
    BY <1>3, <1>5
  <2>3. /\ SameForward(r, n) /\ n.parts = r.parts + 1
        /\ n.citations = r.citations /\ n.heard = r.heard
        /\ n.cited = r.cited /\ n.finish = r.finish
    BY <2>1, <2>2, ForwardedToken
  <2>4. Terminator(n, e)
    BY <1>2, <2>3 DEF Terminator, SameForward, SameEvidence
  <2>5. n.wire = <<e>> /\ n.emitted = n.parts
    BY <1>5, <2>1, <2>3 DEF SameForward
  <2>6. n.heard = 1 /\ Listed(n, n.citations) /\ n.finish = "disconnected" /\ n.cited = {}
    BY <1>1, <2>3 DEF Listed, SameForward, SameRequest, SameEvidence
  <2>7. Closing(n)
    BY <2>4, <2>5, <2>6 DEF Closing
  <2> QED BY <2>3, <2>7
<1> QED BY <1>2, <1>4, <1>5

LEMMA ForwardAdvances ==
    ASSUME NEW t, Good(t), Forward(t)
    PROVE  Advances(t)
<1> DEFINE r == turn[t]
           n == Forwarded(r)
<1>1. turn' = [turn EXCEPT ![t] = n] /\ r.stream = "open" /\ r.wire # <<>> /\ r \in Turn
  BY DEF Forward, Good
<1> HIDE DEF n
<1>2. r.node \in Nodes /\ AtNode(r)
  BY <1>1, FieldTypes DEF Good, StreamInv
<1>3. r.node \in {"retrieve", "grade", "generate", "reply", "end", "terminated"}
  BY <1>1, <1>2 DEF AtNode, Untouched, Nodes
<1>4. SameForward(r, n) /\ AtNode(n)
  <2>1. CASE r.node = "terminated"
    <3>1. Grounded(r) /\ Closing(r)
      BY <1>2, <2>1 DEF AtNode
    <3>2. SameForward(r, n) /\ Closing(n)
      BY <1>1, <3>1, ClosingForwarded DEF n
    <3>3. Grounded(n)
      BY <3>1, <3>2 DEF Grounded, Searched, Judged, SameForward, SameRequest, SameEvidence
    <3>4. n.node = "terminated"
      BY <2>1, <3>2 DEF SameForward
    <3> QED BY <3>2, <3>3, <3>4 DEF AtNode
  <2>2. CASE r.node # "terminated"
    <3>1. Said(r)
      BY <1>1, <1>2, <1>3, <2>2 DEF AtNode, Untouched
    <3>2. SameForward(r, n) /\ Said(n)
      BY <1>1, <3>1, SaidForwarded DEF n
    <3>3. n.node = r.node /\ n.finish = "disconnected" /\ SameEvidence(r, n)
      BY <3>2 DEF SameForward, Said
    <3>4. /\ Searched(r) => Searched(n)
          /\ Judged(r) => Judged(n)
          /\ Grounded(r) => Grounded(n)
          /\ Unanswered(r) => Unanswered(n)
      BY <3>2 DEF Searched, Judged, Grounded, Unanswered, SameForward, SameRequest,
                  SameEvidence, SameAnswer
    <3>5. n.answer = r.answer /\ n.failure = r.failure
      BY <3>2 DEF SameForward, SameAnswer
    <3>6. CASE r.node = "retrieve"
      <4>1. r.attempts # 0
        BY <1>1, <1>2, <3>6 DEF AtNode, Untouched
      <4>2. /\ r.intent = "codebase_question" /\ r.attempts < MaxAttempts
            /\ Unanswered(r) /\ Searched(r)
        BY <1>2, <3>6, <4>1 DEF AtNode
      <4>3. n.intent = "codebase_question" /\ n.attempts = r.attempts
        BY <3>3, <4>2 DEF SameEvidence
      <4> QED BY <3>2, <3>3, <3>4, <3>6, <4>1, <4>2, <4>3 DEF AtNode
    <3>7. CASE r.node = "grade"
      BY <1>2, <3>2, <3>3, <3>4, <3>7 DEF AtNode, SameEvidence
    <3>8. CASE r.node = "generate"
      BY <1>2, <3>2, <3>3, <3>4, <3>5, <3>8 DEF AtNode, SameEvidence
    <3>9. CASE r.node = "reply"
      BY <1>2, <3>2, <3>3, <3>4, <3>5, <3>9 DEF AtNode, SameEvidence
    <3>10. CASE r.node = "end"
      BY <1>2, <3>2, <3>3, <3>4, <3>10 DEF AtNode, SameEvidence
    <3> QED BY <1>3, <2>2, <3>2, <3>6, <3>7, <3>8, <3>9, <3>10
  <2> QED BY <2>1, <2>2
<1>5. Onward(r, n)
  BY <1>1, <1>3, <1>4 DEF Onward, StreamInv, SameForward, SameRequest
<1> QED BY <1>1, <1>5 DEF Advances

-----------------------------------------------------------------------------
(* The semaphore                                                           *)

LEMMA RemoveAtProperties ==
    ASSUME NEW S, NEW w \in Seq(S), NEW k \in 1..Len(w)
    PROVE  /\ RemoveAt(w, k) \in Seq(S)
           /\ Len(RemoveAt(w, k)) = Len(w) - 1
           /\ \A j \in 1..(Len(w) - 1) : RemoveAt(w, k)[j] = IF j < k THEN w[j] ELSE w[j + 1]
<1> DEFINE a == SubSeq(w, 1, k - 1)
           b == SubSeq(w, k + 1, Len(w))
<1>0. Len(w) \in Nat /\ \A j \in 1..Len(w) : w[j] \in S
  OBVIOUS
<1>1. a \in Seq(S) /\ Len(a) = k - 1 /\ \A j \in 1..(k - 1) : a[j] = w[j]
  <2>1. 1 \in Int /\ k - 1 \in Int /\ (\A j \in 1..(k - 1) : w[j] \in S)
    BY <1>0
  <2>2. /\ a \in Seq(S)
        /\ Len(a) = IF 1 <= k - 1 THEN (k - 1) - 1 + 1 ELSE 0
        /\ \A j \in 1 .. (k - 1) - 1 + 1 : a[j] = w[1 + j - 1]
    BY <2>1, SubSeqProperties
  <2> QED BY <2>2
<1>2. b \in Seq(S) /\ Len(b) = Len(w) - k /\ \A j \in 1..(Len(w) - k) : b[j] = w[k + j]
  <2>1. k + 1 \in Int /\ Len(w) \in Int /\ (\A j \in (k + 1)..Len(w) : w[j] \in S)
    BY <1>0
  <2>2. /\ b \in Seq(S)
        /\ Len(b) = IF k + 1 <= Len(w) THEN Len(w) - (k + 1) + 1 ELSE 0
        /\ \A j \in 1 .. Len(w) - (k + 1) + 1 : b[j] = w[(k + 1) + j - 1]
    BY <2>1, SubSeqProperties
  <2> QED BY <2>2, <1>0
<1>3. RemoveAt(w, k) = a \o b
  BY DEF RemoveAt
<1> HIDE DEF a, b
<1>4. /\ a \o b \in Seq(S) /\ Len(a \o b) = Len(a) + Len(b)
      /\ \A i \in 1..(Len(a) + Len(b)) :
            (a \o b)[i] = IF i <= Len(a) THEN a[i] ELSE b[i - Len(a)]
  BY <1>1, <1>2, ConcatProperties
<1>5. Len(a) + Len(b) = Len(w) - 1
  BY <1>0, <1>1, <1>2
<1>6. ASSUME NEW j \in 1..(Len(w) - 1)
      PROVE  (a \o b)[j] = IF j < k THEN w[j] ELSE w[j + 1]
  <2>1. (a \o b)[j] = IF j <= Len(a) THEN a[j] ELSE b[j - Len(a)]
    BY <1>4, <1>5
  <2>2. CASE j < k
    <3>1. j \in 1..(k - 1) /\ j <= Len(a)
      BY <1>0, <1>1, <2>2
    <3> QED BY <1>1, <2>1, <2>2, <3>1
  <2>3. CASE ~(j < k)
    <3>1. j - Len(a) \in 1..(Len(w) - k) /\ ~(j <= Len(a)) /\ k + (j - Len(a)) = j + 1
      BY <1>0, <1>1, <2>3
    <3>2. b[j - Len(a)] = w[j + 1]
      BY <1>2, <3>1
    <3> QED BY <2>1, <2>3, <3>1, <3>2
  <2> QED BY <2>2, <2>3
<1> QED BY <1>3, <1>4, <1>5, <1>6

LEMMA WithoutProperties ==
    ASSUME NEW S, NEW w \in Seq(S), NoRepeat(w), NEW t
    PROVE  /\ Without(w, t) \in Seq(S) /\ NoRepeat(Without(w, t))
           /\ ToSet(Without(w, t)) = ToSet(w) \ {t}
<1>1. CASE t \notin ToSet(w)
  <2>1. Without(w, t) = w
    BY <1>1 DEF Without
  <2> QED BY <1>1, <2>1
<1>2. CASE t \in ToSet(w)
  <2> DEFINE k == CHOOSE i \in DOMAIN w : w[i] = t
             v == RemoveAt(w, k)
  <2>1. \E i \in DOMAIN w : w[i] = t
    BY <1>2 DEF ToSet
  <2>2. k \in DOMAIN w /\ w[k] = t
    BY <2>1
  <2>3. Without(w, t) = v
    BY <1>2 DEF Without
  <2> HIDE DEF k
  <2>4. Len(w) \in Nat /\ DOMAIN w = 1..Len(w) /\ k \in 1..Len(w)
    BY <2>2, LenProperties
  <2>5. /\ v \in Seq(S) /\ Len(v) = Len(w) - 1
        /\ \A j \in 1..(Len(w) - 1) : v[j] = IF j < k THEN w[j] ELSE w[j + 1]
    BY <2>4, RemoveAtProperties
  <2> HIDE DEF v
  <2>6. DOMAIN v = 1..(Len(w) - 1)
    BY <2>4, <2>5, LenProperties
  <2>7. ASSUME NEW i \in DOMAIN v, NEW j \in DOMAIN v, v[i] = v[j] PROVE i = j
    <3> DEFINE A(x) == IF x < k THEN x ELSE x + 1
    <3>1. v[i] = w[A(i)] /\ v[j] = w[A(j)] /\ A(i) \in DOMAIN w /\ A(j) \in DOMAIN w
      BY <2>4, <2>5, <2>6
    <3>2. A(i) = A(j)
      BY <2>7, <3>1 DEF NoRepeat
    <3> QED BY <2>4, <2>6, <3>2
  <2>8. ASSUME NEW i \in DOMAIN v PROVE v[i] \in ToSet(w) \ {t}
    <3> DEFINE A == IF i < k THEN i ELSE i + 1
    <3>1. v[i] = w[A] /\ A \in DOMAIN w /\ A # k
      BY <2>4, <2>5, <2>6
    <3>2. w[A] # t
      BY <2>2, <3>1 DEF NoRepeat
    <3> QED BY <3>1, <3>2 DEF ToSet
  <2>9. ASSUME NEW i \in DOMAIN w, w[i] # t PROVE w[i] \in ToSet(v)
    <3>1. i # k /\ i \in 1..Len(w)
      BY <2>2, <2>4, <2>9
    <3> DEFINE B == IF i < k THEN i ELSE i - 1
    <3>2. B \in DOMAIN v /\ v[B] = w[i]
      <4>1. CASE i < k
        BY <2>4, <2>5, <2>6, <3>1, <4>1
      <4>2. CASE ~(i < k)
        <5>1. B = i - 1 /\ B \in 1..(Len(w) - 1) /\ ~(B < k) /\ B + 1 = i
          BY <2>4, <3>1, <4>2
        <5> QED BY <2>5, <2>6, <5>1
      <4> QED BY <4>1, <4>2
    <3> QED BY <3>2 DEF ToSet
  <2>10. ToSet(v) = ToSet(w) \ {t}
    BY <2>8, <2>9 DEF ToSet
  <2> QED BY <2>3, <2>5, <2>7, <2>10 DEF NoRepeat
<1> QED BY <1>1, <1>2

LEMMA HeadOff ==
    ASSUME NEW S, NEW w \in Seq(S), w # <<>>, NoRepeat(w)
    PROVE  /\ Tail(w) \in Seq(S) /\ NoRepeat(Tail(w))
           /\ Head(w) \in ToSet(w) /\ Head(w) \in S
           /\ ToSet(Tail(w)) = ToSet(w) \ {Head(w)}
<1>1. /\ Tail(w) \in Seq(S) /\ Len(Tail(w)) = Len(w) - 1 /\ Head(w) \in S
      /\ \A i \in 1..Len(Tail(w)) : Tail(w)[i] = w[i + 1]
      /\ Len(w) \in Nat \ {0} /\ DOMAIN w = 1..Len(w) /\ DOMAIN Tail(w) = 1..Len(Tail(w))
  BY HeadTailProperties, LenProperties, EmptySeq
<1>2. Head(w) = w[1] /\ 1 \in DOMAIN w
  BY <1>1
<1> DEFINE v == Tail(w)
<1> HIDE DEF v
<1>3. /\ v \in Seq(S) /\ DOMAIN v = 1..(Len(w) - 1)
      /\ \A i \in 1..(Len(w) - 1) : v[i] = w[i + 1]
  BY <1>1 DEF v
<1>4. NoRepeat(v)
  <2>1. ASSUME NEW i \in DOMAIN v, NEW j \in DOMAIN v, v[i] = v[j] PROVE i = j
    <3>1. v[i] = w[i + 1] /\ v[j] = w[j + 1] /\ i + 1 \in DOMAIN w /\ j + 1 \in DOMAIN w
      BY <1>1, <1>3
    <3>2. i + 1 = j + 1
      BY <2>1, <3>1 DEF NoRepeat
    <3> QED BY <1>1, <1>3, <3>2
  <2> QED BY <2>1 DEF NoRepeat
<1>5. ToSet(v) = ToSet(w) \ {Head(w)}
  <2>1. ASSUME NEW i \in DOMAIN v PROVE v[i] \in ToSet(w) \ {Head(w)}
    <3>1. v[i] = w[i + 1] /\ i + 1 \in DOMAIN w /\ i + 1 # 1
      BY <1>1, <1>3
    <3>2. w[i + 1] # w[1]
      BY <1>2, <3>1 DEF NoRepeat
    <3> QED BY <1>2, <3>1, <3>2 DEF ToSet
  <2>2. ASSUME NEW i \in DOMAIN w, w[i] # Head(w) PROVE w[i] \in ToSet(v)
    <3>1. i # 1
      BY <1>2, <2>2
    <3>2. i - 1 \in DOMAIN v /\ v[i - 1] = w[i]
      BY <1>1, <1>3, <3>1
    <3> QED BY <3>2 DEF ToSet
  <2> QED BY <2>1, <2>2 DEF ToSet
<1> QED BY <1>1, <1>2, <1>3, <1>4, <1>5 DEF v, ToSet

LEMMA AppendedProperties ==
    ASSUME NEW S, NEW w \in Seq(S), NoRepeat(w), NEW t \in S, t \notin ToSet(w)
    PROVE  /\ Append(w, t) \in Seq(S) /\ NoRepeat(Append(w, t))
           /\ ToSet(Append(w, t)) = ToSet(w) \cup {t}
<1> DEFINE v == Append(w, t)
<1>1. /\ v \in Seq(S) /\ Len(v) = Len(w) + 1 /\ Len(w) \in Nat
      /\ DOMAIN w = 1..Len(w) /\ DOMAIN v = 1..(Len(w) + 1)
      /\ \A i \in 1..Len(w) : v[i] = w[i]
      /\ v[Len(w) + 1] = t
  BY LenProperties
<1> HIDE DEF v
<1>2. \A i \in DOMAIN w : w[i] # t
  BY DEF ToSet
<1>3. NoRepeat(v)
  <2>1. ASSUME NEW i \in DOMAIN v, NEW j \in DOMAIN v, v[i] = v[j] PROVE i = j
    <3>1. CASE i \in DOMAIN w /\ j \in DOMAIN w
      BY <1>1, <2>1, <3>1 DEF NoRepeat
    <3>2. CASE i \notin DOMAIN w \/ j \notin DOMAIN w
      BY <1>1, <1>2, <2>1, <3>2
    <3> QED BY <3>1, <3>2
  <2> QED BY <2>1 DEF NoRepeat
<1>4. ToSet(v) = ToSet(w) \cup {t}
  <2>1. ASSUME NEW i \in DOMAIN v PROVE v[i] \in ToSet(w) \cup {t}
    <3>1. CASE i \in DOMAIN w
      BY <1>1, <3>1 DEF ToSet
    <3>2. CASE i \notin DOMAIN w
      BY <1>1, <3>2
    <3> QED BY <3>1, <3>2
  <2>2. ASSUME NEW i \in DOMAIN w PROVE w[i] \in ToSet(v)
    <3>1. i \in DOMAIN v /\ v[i] = w[i]
      BY <1>1
    <3> QED BY <3>1 DEF ToSet
  <2>3. t \in ToSet(v)
    <3>1. Len(w) + 1 \in DOMAIN v
      BY <1>1
    <3> QED BY <1>1, <3>1 DEF ToSet
  <2> QED BY <2>1, <2>2, <2>3 DEF ToSet
<1> QED BY <1>1, <1>3, <1>4 DEF v

LEMMA AcquiredOrderly ==
    ASSUME NEW s, Orderly(s), NEW t \in Turns, t \notin Known(s)
    PROVE  Orderly(Acquired(s, t)) /\ Known(Acquired(s, t)) = Known(s) \cup {t}
<1> DEFINE q == Acquired(s, t)
<1>1. /\ s \in [holders : SUBSET Turns, waiters : Seq(Turns)]
      /\ IsFiniteSet(s.holders) /\ Cardinality(s.holders) <= Permits
      /\ NoRepeat(s.waiters) /\ \A u \in ToSet(s.waiters) : u \notin s.holders
      /\ t \notin s.holders /\ t \notin ToSet(s.waiters)
  BY DEF Orderly, Known
<1>2. s.holders \in SUBSET Turns /\ s.waiters \in Seq(Turns)
  BY <1>1
<1>3. CASE Cardinality(s.holders) < Permits /\ s.waiters = <<>>
  <2>1. q.holders = s.holders \cup {t} /\ q.waiters = s.waiters
        /\ q \in [holders : SUBSET Turns, waiters : Seq(Turns)]
    BY <1>1, <1>2, <1>3 DEF Acquired
  <2>2. /\ IsFiniteSet(q.holders) /\ Cardinality(q.holders) = Cardinality(s.holders) + 1
        /\ Cardinality(s.holders) \in Nat
    BY <1>1, <2>1, FS_AddElement, FS_CardinalityType
  <2>3. Cardinality(q.holders) <= Permits
    BY <1>3, <2>2, PermitsAssumption
  <2>4. ToSet(s.waiters) = {}
    BY <1>3 DEF ToSet
  <2> HIDE DEF q
  <2>5. Known(q) = Known(s) \cup {t}
    BY <2>1 DEF Known
  <2>6. Orderly(q)
    BY <1>1, <2>1, <2>2, <2>3, <2>4 DEF Orderly
  <2> QED BY <2>5, <2>6 DEF q
<1>4. CASE ~(Cardinality(s.holders) < Permits /\ s.waiters = <<>>)
  <2> DEFINE w == Append(s.waiters, t)
  <2>1. q.holders = s.holders /\ q.waiters = w
    BY <1>1, <1>4 DEF Acquired
  <2>2. w \in Seq(Turns) /\ NoRepeat(w) /\ ToSet(w) = ToSet(s.waiters) \cup {t}
    BY <1>1, <1>2, AppendedProperties
  <2>3. q = [s EXCEPT !.waiters = w]
    BY <1>4 DEF Acquired
  <2> HIDE DEF w
  <2>4. q \in [holders : SUBSET Turns, waiters : Seq(Turns)]
    BY <1>1, <2>2, <2>3
  <2> HIDE DEF q
  <2>5. Known(q) = Known(s) \cup {t}
    BY <2>1, <2>2 DEF Known
  <2>6. Orderly(q)
    BY <1>1, <2>1, <2>2, <2>4 DEF Orderly
  <2> QED BY <2>5, <2>6 DEF q
<1> QED BY <1>3, <1>4

LEMMA ReleasedOrderly ==
    ASSUME NEW s, Orderly(s), NEW t \in Turns
    PROVE  /\ Orderly(Released(s, t)) /\ Known(Released(s, t)) = Known(s) \ {t}
           /\ ToSet(Released(s, t).waiters) \subseteq ToSet(s.waiters)
<1> DEFINE h == s.holders \ {t}
           w == Without(s.waiters, t)
           q == Released(s, t)
<1>1. /\ s \in [holders : SUBSET Turns, waiters : Seq(Turns)]
      /\ IsFiniteSet(s.holders) /\ Cardinality(s.holders) <= Permits
      /\ NoRepeat(s.waiters) /\ \A u \in ToSet(s.waiters) : u \notin s.holders
  BY DEF Orderly
<1>2. s.holders \in SUBSET Turns /\ s.waiters \in Seq(Turns)
  BY <1>1
<1>3. w \in Seq(Turns) /\ NoRepeat(w) /\ ToSet(w) = ToSet(s.waiters) \ {t}
  BY <1>1, <1>2, WithoutProperties
<1>4. /\ h \in SUBSET Turns /\ IsFiniteSet(h)
      /\ Cardinality(h) <= Permits /\ Cardinality(h) \in Nat
  <2>1. IsFiniteSet(h) /\ Cardinality(h) <= Cardinality(s.holders)
    BY <1>1, FS_Subset
  <2>2. Cardinality(h) \in Nat /\ Cardinality(s.holders) \in Nat
    BY <1>1, <2>1, FS_CardinalityType
  <2> QED BY <1>1, <1>2, <2>1, <2>2, PermitsAssumption
<1>5. \A u \in ToSet(w) : u \notin h
  BY <1>1, <1>3
<1>6. CASE w # <<>> /\ Cardinality(h) < Permits
  <2>1. /\ Tail(w) \in Seq(Turns) /\ NoRepeat(Tail(w))
        /\ Head(w) \in ToSet(w) /\ Head(w) \in Turns
        /\ ToSet(Tail(w)) = ToSet(w) \ {Head(w)}
    BY <1>3, <1>6, HeadOff
  <2>2. q = [holders |-> h \cup {Head(w)}, waiters |-> Tail(w)]
    BY <1>6 DEF Released
  <2> DEFINE u == Head(w)
             v == Tail(w)
  <2> HIDE DEF h, w, q, u, v
  <2>3. q.holders = h \cup {u} /\ q.waiters = v
        /\ q \in [holders : SUBSET Turns, waiters : Seq(Turns)]
    BY <1>4, <2>1, <2>2 DEF u, v
  <2>4. u \notin h
    BY <1>5, <2>1 DEF u
  <2>5. IsFiniteSet(q.holders) /\ Cardinality(q.holders) = Cardinality(h) + 1
    BY <1>4, <2>3, <2>4, FS_AddElement
  <2>6. Cardinality(q.holders) <= Permits
    BY <1>4, <1>6, <2>5, PermitsAssumption
  <2>7. \A x \in ToSet(q.waiters) : x \notin q.holders
    BY <1>5, <2>1, <2>3 DEF u, v
  <2>8. Orderly(q)
    BY <2>1, <2>3, <2>5, <2>6, <2>7 DEF Orderly, v
  <2>9. Known(q) = h \cup ToSet(w)
    BY <2>1, <2>3 DEF Known, u, v
  <2>10. Known(q) = Known(s) \ {t}
    BY <1>3, <2>9 DEF Known, h
  <2>11. ToSet(q.waiters) \subseteq ToSet(s.waiters)
    BY <1>3, <2>1, <2>3 DEF v
  <2> QED BY <2>8, <2>10, <2>11 DEF q
<1>7. CASE ~(w # <<>> /\ Cardinality(h) < Permits)
  <2>1. q = [holders |-> h, waiters |-> w]
    BY <1>7 DEF Released
  <2> HIDE DEF h, w, q
  <2>2. q.holders = h /\ q.waiters = w /\ q \in [holders : SUBSET Turns, waiters : Seq(Turns)]
    BY <1>3, <1>4, <2>1
  <2>3. Orderly(q)
    BY <1>3, <1>4, <1>5, <2>2 DEF Orderly
  <2>4. Known(q) = Known(s) \ {t}
    BY <1>3, <2>2 DEF Known, h
  <2> QED BY <1>3, <2>2, <2>3, <2>4 DEF q
<1> QED BY <1>6, <1>7

\* The turns that hold a permit or wait for one.
Entitled(r) == r.stream = "open" /\ r.node # "raised"

LEMMA PermitsKnown ==
    SemaphoreInv <=>
        /\ Orderly(semaphore)
        /\ Known(semaphore) = {t \in Turns : Entitled(turn[t])}
        /\ \A t \in ToSet(semaphore.waiters) : turn[t].node = "queued"
  BY DEF SemaphoreInv, PermitsAccountedFor, Orderly, Known, Entitled

\* The rule for a step that changes one turn.
LEMMA PermitsFollow ==
    ASSUME NEW t \in Turns, NEW n, turn \in [Turns -> Turn], turn' = [turn EXCEPT ![t] = n],
           SemaphoreInv, Orderly(semaphore'),
           Known(semaphore') = IF Entitled(n) THEN Known(semaphore) \cup {t}
                               ELSE Known(semaphore) \ {t},
           ToSet(semaphore'.waiters) \subseteq ToSet(semaphore.waiters) \cup {t},
           t \in ToSet(semaphore'.waiters) => n.node = "queued"
    PROVE  SemaphoreInv'
<1>1. /\ Known(semaphore) = {u \in Turns : Entitled(turn[u])}
      /\ \A u \in ToSet(semaphore.waiters) : turn[u].node = "queued"
  BY PermitsKnown
<1>2. turn'[t] = n /\ \A u \in Turns \ {t} : turn'[u] = turn[u]
  OBVIOUS
<1>3. ToSet(semaphore'.waiters) \subseteq Turns
  BY DEF Orderly, ToSet
<1>4. Known(semaphore') = {u \in Turns : Entitled(turn'[u])}
  BY <1>1, <1>2
<1>5. \A u \in ToSet(semaphore'.waiters) : turn'[u].node = "queued"
  BY <1>1, <1>2, <1>3
<1>6. PermitsAccountedFor'
  BY <1>4, <1>5 DEF PermitsAccountedFor, Known, Entitled, Orderly
<1> QED BY <1>6 DEF SemaphoreInv, Orderly

\* A turn that keeps or awaits its permit leaves the semaphore alone.
LEMMA PermitsSame ==
    ASSUME NEW t \in Turns, NEW n, turn \in [Turns -> Turn], turn' = [turn EXCEPT ![t] = n],
           SemaphoreInv, semaphore' = semaphore, Entitled(n) <=> Entitled(turn[t]),
           t \in ToSet(semaphore.waiters) => n.node = "queued"
    PROVE  SemaphoreInv'
<1>1. Orderly(semaphore') /\ Known(semaphore) = {u \in Turns : Entitled(turn[u])}
  BY PermitsKnown
<1>2. Known(semaphore') = IF Entitled(n) THEN Known(semaphore) \cup {t}
                          ELSE Known(semaphore) \ {t}
  BY <1>1
<1> QED BY <1>1, <1>2, PermitsFollow

LEMMA PermitGivenBack ==
    ASSUME NEW t \in Turns, NEW n, turn \in [Turns -> Turn], turn' = [turn EXCEPT ![t] = n],
           SemaphoreInv, semaphore' = Released(semaphore, t), ~Entitled(n)
    PROVE  SemaphoreInv'
<1>1. Orderly(semaphore)
  BY PermitsKnown
<1>2. /\ Orderly(semaphore') /\ Known(semaphore') = Known(semaphore) \ {t}
      /\ ToSet(semaphore'.waiters) \subseteq ToSet(semaphore.waiters)
  BY <1>1, ReleasedOrderly
<1>3. t \notin ToSet(semaphore'.waiters)
  BY <1>2 DEF Known
<1> QED BY <1>2, <1>3, PermitsFollow

LEMMA PermitAsked ==
    ASSUME NEW t \in Turns, NEW n, turn \in [Turns -> Turn], turn' = [turn EXCEPT ![t] = n],
           SemaphoreInv, semaphore' = Acquired(semaphore, t), ~Entitled(turn[t]),
           Entitled(n), n.node = "queued"
    PROVE  SemaphoreInv'
<1>1. Orderly(semaphore) /\ t \notin Known(semaphore)
  BY PermitsKnown
<1>2. Orderly(semaphore') /\ Known(semaphore') = Known(semaphore) \cup {t}
  BY <1>1, AcquiredOrderly
<1>3. ToSet(semaphore'.waiters) \subseteq ToSet(semaphore.waiters) \cup {t}
  <2>1. \A u \in ToSet(semaphore'.waiters) : u \in ToSet(semaphore.waiters) \/ u = t
    <3>1. CASE semaphore' = [semaphore EXCEPT !.holders = @ \cup {t}]
      BY <1>1, <3>1 DEF Orderly
    <3>2. CASE semaphore' = [semaphore EXCEPT !.waiters = Append(@, t)]
      <4>1. /\ semaphore.waiters \in Seq(Turns) /\ NoRepeat(semaphore.waiters)
            /\ semaphore'.waiters = Append(semaphore.waiters, t)
            /\ t \notin ToSet(semaphore.waiters)
        BY <1>1, <3>2 DEF Orderly, Known
      <4>2. ToSet(semaphore'.waiters) = ToSet(semaphore.waiters) \cup {t}
        BY <4>1, AppendedProperties
      <4> QED BY <4>2
    <3> QED BY <3>1, <3>2 DEF Acquired
  <2> QED BY <2>1
<1> QED BY <1>2, <1>3, PermitsFollow

-----------------------------------------------------------------------------
(* The messages and the history                                            *)

LEMMA MessageAppended ==
    ASSUME NEW m \in Message, messages \in Seq(Message), messages' = Append(messages, m)
    PROVE  /\ messages' \in Seq(Message) /\ Len(messages) \in Nat
           /\ DOMAIN messages = 1..Len(messages)
           /\ DOMAIN messages' = 1..(Len(messages) + 1)
           /\ \A i \in 1..Len(messages) : messages'[i] = messages[i]
           /\ messages'[Len(messages) + 1] = m
  BY LenProperties

\* What a new message adds to a turn's questions and answers.
LEMMA QuestionsAndAnswers ==
    ASSUME NEW m \in Message, messages \in Seq(Message), messages' = Append(messages, m),
           NEW u
    PROVE  /\ QuestionsOf(u)' = QuestionsOf(u) \cup
                 (IF m.turn = u /\ m.role = "user" THEN {Len(messages) + 1} ELSE {})
           /\ AnswersOf(u)' = AnswersOf(u) \cup
                 (IF m.turn = u /\ m.role = "assistant" THEN {Len(messages) + 1} ELSE {})
<1>1. /\ DOMAIN messages = 1..Len(messages) /\ Len(messages) \in Nat
      /\ DOMAIN messages' = 1..(Len(messages) + 1)
      /\ \A i \in 1..Len(messages) : messages'[i] = messages[i]
      /\ messages'[Len(messages) + 1] = m
  BY MessageAppended
<1>2. ASSUME NEW i
      PROVE  i \in DOMAIN messages' <=> i \in DOMAIN messages \/ i = Len(messages) + 1
  BY <1>1
<1>3. QuestionsOf(u)' = QuestionsOf(u) \cup
         (IF m.turn = u /\ m.role = "user" THEN {Len(messages) + 1} ELSE {})
  BY <1>1, <1>2 DEF QuestionsOf
<1>4. AnswersOf(u)' = AnswersOf(u) \cup
         (IF m.turn = u /\ m.role = "assistant" THEN {Len(messages) + 1} ELSE {})
  BY <1>1, <1>2 DEF AnswersOf
<1> QED BY <1>3, <1>4

\* A turn's history stands while later messages come in.
LEMMA HistoryStands ==
    ASSUME NEW m \in Message, messages \in Seq(Message), messages' = Append(messages, m),
           NEW u, ~(m.turn = u /\ m.role = "user"), QuestionsOf(u) # {}
    PROVE  /\ \A i \in DOMAIN messages : Replayable(i)' <=> Replayable(i)
           /\ DOMAIN messages \subseteq DOMAIN messages'
           /\ PastOf(u)' = PastOf(u)
<1>1. /\ DOMAIN messages = 1..Len(messages) /\ Len(messages) \in Nat
      /\ DOMAIN messages' = 1..(Len(messages) + 1)
      /\ \A i \in 1..Len(messages) : messages'[i] = messages[i]
  BY MessageAppended
<1>2. QuestionsOf(u)' = QuestionsOf(u) /\ QuestionsOf(u) \subseteq 1..Len(messages)
  <2>1. QuestionsOf(u)' = QuestionsOf(u)
    BY QuestionsAndAnswers
  <2> QED BY <1>1, <2>1 DEF QuestionsOf
<1>3. \A i \in DOMAIN messages : Replayable(i)' <=> Replayable(i)
  BY <1>1 DEF Replayable
<1>4. ASSUME NEW i, i \in PastOf(u)' PROVE i \in PastOf(u)
  <2>1. i \in DOMAIN messages' /\ Replayable(i)'
    BY <1>4 DEF PastOf
  <2>2. PICK q \in QuestionsOf(u) : i < q /\ q - i <= HistoryTurns
    BY <1>2, <1>4 DEF PastOf
  <2>3. i \in DOMAIN messages
    BY <1>1, <1>2, <2>1, <2>2
  <2> QED BY <1>3, <2>1, <2>2, <2>3 DEF PastOf
<1>5. ASSUME NEW i, i \in PastOf(u) PROVE i \in PastOf(u)'
  <2>1. i \in DOMAIN messages /\ Replayable(i) /\ i \in DOMAIN messages'
    BY <1>1, <1>5 DEF PastOf
  <2>2. PICK q \in QuestionsOf(u) : i < q /\ q - i <= HistoryTurns
    BY <1>5 DEF PastOf
  <2>3. Replayable(i)' /\ q \in QuestionsOf(u)'
    BY <1>2, <1>3, <2>1
  <2> QED BY <2>1, <2>2, <2>3 DEF PastOf
<1> QED BY <1>1, <1>3, <1>4, <1>5

\* _history: what is read right after the question was committed.
LEMMA HistoryRead ==
    ASSUME NEW t \in Turns, messages \in Seq(Message), OutcomeInv,
           turn[t].stream = "committed"
    PROVE  /\ History \subseteq DOMAIN messages /\ Cardinality(History) <= HistoryTurns
           /\ \A i \in History : Replayable(i)
           /\ Last(messages).turn = t => History = PastOf(t)
<1>1. DOMAIN messages = 1..Len(messages) /\ Len(messages) \in Nat /\ HistoryTurns \in Nat
  BY LenProperties, HistoryAssumption
<1>2. ASSUME NEW i
      PROVE  i \in History <=> /\ i \in DOMAIN messages /\ i < Len(messages)
                               /\ Len(messages) - i <= HistoryTurns /\ Replayable(i)
  BY <1>1 DEF History, RecentTurns
<1>3. Cardinality(History) <= HistoryTurns
  <2> DEFINE a == Len(messages) - HistoryTurns
             b == Len(messages) - 1
             W == a..b
  <2>1. a \in Int /\ b \in Int
    BY <1>1
  <2> HIDE DEF a, b
  <2>2. IsFiniteSet(W) /\ Cardinality(W) = IF a > b THEN 0 ELSE b - a + 1
    BY <2>1, FS_Interval
  <2> USE DEF a, b
  <2>3. History \subseteq W
    BY <1>1, <1>2
  <2>4. Cardinality(History) <= Cardinality(W) /\ IsFiniteSet(History)
    BY <2>2, <2>3, FS_Subset
  <2>5. Cardinality(W) <= HistoryTurns
    BY <1>1, <2>2
  <2>6. Cardinality(History) \in Nat /\ Cardinality(W) \in Nat
    BY <2>2, <2>4, FS_CardinalityType
  <2> QED BY <1>1, <2>4, <2>5, <2>6
<1>4. PICK q : q \in QuestionsOf(t)
  BY DEF OutcomeInv
<1>5. /\ q \in DOMAIN messages /\ \A p \in QuestionsOf(t) : p = q
      /\ AnswersOf(t) = {}
  BY <1>4 DEF OutcomeInv, QuestionsOf
<1>6. Last(messages).turn = t => q = Len(messages)
  <2> SUFFICES ASSUME Last(messages).turn = t PROVE q = Len(messages)
    OBVIOUS
  <2>1. Len(messages) \in DOMAIN messages
    BY <1>1, <1>5
  <2>2. messages[Len(messages)] \in Message /\ messages[Len(messages)].turn = t
    BY <2>1 DEF Last
  <2>3. messages[Len(messages)].role # "assistant"
    BY <1>5, <2>1, <2>2 DEF AnswersOf
  <2>4. messages[Len(messages)].role = "user"
    BY <2>2, <2>3 DEF Message
  <2> QED BY <1>5, <2>1, <2>2, <2>4 DEF QuestionsOf
<1>7. Last(messages).turn = t => History = PastOf(t)
  <2> SUFFICES ASSUME Last(messages).turn = t PROVE History = PastOf(t)
    OBVIOUS
  <2>1. ASSUME NEW i
        PROVE  i \in PastOf(t) <=> /\ i \in DOMAIN messages /\ i < Len(messages)
                                   /\ Len(messages) - i <= HistoryTurns /\ Replayable(i)
    BY <1>4, <1>5, <1>6 DEF PastOf
  <2> QED BY <1>2, <2>1
<1> QED BY <1>2, <1>3, <1>7

-----------------------------------------------------------------------------
(* Every step keeps the invariant                                          *)

LEMMA InvInit == Init => Inv
<1> SUFFICES ASSUME Init PROVE Inv
  OBVIOUS
<1>1. 1 \in Generations
  BY BoundsAssumption DEF Generations
<1>2. /\ Idle \in Turn /\ Untouched(Idle) /\ Idle.node = "none" /\ Idle.stream = "none"
      /\ Idle.finish = "disconnected" /\ Idle.why = "none"
  BY IdleIsIdle DEF IsIdle
<1>4. \A t \in Turns : turn[t] = Idle
  BY DEF Init
<1>5. turn \in [Turns -> Turn] /\ StreamsInv
  BY <1>2, <1>4 DEF Init, StreamsInv, StreamInv
<1>6. Orderly(semaphore) /\ Known(semaphore) = {}
  <2>1. semaphore.holders = {} /\ semaphore.waiters = <<>>
        /\ semaphore \in [holders : SUBSET Turns, waiters : Seq(Turns)]
    BY DEF Init
  <2>2. ToSet(semaphore.waiters) = {} /\ NoRepeat(semaphore.waiters)
    BY <2>1 DEF ToSet, NoRepeat
  <2> QED BY <2>1, <2>2, FS_EmptySet, PermitsAssumption DEF Orderly, Known
<1>7. SemaphoreInv
  BY <1>2, <1>4, <1>6, PermitsKnown DEF Entitled, Known
<1>8. messages = <<>> /\ \A t \in Turns : QuestionsOf(t) = {} /\ AnswersOf(t) = {}
  BY DEF Init, QuestionsOf, AnswersOf
<1>9. OutcomeInv
  BY <1>2, <1>4, <1>8 DEF OutcomeInv
<1>10. HistoryInv
  BY <1>2, <1>4 DEF HistoryInv
<1>11. NotesGoWithTheTurn
  BY DEF Init, NotesGoWithTheTurn
<1>12. TypeOK
  BY <1>1, <1>5, <1>6, BoundsAssumption DEF Init, TypeOK, Orderly
<1> QED BY <1>5, <1>7, <1>9, <1>10, <1>11, <1>12 DEF Inv

\* A step of one turn that stores nothing: what it must keep.
LEMMA TurnStep ==
    ASSUME Inv, NEW t \in Turns, NEW n \in Turn, StreamInv(n), turn' = [turn EXCEPT ![t] = n],
           UNCHANGED <<project, conv, messages, votes, voting>>,
           budget' \in [faults : 0..MaxFaults, others : 0..MaxOthers],
           turn[t].stream # "none", n.stream # "none",
           turn[t].stream # "closed", n.stream # "closed" \/ n.why # "none",
           n.stream \in {"prepared", "open"} =>
               /\ n.history \subseteq DOMAIN messages
               /\ Cardinality(n.history) <= HistoryTurns
               /\ \A i \in n.history : Replayable(i)
               /\ n.alone => n.history = PastOf(t),
           SemaphoreInv'
    PROVE  Inv'
<1>1. turn \in [Turns -> Turn]
  BY DEF Inv, TypeOK
<1>2. /\ turn' \in [Turns -> Turn] /\ turn'[t] = n
      /\ \A u \in Turns \ {t} : turn'[u] = turn[u]
  BY <1>1
<1>3. StreamsInv'
  BY <1>2 DEF Inv, StreamsInv
<1>4. OutcomeInv'
  <2>1. \A u : QuestionsOf(u)' = QuestionsOf(u) /\ AnswersOf(u)' = AnswersOf(u)
    BY DEF QuestionsOf, AnswersOf
  <2>2. OutcomeInv
    BY DEF Inv
  <2>3. \A u \in Turns : \A i, j \in QuestionsOf(u)' : i = j
    BY <2>1, <2>2 DEF OutcomeInv
  <2>4. \A u \in Turns : turn'[u].stream = "none" <=> QuestionsOf(u)' = {}
    BY <1>2, <2>1, <2>2 DEF OutcomeInv
  <2>5. ASSUME NEW u \in Turns
        PROVE  IF turn'[u].stream = "closed" /\ turn'[u].why = "none"
               THEN \E i \in DOMAIN messages' : AnswersOf(u)' = {i}
               ELSE AnswersOf(u)' = {}
    <3>1. CASE u = t
      BY <1>2, <2>1, <2>2, <3>1 DEF OutcomeInv
    <3>2. CASE u # t
      BY <1>2, <2>1, <2>2, <3>2 DEF OutcomeInv
    <3> QED BY <3>1, <3>2
  <2> QED BY <2>3, <2>4, <2>5 DEF OutcomeInv
<1>5. HistoryInv'
  <2>1. /\ \A i : Replayable(i)' <=> Replayable(i)
        /\ \A u : PastOf(u)' = PastOf(u)
    BY DEF Replayable, PastOf, QuestionsOf
  <2>2. HistoryInv
    BY DEF Inv
  <2>3. ASSUME NEW u \in Turns, turn'[u].stream \in {"prepared", "open"}
        PROVE  /\ turn'[u].history \subseteq DOMAIN messages'
               /\ Cardinality(turn'[u].history) <= HistoryTurns
               /\ \A i \in turn'[u].history : Replayable(i)'
               /\ turn'[u].alone => turn'[u].history = PastOf(u)'
    <3>1. CASE u = t
      BY <1>2, <2>1, <2>3, <3>1
    <3>2. CASE u # t
      BY <1>2, <2>1, <2>2, <2>3, <3>2 DEF HistoryInv
    <3> QED BY <3>1, <3>2
  <2> QED BY <2>3 DEF HistoryInv
<1>6. TypeOK'
  BY <1>2 DEF Inv, TypeOK, SemaphoreInv, Orderly
<1>7. NotesGoWithTheTurn'
  BY DEF Inv, NotesGoWithTheTurn
<1> QED BY <1>3, <1>4, <1>5, <1>6, <1>7 DEF Inv

\* What a step of a turn finds.
LEMMA TurnFound ==
    ASSUME Inv, NEW t \in Turns
    PROVE  /\ Good(t) /\ turn[t] \in Turn /\ turn \in [Turns -> Turn] /\ SemaphoreInv
           /\ budget \in [faults : 0..MaxFaults, others : 0..MaxOthers]
           /\ turn[t].stream \in {"prepared", "open"} =>
               /\ turn[t].history \subseteq DOMAIN messages
               /\ Cardinality(turn[t].history) <= HistoryTurns
               /\ \A i \in turn[t].history : Replayable(i)
               /\ turn[t].alone => turn[t].history = PastOf(t)
           /\ t \in ToSet(semaphore.waiters) =>
                 turn[t].node = "queued" /\ t \notin semaphore.holders
  BY DEF Inv, TypeOK, StreamsInv, Good, HistoryInv, SemaphoreInv, PermitsAccountedFor

LEMMA AdvancesInv ==
    ASSUME Inv, NEW t \in Turns, Advances(t), turn[t].stream = "open",
           turn[t].node # "raised", t \notin ToSet(semaphore.waiters),
           UNCHANGED <<project, conv, messages, semaphore, votes, voting, budget>>
    PROVE  Inv'
<1>1. PICK n : Onward(turn[t], n) /\ turn' = [turn EXCEPT ![t] = n]
  BY DEF Advances
<1>2. /\ n \in Turn /\ StreamInv(n) /\ n.stream = "open" /\ n.node # "raised"
      /\ n.history = turn[t].history /\ n.alone = turn[t].alone
  BY <1>1 DEF Onward
<1>3. SemaphoreInv'
  BY <1>1, <1>2, TurnFound, PermitsSame DEF Entitled
<1> QED BY <1>1, <1>2, <1>3, TurnFound, TurnStep

LEMMA SpendTypes ==
    ASSUME budget \in [faults : 0..MaxFaults, others : 0..MaxOthers],
           Spend("faults", MaxFaults) \/ Spend("others", MaxOthers)
    PROVE  budget' \in [faults : 0..MaxFaults, others : 0..MaxOthers]
<1>1. MaxFaults \in Nat /\ MaxOthers \in Nat
  BY BoundsAssumption
<1>2. CASE Spend("faults", MaxFaults)
  <2> DEFINE x == budget.faults + 1
  <2>1. budget.faults \in 0..MaxFaults /\ budget.faults < MaxFaults
    BY <1>2 DEF Spend
  <2>2. x \in 0..MaxFaults
    BY <1>1, <2>1
  <2>3. budget' = [budget EXCEPT !.faults = x]
    BY <1>2 DEF Spend
  <2> HIDE DEF x
  <2> QED BY <2>2, <2>3
<1>3. CASE Spend("others", MaxOthers)
  <2> DEFINE x == budget.others + 1
  <2>1. budget.others \in 0..MaxOthers /\ budget.others < MaxOthers
    BY <1>3 DEF Spend
  <2>2. x \in 0..MaxOthers
    BY <1>1, <2>1
  <2>3. budget' = [budget EXCEPT !.others = x]
    BY <1>3 DEF Spend
  <2> HIDE DEF x
  <2> QED BY <2>2, <2>3
<1> QED BY <1>2, <1>3

\* The answerer's and the consumer's steps.
LEMMA GraphInv ==
    ASSUME Inv, NEW t \in Turns,
           \/ Enter(t) \/ Classify(t) \/ RetrieveNode(t) \/ Grade(t) \/ StartReply(t)
           \/ EmitToken(t) \/ FinishNode(t) \/ Refuse(t) \/ Terminate(t) \/ Forward(t)
    PROVE  Inv'
<1>0. /\ Good(t) /\ turn[t] \in Turn
      /\ t \in ToSet(semaphore.waiters) =>
            turn[t].node = "queued" /\ t \notin semaphore.holders
  BY TurnFound
<1>1. CASE Enter(t)
  <2>1. Advances(t)
    BY <1>0, <1>1, EnterAdvances
  <2> QED BY <1>0, <1>1, <2>1, AdvancesInv DEF Enter, Running
<1>2. CASE Classify(t)
  <2>1. Advances(t)
    BY <1>0, <1>2, ClassifyAdvances
  <2> QED BY <1>0, <1>2, <2>1, AdvancesInv DEF Classify, Running
<1>3. CASE RetrieveNode(t)
  <2>1. Advances(t)
    BY <1>0, <1>3, RetrieveAdvances
  <2> QED BY <1>0, <1>3, <2>1, AdvancesInv DEF RetrieveNode, Running
<1>4. CASE Grade(t)
  <2>1. Advances(t)
    BY <1>0, <1>4, GradeAdvances
  <2> QED BY <1>0, <1>4, <2>1, AdvancesInv DEF Grade, Running
<1>5. CASE StartReply(t)
  <2>1. Advances(t)
    BY <1>0, <1>5, StartReplyAdvances
  <2> QED BY <1>0, <1>5, <2>1, AdvancesInv DEF StartReply, Running
<1>6. CASE EmitToken(t)
  <2>1. Advances(t)
    BY <1>0, <1>6, EmitTokenAdvances
  <2> QED BY <1>0, <1>6, <2>1, AdvancesInv DEF EmitToken, Streaming, Running
<1>7. CASE FinishNode(t)
  <2>1. Advances(t)
    BY <1>0, <1>7, FinishNodeAdvances
  <2> QED BY <1>0, <1>7, <2>1, AdvancesInv DEF FinishNode, Streaming, Running
<1>8. CASE Refuse(t)
  <2>1. Advances(t)
    BY <1>0, <1>8, RefuseAdvances
  <2> QED BY <1>0, <1>8, <2>1, AdvancesInv DEF Refuse, Running
<1>9. CASE Terminate(t)
  <2>1. Advances(t)
    BY <1>0, <1>9, TerminateAdvances
  <2> QED BY <1>0, <1>9, <2>1, AdvancesInv DEF Terminate, Running
<1>10. CASE Forward(t)
  <2>1. Advances(t)
    BY <1>0, <1>10, ForwardAdvances
  <2>2. turn[t].stream = "open" /\ turn[t].wire # <<>>
    BY <1>10 DEF Forward
  <2>3. turn[t].node \notin {"queued", "raised"}
    BY <1>0, <2>2 DEF Good, StreamInv, AtNode, Untouched
  <2> QED BY <1>0, <1>10, <2>1, <2>2, <2>3, AdvancesInv DEF Forward
<1> QED BY <1>1, <1>2, <1>3, <1>4, <1>5, <1>6, <1>7, <1>8, <1>9, <1>10

LEMMA OpenInv ==
    ASSUME Inv, NEW t \in Turns, Open(t)
    PROVE  Inv'
<1> DEFINE r == turn[t]
           n == [r EXCEPT !.stream = "open", !.node = "queued"]
<1>1. /\ turn' = [turn EXCEPT ![t] = n] /\ r.stream = "prepared"
      /\ semaphore' = Acquired(semaphore, t)
      /\ UNCHANGED <<project, conv, messages, votes, voting, budget>>
  BY TurnFound DEF Open
<1>2. r \in Turn /\ StreamInv(r)
  BY TurnFound DEF Good
<1>3. /\ n \in Turn /\ n.stream = "open" /\ n.node = "queued"
      /\ n.history = r.history /\ n.alone = r.alone /\ n.generation = r.generation
      /\ SameEvidence(r, n) /\ SameAnswer(r, n) /\ SameSpeech(r, n)
  BY <1>2, OpenedRecord
<1> HIDE DEF n
<1>4. Untouched(n) /\ n.finish = "disconnected"
  BY <1>1, <1>2, <1>3 DEF StreamInv, Untouched, SameEvidence, SameAnswer, SameSpeech
<1>5. StreamInv(n)
  BY <1>3, <1>4 DEF StreamInv, AtNode
<1>6. SemaphoreInv'
  BY <1>1, <1>3, TurnFound, PermitAsked DEF Entitled
<1> QED BY <1>1, <1>3, <1>5, <1>6, TurnFound, TurnStep

AfterReading(r, h, a) == [r EXCEPT !.stream = "prepared", !.history = h, !.alone = a]

LEMMA ReadRecord ==
    ASSUME NEW r \in Turn, NEW h \in SUBSET Nat, NEW a \in BOOLEAN, NEW n,
           n = AfterReading(r, h, a)
    PROVE  /\ n \in Turn /\ n.stream = "prepared" /\ n.history = h /\ n.alone = a
           /\ n.node = r.node /\ n.finish = r.finish
           /\ Untouched(r) => Untouched(n)
<1>1. "prepared" \in Streams
  BY DEF Streams
<1>2. n \in Turn
  BY <1>1 DEF Turn, AfterReading
<1>3. /\ n.stream = "prepared" /\ n.history = h /\ n.alone = a
      /\ n.node = r.node /\ n.finish = r.finish
  BY DEF Turn, AfterReading
<1>4. SameEvidence(r, n) /\ SameAnswer(r, n) /\ SameSpeech(r, n)
  BY DEF Turn, AfterReading, SameEvidence, SameAnswer, SameSpeech
<1>5. Untouched(r) => Untouched(n)
  BY <1>4 DEF Untouched, SameEvidence, SameAnswer, SameSpeech
<1> QED BY <1>2, <1>3, <1>5

LEMMA ReadContextInv ==
    ASSUME Inv, NEW t \in Turns, ReadContext(t)
    PROVE  Inv'
<1> DEFINE r == turn[t]
           h == History
           a == Last(messages).turn = t
           n == AfterReading(r, h, a)
<1>1. /\ turn' = [turn EXCEPT ![t] = n] /\ r.stream = "committed"
      /\ UNCHANGED <<project, conv, messages, semaphore, votes, voting, budget>>
  BY TurnFound DEF ReadContext, AfterReading
<1>2. r \in Turn /\ StreamInv(r) /\ messages \in Seq(Message) /\ OutcomeInv
  BY TurnFound DEF Good, Inv, TypeOK
<1>3. /\ h \subseteq DOMAIN messages /\ Cardinality(h) <= HistoryTurns
      /\ \A i \in h : Replayable(i)
      /\ a => h = PastOf(t)
  BY <1>1, <1>2, HistoryRead
<1>4. h \in SUBSET Nat /\ a \in BOOLEAN
  BY <1>2, <1>3, LenProperties
<1> HIDE DEF h, a
<1>5. /\ n \in Turn /\ n.stream = "prepared" /\ n.history = h /\ n.alone = a
      /\ n.node = r.node /\ n.finish = r.finish
      /\ Untouched(r) => Untouched(n)
  <2>1. r \in Turn /\ n = AfterReading(r, h, a)
    BY <1>2
  <2> HIDE DEF r, n
  <2> QED BY <1>4, <2>1, ReadRecord
<1> HIDE DEF n
<1>6. StreamInv(n)
  BY <1>1, <1>2, <1>5 DEF StreamInv
<1>7. SemaphoreInv'
  BY <1>1, <1>5, TurnFound, PermitsSame DEF Entitled, Good, StreamInv
<1> QED BY <1>1, <1>3, <1>5, <1>6, <1>7, TurnFound, TurnStep

\* A turn that leaves the graph for good.
LEMMA LeaveInv ==
    ASSUME Inv, NEW t \in Turns, NEW n, NEW s \in Streams, NEW f, NEW y, IsIdle(n, s, f, y),
           s \in {"writing", "closed", "dropped"}, s = "closed" => y # "none",
           turn' = [turn EXCEPT ![t] = n],
           turn[t].stream \in {"committed", "prepared", "open", "writing"},
           UNCHANGED <<project, conv, messages, votes, voting>>,
           budget' \in [faults : 0..MaxFaults, others : 0..MaxOthers],
           SemaphoreInv'
    PROVE  Inv'
<1>1. n \in Turn /\ StreamInv(n) /\ n.stream = s /\ n.why = y
  BY DEF IsIdle, StreamInv
<1> QED BY <1>1, TurnStep

LEMMA DropInv ==
    ASSUME Inv, NEW t \in Turns, Drop(t)
    PROVE  Inv'
<1> DEFINE n == IdleAt("dropped")
<1>1. /\ turn' = [turn EXCEPT ![t] = n] /\ turn[t].stream \in {"committed", "prepared"}
      /\ UNCHANGED <<project, conv, messages, semaphore, votes, voting, budget>>
  BY DEF Drop, IdleAt
<1>2. "dropped" \in Streams /\ "disconnected" \in FinishReason
  BY DEF Streams, FinishReason
<1>3. IsIdle(n, "dropped", "disconnected", "none")
  BY <1>2, IdleRecords
<1> HIDE DEF n
<1>4. SemaphoreInv'
  BY <1>1, <1>3, TurnFound, PermitsSame DEF Entitled, IsIdle, Good, StreamInv
<1> QED BY <1>1, <1>2, <1>3, <1>4, TurnFound, LeaveInv

LEMMA FinalisingInv ==
    ASSUME Inv, NEW t \in Turns, turn[t].stream = "open",
           turn' = [turn EXCEPT ![t] = Finalising(t)], semaphore' = Released(semaphore, t),
           UNCHANGED <<project, conv, messages, votes, voting, budget>>
    PROVE  Inv'
<1> DEFINE f == turn[t].finish
           n == IdleWith("writing", f)
<1>1. turn' = [turn EXCEPT ![t] = n]
  BY DEF Finalising, AnswerRow, IdleWith
<1>2. "writing" \in Streams /\ f \in FinishReason
  BY TurnFound, FieldTypes DEF Streams
<1>3. IsIdle(n, "writing", f, "none")
  BY <1>2, IdleRecords
<1> HIDE DEF n
<1>4. SemaphoreInv'
  BY <1>1, <1>3, TurnFound, PermitGivenBack DEF Entitled, IsIdle
<1> QED BY <1>1, <1>2, <1>3, <1>4, TurnFound, LeaveInv

LEMMA RetrieveRaisesInv ==
    ASSUME Inv, NEW t \in Turns, RetrieveRaises(t)
    PROVE  Inv'
<1> DEFINE r == turn[t]
           n == AfterReply(r, "raised", <<>>)
<1>1. /\ turn' = [turn EXCEPT ![t] = n] /\ r.stream = "open" /\ r.node = "retrieve"
      /\ semaphore' = Released(semaphore, t)
      /\ UNCHANGED <<project, conv, messages, votes, voting, budget>>
  BY TurnFound DEF RetrieveRaises, Running, AfterReply
<1>2. r \in Turn /\ StreamInv(r)
  BY TurnFound DEF Good
<1>3. <<>> \in Seq(Event) /\ "raised" \in Nodes
  BY DEF Nodes
<1>4. /\ n \in Turn /\ n.node = "raised" /\ n.wire = <<>> /\ n.emitted = r.emitted
      /\ SameRequest(r, n) /\ SameEvidence(r, n) /\ SameAnswer(r, n) /\ SameLocals(r, n)
  <2> DEFINE w == <<>>
  <2>1. r \in Turn /\ w \in Seq(Event) /\ "raised" \in Nodes /\ n = AfterReply(r, "raised", w)
    BY <1>2, <1>3
  <2> HIDE DEF r, w, n
  <2>2. /\ n \in Turn /\ n.node = "raised" /\ n.wire = w /\ n.emitted = r.emitted
        /\ SameRequest(r, n) /\ SameEvidence(r, n) /\ SameAnswer(r, n) /\ SameLocals(r, n)
    BY <2>1, RepliedRecord
  <2> QED BY <2>2 DEF w
<1> HIDE DEF n
<1>5. /\ r.intent = "codebase_question" /\ Unanswered(r) /\ r.finish = "disconnected"
      /\ r.attempts = 0 => Untouched(r)
      /\ r.attempts # 0 => Searched(r) /\ Said(r)
  BY <1>1, <1>2 DEF StreamInv, AtNode
<1>6. /\ r.parts = 0 /\ r.heard <= 1
      /\ r.citations # None => r.citations.generation = r.generation
  <2>1. CASE r.attempts = 0
    BY <1>5, <2>1 DEF Untouched
  <2>2. CASE r.attempts # 0
    <3>1. PICK c \in Spans \cup {None} : Listed(r, c) /\ (Unread(r, c) \/ Read(r, c))
      BY <1>5, <2>2 DEF Said
    <3>2. c.generation = r.generation
      BY <1>5, <3>1 DEF Listed
    <3>3. r.parts \in Nat /\ r.emitted = 0 /\ Len(r.wire) \in Nat
      BY <1>2, <1>5, FieldTypes, BoundsAssumption DEF Unanswered
    <3>4. CASE Unread(r, c)
      BY <3>4 DEF Unread
    <3>5. CASE Read(r, c)
      BY <3>2, <3>3, <3>5 DEF Read
    <3> QED BY <3>1, <3>4, <3>5
  <2> QED BY <2>1, <2>2
<1>7. r.attempts \in Nat
  BY <1>2, FieldTypes
<1>8. AtNode(n)
  BY <1>4, <1>5, <1>6, <1>7 DEF AtNode, Unanswered, Searched, SameRequest, SameEvidence,
     SameAnswer, SameLocals
<1>9. StreamInv(n) /\ n.stream = "open" /\ n.history = r.history /\ n.alone = r.alone
  BY <1>1, <1>4, <1>8 DEF StreamInv, SameRequest
<1>10. SemaphoreInv'
  BY <1>1, <1>4, TurnFound, PermitGivenBack DEF Entitled
<1> QED BY <1>1, <1>4, <1>9, <1>10, TurnFound, TurnStep

LEMMA FinaliseRaisesInv ==
    ASSUME Inv, NEW t \in Turns, FinaliseRaises(t)
    PROVE  Inv'
<1> DEFINE n == IdleAfter("closed", "raised")
<1>1. /\ turn' = [turn EXCEPT ![t] = n] /\ turn[t].stream = "open" /\ turn[t].node = "raised"
      /\ UNCHANGED <<project, conv, messages, semaphore, votes, voting, budget>>
  BY DEF FinaliseRaises, IdleAfter
<1>2. "closed" \in Streams /\ "disconnected" \in FinishReason
  BY DEF Streams, FinishReason
<1>3. IsIdle(n, "closed", "disconnected", "raised")
  BY <1>2, IdleRecords
<1> HIDE DEF n
<1>4. SemaphoreInv'
  BY <1>1, <1>3, TurnFound, PermitsSame DEF Entitled, IsIdle
<1> QED BY <1>1, <1>2, <1>3, <1>4, TurnFound, LeaveInv

LEMMA WriteFailsInv ==
    ASSUME Inv, NEW t \in Turns, WriteFails(t)
    PROVE  Inv'
<1> DEFINE n == IdleAfter("closed", "write")
<1>1. /\ turn' = [turn EXCEPT ![t] = n] /\ turn[t].stream = "writing"
      /\ Spend("faults", MaxFaults)
      /\ UNCHANGED <<project, conv, messages, semaphore, votes, voting>>
  BY DEF WriteFails, IdleAfter
<1>2. "closed" \in Streams /\ "disconnected" \in FinishReason
  BY DEF Streams, FinishReason
<1>3. IsIdle(n, "closed", "disconnected", "write")
  BY <1>2, IdleRecords
<1> HIDE DEF n
<1>4. SemaphoreInv'
  BY <1>1, <1>3, TurnFound, PermitsSame DEF Entitled, IsIdle, Good, StreamInv
<1>5. budget' \in [faults : 0..MaxFaults, others : 0..MaxOthers]
  BY <1>1, TurnFound, SpendTypes
<1> QED BY <1>1, <1>2, <1>3, <1>4, <1>5, LeaveInv

\* A message of a turn comes in: what it leaves of the other turns' histories.
LEMMA HistoriesStand ==
    ASSUME Inv, NEW t \in Turns, NEW n \in Turn, turn' = [turn EXCEPT ![t] = n],
           NEW m \in Message, messages' = Append(messages, m), m.turn = t,
           n.stream \notin {"prepared", "open"}
    PROVE  HistoryInv'
<1>1. /\ messages \in Seq(Message) /\ OutcomeInv /\ HistoryInv
      /\ turn' = [turn EXCEPT ![t] = n] /\ turn \in [Turns -> Turn]
  BY DEF Inv, TypeOK
<1>2. ASSUME NEW u \in Turns, turn'[u].stream \in {"prepared", "open"}
      PROVE  /\ turn'[u].history \subseteq DOMAIN messages'
             /\ Cardinality(turn'[u].history) <= HistoryTurns
             /\ \A i \in turn'[u].history : Replayable(i)'
             /\ turn'[u].alone => turn'[u].history = PastOf(u)'
  <2>1. u # t /\ turn'[u] = turn[u]
    BY <1>1, <1>2
  <2>2. QuestionsOf(u) # {}
    BY <1>1, <1>2, <2>1 DEF OutcomeInv
  <2>3. /\ \A i \in DOMAIN messages : Replayable(i)' <=> Replayable(i)
        /\ DOMAIN messages \subseteq DOMAIN messages'
        /\ PastOf(u)' = PastOf(u)
    BY <1>1, <2>1, <2>2, HistoryStands
  <2>4. /\ turn[u].history \subseteq DOMAIN messages
        /\ Cardinality(turn[u].history) <= HistoryTurns
        /\ \A i \in turn[u].history : Replayable(i)
        /\ turn[u].alone => turn[u].history = PastOf(u)
    BY <1>1, <1>2, <2>1 DEF HistoryInv
  <2> QED BY <2>1, <2>3, <2>4
<1> QED BY <1>2 DEF HistoryInv

AfterAsking(r, g) == [r EXCEPT !.stream = "committed", !.generation = g]

LEMMA AskedRecord ==
    ASSUME NEW r \in Turn, NEW g \in Generations, NEW n,
           n = AfterAsking(r, g)
    PROVE  /\ n \in Turn /\ n.stream = "committed" /\ n.node = r.node /\ n.finish = r.finish
           /\ n.why = r.why
           /\ Untouched(r) => Untouched(n)
<1>1. "committed" \in Streams
  BY DEF Streams
<1>2. n \in Turn
  BY <1>1 DEF Turn, AfterAsking
<1>3. n.stream = "committed" /\ n.node = r.node /\ n.finish = r.finish /\ n.why = r.why
  BY DEF Turn, AfterAsking
<1>4. SameEvidence(r, n) /\ SameAnswer(r, n) /\ SameSpeech(r, n)
  BY DEF Turn, AfterAsking, SameEvidence, SameAnswer, SameSpeech
<1>5. Untouched(r) => Untouched(n)
  BY <1>4 DEF Untouched, SameEvidence, SameAnswer, SameSpeech
<1> QED BY <1>2, <1>3, <1>5

LEMMA AskInv ==
    ASSUME Inv, NEW t \in Turns, Ask(t)
    PROVE  Inv'
<1> DEFINE r == turn[t]
           g == project.active
           n == AfterAsking(r, g)
           m == [turn |-> t, role |-> "user", finish |-> None]
<1>1. /\ turn' = [turn EXCEPT ![t] = n] /\ r.stream = "none"
      /\ messages' = Append(messages, m)
      /\ UNCHANGED <<project, conv, semaphore, votes, voting, budget>>
  BY TurnFound DEF Ask, AfterAsking
<1>2. /\ r \in Turn /\ StreamInv(r) /\ turn \in [Turns -> Turn] /\ messages \in Seq(Message)
      /\ g \in Generations
  BY TurnFound DEF Good, Inv, TypeOK
<1>3. m \in Message /\ m.turn = t /\ m.role = "user"
  BY DEF Message
<1>4. /\ n \in Turn /\ n.stream = "committed" /\ n.node = r.node /\ n.finish = r.finish
      /\ n.why = r.why
      /\ Untouched(r) => Untouched(n)
  <2>1. r \in Turn /\ g \in Generations /\ n = AfterAsking(r, g)
    BY <1>2
  <2> HIDE DEF r, g, n
  <2> QED BY <2>1, AskedRecord
<1> HIDE DEF n, m
<1>5. /\ turn' \in [Turns -> Turn] /\ turn'[t] = n
      /\ \A u \in Turns \ {t} : turn'[u] = turn[u]
  BY <1>1, <1>2, <1>4
<1>6. StreamInv(n)
  BY <1>1, <1>2, <1>4 DEF StreamInv
<1>7. StreamsInv'
  BY <1>5, <1>6 DEF Inv, StreamsInv
<1>8. SemaphoreInv'
  BY <1>1, <1>2, <1>4, TurnFound, PermitsSame DEF Entitled, StreamInv
<1>9. HistoryInv'
  BY <1>1, <1>3, <1>4, HistoriesStand
<1>10. OutcomeInv'
  <2>1. OutcomeInv /\ Len(messages) \in Nat
    BY <1>2, LenProperties DEF Inv
  <2>2. ASSUME NEW u
        PROVE  /\ QuestionsOf(u)' = QuestionsOf(u) \cup
                     (IF u = t THEN {Len(messages) + 1} ELSE {})
               /\ AnswersOf(u)' = AnswersOf(u)
    <3>1. m \in Message /\ messages \in Seq(Message) /\ messages' = Append(messages, m)
      BY <1>1, <1>2, <1>3
    <3>2. /\ QuestionsOf(u)' = QuestionsOf(u) \cup
                (IF m.turn = u /\ m.role = "user" THEN {Len(messages) + 1} ELSE {})
          /\ AnswersOf(u)' = AnswersOf(u) \cup
                (IF m.turn = u /\ m.role = "assistant" THEN {Len(messages) + 1} ELSE {})
      BY <3>1, QuestionsAndAnswers
    <3> QED BY <1>3, <3>2
  <2>3. QuestionsOf(t) = {} /\ AnswersOf(t) = {}
    BY <1>1, <2>1 DEF OutcomeInv
  <2>4. ASSUME NEW u \in Turns
        PROVE  /\ \A i, j \in QuestionsOf(u)' : i = j
               /\ turn'[u].stream = "none" <=> QuestionsOf(u)' = {}
    <3>1. CASE u = t
      BY <1>4, <1>5, <2>2, <2>3, <3>1
    <3>2. CASE u # t
      BY <1>5, <2>1, <2>2, <3>2 DEF OutcomeInv
    <3> QED BY <3>1, <3>2
  <2>5. DOMAIN messages \subseteq DOMAIN messages'
    BY <1>1, <1>2, <1>3, MessageAppended
  <2>6. ASSUME NEW u \in Turns
        PROVE  IF turn'[u].stream = "closed" /\ turn'[u].why = "none"
               THEN \E i \in DOMAIN messages' : AnswersOf(u)' = {i}
               ELSE AnswersOf(u)' = {}
    <3>1. CASE u = t
      BY <1>4, <1>5, <2>2, <2>3, <3>1
    <3>2. CASE u # t
      BY <1>5, <2>1, <2>2, <2>5, <3>2 DEF OutcomeInv
    <3> QED BY <3>1, <3>2
  <2> QED BY <2>4, <2>6 DEF OutcomeInv
<1>11. messages' \in Seq(Message)
  BY <1>1, <1>2, <1>3, MessageAppended
<1>12. TypeOK'
  BY <1>1, <1>5, <1>8, <1>11 DEF Inv, TypeOK, SemaphoreInv, Orderly
<1>13. NotesGoWithTheTurn'
  BY <1>1 DEF Inv, NotesGoWithTheTurn
<1> QED BY <1>7, <1>8, <1>9, <1>10, <1>12, <1>13 DEF Inv

LEMMA WriteAnswerInv ==
    ASSUME Inv, NEW t \in Turns, WriteAnswer(t)
    PROVE  Inv'
<1> DEFINE n == IdleAt("closed")
           f == turn[t].finish
           m == [turn |-> t, role |-> "assistant", finish |-> f]
<1>1. /\ turn' = [turn EXCEPT ![t] = n] /\ turn[t].stream = "writing"
      /\ messages' = Append(messages, m)
      /\ UNCHANGED <<project, conv, semaphore, votes, voting, budget>>
  BY DEF WriteAnswer, IdleAt
<1>2. /\ turn \in [Turns -> Turn] /\ messages \in Seq(Message) /\ StreamInv(turn[t])
      /\ f \in FinishReason
  BY TurnFound, FieldTypes DEF Inv, TypeOK, Good
<1>3. m \in Message /\ m.turn = t /\ m.role = "assistant"
  BY <1>2 DEF Message
<1>4. IsIdle(n, "closed", "disconnected", "none")
  <2>1. "closed" \in Streams /\ "disconnected" \in FinishReason
    BY DEF Streams, FinishReason
  <2> QED BY <2>1, IdleRecords
<1> HIDE DEF n, m
<1>5. n \in Turn /\ n.stream = "closed" /\ n.why = "none" /\ StreamInv(n)
  BY <1>4 DEF IsIdle, StreamInv
<1>6. /\ turn' \in [Turns -> Turn] /\ turn'[t] = n
      /\ \A u \in Turns \ {t} : turn'[u] = turn[u]
  BY <1>1, <1>2, <1>5
<1>7. StreamsInv'
  BY <1>5, <1>6 DEF Inv, StreamsInv
<1>8. SemaphoreInv'
  BY <1>1, <1>2, <1>5, TurnFound, PermitsSame DEF Entitled, StreamInv
<1>9. HistoryInv'
  BY <1>1, <1>3, <1>5, HistoriesStand
<1>10. OutcomeInv'
  <2>1. OutcomeInv /\ Len(messages) \in Nat
    BY <1>2, LenProperties DEF Inv
  <2>2. ASSUME NEW u
        PROVE  /\ QuestionsOf(u)' = QuestionsOf(u)
               /\ AnswersOf(u)' = AnswersOf(u) \cup
                     (IF u = t THEN {Len(messages) + 1} ELSE {})
    <3>1. m \in Message /\ messages \in Seq(Message) /\ messages' = Append(messages, m)
      BY <1>1, <1>2, <1>3
    <3>2. /\ QuestionsOf(u)' = QuestionsOf(u) \cup
                (IF m.turn = u /\ m.role = "user" THEN {Len(messages) + 1} ELSE {})
          /\ AnswersOf(u)' = AnswersOf(u) \cup
                (IF m.turn = u /\ m.role = "assistant" THEN {Len(messages) + 1} ELSE {})
      BY <3>1, QuestionsAndAnswers
    <3> QED BY <1>3, <3>2
  <2>3. QuestionsOf(t) # {} /\ AnswersOf(t) = {}
    BY <1>1, <2>1 DEF OutcomeInv
  <2>4. ASSUME NEW u \in Turns
        PROVE  /\ \A i, j \in QuestionsOf(u)' : i = j
               /\ turn'[u].stream = "none" <=> QuestionsOf(u)' = {}
    <3>1. CASE u = t
      BY <1>5, <1>6, <2>1, <2>2, <2>3, <3>1 DEF OutcomeInv
    <3>2. CASE u # t
      BY <1>6, <2>1, <2>2, <3>2 DEF OutcomeInv
    <3> QED BY <3>1, <3>2
  <2>5. DOMAIN messages \subseteq DOMAIN messages' /\ Len(messages) + 1 \in DOMAIN messages'
    BY <1>1, <1>2, <1>3, MessageAppended
  <2>6. ASSUME NEW u \in Turns
        PROVE  IF turn'[u].stream = "closed" /\ turn'[u].why = "none"
               THEN \E i \in DOMAIN messages' : AnswersOf(u)' = {i}
               ELSE AnswersOf(u)' = {}
    <3>1. CASE u = t
      <4>1. AnswersOf(u)' = {Len(messages) + 1}
        BY <2>2, <2>3, <3>1
      <4> QED BY <1>5, <1>6, <2>5, <3>1, <4>1
    <3>2. CASE u # t
      <4>1. AnswersOf(u)' = AnswersOf(u) /\ turn'[u] = turn[u]
        BY <1>6, <2>2, <3>2
      <4> QED BY <2>1, <2>5, <4>1 DEF OutcomeInv
    <3> QED BY <3>1, <3>2
  <2> QED BY <2>4, <2>6 DEF OutcomeInv
<1>11. messages' \in Seq(Message)
  BY <1>1, <1>2, <1>3, MessageAppended
<1>12. TypeOK'
  BY <1>1, <1>6, <1>8, <1>11 DEF Inv, TypeOK, SemaphoreInv, Orderly
<1>13. NotesGoWithTheTurn'
  BY <1>1 DEF Inv, NotesGoWithTheTurn
<1> QED BY <1>7, <1>8, <1>9, <1>10, <1>12, <1>13 DEF Inv

LEMMA ProcessKilledInv ==
    ASSUME Inv, ProcessKilled
    PROVE  Inv'
<1> DEFINE n == IdleAt("lost")
<1>1. /\ turn' = [t \in Turns |-> IF t \in InFlight THEN n ELSE turn[t]]
      /\ semaphore' = [holders |-> {}, waiters |-> <<>>] /\ voting' = None
      /\ Spend("faults", MaxFaults)
      /\ UNCHANGED <<project, conv, messages, votes>>
  BY DEF ProcessKilled, IdleAt
<1>2. IsIdle(n, "lost", "disconnected", "none")
  <2>1. "lost" \in Streams /\ "disconnected" \in FinishReason
    BY DEF Streams, FinishReason
  <2> QED BY <2>1, IdleRecords
<1> HIDE DEF n
<1>3. n \in Turn /\ n.stream = "lost" /\ StreamInv(n)
  BY <1>2 DEF IsIdle, StreamInv
<1>4. turn \in [Turns -> Turn] /\ turn' \in [Turns -> Turn]
  BY <1>1, <1>3 DEF Inv, TypeOK
<1>5. ASSUME NEW t \in Turns
      PROVE  \/ turn[t].stream \notin {"none", "closed"} /\ turn'[t] = n
             \/ turn[t].stream \notin {"prepared", "open"} /\ turn'[t] = turn[t]
  BY <1>1 DEF InFlight
<1>6. StreamsInv'
  BY <1>3, <1>5 DEF Inv, StreamsInv
<1>7. SemaphoreInv'
  <2>1. Orderly(semaphore')
    <3>1. semaphore'.holders = {} /\ semaphore'.waiters = <<>>
          /\ semaphore' \in [holders : SUBSET Turns, waiters : Seq(Turns)]
      BY <1>1
    <3>2. ToSet(semaphore'.waiters) = {} /\ NoRepeat(semaphore'.waiters)
      BY <3>1 DEF ToSet, NoRepeat
    <3> QED BY <3>1, <3>2, FS_EmptySet, PermitsAssumption DEF Orderly
  <2>2. semaphore'.holders \cup ToSet(semaphore'.waiters) = {} /\ ToSet(semaphore'.waiters) = {}
    BY <1>1 DEF ToSet
  <2>3. \A t \in Turns : turn'[t].stream # "open"
    BY <1>3, <1>5
  <2>4. PermitsAccountedFor'
    BY <2>2, <2>3 DEF PermitsAccountedFor
  <2> QED BY <2>1, <2>4 DEF SemaphoreInv, Orderly
<1>8. OutcomeInv'
  <2>1. \A u : QuestionsOf(u)' = QuestionsOf(u) /\ AnswersOf(u)' = AnswersOf(u)
    BY <1>1 DEF QuestionsOf, AnswersOf
  <2>2. OutcomeInv /\ messages' = messages
    BY <1>1 DEF Inv
  <2>3. \A u \in Turns : \A i, j \in QuestionsOf(u)' : i = j
    BY <2>1, <2>2 DEF OutcomeInv
  <2>4. \A u \in Turns : turn'[u].stream = "none" <=> QuestionsOf(u)' = {}
    BY <1>3, <1>5, <2>1, <2>2 DEF OutcomeInv
  <2>5. ASSUME NEW u \in Turns
        PROVE  IF turn'[u].stream = "closed" /\ turn'[u].why = "none"
               THEN \E i \in DOMAIN messages' : AnswersOf(u)' = {i}
               ELSE AnswersOf(u)' = {}
    <3>1. CASE turn'[u] = turn[u]
      BY <2>1, <2>2, <3>1 DEF OutcomeInv
    <3>2. CASE turn[u].stream # "closed" /\ turn'[u] = n
      BY <1>3, <2>1, <2>2, <3>2 DEF OutcomeInv
    <3> QED BY <1>5, <3>1, <3>2
  <2> QED BY <2>3, <2>4, <2>5 DEF OutcomeInv
<1>9. HistoryInv'
  BY <1>3, <1>5 DEF HistoryInv
<1>10. budget' \in [faults : 0..MaxFaults, others : 0..MaxOthers]
  BY <1>1, SpendTypes DEF Inv, TypeOK
<1>11. TypeOK'
  BY <1>1, <1>4, <1>7, <1>10 DEF Inv, TypeOK, SemaphoreInv, Orderly
<1>12. NotesGoWithTheTurn'
  BY <1>1 DEF Inv, NotesGoWithTheTurn
<1> QED BY <1>6, <1>7, <1>8, <1>9, <1>11, <1>12 DEF Inv

\* What goes on around the turns touches none of them.
LEMMA AroundInv ==
    ASSUME Inv, UNCHANGED <<messages, turn, semaphore>>,
           project' \in [active : Generations, stored : SUBSET Generations, live : BOOLEAN],
           conv' \in {"absent", "live", "deleted"},
           votes' \in [Turns -> Vote \cup {None}],
           voting' \in [turn : Turns, note : BOOLEAN] \cup {None},
           budget' \in [faults : 0..MaxFaults, others : 0..MaxOthers],
           NotesGoWithTheTurn'
    PROVE  Inv'
<1>1. StreamsInv'
  BY DEF Inv, StreamsInv
<1>2. /\ \A i : Replayable(i)' <=> Replayable(i)
      /\ \A u : QuestionsOf(u)' = QuestionsOf(u) /\ AnswersOf(u)' = AnswersOf(u)
  BY DEF Replayable, QuestionsOf, AnswersOf
<1>3. OutcomeInv'
  BY <1>2 DEF Inv, OutcomeInv
<1>4. \A u : PastOf(u)' = PastOf(u)
  BY DEF PastOf, Replayable, QuestionsOf
<1>5. HistoryInv'
  BY <1>2, <1>4 DEF Inv, HistoryInv
<1>6. SemaphoreInv'
  BY DEF Inv, SemaphoreInv, Orderly, PermitsAccountedFor
<1>7. TypeOK'
  BY DEF Inv, TypeOK
<1> QED BY <1>1, <1>3, <1>5, <1>6, <1>7 DEF Inv

LEMMA NotesClearedAway ==
    ASSUME votes \in [Turns -> Vote \cup {None}], votes' = NotesCleared
    PROVE  votes' \in [Turns -> Vote \cup {None}] /\ NotesGoWithTheTurn'
<1>1. ASSUME NEW t \in Turns
      PROVE  \/ votes'[t] = None
             \/ votes'[t] \in Vote /\ ~votes'[t].note
  <2>1. CASE votes[t] = None
    BY <2>1 DEF NotesCleared
  <2>2. CASE votes[t] # None
    <3>1. votes[t] \in Vote /\ votes'[t] = [votes[t] EXCEPT !.note = FALSE]
      BY <2>2 DEF NotesCleared
    <3> QED BY <3>1 DEF Vote
  <2> QED BY <2>1, <2>2
<1>2. votes' = [t \in Turns |-> votes'[t]]
  BY DEF NotesCleared
<1>3. votes' \in [Turns -> Vote \cup {None}]
  BY <1>1, <1>2
<1>4. NotesGoWithTheTurn'
  BY <1>1 DEF NotesGoWithTheTurn
<1> QED BY <1>3, <1>4

\* Reindexes, prunes, deletions and votes.
LEMMA OthersInv ==
    ASSUME Inv,
           \/ Create \/ DeleteConversation \/ DeactivateOwner \/ Reindexed \/ Prune
           \/ DeleteProject \/ VoteCommit
           \/ \E t \in Turns : Withdraw(t) \/ \E note \in BOOLEAN : VoteRead(t, note)
    PROVE  Inv'
<1>0. /\ project \in [active : Generations, stored : SUBSET Generations, live : BOOLEAN]
      /\ conv \in {"absent", "live", "deleted"}
      /\ votes \in [Turns -> Vote \cup {None}]
      /\ voting \in [turn : Turns, note : BOOLEAN] \cup {None}
      /\ budget \in [faults : 0..MaxFaults, others : 0..MaxOthers]
      /\ NotesGoWithTheTurn
  BY DEF Inv, TypeOK
<1>1. CASE Create
  <2>1. NotesGoWithTheTurn'
    BY <1>1 DEF Create, NotesGoWithTheTurn
  <2> QED BY <1>0, <1>1, <2>1, AroundInv DEF Create
<1>2. CASE DeleteConversation
  <2>1. votes' \in [Turns -> Vote \cup {None}] /\ NotesGoWithTheTurn'
    BY <1>0, <1>2, NotesClearedAway DEF DeleteConversation
  <2>2. budget' \in [faults : 0..MaxFaults, others : 0..MaxOthers]
    BY <1>0, <1>2, SpendTypes DEF DeleteConversation
  <2> QED BY <1>0, <1>2, <2>1, <2>2, AroundInv DEF DeleteConversation
<1>3. CASE DeactivateOwner
  <2>1. votes' \in [Turns -> Vote \cup {None}] /\ NotesGoWithTheTurn'
    BY <1>0, <1>3, NotesClearedAway DEF DeactivateOwner
  <2>2. budget' \in [faults : 0..MaxFaults, others : 0..MaxOthers]
    BY <1>0, <1>3, SpendTypes DEF DeactivateOwner
  <2> QED BY <1>0, <1>3, <2>1, <2>2, AroundInv DEF DeactivateOwner
<1>4. CASE Reindexed
  <2>1. NotesGoWithTheTurn'
    BY <1>0, <1>4 DEF Reindexed, NotesGoWithTheTurn
  <2>2. budget' \in [faults : 0..MaxFaults, others : 0..MaxOthers]
    BY <1>0, <1>4, SpendTypes DEF Reindexed
  <2>3. project' \in [active : Generations, stored : SUBSET Generations, live : BOOLEAN]
    <3> DEFINE a == project.active + 1
    <3>1. a \in Generations /\ project.stored \cup {a} \in SUBSET Generations
      BY <1>0, <1>4, BoundsAssumption DEF Reindexed, Generations
    <3>2. project' = [project EXCEPT !.active = a, !.stored = project.stored \cup {a}]
      BY <1>4 DEF Reindexed
    <3> HIDE DEF a
    <3> QED BY <1>0, <3>1, <3>2
  <2> QED BY <1>0, <1>4, <2>1, <2>2, <2>3, AroundInv DEF Reindexed
<1>5. CASE Prune
  <2>1. NotesGoWithTheTurn'
    BY <1>0, <1>5 DEF Prune, NotesGoWithTheTurn
  <2>2. budget' \in [faults : 0..MaxFaults, others : 0..MaxOthers]
    BY <1>0, <1>5, SpendTypes DEF Prune
  <2>3. project' \in [active : Generations, stored : SUBSET Generations, live : BOOLEAN]
    BY <1>0, <1>5 DEF Prune
  <2> QED BY <1>0, <1>5, <2>1, <2>2, <2>3, AroundInv DEF Prune
<1>6. CASE DeleteProject
  <2>1. votes' \in [Turns -> Vote \cup {None}] /\ NotesGoWithTheTurn'
    BY <1>0, <1>6, NotesClearedAway DEF DeleteProject
  <2>2. budget' \in [faults : 0..MaxFaults, others : 0..MaxOthers]
    BY <1>0, <1>6, SpendTypes DEF DeleteProject
  <2>3. /\ project' \in [active : Generations, stored : SUBSET Generations, live : BOOLEAN]
        /\ conv' \in {"absent", "live", "deleted"}
    BY <1>0, <1>6 DEF DeleteProject
  <2> QED BY <1>0, <1>6, <2>1, <2>2, <2>3, AroundInv DEF DeleteProject
<1>7. CASE VoteCommit
  <2> DEFINE v == [note |-> voting.note, late |-> conv = "deleted"]
  <2>1. /\ voting.turn \in Turns /\ v \in Vote
        /\ votes' = [votes EXCEPT ![voting.turn] = v]
    BY <1>0, <1>7 DEF VoteCommit, Vote
  <2>2. conv' = conv /\ (conv = "deleted" => v.late)
    BY <1>7 DEF VoteCommit
  <2> HIDE DEF v
  <2>3. votes' \in [Turns -> Vote \cup {None}]
    BY <1>0, <2>1
  <2>4. ASSUME NEW t \in Turns, conv' = "deleted", votes'[t] # None, votes'[t].note
        PROVE  votes'[t].late
    <3>1. CASE t = voting.turn
      BY <1>0, <2>1, <2>2, <2>4, <3>1
    <3>2. CASE t # voting.turn
      BY <1>0, <2>1, <2>2, <2>4, <3>2 DEF NotesGoWithTheTurn
    <3> QED BY <3>1, <3>2
  <2>5. NotesGoWithTheTurn'
    BY <2>4 DEF NotesGoWithTheTurn
  <2> QED BY <1>0, <1>7, <2>3, <2>5, AroundInv DEF VoteCommit
<1>8. ASSUME NEW t \in Turns, Withdraw(t) PROVE Inv'
  <2>1. votes' \in [Turns -> Vote \cup {None}] /\ NotesGoWithTheTurn'
    BY <1>0, <1>8 DEF Withdraw, NotesGoWithTheTurn
  <2>2. budget' \in [faults : 0..MaxFaults, others : 0..MaxOthers]
    BY <1>0, <1>8, SpendTypes DEF Withdraw
  <2> QED BY <1>0, <1>8, <2>1, <2>2, AroundInv DEF Withdraw
<1>9. ASSUME NEW t \in Turns, NEW note \in BOOLEAN, VoteRead(t, note) PROVE Inv'
  <2>1. NotesGoWithTheTurn'
    BY <1>0, <1>9 DEF VoteRead, NotesGoWithTheTurn
  <2>2. budget' \in [faults : 0..MaxFaults, others : 0..MaxOthers]
    BY <1>0, <1>9, SpendTypes DEF VoteRead
  <2>3. voting' \in [turn : Turns, note : BOOLEAN]
    BY <1>9 DEF VoteRead
  <2> QED BY <1>0, <1>9, <2>1, <2>2, <2>3, AroundInv DEF VoteRead
<1> QED BY <1>1, <1>2, <1>3, <1>4, <1>5, <1>6, <1>7, <1>8, <1>9

LEMMA InvNext == Inv /\ [Next]_vars => Inv'
<1> SUFFICES ASSUME Inv, [Next]_vars PROVE Inv'
  OBVIOUS
<1>1. CASE UNCHANGED vars
  BY <1>1, AroundInv DEF vars, Inv, TypeOK, NotesGoWithTheTurn
<1>2. CASE \/ Create \/ DeleteConversation \/ DeactivateOwner \/ Reindexed \/ Prune
           \/ DeleteProject \/ VoteCommit
  BY <1>2, OthersInv
<1>3. CASE ProcessKilled
  BY <1>3, ProcessKilledInv
<1>4. ASSUME NEW t \in Turns, Progress(t) PROVE Inv'
  <2>1. CASE ReadContext(t) \/ Open(t)
    BY <2>1, ReadContextInv, OpenInv
  <2>2. CASE Exhausted(t)
    BY <2>2, FinalisingInv DEF Exhausted
  <2>3. CASE FinaliseRaises(t) \/ WriteAnswer(t)
    BY <2>3, FinaliseRaisesInv, WriteAnswerInv
  <2>4. CASE \/ Enter(t) \/ Classify(t) \/ RetrieveNode(t) \/ Grade(t) \/ StartReply(t)
             \/ EmitToken(t) \/ FinishNode(t) \/ Refuse(t) \/ Terminate(t) \/ Forward(t)
    BY <2>4, GraphInv
  <2> QED BY <1>4, <2>1, <2>2, <2>3, <2>4 DEF Progress
<1>5. ASSUME NEW t \in Turns,
             \/ Ask(t) \/ Drop(t) \/ Disconnect(t) \/ RetrieveRaises(t) \/ WriteFails(t)
             \/ Withdraw(t) \/ \E note \in BOOLEAN : VoteRead(t, note)
      PROVE  Inv'
  <2>1. CASE Ask(t) \/ Drop(t)
    BY <2>1, AskInv, DropInv
  <2>2. CASE Disconnect(t)
    BY <2>2, FinalisingInv DEF Disconnect
  <2>3. CASE RetrieveRaises(t) \/ WriteFails(t)
    BY <2>3, RetrieveRaisesInv, WriteFailsInv
  <2>4. CASE Withdraw(t) \/ \E note \in BOOLEAN : VoteRead(t, note)
    BY <2>4, OthersInv
  <2> QED BY <1>5, <2>1, <2>2, <2>3, <2>4
<1> QED BY <1>1, <1>2, <1>3, <1>4, <1>5 DEF Next

-----------------------------------------------------------------------------
(* What the invariant says of a turn's record.                             *)

LEMMA SaidFacts ==
    ASSUME NEW r \in Turn, Said(r)
    PROVE  /\ r.heard <= 1 /\ r.parts <= r.emitted /\ (r.parts > 0 => r.heard = 1)
           /\ r.finish = "disconnected"
           /\ r.citations # None => r.citations.generation = r.generation
           /\ \A i \in DOMAIN r.wire : r.wire[i].kind # "done"
<1> USE NoneAssumption
<1>1. r.wire \in Seq(Event) /\ r.parts \in Nat /\ r.emitted \in Nat
  BY BoundsAssumption DEF Turn
<1>2. r.finish = "disconnected"
  BY DEF Said
<1>3. PICK c \in Spans \cup {None} : Listed(r, c) /\ (Unread(r, c) \/ Read(r, c))
  BY DEF Said
<1>4. CASE Unread(r, c)
  <2>1. r.heard = 0 /\ r.parts = 0 /\ r.citations = None
    BY <1>4 DEF Unread
  <2>2. ASSUME NEW i \in DOMAIN r.wire PROVE r.wire[i].kind # "done"
    <3>1. i = 1 \/ i \in 2..Len(r.wire)
      BY <1>1, <2>2
    <3>2. r.wire[1].kind = "citations"
      BY <1>1, <1>4 DEF Unread
    <3>3. i \in 2..Len(r.wire) => r.wire[i].kind = "token"
      BY <1>4 DEF Unread, Token
    <3> QED BY <3>1, <3>2, <3>3
  <2> QED BY <1>1, <1>2, <2>1, <2>2
<1>5. CASE Read(r, c)
  <2>1. r.heard = 1 /\ r.citations = c /\ r.emitted = r.parts + Len(r.wire)
    BY <1>5 DEF Read
  <2>2. ASSUME NEW i \in DOMAIN r.wire PROVE r.wire[i].kind # "done"
    <3>1. i \in 1..Len(r.wire)
      BY <1>1, <2>2
    <3> QED BY <1>5, <3>1 DEF Read, Token
  <2>3. Len(r.wire) \in Nat
    BY <1>1
  <2>4. c # None => c.generation = r.generation
    BY <1>3 DEF Listed
  <2> QED BY <1>1, <1>2, <2>1, <2>2, <2>3, <2>4
<1> QED BY <1>3, <1>4, <1>5

LEMMA ClosingFacts ==
    ASSUME NEW r \in Turn, Closing(r)
    PROVE  /\ r.heard = 1 /\ r.parts <= r.emitted
           /\ r.citations # None => r.citations.generation = r.generation
           /\ r.wire = <<>> =>
                 /\ r.emitted = r.parts /\ r.finish # "disconnected"
                 /\ r.finish = "stop" => r.cited \in {{}, 1..r.spans.count}
           /\ \A i \in DOMAIN r.wire : r.wire[i].kind = "done" /\ r.spans.count > 0 =>
                 ("weak_evidence" \in r.wire[i].warnings <=> r.judged = "weak")
<1>1. r.parts \in Nat /\ r.emitted \in Nat
  BY BoundsAssumption DEF Turn
<1>2. r.heard = 1 /\ Listed(r, r.citations)
  BY DEF Closing
<1>3. r.citations # None => r.citations.generation = r.generation
  BY <1>2 DEF Listed
<1>4. CASE r.wire = <<>>
  <2>1. \A e : <<e>> # <<>> /\ <<Token, e>> # <<>>
    OBVIOUS
  <2>2. /\ r.finish # "disconnected" /\ r.emitted = r.parts
        /\ r.finish = "stop" => r.cited \in {{}, 1..r.spans.count}
    BY <1>4, <2>1 DEF Closing
  <2>3. DOMAIN r.wire = {}
    BY <1>4
  <2> QED BY <1>1, <1>2, <1>3, <2>2, <2>3
<1>5. CASE r.wire # <<>>
  <2>1. PICK e \in Event : Terminator(r, e) /\
               \/ r.wire = <<e>> /\ r.emitted = r.parts
               \/ r.wire = <<Token, e>> /\ r.emitted = r.parts + 1
    BY <1>5 DEF Closing
  <2>2. e.kind = "done" /\ r.spans.count > 0 =>
           ("weak_evidence" \in e.warnings <=> r.judged = "weak")
    BY <2>1 DEF Terminator
  <2>3. ASSUME NEW i \in DOMAIN r.wire PROVE r.wire[i] = e \/ r.wire[i] = Token
    BY <2>1, <2>3
  <2>4. Token.kind # "done"
    BY DEF Token
  <2>5. r.parts <= r.emitted
    BY <1>1, <2>1
  <2> QED BY <1>2, <1>3, <1>5, <2>2, <2>3, <2>4, <2>5
<1> QED BY <1>4, <1>5

LEMMA UntouchedFacts ==
    ASSUME NEW r \in Turn, Untouched(r)
    PROVE  /\ r.heard = 0 /\ r.parts = 0 /\ r.emitted = 0 /\ r.attempts = 0
           /\ r.citations = None /\ DOMAIN r.wire = {}
BY DEF Untouched

\* At an open turn's node, before the answerer is done.
LEMMA SpeakingFacts ==
    ASSUME NEW r \in Turn, AtNode(r), r.node # "terminated"
    PROVE  /\ r.heard <= 1 /\ r.parts <= r.emitted /\ (r.parts > 0 => r.heard = 1)
           /\ r.finish = "disconnected"
           /\ r.citations # None => r.citations.generation = r.generation
           /\ r.attempts > 0 => r.spans.generation = r.generation
           /\ \A i \in DOMAIN r.wire : r.wire[i].kind # "done"
<1>1. CASE r.node \in {"queued", "classify", "answer_from_history", "refuse"}
  <2>1. Untouched(r) /\ r.finish = "disconnected"
    BY <1>1 DEF AtNode
  <2> QED BY <2>1, UntouchedFacts
<1>2. CASE r.node = "retrieve"
  <2>1. /\ r.finish = "disconnected"
        /\ IF r.attempts = 0 THEN Untouched(r) ELSE Searched(r) /\ Said(r)
    BY <1>2 DEF AtNode
  <2>2. CASE r.attempts = 0
    BY <2>1, <2>2, UntouchedFacts
  <2>3. CASE r.attempts # 0
    BY <2>1, <2>3, SaidFacts DEF Searched
  <2> QED BY <2>2, <2>3
<1>3. CASE r.node \in {"grade", "generate"}
  <2>1. Searched(r) /\ Said(r)
    BY <1>3 DEF AtNode
  <2> QED BY <2>1, SaidFacts DEF Searched
<1>4. CASE r.node = "reply"
  <2>1. r.attempts = 0 /\ Said(r)
    BY <1>4 DEF AtNode
  <2> QED BY <2>1, SaidFacts
<1>5. CASE r.node = "end"
  <2>1. Grounded(r) /\ Said(r)
    BY <1>5 DEF AtNode
  <2>2. r.attempts > 0 => r.spans.generation = r.generation
    BY <2>1 DEF Grounded, Searched
  <2> QED BY <2>1, <2>2, SaidFacts
<1>6. CASE r.node = "raised"
  <2>1. /\ r.wire = <<>> /\ Unanswered(r) /\ r.parts = 0 /\ r.heard <= 1
        /\ r.finish = "disconnected"
        /\ r.attempts > 0 => Searched(r)
        /\ r.citations # None => r.citations.generation = r.generation
    BY <1>6 DEF AtNode
  <2>2. DOMAIN r.wire = {} /\ r.emitted = 0
    BY <2>1 DEF Unanswered
  <2> QED BY <2>1, <2>2 DEF Searched
<1> QED BY <1>1, <1>2, <1>3, <1>4, <1>5, <1>6 DEF AtNode

\* When the answerer is done: the citations of an answer from a single search are the spans it
\* was written from.
LEMMA TerminatedFacts ==
    ASSUME NEW r \in Turn, AtNode(r), r.node = "terminated"
    PROVE  /\ Closing(r)
           /\ r.attempts > 0 => r.spans.generation = r.generation
           /\ r.attempts = 1 => r.citations = r.spans
           /\ r.spans.count > 0 => r.judged # "none"
<1>1. Grounded(r) /\ Closing(r)
  BY DEF AtNode
<1>2. Listed(r, r.citations)
  BY <1>1 DEF Closing
<1>3. CASE r.intent = "codebase_question"
  BY <1>1, <1>2, <1>3 DEF Grounded, Searched, Judged, Listed
<1>4. CASE r.intent # "codebase_question"
  BY <1>1, <1>4 DEF Grounded
<1> QED BY <1>1, <1>3, <1>4

-----------------------------------------------------------------------------
(* The theorems.                                                           *)

\* A turn, a message or a vote is one the service knows, a stream ends with one message
\* and never two, and a permit belongs to a turn that is answering; all the rest of the
\* invariant holds as well.
THEOREM InvHolds == Spec => []Inv
BY InvInit, InvNext, PTL DEF Spec

\* stream_turn and _finalise: whatever ends a turn, its outcome is recorded once and its
\* permit of answer_semaphore is free again; no more permits are out than there are.
THEOREM TurnsSettle == Spec => []EveryTurnSettles
<1>1. Inv => EveryTurnSettles
  <2> SUFFICES ASSUME Inv PROVE EveryTurnSettles
    OBVIOUS
  <2>1. TypeOK /\ PermitsAccountedFor /\ OutcomeInv
    BY DEF Inv, SemaphoreInv
  <2>2. ASSUME NEW t \in Turns, turn[t].stream = "closed" /\ turn[t].why = "none"
        PROVE  Cardinality(AnswersOf(t)) = 1
    <3>1. PICK i \in DOMAIN messages : AnswersOf(t) = {i}
      BY <2>1, <2>2 DEF OutcomeInv
    <3> QED BY <3>1, FS_Singleton
  <2>3. ASSUME NEW t \in Turns, turn[t].stream # "closed" \/ turn[t].why # "none"
        PROVE  AnswersOf(t) = {}
    BY <2>1, <2>3 DEF OutcomeInv
  <2>4. OutcomeRecordedOnce
    BY <2>2, <2>3 DEF OutcomeRecordedOnce
  <2> QED BY <2>1, <2>4 DEF EveryTurnSettles
<1> QED BY <1>1, InvHolds, PTL

\* stream_turn: no token the model produced is lost on its way to the stored answer, and
\* the client hears one citation list, before the first token and the terminator.
THEOREM StreamContract == Spec => []StreamKeepsItsContract
<1>1. Inv => StreamKeepsItsContract
  <2> SUFFICES ASSUME Inv PROVE StreamKeepsItsContract
    OBVIOUS
  <2>1. ASSUME NEW t \in Turns
        PROVE  /\ turn[t].stream = "open" => turn[t].parts <= turn[t].emitted
               /\ RanItsCourse(t) =>
                     turn[t].parts = turn[t].emitted /\ turn[t].finish # "disconnected"
               /\ turn[t].heard <= 1
               /\ turn[t].stream = "open" =>
                     (turn[t].parts > 0 \/ turn[t].finish = "stop" => turn[t].heard = 1)
    <3> DEFINE r == turn[t]
    <3>1. r \in Turn /\ StreamInv(r)
      BY DEF Inv, TypeOK, StreamsInv
    <3>2. CASE r.stream # "open"
      BY <3>1, <3>2, UntouchedFacts DEF StreamInv, RanItsCourse
    <3>3. CASE r.stream = "open" /\ r.node # "terminated"
      <4>1. AtNode(r)
        BY <3>1, <3>3 DEF StreamInv
      <4> HIDE DEF r
      <4>2. /\ r.heard <= 1 /\ r.parts <= r.emitted /\ (r.parts > 0 => r.heard = 1)
            /\ r.finish = "disconnected"
        BY <3>1, <3>3, <4>1, SpeakingFacts
      <4> QED BY <3>3, <4>2 DEF r, RanItsCourse
    <3>4. CASE r.stream = "open" /\ r.node = "terminated"
      <4>1. AtNode(r)
        BY <3>1, <3>4 DEF StreamInv
      <4> HIDE DEF r
      <4>2. Closing(r)
        BY <3>1, <3>4, <4>1, TerminatedFacts
      <4>3. /\ r.heard = 1 /\ r.parts <= r.emitted
            /\ r.wire = <<>> => r.emitted = r.parts /\ r.finish # "disconnected"
        BY <3>1, <4>2, ClosingFacts
      <4> QED BY <4>3 DEF r, RanItsCourse
    <3> QED BY <3>2, <3>3, <3>4
  <2>2. NoTokenLost
    BY <2>1 DEF NoTokenLost, AnswerRow
  <2>3. CitationsOnceAndFirst
    BY <2>1 DEF CitationsOnceAndFirst
  <2> QED BY <2>2, <2>3 DEF StreamKeepsItsContract
<1> QED BY <1>1, InvHolds, PTL

\* prepare_turn, retrieve, grade and _finalise: a turn's evidence and citations come from
\* the generation it was asked on, the citations of an answer found at the first search are
\* the spans it was written from, and its warning is the verdict on those.
THEOREM EvidenceSafe == Spec => []EvidenceBelongsTogether
<1>1. Inv => EvidenceBelongsTogether
  <2> SUFFICES ASSUME Inv PROVE EvidenceBelongsTogether
    OBVIOUS
  <2>1. ASSUME NEW t \in Turns
        PROVE  /\ turn[t].attempts > 0 => turn[t].spans.generation = turn[t].generation
               /\ turn[t].stream = "open" /\ turn[t].citations # None
                     => turn[t].citations.generation = turn[t].generation
               /\ RanItsCourse(t) /\ turn[t].finish = "stop" =>
                     /\ turn[t].cited \in {{}, 1..turn[t].spans.count}
                     /\ turn[t].attempts = 1 => turn[t].citations = turn[t].spans
               /\ \A i \in DOMAIN turn[t].wire :
                     turn[t].wire[i].kind = "done" /\ turn[t].spans.count > 0
                        => /\ turn[t].judged # "none"
                           /\ "weak_evidence" \in turn[t].wire[i].warnings
                                 <=> turn[t].judged = "weak"
    <3> DEFINE r == turn[t]
    <3>1. r \in Turn /\ StreamInv(r)
      BY DEF Inv, TypeOK, StreamsInv
    <3>2. CASE r.stream # "open"
      <4>1. Untouched(r)
        BY <3>1, <3>2 DEF StreamInv
      <4> HIDE DEF r
      <4>2. r.attempts = 0 /\ DOMAIN r.wire = {}
        BY <3>1, <4>1, UntouchedFacts
      <4> QED BY <3>2, <4>2 DEF r, RanItsCourse
    <3>3. CASE r.stream = "open" /\ r.node # "terminated"
      <4>1. AtNode(r)
        BY <3>1, <3>3 DEF StreamInv
      <4> HIDE DEF r
      <4>2. /\ r.citations # None => r.citations.generation = r.generation
            /\ r.attempts > 0 => r.spans.generation = r.generation
            /\ \A i \in DOMAIN r.wire : r.wire[i].kind # "done"
        BY <3>1, <3>3, <4>1, SpeakingFacts
      <4> QED BY <3>3, <4>2 DEF r, RanItsCourse
    <3>4. CASE r.stream = "open" /\ r.node = "terminated"
      <4>1. AtNode(r)
        BY <3>1, <3>4 DEF StreamInv
      <4> HIDE DEF r
      <4>2. /\ Closing(r)
            /\ r.attempts > 0 => r.spans.generation = r.generation
            /\ r.attempts = 1 => r.citations = r.spans
            /\ r.spans.count > 0 => r.judged # "none"
        BY <3>1, <3>4, <4>1, TerminatedFacts
      <4>3. /\ r.citations # None => r.citations.generation = r.generation
            /\ r.wire = <<>> /\ r.finish = "stop" => r.cited \in {{}, 1..r.spans.count}
            /\ \A i \in DOMAIN r.wire : r.wire[i].kind = "done" /\ r.spans.count > 0 =>
                  ("weak_evidence" \in r.wire[i].warnings <=> r.judged = "weak")
        BY <3>1, <4>2, ClosingFacts
      <4> QED BY <4>2, <4>3 DEF r, RanItsCourse
    <3> QED BY <3>2, <3>3, <3>4
  <2>2. OneIndexPerTurn
    BY <2>1 DEF OneIndexPerTurn
  <2>3. ASSUME NEW t \in Turns, RanItsCourse(t), AnswerRow(t).finish = "stop",
               turn[t].attempts = 1
        PROVE  AnswerRow(t).citations = turn[t].spans /\ AnswerRow(t).cited = turn[t].cited
    <3>1. turn[t].spans \in Spans /\ MaxSpans \in Nat
      BY SpansAssumption DEF Inv, TypeOK, Turn
    <3>2. turn[t].spans # None /\ turn[t].spans.count \in Nat
      BY <3>1, NoneAssumption DEF Spans, SpanCounts
    <3>3. /\ AnswerRow(t).citations = turn[t].citations
          /\ AnswerRow(t).finish = turn[t].finish
          /\ AnswerRow(t).cited = {i \in turn[t].cited : turn[t].citations # None
                                                         /\ i <= turn[t].citations.count}
      BY DEF AnswerRow
    <3>4. /\ turn[t].citations = turn[t].spans
          /\ turn[t].cited \in {{}, 1..turn[t].spans.count}
      BY <2>1, <2>3, <3>3
    <3>5. \A i \in turn[t].cited : i <= turn[t].spans.count
      BY <3>2, <3>4
    <3> QED BY <3>2, <3>3, <3>4, <3>5
  <2>4. CitationsAreTheSpans
    BY <2>3 DEF CitationsAreTheSpans
  <2>5. WarningFitsTheSpans
    BY <2>1 DEF WarningFitsTheSpans
  <2> QED BY <2>2, <2>4, <2>5 DEF EvidenceBelongsTogether
<1> QED BY <1>1, InvHolds, PTL

\* _history: no prompt replays an unfinished answer or more than the window, and a turn
\* whose question was still the newest message replays exactly what preceded it.
THEOREM HistorySafe == Spec => []HistoryIsThePast
<1>1. Inv => HistoryIsThePast
  BY DEF Inv, HistoryInv, HistoryIsThePast
<1> QED BY <1>1, InvHolds, PTL

\* ConversationService.delete, ProjectService.delete, UserService.soft_delete: the notes
\* about a conversation's answers go with it, but for a vote that had looked before.
THEOREM NotesSafe == Spec => []NotesGoWithTheTurn
<1>1. Inv => NotesGoWithTheTurn
  BY DEF Inv
<1> QED BY <1>1, InvHolds, PTL

=============================================================================
