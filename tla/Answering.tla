----------------------------- MODULE Answering -----------------------------
(***************************************************************************)
(* The Ask screen (services/conversation.py, rag/answerer.py, rag/graph):  *)
(* turns of one conversation, each prepared by a request and then streamed *)
(* from the answer graph under a permit of the process's semaphore, while  *)
(* the project is reindexed, the conversation deleted and answers voted on *)
(* (services/feedback.py).  A turn has a producer, the graph and its       *)
(* adapter, and a consumer, stream_turn, with the events in between on     *)
(* `wire`.  The answering model, the classifier and the grader are         *)
(* whatever they choose to be; a token is only counted.                    *)
(***************************************************************************)
EXTENDS Retrieval

CONSTANTS
    Turns,          \* the questions asked, each by a request of its own
    Permits,        \* chat_max_concurrency
    MaxAttempts,    \* rag_max_retrieval_attempts
    HistoryTurns,   \* rag_history_turns
    MaxTokens,      \* bound: tokens of a generated answer
    MaxGenerations, \* bound: index generations
    MaxFaults,      \* bound: lost processes, failed writes
    MaxOthers,      \* bound: reindexes, prunes, deletions and votes
    None

ASSUME PermitsAssumption == Permits \in Nat \ {0}
ASSUME AttemptsAssumption == MaxAttempts \in Nat \ {0}
ASSUME HistoryAssumption == HistoryTurns \in Nat
ASSUME BoundsAssumption ==
    /\ MaxTokens \in Nat \ {0} /\ MaxGenerations \in Nat \ {0}
    /\ MaxFaults \in Nat /\ MaxOthers \in Nat

VARIABLES
    project,    \* active: active_generation; stored: generations with points; live: not deleted
    conv,       \* the conversation: absent, live or deleted
    messages,   \* the messages table, in commit order
    turn,       \* the requests: TurnContext, the graph's TurnState and stream_turn's locals
    semaphore,  \* app.state.answer_semaphore: the turns holding a permit and the queue
    votes,      \* the feedback row on each turn's answer
    voting,     \* the feedback request in flight
    budget      \* no data of the program's: what the bounds have left

vars == <<project, conv, messages, turn, semaphore, votes, voting, budget>>

Intents == {"codebase_question", "conversational", "out_of_scope"}
Generations == 1..MaxGenerations

\* How many spans a retrieval brings back, as far as a turn can tell: none, or some.
MaxSpans == Max({Len(Retrieve(hits)) : hits \in Searches})
SpanCounts == {0, MaxSpans}

\* A retrieved list: the generation and the attempt it came from, and its length.
Spans == [generation : Generations, attempt : 1..MaxAttempts, count : SpanCounts]
\* A search brings back some number of spans.
ASSUME SpansAssumption == MaxSpans \in Nat

NoSpans == [generation |-> 1, attempt |-> 1, count |-> 0]

FinishReason == {"stop", "error", "timeout", "disconnected"}

\* A message as the table keeps it for later turns: a question, or an answer and how it
\* ended.  The text and the citations of an answer are those of AnswerRow below.
Message == [turn : Turns, role : {"user", "assistant"}, finish : FinishReason \cup {None}]

\* Where the answer graph and its adapter are.
Nodes == {"none", "queued", "classify", "retrieve", "grade", "generate",
          "answer_from_history", "reply", "refuse", "end", "terminated", "raised"}

\* Where the request and its response body are.
Streams == {"none", "committed", "prepared", "open", "writing", "closed", "dropped", "lost"}

Warnings == {"no_context", "uncited_answer", "weak_evidence"}

Event == [kind : {"token"}]
         \cup [kind : {"citations"}, spans : Spans \cup {None}]
         \cup [kind : {"done"}, cited : SUBSET (1..MaxSpans), warnings : SUBSET Warnings]
         \cup [kind : {"error"}, finish : {"error", "timeout"}]
Token == [kind |-> "token"]

\* models/feedback.py, without the rating and its reasons; late is no data of the program's: the vote landed on a
\* conversation deleted since its request looked.
Vote == [note : BOOLEAN, late : BOOLEAN]

ASSUME NoneAssumption ==
    None \notin FinishReason \cup Spans \cup Vote \cup [turn : Turns, note : BOOLEAN]

\* A request before it is made.  history is the positions of the messages it replays,
\* which the table keeps in order.  judged, emitted, heard, alone and why are no data of
\* the program's: the verdict on the present spans, the tokens and citation lists sent,
\* whether the question was the newest message when the history was read, and why a
\* stream ended without a row.
Idle ==
    [stream |-> "none", generation |-> 1, history |-> {}, alone |-> TRUE,
     node |-> "none", intent |-> "codebase_question", spans |-> NoSpans, attempts |-> 0,
     evidence_ok |-> FALSE, judged |-> "none", answer |-> 0, failure |-> None,
     wire |-> <<>>, emitted |-> 0,
     parts |-> 0, citations |-> None, heard |-> 0, cited |-> {}, finish |-> "disconnected",
     why |-> "none"]

Turn ==
    [stream : Streams, generation : Generations, history : SUBSET Nat,
     alone : BOOLEAN, node : Nodes, intent : Intents, spans : Spans,
     attempts : 0..MaxAttempts, evidence_ok : BOOLEAN, judged : {"none", "ok", "weak"},
     answer : 0..MaxTokens, failure : {None, "timeout", "error"},
     wire : Seq(Event), emitted : 0..MaxTokens, parts : 0..MaxTokens,
     citations : Spans \cup {None}, heard : 0..MaxAttempts, cited : SUBSET (1..MaxSpans),
     finish : FinishReason, why : {"none", "raised", "write"}]

Init ==
    /\ project = [active |-> 1, stored |-> {1}, live |-> TRUE]
    /\ conv = "absent"
    /\ messages = <<>>
    /\ turn = [t \in Turns |-> Idle]
    /\ semaphore = [holders |-> {}, waiters |-> <<>>]
    /\ votes = [t \in Turns |-> None]
    /\ voting = None
    /\ budget = [faults |-> 0, others |-> 0]

\* One more step of a bounded kind.
Spend(kind, bound) == budget[kind] < bound /\ budget' = [budget EXCEPT ![kind] = @ + 1]

-----------------------------------------------------------------------------
(* asyncio.Semaphore: permits are granted in the order they were asked for. *)

Acquired(sem, t) ==
    IF Cardinality(sem.holders) < Permits /\ sem.waiters = <<>>
    THEN [sem EXCEPT !.holders = @ \cup {t}]
    ELSE [sem EXCEPT !.waiters = Append(@, t)]

Without(waiters, t) ==
    IF t \in ToSet(waiters) THEN RemoveAt(waiters, CHOOSE i \in DOMAIN waiters : waiters[i] = t)
    ELSE waiters

Released(sem, t) ==
    LET holders == sem.holders \ {t}
        waiters == Without(sem.waiters, t)
        grants  == waiters # <<>> /\ Cardinality(holders) < Permits
    IN  [holders |-> IF grants THEN holders \cup {Head(waiters)} ELSE holders,
         waiters |-> IF grants THEN Tail(waiters) ELSE waiters]

-----------------------------------------------------------------------------
(* The request: ConversationService. *)

\* ConversationService.create
Create ==
    /\ conv = "absent" /\ project.live
    /\ conv' = "live"
    /\ UNCHANGED <<project, messages, turn, semaphore, votes, voting, budget>>

\* prepare_turn: _require_own, require_readable_project, require_answerable, and the
\* question committed.  The project stays as it was loaded (expire_on_commit is off), so
\* the turn's generation is the one active now.
Ask(t) ==
    /\ turn[t].stream = "none"
    /\ conv = "live" /\ project.live
    /\ messages' = Append(messages, [turn |-> t, role |-> "user", finish |-> None])
    /\ turn' = [turn EXCEPT ![t].stream = "committed", ![t].generation = project.active]
    /\ UNCHANGED <<project, conv, semaphore, votes, voting, budget>>

\* MessageRepository.recent_turns: the positions of the last `limit` messages
RecentTurns(limit) == {i \in DOMAIN messages : i > Len(messages) - limit}

Replayable(i) == messages[i].role = "user" \/ messages[i].finish = "stop"

\* Mutant: the window is not widened for the question it is about to drop.
HistoryNarrow == {i \in RecentTurns(HistoryTurns) \ {Len(messages)} : Replayable(i)}

\* _history: the window without its newest message and without unfinished answers
History == {i \in RecentTurns(HistoryTurns + 1) \ {Len(messages)} : Replayable(i)}

\* prepare_turn: the rest of the TurnContext, read after the commit
ReadContext(t) ==
    /\ turn[t].stream = "committed"
    /\ turn' = [turn EXCEPT ![t].stream = "prepared",
                           ![t].history = History,
                           ![t].alone = Last(messages).turn = t]
    /\ UNCHANGED <<project, conv, messages, semaphore, votes, voting, budget>>

\* The client leaves before the response body is iterated: stream_turn never starts.
Drop(t) ==
    /\ turn[t].stream \in {"committed", "prepared"}
    /\ turn' = [turn EXCEPT ![t] = [Idle EXCEPT !.stream = "dropped"]]
    /\ UNCHANGED <<project, conv, messages, semaphore, votes, voting, budget>>

-----------------------------------------------------------------------------
(* The producer: Answerer.answer and the answer graph, running ahead of the      *)
(* consumer until it is cancelled.                                              *)

Running(t, node) == turn[t].stream = "open" /\ turn[t].node = node

\* stream_turn starts the answerer, which asks for a permit.
Open(t) ==
    /\ turn[t].stream = "prepared"
    /\ semaphore' = Acquired(semaphore, t)
    /\ turn' = [turn EXCEPT ![t].stream = "open", ![t].node = "queued"]
    /\ UNCHANGED <<project, conv, messages, votes, voting, budget>>

\* The permit arrives; the graph starts at classify.
Enter(t) ==
    /\ Running(t, "queued") /\ t \in semaphore.holders
    /\ turn' = [turn EXCEPT ![t].node = "classify"]
    /\ UNCHANGED <<project, conv, messages, semaphore, votes, voting, budget>>

\* route_intent
RouteIntent(intent) ==
    CASE intent = "conversational" -> "answer_from_history"
      [] intent = "out_of_scope"   -> "refuse"
      [] OTHER                     -> "retrieve"

\* classify: the model's choice; when it fails, is off or returns no usable query, a
\* codebase question
Classify(t) ==
    /\ Running(t, "classify")
    /\ \E intent \in Intents :
          turn' = [turn EXCEPT ![t].intent = intent, ![t].attempts = 0,
                               ![t].node = RouteIntent(intent)]
    /\ UNCHANGED <<project, conv, messages, semaphore, votes, voting, budget>>

\* Mutant: the last search the budget allows is answered from ungraded.
RouteAfterRetrievalBudget(spans, attempts) ==
    IF spans.count = 0 THEN "end" ELSE IF attempts >= MaxAttempts THEN "generate" ELSE "grade"

\* route_after_retrieval
RouteAfterRetrieval(spans, attempts) == IF spans.count = 0 THEN "end" ELSE "grade"

\* The generation filter of the search.
SearchedGeneration(t) == turn[t].generation

\* retrieve sends the citations of the first search only.
CitationsFor(attempts, spans) ==
    IF attempts = 0 THEN <<[kind |-> "citations", spans |-> spans]>> ELSE <<>>

\* retrieve: a generation whose points are gone gives nothing
RetrieveNode(t) ==
    /\ Running(t, "retrieve")
    /\ \E count \in (IF SearchedGeneration(t) \in project.stored THEN SpanCounts ELSE {0}) :
          LET attempts == turn[t].attempts
              spans == [generation |-> SearchedGeneration(t), attempt |-> attempts + 1,
                        count |-> count]
          IN  turn' = [turn EXCEPT ![t].spans = spans, ![t].judged = "none",
                                   ![t].attempts = attempts + 1,
                                   ![t].wire = @ \o CitationsFor(attempts, spans),
                                   ![t].node = RouteAfterRetrieval(spans, attempts + 1)]
    /\ UNCHANGED <<project, conv, messages, semaphore, votes, voting, budget>>

\* The embedder or the vector store raises; nothing on the way out catches it, and the
\* permit goes with the generator.
RetrieveRaises(t) ==
    /\ Running(t, "retrieve")
    /\ turn' = [turn EXCEPT ![t].node = "raised", ![t].wire = <<>>]
    /\ semaphore' = Released(semaphore, t)
    /\ UNCHANGED <<project, conv, messages, votes, voting, budget>>

\* route_after_grading
RouteAfterGrading(evidence_ok, attempts) ==
    IF evidence_ok \/ attempts >= MaxAttempts THEN "generate" ELSE "retrieve"

\* grade: the model's verdict; sufficient when it fails or is off
Grade(t) ==
    /\ Running(t, "grade")
    /\ \E ok \in BOOLEAN :
          turn' = [turn EXCEPT ![t].evidence_ok = ok,
                               ![t].judged = IF ok THEN "ok" ELSE "weak",
                               ![t].node = RouteAfterGrading(ok, turn[t].attempts)]
    /\ UNCHANGED <<project, conv, messages, semaphore, votes, voting, budget>>

\* answer_from_history, up to the call to the model: an empty citation list
StartReply(t) ==
    /\ Running(t, "answer_from_history")
    /\ turn' = [turn EXCEPT ![t].node = "reply",
                           ![t].wire = Append(@, [kind |-> "citations", spans |-> None])]
    /\ UNCHANGED <<project, conv, messages, semaphore, votes, voting, budget>>

Streaming(t) == Running(t, "generate") \/ Running(t, "reply")

\* generate and answer_from_history: one chunk of the model's answer
EmitToken(t) ==
    /\ Streaming(t) /\ turn[t].emitted < MaxTokens
    /\ turn' = [turn EXCEPT ![t].emitted = @ + 1, ![t].wire = Append(@, Token)]
    /\ UNCHANGED <<project, conv, messages, semaphore, votes, voting, budget>>

\* generate and answer_from_history: the model is done, too late or broken; what was
\* streamed is the answer all the same
FinishNode(t) ==
    /\ Streaming(t)
    /\ \E failure \in {None, "timeout", "error"} :
          turn' = [turn EXCEPT ![t].answer = turn[t].emitted, ![t].failure = failure,
                               ![t].node = "end"]
    /\ UNCHANGED <<project, conv, messages, semaphore, votes, voting, budget>>

\* refuse: the fixed answer to an out-of-scope question
Refuse(t) ==
    /\ Running(t, "refuse")
    /\ turn' = [turn EXCEPT ![t].answer = 1, ![t].emitted = 1, ![t].node = "end",
                           ![t].wire = @ \o <<[kind |-> "citations", spans |-> None], Token>>]
    /\ UNCHANGED <<project, conv, messages, semaphore, votes, voting, budget>>

\* The graph searched and found nothing to answer from.
NoContext(t) ==
    /\ turn[t].failure = None /\ turn[t].intent = "codebase_question"
    /\ turn[t].spans.count = 0

\* grounding_warnings and _warnings_for; paths the answer invents are text and left out
WarningsFor(t, cited) ==
    IF turn[t].intent # "codebase_question" THEN {}
    ELSE IF NoContext(t) THEN {"no_context"}
    ELSE {w \in {"uncited_answer", "weak_evidence"} :
             \/ w = "uncited_answer" /\ turn[t].answer > 0 /\ cited = {}
             \/ w = "weak_evidence" /\ ~turn[t].evidence_ok}

\* cited_indexes: labels the text holds, of those the spans have; none or all of them
CitedIndexes(t) ==
    IF turn[t].answer = 0 \/ turn[t].failure # None THEN {{}}
    ELSE {{}, 1..turn[t].spans.count}

\* The end of Answerer.answer, once the graph's events are out: the fixed refusal when
\* there is no context, and _terminate's one terminator
Terminate(t) ==
    /\ Running(t, "end") /\ turn[t].wire = <<>>
    /\ \E cited \in CitedIndexes(t) :
          LET refusal == IF NoContext(t) THEN <<Token>> ELSE <<>>
              terminator == IF turn[t].failure # None
                            THEN [kind |-> "error", finish |-> turn[t].failure]
                            ELSE [kind |-> "done", cited |-> cited,
                                  warnings |-> WarningsFor(t, cited)]
          IN  turn' = [turn EXCEPT ![t].node = "terminated",
                                   ![t].emitted = @ + Len(refusal),
                                   ![t].wire = Append(refusal, terminator)]
    /\ UNCHANGED <<project, conv, messages, semaphore, votes, voting, budget>>

-----------------------------------------------------------------------------
(* The consumer: stream_turn and _finalise. *)

\* What stream_turn keeps of an event.
Kept(r, e) ==
    CASE e.kind = "token"     -> [r EXCEPT !.parts = @ + 1]
      [] e.kind = "citations" -> [r EXCEPT !.citations = e.spans, !.heard = @ + 1]
      [] e.kind = "done"      -> [r EXCEPT !.finish = "stop", !.cited = e.cited]
      [] e.kind = "error"     -> [r EXCEPT !.finish = e.finish]

\* stream_turn's locals once the next event has gone to the client.
Forwarded(r) == [Kept(r, Head(r.wire)) EXCEPT !.wire = Tail(@)]

\* Mutant: the wait for an event is cancelled by the keep-alive timer, and the event
\* with it (asyncio.wait_for in place of asyncio.wait).
ForwardOrLose(t) ==
    /\ turn[t].stream = "open" /\ turn[t].wire # <<>>
    /\ \/ turn' = [turn EXCEPT ![t] = Forwarded(@)]
       \/ Head(turn[t].wire) = Token /\ turn' = [turn EXCEPT ![t].wire = Tail(@)]
    /\ UNCHANGED <<project, conv, messages, semaphore, votes, voting, budget>>

\* One turn of the loop; keep-alives while it waits change nothing.
Forward(t) ==
    /\ turn[t].stream = "open" /\ turn[t].wire # <<>>
    /\ turn' = [turn EXCEPT ![t] = Forwarded(@)]
    /\ UNCHANGED <<project, conv, messages, semaphore, votes, voting, budget>>

\* The row _finalise builds of the consumer's locals: the text kept, the citations heard
\* and which of them are cited.
AnswerRow(t) ==
    [content |-> turn[t].parts, finish |-> turn[t].finish, citations |-> turn[t].citations,
     cited |-> {i \in turn[t].cited : turn[t].citations # None
                                      /\ i <= turn[t].citations.count}]

\* The loop is over and the row settled; the graph's state is gone.
Finalising(t) == [Idle EXCEPT !.stream = "writing", !.finish = AnswerRow(t).finish]

\* The answerer is exhausted: its permit is free and the loop ends.
Exhausted(t) ==
    /\ turn[t].stream = "open"
    /\ turn[t].node = "terminated" /\ turn[t].wire = <<>>
    /\ turn' = [turn EXCEPT ![t] = Finalising(t)]
    /\ semaphore' = Released(semaphore, t)
    /\ UNCHANGED <<project, conv, messages, votes, voting, budget>>

\* Mutant: the cleanup is not shielded from the cancellation.
DisconnectUnshielded(t) ==
    /\ turn[t].stream = "open" /\ turn[t].node # "raised"
    /\ turn' = [turn EXCEPT ![t] = [Idle EXCEPT !.stream = "closed"]]
    /\ semaphore' = Released(semaphore, t)
    /\ UNCHANGED <<project, conv, messages, votes, voting, budget>>

\* Mutant: the answerer is not closed, and keeps its permit.
DisconnectUnclosed(t) ==
    /\ turn[t].stream = "open" /\ turn[t].node # "raised"
    /\ turn' = [turn EXCEPT ![t] = Finalising(t)]
    /\ UNCHANGED <<project, conv, messages, semaphore, votes, voting, budget>>

\* The client goes away: the loop is cancelled, and the shielded _finalise cancels the
\* event being waited for and closes the answerer, wherever it is.
Disconnect(t) ==
    /\ turn[t].stream = "open" /\ turn[t].node # "raised"
    /\ turn' = [turn EXCEPT ![t] = Finalising(t)]
    /\ semaphore' = Released(semaphore, t)
    /\ UNCHANGED <<project, conv, messages, votes, voting, budget>>

\* The awaited event is the answerer's exception: _finalise awaits it again, suppresses
\* only a cancellation and the end of the iterator, and leaves before it writes.
FinaliseRaises(t) ==
    /\ turn[t].stream = "open" /\ turn[t].node = "raised"
    /\ turn' = [turn EXCEPT ![t] = [Idle EXCEPT !.stream = "closed", !.why = "raised"]]
    /\ UNCHANGED <<project, conv, messages, semaphore, votes, voting, budget>>

\* _finalise: the assistant's message, in a session of its own
WriteAnswer(t) ==
    /\ turn[t].stream = "writing"
    /\ messages' = Append(messages, [turn |-> t, role |-> "assistant",
                                    finish |-> turn[t].finish])
    /\ turn' = [turn EXCEPT ![t] = [Idle EXCEPT !.stream = "closed"]]
    /\ UNCHANGED <<project, conv, semaphore, votes, voting, budget>>

\* The database refuses the row.
WriteFails(t) ==
    /\ turn[t].stream = "writing" /\ Spend("faults", MaxFaults)
    /\ turn' = [turn EXCEPT ![t] = [Idle EXCEPT !.stream = "closed", !.why = "write"]]
    /\ UNCHANGED <<project, conv, messages, semaphore, votes, voting>>

InFlight == {t \in Turns : turn[t].stream \notin {"none", "closed", "dropped", "lost"}}

\* The API process dies with its requests and its semaphore.
ProcessKilled ==
    /\ InFlight # {} /\ Spend("faults", MaxFaults)
    /\ turn' = [t \in Turns |-> IF t \in InFlight THEN [Idle EXCEPT !.stream = "lost"]
                                ELSE turn[t]]
    /\ semaphore' = [holders |-> {}, waiters |-> <<>>]
    /\ voting' = None
    /\ UNCHANGED <<project, conv, messages, votes>>

-----------------------------------------------------------------------------
(* What goes on around the turns. *)

\* A reindex releases a new active generation beside the old one's points ...
Reindexed ==
    /\ project.live /\ project.active < MaxGenerations /\ Spend("others", MaxOthers)
    /\ project' = [project EXCEPT !.active = @ + 1, !.stored = @ \cup {project.active + 1}]
    /\ UNCHANGED <<conv, messages, turn, semaphore, votes, voting>>

\* ... and then deletes those.
Prune ==
    /\ project.stored \ {project.active} # {} /\ project.live /\ Spend("others", MaxOthers)
    /\ project' = [project EXCEPT !.stored = {project.active}]
    /\ UNCHANGED <<conv, messages, turn, semaphore, votes, voting>>

\* clear_notes_for_conversation, clear_ask_notes_for_project
NotesCleared == [t \in Turns |-> IF votes[t] = None THEN None
                                ELSE [votes[t] EXCEPT !.note = FALSE]]

\* ConversationService.delete
DeleteConversation ==
    /\ conv = "live" /\ Spend("others", MaxOthers)
    /\ conv' = "deleted"
    /\ votes' = NotesCleared
    /\ UNCHANGED <<project, messages, turn, semaphore, voting>>

\* UserService.soft_delete: the owner's account is deactivated
DeactivateOwner ==
    /\ conv # "absent" /\ Spend("others", MaxOthers)
    /\ conv' = "deleted"
    /\ votes' = NotesCleared
    /\ UNCHANGED <<project, messages, turn, semaphore, voting>>

\* Mutant: the project's votes go, with the notes still in them.
DeleteProjectKeepingNotes ==
    /\ project.live /\ Spend("others", MaxOthers)
    /\ project' = [project EXCEPT !.live = FALSE, !.stored = {}]
    /\ conv' = IF conv = "live" THEN "deleted" ELSE conv
    /\ UNCHANGED <<messages, turn, semaphore, votes, voting>>

\* ProjectService.delete, as far as conversations and votes go
DeleteProject ==
    /\ project.live /\ Spend("others", MaxOthers)
    /\ project' = [project EXCEPT !.live = FALSE, !.stored = {}]
    /\ conv' = IF conv = "live" THEN "deleted" ELSE conv
    /\ votes' = NotesCleared
    /\ UNCHANGED <<messages, turn, semaphore, voting>>

Answered(t) == \E i \in DOMAIN messages : messages[i].turn = t /\ messages[i].role = "assistant"

\* FeedbackService.put: _resolve finds the answer and the caller's own conversation
VoteRead(t, note) ==
    /\ voting = None /\ Answered(t) /\ conv = "live" /\ Spend("others", MaxOthers)
    /\ voting' = [turn |-> t, note |-> note]
    /\ UNCHANGED <<project, conv, messages, turn, semaphore, votes>>

\* FeedbackService.put: upsert and commit
VoteCommit ==
    /\ voting # None
    /\ votes' = [votes EXCEPT ![voting.turn] =
                    [note |-> voting.note, late |-> conv = "deleted"]]
    /\ voting' = None
    /\ UNCHANGED <<project, conv, messages, turn, semaphore, budget>>

\* FeedbackService.withdraw, and delete_older_than for a vote past retention
Withdraw(t) ==
    /\ votes[t] # None /\ Spend("others", MaxOthers)
    /\ votes' = [votes EXCEPT ![t] = None]
    /\ UNCHANGED <<project, conv, messages, turn, semaphore, voting>>

-----------------------------------------------------------------------------
\* What a request does of its own accord.
Progress(t) ==
    \/ ReadContext(t) \/ Open(t) \/ Enter(t)
    \/ Classify(t) \/ RetrieveNode(t) \/ Grade(t) \/ StartReply(t) \/ EmitToken(t)
    \/ FinishNode(t) \/ Refuse(t) \/ Terminate(t) \/ Forward(t) \/ Exhausted(t)
    \/ FinaliseRaises(t) \/ WriteAnswer(t)

Next ==
    \/ Create \/ DeleteConversation \/ DeactivateOwner \/ Reindexed \/ Prune \/ DeleteProject
    \/ VoteCommit \/ ProcessKilled
    \/ \E t \in Turns :
          \/ Progress(t) \/ Ask(t) \/ Drop(t) \/ Disconnect(t) \/ RetrieveRaises(t)
          \/ WriteFails(t) \/ Withdraw(t)
          \/ \E note \in BOOLEAN : VoteRead(t, note)

Spec == Init /\ [][Next]_vars

\* The event loop runs every task that can run: a request steps while it can, its model
\* calls return or time out, and its client reads or leaves.
FairSpec == Spec /\ \A t \in Turns : WF_vars(Progress(t))

-----------------------------------------------------------------------------
TypeOK ==
    /\ project \in [active : Generations, stored : SUBSET Generations, live : BOOLEAN]
    /\ conv \in {"absent", "live", "deleted"}
    /\ messages \in Seq(Message)
    /\ turn \in [Turns -> Turn]
    /\ semaphore \in [holders : SUBSET Turns, waiters : Seq(Turns)]
    /\ Cardinality(semaphore.holders) <= Permits
    /\ votes \in [Turns -> Vote \cup {None}]
    /\ voting \in [turn : Turns, note : BOOLEAN] \cup {None}
    /\ budget \in [faults : 0..MaxFaults, others : 0..MaxOthers]

AnswersOf(t) ==
    {i \in DOMAIN messages : messages[i].turn = t /\ messages[i].role = "assistant"}

\* stream_turn: "record the outcome exactly once" - a stream that ends while its
\* process lives leaves one assistant message.
OutcomeRecorded == \A t \in Turns : turn[t].stream = "closed" => Cardinality(AnswersOf(t)) = 1

\* stream_turn and _finalise: whether a turn ends by itself, by its client leaving or
\* by a failed model, its stream ends with one assistant message and never two, unless
\* the retrieval raised or the database refused the row; a turn that was lost with its
\* process, or whose client left before the body began, has none.
OutcomeRecordedOnce ==
    \A t \in Turns :
        /\ turn[t].stream = "closed" /\ turn[t].why = "none" => Cardinality(AnswersOf(t)) = 1
        /\ turn[t].stream # "closed" \/ turn[t].why # "none" => AnswersOf(t) = {}

\* `async with self.semaphore`: the permits and the queue for them belong to the turns
\* whose graph is still to end, and every turn past the queue holds one.
PermitsAccountedFor ==
    /\ semaphore.holders \cup ToSet(semaphore.waiters)
          = {t \in Turns : turn[t].stream = "open" /\ turn[t].node # "raised"}
    /\ \A t \in ToSet(semaphore.waiters) : turn[t].node = "queued" /\ t \notin semaphore.holders

\* Whatever ends a turn, and whenever, its outcome is recorded once and its permit is
\* free again.  Every state is well typed besides.
EveryTurnSettles == TypeOK /\ OutcomeRecordedOnce /\ PermitsAccountedFor

\* Everything the answerer had to say was forwarded; AnswerRow is what will be stored.
RanItsCourse(t) ==
    turn[t].stream = "open" /\ turn[t].node = "terminated" /\ turn[t].wire = <<>>

\* stream_turn, generate, answer_from_history: an answer stored as finished, failed or
\* timed out holds every token the model produced, and one cut off by the client never
\* more than that, however long the client was kept waiting in between.
NoTokenLost ==
    \A t \in Turns :
        /\ turn[t].stream = "open" => AnswerRow(t).content <= turn[t].emitted
        /\ RanItsCourse(t) => /\ AnswerRow(t).content = turn[t].emitted
                             /\ AnswerRow(t).finish # "disconnected"

\* The stream's contract: one citation list, before the first token and the terminator,
\* on every route through the graph.
CitationsOnceAndFirst ==
    \A t \in Turns :
        /\ turn[t].heard <= 1
        /\ turn[t].stream = "open" =>
              (turn[t].parts > 0 \/ turn[t].finish = "stop" => turn[t].heard = 1)

\* What stream_turn forwards and stores is all the answerer said, in the order promised.
StreamKeepsItsContract == NoTokenLost /\ CitationsOnceAndFirst

\* prepare_turn pins a generation: whatever a reindex swaps and prunes in the course of
\* the turn, its citations and its evidence come from the index it was asked on.
OneIndexPerTurn ==
    \A t \in Turns :
        /\ turn[t].attempts > 0 => turn[t].spans.generation = turn[t].generation
        /\ turn[t].stream = "open" /\ turn[t].citations # None
              => turn[t].citations.generation = turn[t].generation

\* retrieve and _finalise: the citations stored with an answer found at the first search
\* are the spans it was written from, and every cited label is one of them.
CitationsAreTheSpans ==
    \A t \in Turns :
        RanItsCourse(t) /\ AnswerRow(t).finish = "stop" /\ turn[t].attempts = 1
            => /\ AnswerRow(t).citations = turn[t].spans
               /\ AnswerRow(t).cited = turn[t].cited

\* route_after_retrieval, _warnings_for: the weak-evidence warning is the grader's
\* verdict on the very spans the answer was written from, not on ones replaced since.
WarningFitsTheSpans ==
    \A t \in Turns :
        \A i \in DOMAIN turn[t].wire :
            turn[t].wire[i].kind = "done" /\ turn[t].spans.count > 0
                => /\ turn[t].judged # "none"
                   /\ "weak_evidence" \in turn[t].wire[i].warnings <=> turn[t].judged = "weak"

\* The spans, the citations stored with an answer and the warning on it belong together,
\* over a re-retrieval and whatever a reindex does meanwhile.
EvidenceBelongsTogether == OneIndexPerTurn /\ CitationsAreTheSpans /\ WarningFitsTheSpans

QuestionsOf(t) ==
    {i \in DOMAIN messages : messages[i].turn = t /\ messages[i].role = "user"}

\* The messages of the window before the question, without unfinished answers.
PastOf(t) ==
    {i \in DOMAIN messages :
        Replayable(i) /\ \E p \in QuestionsOf(t) : i < p /\ p - i <= HistoryTurns}

\* _history: no prompt replays an unfinished answer or more than the window, and unless
\* another turn of the conversation stored a message in between, it replays exactly
\* what preceded the question.
HistoryIsThePast ==
    \A t \in Turns : turn[t].stream \in {"prepared", "open"} =>
        /\ Cardinality(turn[t].history) <= HistoryTurns
        /\ \A i \in turn[t].history : Replayable(i)
        /\ turn[t].alone => turn[t].history = PastOf(t)

\* rag/retriever.py on every search the store can answer: adjacent chunks are joined
\* without repeated text, losing only what a dropped line held beyond the end of an
\* earlier chunk, and the budget costs the worst spans.  It is stated of the states
\* before the first question because it depends on none.
RetrievalIsSound == messages = <<>> => \A hits \in Searches : SoundAnswer(hits)

\* ConversationService.delete, ProjectService.delete, UserService.soft_delete: once the conversation is gone no
\* note about it is left, but for a vote whose request had looked before the deletion.
NotesGoWithTheTurn ==
    conv = "deleted" =>
        \A t \in Turns : votes[t] # None => (votes[t].note => votes[t].late)

\* Every request ends: no permit is lost to a client that left, so the queue moves.
EveryTurnEnds ==
    InFlight # {} ~> InFlight = {}
=============================================================================
