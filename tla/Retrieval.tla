----------------------------- MODULE Retrieval -----------------------------
(***************************************************************************)
(* What CodeRetriever (rag/retriever.py) makes of a search's hits: chunks  *)
(* below the relevance floor go, runs of consecutive chunks of a file are  *)
(* joined without repeating the lines they share, and the best spans that  *)
(* fit the context budget are kept.                                        *)
(*                                                                         *)
(* A file's characters are the positions 1, 2, ...; those in Breaks end a  *)
(* line, in every file alike.  A text is the sequence of its characters,   *)
(* each break written Newline, so that repeated, lost and reordered text   *)
(* show.  Chunks are pieces of the text by position: the splitter counts   *)
(* characters, so a piece may begin or end inside a line.  The store's     *)
(* search is a function from the chunks it answers with to their scores.   *)
(***************************************************************************)
EXTENDS Integers, Sequences, FiniteSets, SequencesExt, FiniteSetsExt

CONSTANTS
    Breaks,     \* the positions that end a line
    Library,    \* the indexed chunks: [file, index, first, last]
    Scores,     \* the scores a search can give
    MinScore,   \* rag_min_score
    MaxChars,   \* rag_context_max_chars
    TopK        \* rag_top_k

\* LanguageAwareChunker.split: a piece is stripped of blanks at both ends, and each is
\* found further on than the one before it.
ASSUME LibraryAssumption ==
    /\ Breaks \subseteq Nat \ {0}
    /\ \A c \in Library : /\ c.first \in 1..c.last
                          /\ {c.first, c.last} \cap Breaks = {}
    /\ \A c, d \in Library : c.file = d.file => (c.index < d.index <=> c.first < d.first)

\* The answers of VectorStore.search: at most TopK chunks, each with a score.
Searches ==
    UNION {[hits -> Scores] : hits \in {h \in SUBSET Library : Cardinality(h) <= TopK}}

Newline == 0
TRUNCATION_MARKER == -1   \* "\n... (truncated)", as one character

\* source.count("\n", 0, offset) + 1
LineOf(p) == Cardinality({b \in Breaks : b < p}) + 1

TextOf(chunk) ==
    [i \in 1..(chunk.last - chunk.first + 1) |->
        LET p == chunk.first + i - 1 IN IF p \in Breaks THEN Newline ELSE p]

\* chunk_from_hit, on the line range LanguageAwareChunker.split recorded
ChunkFromHit(chunk, score) ==
    [file |-> chunk.file, start |-> LineOf(chunk.first), end |-> LineOf(chunk.last),
     score |-> score, content |-> TextOf(chunk), indexes |-> <<chunk.index>>]

\* lines[n:]: what is left of a text without its first n lines; nothing if it has no more.
DropLines(text, n) ==
    LET starts == {i \in 2..Len(text) : text[i - 1] = Newline}
    IN  IF n <= 0 THEN text
        ELSE IF Cardinality(starts) < n THEN <<>>
        ELSE SubSeq(text, SetToSortSeq(starts, <)[n], Len(text))

Joined(first, second, tail) ==
    [first EXCEPT !.end = Max({first.end, second.end}),
                  !.content = IF tail = <<>> THEN @ ELSE @ \o <<Newline>> \o tail,
                  !.score = Max({first.score, second.score}),
                  !.indexes = @ \o second.indexes]

\* Mutant: the seam is trimmed by one line too few.
JoinRepeatingSeam(first, second) ==
    Joined(first, second, DropLines(second.content, first.end - second.start))

\* _join: append second to first, dropping the leading lines they share.
Join(first, second) ==
    Joined(first, second, DropLines(second.content, first.end - second.start + 1))

InFileOrder(a, b) == \/ a.file < b.file
                     \/ a.file = b.file /\ a.indexes[1] < b.indexes[1]

\* The second sort is stable, so equal scores keep the order of the first.
BestFirst(a, b) == \/ a.score > b.score
                   \/ a.score = b.score /\ InFileOrder(a, b)

\* merge_adjacent
MergeAdjacent(chunks) ==
    LET Extends(runs, chunk) ==
            /\ runs # <<>>
            /\ Last(runs).file = chunk.file
            /\ chunk.indexes[1] = Last(Last(runs).indexes) + 1
        Step(runs, chunk) ==
            IF Extends(runs, chunk)
            THEN Append(Front(runs), Join(Last(runs), chunk))
            ELSE Append(runs, chunk)
    IN  SortSeq(FoldLeft(Step, <<>>, SetToSortSeq(chunks, InFileOrder)), BestFirst)

\* apply_budget: stop at the first span that does not fit, cutting it only when
\* nothing was kept before it.  The marker comes on top of what the budget left.
ApplyBudget(spans) ==
    LET Cut(span, n) == [span EXCEPT !.content = SubSeq(@, 1, n) \o <<TRUNCATION_MARKER>>]
        Step(acc, span) ==
            IF acc.full THEN acc
            ELSE IF Len(span.content) <= acc.remaining
            THEN [acc EXCEPT !.kept = Append(@, span), !.remaining = @ - Len(span.content)]
            ELSE [acc EXCEPT !.full = TRUE,
                             !.kept = IF @ # <<>> THEN @ ELSE <<Cut(span, acc.remaining)>>]
    IN  FoldLeft(Step, [kept |-> <<>>, remaining |-> MaxChars, full |-> FALSE], spans).kept

\* CodeRetriever.retrieve, after the search
Retrieve(hits) ==
    LET kept == {c \in DOMAIN hits : hits[c] >= MinScore}
    IN  ApplyBudget(MergeAdjacent({ChunkFromHit(c, hits[c]) : c \in kept}))

-----------------------------------------------------------------------------
(* What merging and budgeting have to come to, without sorting or folding. *)

\* The sets of hits that make one span: runs of one file that no hit extends.
RunsOf(hits) ==
    LET kept == {c \in DOMAIN hits : hits[c] >= MinScore}
        Follows(c, d) == c.file = d.file /\ d.index = c.index + 1
    IN  {run \in SUBSET kept :
            /\ run # {}
            /\ \A c, d \in run : c.file = d.file
            /\ \A c \in run : \A i \in Min({d.index : d \in run})..c.index :
                  \E d \in run : d.index = i
            /\ \A c \in run : \A d \in kept : Follows(c, d) \/ Follows(d, c) => d \in run}

\* The characters of a chunk, and those of a run's chunks, each once.
CharsOf(chunk) == (chunk.first..chunk.last) \ Breaks
RunChars(run) == UNION {CharsOf(c) : c \in run}

\* What a join may lose: the rest of a line that a chunk ended in, where only later
\* chunks of the run have it.
LostAtSeam(run) ==
    {p \in RunChars(run) :
        \E d \in run : /\ d.last < p /\ LineOf(d.last) = LineOf(p)
                       /\ \A c \in run : p \in CharsOf(c) => d.index < c.index}

RunScore(run, hits) == Max({hits[c] : c \in run})

IndexesOf(span) == ToSet(span.indexes)

IsCut(span) == Last(span.content) = TRUNCATION_MARKER

\* A span's text, without the marker of a cut.
Shown(span) == IF IsCut(span) THEN Front(span.content) ELSE span.content

CharsShown(span) == ToSet(Shown(span)) \ {Newline}

\* The characters stand in the order of the file, none twice, and a line ends exactly
\* where the file's does.
ReadsLikeTheFile(text) ==
    \A i, j \in DOMAIN text :
        i < j /\ Newline \notin {text[i], text[j]} =>
            /\ text[i] < text[j]
            /\ LineOf(text[i]) < LineOf(text[j]) <=> \E k \in i..j : text[k] = Newline

(***************************************************************************)
(* Every span shows the text of one run of hits, each character once, in   *)
(* order and on its line.  Text of the run is missing only on a line that  *)
(* one of its chunks ended inside, or behind the cut of the best span when *)
(* that is too long on its own; the cut is marked, and the marker alone    *)
(* exceeds the budget.  Spans come best first, and the budget never drops  *)
(* a span for a worse one.                                                 *)
(***************************************************************************)
SoundAnswer(hits) ==
    LET spans == Retrieve(hits)
        RunOf(s) == CHOOSE run \in RunsOf(hits) :
                       \A c \in run : c.file = s.file /\ c.index \in IndexesOf(s)
        Missing(s) == RunChars(RunOf(s)) \ CharsShown(s)
        BehindTheCut(s) == {p \in Missing(s) : \A q \in CharsShown(s) : q < p}
    IN  /\ \A i \in DOMAIN spans :
              LET s == spans[i]
                  run == RunOf(s)
              IN  /\ IndexesOf(s) = {c.index : c \in run}
                  /\ s.score = RunScore(run, hits)
                  /\ s.start = LineOf(Min(RunChars(run)))
                  /\ s.end = LineOf(Max(RunChars(run)))
                  /\ CharsShown(s) \subseteq RunChars(run)
                  /\ ReadsLikeTheFile(Shown(s))
                  /\ IF IsCut(s)
                     THEN /\ Len(spans) = 1 /\ Len(Shown(s)) = MaxChars
                          /\ Missing(s) \subseteq LostAtSeam(run) \cup BehindTheCut(s)
                          /\ ~(Missing(s) \subseteq LostAtSeam(run))
                     ELSE Missing(s) \subseteq LostAtSeam(run)
        /\ \A i, j \in DOMAIN spans : i < j => spans[i].score >= spans[j].score
        /\ FoldLeft(LAMBDA n, s : n + Len(Shown(s)), 0, spans) <= MaxChars
        /\ RunsOf(hits) # {} => spans # <<>>
        /\ \A run \in RunsOf(hits) :
              (\A i \in DOMAIN spans : RunOf(spans[i]) # run)
                 => \A i \in DOMAIN spans : spans[i].score >= RunScore(run, hits)
=============================================================================
