----------------------------- MODULE MCAnswering -----------------------------
(***************************************************************************)
(* Small instances of Answering for TLC: two questions in one conversation *)
(* and an index with chunks that overlap, leave a gap and contain another. *)
(***************************************************************************)
EXTENDS Answering

CONSTANTS q1, q2

Chunk(file, index, first, last) ==
    [file |-> file, index |-> index, first |-> first, last |-> last]

\* Two characters on a line, the fourth line empty.
MCBreaks == {3, 6, 9, 10, 13, 16, 19}

\* In file 1 chunk 0 ends inside the third line and chunk 1 starts inside the second;
\* chunk 2 is inside chunk 1, and chunk 3 starts on its last line.  In file 2 the first
\* line is split between two chunks, and two lines before the third chunk are missing.
MCLibrary ==
    {Chunk(1, 0, 1, 7), Chunk(1, 1, 5, 12), Chunk(1, 2, 8, 8), Chunk(1, 3, 11, 18),
     Chunk(2, 0, 1, 1), Chunk(2, 1, 2, 8), Chunk(2, 2, 14, 15)}
=============================================================================
