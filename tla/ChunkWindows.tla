---------------------------- MODULE ChunkWindows -----------------------------
(***************************************************************************)
(* chunk_text (document_resources/index.py): a window of ChunkSize tokens  *)
(* slides over a text in steps of ChunkSize - Overlap, until it reaches    *)
(* the end.                                                                *)
(***************************************************************************)
EXTENDS Integers, Sequences

CONSTANTS ChunkSize, Overlap

(* What chunk_text checks of its arguments.                                *)
ASSUME WindowAssumption ==
    ChunkSize \in Nat /\ Overlap \in Nat /\ Overlap < ChunkSize

VARIABLES
    length,        \* tokens of the text
    start,         \* where the next window starts
    spans,         \* the windows: <<first token, token after the last>>
    cut            \* the loop is over

windowVars == <<length, start, spans, cut>>

WindowInit == length \in Nat /\ start = 0 /\ spans = <<>> /\ cut = FALSE

WindowEnd == IF start + ChunkSize <= length THEN start + ChunkSize ELSE length

(* Mutant of CutWindow: the loop ends where no full window follows. *)
CutFullWindows ==
    /\ ~cut
    /\ spans' = Append(spans, <<start, WindowEnd>>)
    /\ IF start + (ChunkSize - Overlap) + ChunkSize > length
       THEN cut' = TRUE /\ UNCHANGED start
       ELSE start' = start + (ChunkSize - Overlap) /\ UNCHANGED cut
    /\ UNCHANGED length

(* One turn of the loop.  A text without tokens has one empty chunk.       *)
CutWindow ==
    /\ ~cut
    /\ spans' = Append(spans, <<start, WindowEnd>>)
    /\ IF WindowEnd = length
       THEN cut' = TRUE /\ UNCHANGED start
       ELSE start' = start + (ChunkSize - Overlap) /\ UNCHANGED cut
    /\ UNCHANGED length

WindowSpec == WindowInit /\ [][CutWindow]_windowVars

(* Chunks are full windows (the last one may be shorter), each starts      *)
(* Overlap tokens before the end of the one before it and brings new       *)
(* tokens, and when the loop ends they reach from the first token to the   *)
(* last: no token of the text is in no chunk.                              *)
ChunksCoverText ==
    /\ \A i \in DOMAIN spans :
          /\ spans[i][2] - spans[i][1] <= ChunkSize
          /\ spans[i][2] <= length
          /\ i < Len(spans) => spans[i][2] - spans[i][1] = ChunkSize
          /\ i = 1 => spans[i][1] = 0
          /\ i > 1 => /\ spans[i][1] = spans[i - 1][2] - Overlap
                      /\ spans[i][2] > spans[i - 1][2]
    /\ cut => spans # <<>> /\ spans[Len(spans)][2] = length
==============================================================================
