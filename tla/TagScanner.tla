----------------------------- MODULE TagScanner -----------------------------
(***************************************************************************)
(* The reasoning-tag scanner (src/lib/prompts/reasoningTagScanner.ts): it  *)
(* strips tagged blocks from a text that arrives in chunks, holding back   *)
(* what may be the beginning of a tag.  A text is a sequence of letters;   *)
(* pairs is the sequence of tag pairs of the active preset.                *)
(***************************************************************************)
EXTENDS Naturals, Sequences, FiniteSetsExt

CONSTANTS Cap   \* REASONING_MEMORY_CAP

Occurs(text, i, word) ==
  i + Len(word) - 1 <= Len(text) /\ SubSeq(text, i, i + Len(word) - 1) = word

TagsOf(pairs) ==
  {[word |-> pairs[p].open, kind |-> "open", pair |-> p] : p \in DOMAIN pairs} \cup
  {[word |-> pairs[p].close, kind |-> "close", pair |-> p] : p \in DOMAIN pairs}

(* ReasoningTagPairsSchema: no tag is empty or a substring of another one. *)
Unambiguous(pairs) ==
  \A t, u \in TagsOf(pairs) :
    /\ t.word # <<>>
    /\ t # u => \A i \in 1..Len(t.word) : ~Occurs(t.word, i, u.word)

LongestTag(pairs) == Max({1} \cup {Len(t.word) : t \in TagsOf(pairs)})

LongestClose(pairs) == Max({1} \cup {Len(pairs[p].close) : p \in DOMAIN pairs})

(* out is what this push has emitted so far, busy says that the loop goes  *)
(* on, flushed that the stage around the scanner has called finish; gaveUp *)
(* is history: the cap ended the search for an implicit block.             *)
NewScanner(pairs) ==
  [phase |-> IF \E p \in DOMAIN pairs : pairs[p].implicit THEN "detecting" ELSE "outside",
   buffer |-> <<>>, pair |-> 0, out |-> <<>>, busy |-> FALSE, gaveUp |-> FALSE,
   flushed |-> FALSE]

Found(text, tags) ==
  {f \in [at : 1..Len(text), tag : tags] : Occurs(text, f.at, f.tag.word)}

(* findEarliest: no tag, or the one that occurs first.                     *)
Hits(text, tags) ==
  LET found == Found(text, tags) IN {f \in found : \A g \in found : f.at <= g.at}

The(hits) == CHOOSE f \in hits : TRUE

Ahead(s, f) == SubSeq(s.buffer, 1, f.at - 1)

Behind(s, f) == SubSeq(s.buffer, f.at + Len(f.tag.word), Len(s.buffer))

LastOf(text, n) == IF n >= Len(text) THEN text ELSE SubSeq(text, Len(text) - n + 1, Len(text))

(* A deliberate fault: only the beginnings of open tags are held back.     *)
HeldLengthOpen(text, pairs) ==
  Max({0} \cup {n \in 1..Len(text) :
         \E p \in DOMAIN pairs :
           n < Len(pairs[p].open) /\ LastOf(text, n) = SubSeq(pairs[p].open, 1, n)})

(* Longest suffix of text that a longer tag begins with.                   *)
HeldLength(text, pairs) ==
  Max({0} \cup {n \in 1..Len(text) :
         \E t \in TagsOf(pairs) : n < Len(t.word) /\ LastOf(text, n) = SubSeq(t.word, 1, n)})

EmitTailSafe(s, pairs) ==
  LET n == HeldLength(s.buffer, pairs)
  IN [s EXCEPT !.buffer = LastOf(@, n),
               !.out = @ \o SubSeq(s.buffer, 1, Len(s.buffer) - n)]

Enter(s, f) ==
  [s EXCEPT !.out = @ \o Ahead(s, f), !.buffer = Behind(s, f),
            !.phase = "inside", !.pair = f.tag.pair]

(* A close tag without a block: the tag alone disappears.                  *)
TurnOutside(s, pairs, hits) ==
  IF hits = {} THEN [EmitTailSafe(s, pairs) EXCEPT !.busy = FALSE]
  ELSE IF The(hits).tag.kind = "open" THEN Enter(s, The(hits))
  ELSE [s EXCEPT !.out = @ \o Ahead(s, The(hits)), !.buffer = Behind(s, The(hits))]

(* Nothing is emitted until it is known whether the text began inside a    *)
(* block whose open tag the model left out.                                *)
TurnDetecting(s, pairs, hits) ==
  IF hits = {}
  THEN IF Len(s.buffer) > Cap
       THEN [EmitTailSafe(s, pairs) EXCEPT !.phase = "outside", !.gaveUp = TRUE]
       ELSE [s EXCEPT !.busy = FALSE]
  ELSE IF The(hits).tag.kind = "open" THEN Enter(s, The(hits))
  ELSE IF pairs[The(hits).tag.pair].implicit
  THEN [s EXCEPT !.buffer = Behind(s, The(hits)), !.phase = "outside"]
  ELSE [s EXCEPT !.buffer = Ahead(s, The(hits)) \o Behind(s, The(hits))]

CloseTag(s, pairs) == [word |-> pairs[s.pair].close, kind |-> "close", pair |-> s.pair]

LeaveBlock(s, f) == [s EXCEPT !.buffer = Behind(s, f), !.phase = "outside"]

TurnInside(s, pairs, hits) ==
  IF hits # {} THEN LeaveBlock(s, The(hits))
  ELSE IF Len(s.buffer) > Cap
  THEN [s EXCEPT !.buffer = LastOf(@, LongestClose(pairs) - 1), !.phase = "discarding"]
  ELSE [s EXCEPT !.busy = FALSE]

(* A deliberate fault: what is discarded is not forgotten.                 *)
TurnDiscardingKeeping(s, pairs, hits) ==
  IF hits # {} THEN LeaveBlock(s, The(hits)) ELSE [s EXCEPT !.busy = FALSE]

TurnDiscarding(s, pairs, hits) ==
  IF hits # {} THEN LeaveBlock(s, The(hits))
  ELSE [s EXCEPT !.buffer = LastOf(@, LongestClose(pairs) - 1), !.busy = FALSE]

Turn(s, pairs) ==
  CASE s.phase = "outside" -> TurnOutside(s, pairs, Hits(s.buffer, TagsOf(pairs)))
    [] s.phase = "detecting" -> TurnDetecting(s, pairs, Hits(s.buffer, TagsOf(pairs)))
    [] s.phase = "inside" -> TurnInside(s, pairs, Hits(s.buffer, {CloseTag(s, pairs)}))
    [] s.phase = "discarding" -> TurnDiscarding(s, pairs, Hits(s.buffer, {CloseTag(s, pairs)}))

(* The loop turns until it breaks.  A turn that goes on takes a letter off *)
(* the buffer or leaves a phase that it can only come back to by taking    *)
(* one, so that there are at most Turns(s).                                *)
Turns(s) == 2 * Len(s.buffer) + 2

Drive(s, pairs) ==
  LET after[n \in 0..Turns(s)] ==
        IF n = 0 THEN s
        ELSE LET t == after[n - 1] IN IF t.busy THEN Turn(t, pairs) ELSE t
  IN after[Turns(s)]

(* push: the result's out is what may be sent now.                         *)
Push(s, chunk, pairs) ==
  Drive([s EXCEPT !.buffer = @ \o chunk, !.out = <<>>, !.busy = TRUE], pairs)

(* finish: an unfinished block is dropped, anything else held is released. *)
FinishScan(s) ==
  [s EXCEPT !.phase = "outside", !.buffer = <<>>,
            !.out = IF s.phase \in {"inside", "discarding"} THEN <<>> ELSE s.buffer]

Finished(s) == s.out \o FinishScan(s).out

(* applyReasoningTagStrip, what a client gets that asked for no stream.    *)
Strip(text, pairs) ==
  IF pairs = <<>> THEN text ELSE Finished(Push(NewScanner(pairs), text, pairs))
=============================================================================
