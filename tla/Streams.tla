------------------------------- MODULE Streams -------------------------------
(***************************************************************************)
(* A streamed answer on its way to the client (handleChat.ts:472-562): the *)
(* upstream's frames pass a converter (Anthropic and Gemini; an OpenAI     *)
(* stream needs none), the reasoning-tag stage and the regex stage of the  *)
(* key's presets, each present or not, and reach the client.               *)
(*                                                                         *)
(* TransformStreams hand frames on in order, and each stage's output is a  *)
(* function of the frames it got: one action takes one upstream frame      *)
(* through all stages, and what a stage enqueues goes on to the next one   *)
(* before the stage continues.  Splitting bytes into frames                *)
(* (parseSseFrames) is abstracted; how the text is split into deltas is    *)
(* what varies here.  Frames without a choice (usage) and keepalive        *)
(* comments pass every stage unchanged and are left out.                   *)
(* The text is a sequence of letters because the properties are about      *)
(* single letters: which of them the client reads, and when.               *)
(***************************************************************************)
EXTENDS TagScanner, SequencesExt

CONSTANTS
  Letters,    \* the alphabet of the model's answers
  MaxText,    \* bound on the length of an answer
  MaxDelta,   \* bound on the length of one delta
  Presets,    \* the lists of reasoning tag pairs a key may have; <<>> is none
  Scripts,    \* the lists of regex scripts a key may have; <<>> is none
  Margin      \* HOLD_BACK_MARGIN

Text == Seq(Letters)

ASSUME StreamsAssumption ==
  /\ Presets \subseteq Seq([open : Text, close : Text, implicit : BOOLEAN])
  /\ \A pairs \in Presets : Unambiguous(pairs)
  /\ Scripts \subseteq Seq([find : Text \ {<<>>}, subst : Text])
  /\ MaxText \in Nat /\ MaxDelta \in Nat /\ Margin \in Nat /\ Cap \in Nat

VARIABLES
  key,     \* what the request's key selects; fixed for the whole stream
  up,      \* the upstream's side; bundled: its finish reason came with text
  conv,    \* createAnthropicStreamTransform, createGeminiStreamTransform
  scan,    \* wrapWithReasoningTransform
  rx,      \* wrapWithRegexTransform
  client   \* what has arrived

vars == <<key, up, conv, scan, rx, client>>

Texts(n) == UNION {[1..k -> Letters] : k \in 0..n}

Wires == {"openai", "anthropic", "gemini"}

(* Only an OpenAI stream passes without a converter.                       *)
Converted == key.wire # "openai"

Init ==
  /\ key \in [wire : Wires, pairs : Presets, scripts : Scripts]
  /\ up = [open |-> TRUE, sent |-> <<>>, role |-> FALSE, finished |-> FALSE,
           bundled |-> FALSE]
  /\ conv = [terminated |-> FALSE, completions |-> <<>>]
  /\ scan = NewScanner(key.pairs)
  /\ rx = [raw |-> <<>>, committed |-> 0, done |-> <<>>, passthrough |-> FALSE,
           flushed |-> FALSE]
  /\ client = [state |-> "reading", text |-> <<>>, role |-> FALSE, finishes |-> 0,
               errors |-> 0, dones |-> 0, late |-> 0]

-----------------------------------------------------------------------------
(* Frames.                                                                 *)

Delta(content, role, finish) ==
  [kind |-> "delta", content |-> content, role |-> role, finish |-> finish]

Done == [kind |-> "done", content |-> <<>>, role |-> FALSE, finish |-> FALSE]

ErrorFrame == [Done EXCEPT !.kind = "error"]

(* The stages and the client as one value, which a frame changes on its    *)
(* way.  The last stop:                                                    *)
Line == [scan |-> scan, rx |-> rx, client |-> client]

Arrive(c, f) ==
  [c EXCEPT !.text = @ \o f.content,
            !.role = @ \/ f.role,
            !.finishes = IF f.finish THEN @ + 1 ELSE @,
            !.errors = IF f.kind = "error" THEN @ + 1 ELSE @,
            !.dones = IF f.kind = "done" THEN @ + 1 ELSE @,
            !.late = IF c.dones > 0 THEN @ + 1 ELSE @]

Deliver(p, f) == [p EXCEPT !.client = Arrive(@, f)]

(* What a stage still held, in a frame of its own (tailChunk), or, at the  *)
(* end of the text, in the finish frame itself.  Send is the next stop.    *)
SendTail(Send(_, _), p, text) ==
  IF text = <<>> THEN p ELSE Send(p, Delta(text, FALSE, FALSE))

SendWith(Send(_, _), p, f, text) ==
  Send(p, IF text = <<>> THEN f ELSE [f EXCEPT !.content = text])

-----------------------------------------------------------------------------
(* The regex stage.                                                        *)

(* One script replaces every occurrence of what it looks for, from left to *)
(* right; tail[i] is what becomes of the text from its i-th letter on.     *)
Substitute(text, script) ==
  LET tail[i \in 1..(Len(text) + 1)] ==
        IF i = Len(text) + 1 THEN <<>>
        ELSE IF Occurs(text, i, script.find) THEN script.subst \o tail[i + Len(script.find)]
        ELSE <<text[i]>> \o tail[i + 1]
  IN tail[1]

(* applyRegexScripts: one script after the other.                          *)
Applied(scripts, text) ==
  LET pass[n \in 0..Len(scripts)] ==
        IF n = 0 THEN text ELSE Substitute(pass[n - 1], scripts[n])
  IN pass[Len(scripts)]

Transformed(text) == Applied(key.scripts, text)

First(text, n) == SubSeq(text, 1, n)

Rest(text, n) == SubSeq(text, n + 1, Len(text))

(* A deliberate fault: giving up does not count as having sent the rest.   *)
AdvanceRepeating(s) ==
  LET n == Len(s.raw) - Margin
      candidate == Transformed(First(s.raw, n))
  IN IF Len(s.raw) <= Margin \/ n <= s.committed THEN [st |-> s, text |-> <<>>]
     ELSE IF IsPrefix(s.done, candidate)
     THEN [st |-> [s EXCEPT !.committed = n, !.done = candidate],
           text |-> Rest(candidate, Len(s.done))]
     ELSE [st |-> [s EXCEPT !.passthrough = TRUE], text |-> Rest(s.raw, s.committed)]

(* What is beyond the margin is transformed and sent, if that continues    *)
(* what was sent before; otherwise the stage gives up on transforming.     *)
Advance(s) ==
  LET n == Len(s.raw) - Margin
      candidate == Transformed(First(s.raw, n))
  IN IF Len(s.raw) <= Margin \/ n <= s.committed THEN [st |-> s, text |-> <<>>]
     ELSE IF IsPrefix(s.done, candidate)
     THEN [st |-> [s EXCEPT !.committed = n, !.done = candidate],
           text |-> Rest(candidate, Len(s.done))]
     ELSE [st |-> [s EXCEPT !.committed = Len(s.raw), !.passthrough = TRUE],
           text |-> Rest(s.raw, s.committed)]

Relay(s) ==
  [st |-> [s EXCEPT !.committed = Len(s.raw)], text |-> Rest(s.raw, s.committed)]

FlushRemainder(s) ==
  LET candidate == Transformed(s.raw)
  IN [st |-> [s EXCEPT !.flushed = TRUE],
      text |-> IF s.flushed THEN <<>>
               ELSE IF ~s.passthrough /\ IsPrefix(s.done, candidate)
               THEN Rest(candidate, Len(s.done))
               ELSE Rest(s.raw, s.committed)]

RegexTail(p) ==
  LET r == FlushRemainder(p.rx) IN SendTail(Deliver, [p EXCEPT !.rx = r.st], r.text)

RegexContent(p, f) ==
  LET t == [p.rx EXCEPT !.raw = @ \o f.content]
      e == IF t.passthrough THEN Relay(t) ELSE Advance(t)
      q == [p EXCEPT !.rx = e.st]
      sent == IF e.text # <<>> \/ f.finish \/ f.role
              THEN Deliver(q, [f EXCEPT !.content = e.text]) ELSE q
  IN IF f.finish THEN RegexTail(sent) ELSE sent

RegexEmpty(p, f) ==
  LET r == FlushRemainder(p.rx)
  IN IF f.finish /\ ~p.rx.flushed THEN SendWith(Deliver, [p EXCEPT !.rx = r.st], f, r.text)
     ELSE Deliver(p, f)

Regex(p, f) ==
  CASE key.scripts = <<>> \/ f.kind = "error" -> Deliver(p, f)
    [] key.scripts # <<>> /\ f.kind = "done" -> Deliver(RegexTail(p), f)
    [] key.scripts # <<>> /\ f.kind = "delta" ->
         IF f.content # <<>> THEN RegexContent(p, f) ELSE RegexEmpty(p, f)

-----------------------------------------------------------------------------
(* The reasoning stage.                                                    *)

ReasonRelease(s) ==
  IF s.flushed THEN [st |-> s, text |-> <<>>]
  ELSE LET t == FinishScan(s) IN [st |-> [t EXCEPT !.flushed = TRUE], text |-> t.out]

ReasonTail(p) ==
  LET r == ReasonRelease(p.scan) IN SendTail(Regex, [p EXCEPT !.scan = r.st], r.text)

(* A deliberate fault: what came with the content is held back as well.    *)
ReasonSendAlone(p, f) ==
  IF p.scan.out # <<>> THEN Regex(p, [f EXCEPT !.content = p.scan.out]) ELSE p

(* A delta nothing of which may be sent yet is dropped, unless it carries  *)
(* a field other than its content.                                         *)
ReasonSend(p, f) ==
  IF p.scan.out # <<>> \/ f.role THEN Regex(p, [f EXCEPT !.content = p.scan.out]) ELSE p

ReasonContent(p, f) ==
  LET sent == ReasonSend([p EXCEPT !.scan = Push(@, f.content, key.pairs)], f)
  IN IF f.finish THEN ReasonTail(sent) ELSE sent

ReasonEmpty(p, f) ==
  LET r == ReasonRelease(p.scan)
  IN IF f.finish /\ ~p.scan.flushed THEN SendWith(Regex, [p EXCEPT !.scan = r.st], f, r.text)
     ELSE Regex(p, f)

Reason(p, f) ==
  CASE key.pairs = <<>> \/ f.kind = "error" -> Regex(p, f)
    [] key.pairs # <<>> /\ f.kind = "done" -> Regex(ReasonTail(p), f)
    [] key.pairs # <<>> /\ f.kind = "delta" ->
         IF f.content # <<>> THEN ReasonContent(p, f) ELSE ReasonEmpty(p, f)

-----------------------------------------------------------------------------
(* When the stream closes, each stage's flush runs.                        *)
Close(p) ==
  LET q == IF key.pairs = <<>> THEN p ELSE ReasonTail(p)
      r == IF key.scripts = <<>> THEN q ELSE RegexTail(q)
  IN [r EXCEPT !.client.state = "draining"]

Becomes(line) ==
  \E p \in {line} : scan' = p.scan /\ rx' = p.rx /\ client' = p.client

(* A deliberate fault: it does not look at terminated.                     *)
CompleteAgain(reason) ==
  conv' = IF Converted
          THEN [terminated |-> TRUE, completions |-> Append(conv.completions, reason)]
          ELSE conv

(* onComplete, at most once.                                               *)
Complete(reason) ==
  conv' = IF Converted /\ ~conv.terminated
          THEN [terminated |-> TRUE, completions |-> Append(conv.completions, reason)]
          ELSE conv

-----------------------------------------------------------------------------
(* Actions.                                                                *)

(* The assistant role in a frame of its own: message_start, or as OpenAI   *)
(* upstreams like it.                                                      *)
SendRole ==
  /\ key.wire # "gemini"
  /\ up.open
  /\ ~up.finished
  /\ ~up.role
  /\ up.sent = <<>>
  /\ up' = [up EXCEPT !.role = TRUE]
  /\ Becomes(Reason(Line, Delta(<<>>, TRUE, FALSE)))
  /\ UNCHANGED <<key, conv>>

(* Does a delta with text also carry the role?  The Gemini converter adds  *)
(* it to the first one (roleSent), an OpenAI upstream may.                 *)
RoleWithText ==
  CASE key.wire = "gemini" -> {~up.role}
    [] key.wire = "openai" /\ ~up.role /\ up.sent = <<>> -> BOOLEAN
    [] OTHER -> {FALSE}

(* The converters send the finish reason in a frame of its own; an OpenAI  *)
(* upstream may put it on the last delta of the text.                      *)
FinishWithText == IF key.wire = "openai" THEN BOOLEAN ELSE {FALSE}

SendDelta ==
  /\ up.open
  /\ ~up.finished
  /\ key.wire = "anthropic" => up.role
  /\ \E chunk \in Texts(MaxDelta) \ {<<>>}, role \in RoleWithText, finish \in FinishWithText :
       /\ Len(up.sent) + Len(chunk) <= MaxText
       /\ up' = [up EXCEPT !.sent = @ \o chunk, !.role = @ \/ role,
                           !.finished = finish, !.bundled = finish]
       /\ Becomes(Reason(Line, Delta(chunk, role, finish)))
  /\ UNCHANGED <<key, conv>>

(* finish_reason, or message_delta.                                        *)
SendFinish ==
  /\ key.wire # "gemini"
  /\ up.open
  /\ ~up.finished
  /\ key.wire = "anthropic" => up.role
  /\ up' = [up EXCEPT !.finished = TRUE]
  /\ Becomes(Reason(Line, Delta(<<>>, FALSE, TRUE)))
  /\ UNCHANGED <<key, conv>>

(* [DONE], or message_stop.                                                *)
SendDone ==
  /\ key.wire # "gemini"
  /\ up.open
  /\ up.finished
  /\ up' = [up EXCEPT !.open = FALSE]
  /\ Complete("completed")
  /\ Becomes(Close(Reason(Line, Done)))
  /\ UNCHANGED key

(* finishReason: the Gemini converter sends the finish frame and [DONE],   *)
(* completes and terminates, all in one call.                              *)
SendGeminiFinish ==
  /\ key.wire = "gemini"
  /\ up.open
  /\ up' = [up EXCEPT !.finished = TRUE, !.open = FALSE]
  /\ Complete("completed")
  /\ Becomes(Close(Reason(Reason(Line, Delta(<<>>, FALSE, TRUE)), Done)))
  /\ UNCHANGED key

(* The upstream closes early, or (converted) reports an error or sends     *)
(* what the converter does not understand.                                 *)
BreakOff ==
  /\ up.open
  /\ up' = [up EXCEPT !.open = FALSE]
  /\ Complete("upstream-closed")
  /\ Becomes(Close(IF Converted THEN Reason(Reason(Line, ErrorFrame), Done) ELSE Line))
  /\ UNCHANGED key

(* The upstream's connection breaks: its body errors, pipeThrough aborts   *)
(* the writable side of the first stage, and a Transformer's cancel is     *)
(* called for that as well.  No stage flushes.                             *)
Reset ==
  /\ up.open
  /\ up' = [up EXCEPT !.open = FALSE]
  /\ Complete("client-hangup")
  /\ client' = [client EXCEPT !.state = "broken"]
  /\ UNCHANGED <<key, scan, rx>>

(* The client has read all that was queued for it.                         *)
Drain ==
  /\ client.state = "draining"
  /\ client' = [client EXCEPT !.state = "ended"]
  /\ UNCHANGED <<key, up, conv, scan, rx>>

(* The client's connection goes away, possibly with frames still queued.   *)
Hangup ==
  /\ client.state \in {"reading", "draining"}
  /\ up' = [up EXCEPT !.open = FALSE]
  /\ Complete("client-hangup")
  /\ client' = [client EXCEPT !.state = "gone"]
  /\ UNCHANGED <<key, scan, rx>>

Over ==
  /\ client.state \in {"ended", "broken", "gone"}
  /\ UNCHANGED vars

Next ==
  \/ SendRole
  \/ SendDelta
  \/ SendFinish
  \/ SendDone
  \/ SendGeminiFinish
  \/ BreakOff
  \/ Reset
  \/ Drain
  \/ Hangup
  \/ Over

Spec == Init /\ [][Next]_vars

-----------------------------------------------------------------------------
(* Properties.                                                             *)

(* The text already sent is not what the text that followed it makes of    *)
(* it: the script reached beyond what had been committed.                  *)
Outrun == rx.passthrough \/ ~IsPrefix(rx.done, Transformed(rx.raw))

(* The finish reason came with the last of the text and both stages are    *)
(* on: reasoningStreamTransform.ts:87-93 releases what it still held in a  *)
(* frame after it, which finds the regex stage flushed                     *)
(* (regexStreamTransform.ts:175) and stays in its margin for ever.         *)
Stranded == up.bundled /\ key.pairs # <<>> /\ key.scripts # <<>>

(* Streaming changes nothing: a client that reads a stream to its end has  *)
(* the text it would have got without streaming, stripped and transformed  *)
(* as a whole, wherever the deltas were cut.  Three admitted exceptions:   *)
(* the cap ended the search for an implicit block, the script was outrun,  *)
(* or the last of the text was stranded between the stages.                *)
SameTextAsJson ==
  (client.state = "ended" /\ ~scan.gaveUp /\ ~Outrun /\ ~Stranded) =>
    client.text = Transformed(Strip(up.sent, key.pairs))

(* regexStreamTransform.ts:45-48: whatever the script does, the client     *)
(* gets the whole text exactly once, "never silently dropping text": some  *)
(* beginning transformed and the rest as it was.  The code does not keep   *)
(* to it when the last of the text is stranded.                            *)
NeverDropsText ==
  (client.state = "ended" /\ key.scripts # <<>>) =>
    \E n \in 0..Len(rx.raw) : client.text = Transformed(First(rx.raw, n)) \o Rest(rx.raw, n)

(* What the code does keep to: the client gets every letter that reaches   *)
(* the regex stage exactly once, some beginning transformed and the rest   *)
(* as it was, unless the last of the text was stranded.                    *)
NothingLostOrDoubled == ~Stranded => NeverDropsText

(* Holding text back never holds back what came with it: the role reaches  *)
(* the client with the frame that carried it, and the finish reason        *)
(* exactly once before the stream's end.  One exception: the reasoning     *)
(* stage drops a frame nothing of whose text may be sent yet together with *)
(* its finish reason (reasoningStreamTransform.ts:76 asks for the delta's  *)
(* other fields only), where the regex stage looks at finish_reason too    *)
(* (regexStreamTransform.ts:164), whose "identical fix" line 72 claims; no *)
(* finish reason reaches the client then.  Without a reasoning preset one  *)
(* that comes with text arrives like any other.                            *)
AnnouncementsArrive ==
  /\ client.role = up.role
  /\ client.finishes <= 1
  /\ up.finished => client.finishes = 1 \/ (up.bundled /\ key.pairs # <<>>)

(* onComplete (and with it the usage row) fires exactly once for a         *)
(* converted stream, whichever of transform, flush and cancel saw the end  *)
(* first, and it says "completed" exactly if [DONE] came without an error. *)
(* Which reason a broken upstream connection gives is not constrained:     *)
(* Reset says "client-hangup", for cancel cannot tell the two sides apart, *)
(* although stream.ts:216-222 counts an upstream's error as                *)
(* "upstream-closed".                                                      *)
CompletionOnce ==
  /\ Len(conv.completions) <= 1
  /\ Converted /\ client.state \in {"ended", "gone", "broken"} => Len(conv.completions) = 1
  /\ Converted /\ client.state = "ended" =>
       (conv.completions = <<"completed">> <=> client.errors = 0)

(* What the scanner keeps between deltas is bounded by the cap while it    *)
(* looks for the end of a block, and by a tag otherwise.                   *)
HoldsBounded ==
  Len(scan.buffer) <=
    IF scan.phase \in {"detecting", "inside"} THEN Cap ELSE LongestTag(key.pairs) - 1

=============================================================================
