------------------------------- MODULE Prompt -------------------------------
(***************************************************************************)
(* What of a chat reaches the model, and where: the prompt stage of        *)
(* handleChat (preset text, lorebooks, MCP triggers) and the three request *)
(* converters (jroute/convert/openai.ts, anthropic/request.ts,             *)
(* gemini/request.ts).  A converter is a chain of passes over arrays, and  *)
(* a step is one pass, or one round of a pass's loop.                      *)
(*                                                                         *)
(* A text keeps its identity through every pass; a turn is a role and a    *)
(* sequence of items.  Joining texts is putting their items next to each   *)
(* other.                                                                  *)
(***************************************************************************)
EXTENDS Naturals, SequencesExt

CONSTANTS
  MaxMessages,    \* bound: messages of the client
  MaxInjections,  \* bound: blocks tagged depth-injection
  MaxDepth        \* bound: their depth

ASSUME PromptAssumption ==
  MaxMessages \in Nat \ {0} /\ MaxInjections \in Nat /\ MaxDepth \in Nat

(* What a client's message is: "blank" is a user's message none of whose   *)
(* content converts, "calls" an assistant's with one tool call.            *)
Kinds == {"system", "user", "blank", "assistant", "calls", "tool"}
Formats == {"openai", "anthropic", "gemini"}
Presets == {"none", "simple", "rich"}
Orders == {0, 100}   \* injection_order: a lorebook's, and a prompt entry's default

Role(kind) ==
  CASE kind = "blank" -> "user"
    [] kind = "calls" -> "assistant"
    [] OTHER          -> kind

VARIABLES
  kinds,     \* Seq(Kinds): the client's messages
  format,    \* the wire format of the resolved provider
  preset,    \* what is assigned to the key: nothing, a preset, a rich preset
  injs,      \* the depth-injections in the order they are registered
  stage,     \* the pass that ran last
  body,      \* indices of the client's messages that are still to be converted
  prepend, append, \* items of the system blocks; append: that are still to come
  system,    \* items of the top-level system field
  turns,     \* the messages under construction
  todo,      \* the injections still to place
  placed     \* openai.ts: how many are (inserted), and its originalLength

vars == <<kinds, format, preset, injs, stage, body, prepend, append, system, turns,
          todo, placed>>

(* A text, a tool call or a tool's result of the client's i-th message.    *)
ClientItem(is, i)  == [from |-> "client", is |-> is, of |-> i]
PresetItem(where)  == [from |-> where, is |-> "text", of |-> 0]
InjItem(j)         == [from |-> "injection", is |-> "text", of |-> j]

Content(i) ==
  CASE kinds[i] = "blank" -> <<>>
    [] kinds[i] = "calls" -> <<ClientItem("call", i)>>
    [] kinds[i] = "tool"  -> <<ClientItem("result", i)>>
    [] OTHER              -> <<ClientItem("text", i)>>

(* tool_call_id: a tool's message answers the last call before it.         *)
Answers(i, call) ==
  /\ call \in 1..(i - 1) /\ kinds[call] = "calls"
  /\ \A k \in (call + 1)..i : kinds[k] # "calls"

(* card: the entry is charDescription, whose text is a client's message.   *)
Injections == [depth : 0..MaxDepth, order : Orders, card : BOOLEAN]

(* The client's system message that a rich preset may take over.           *)
IsCard(i) ==
  /\ preset = "rich"
  /\ kinds[i] = "system" /\ \A k \in 1..(i - 1) : kinds[k] # "system"

(* charDescription has injection_position 1.                               *)
Injected == \E j \in DOMAIN injs : injs[j].card

(* Without a preset only trigger mode contributes: one block at depth 1.   *)
(* One entry of a rich preset may be the client's system message, if there *)
(* is one.                                                                 *)
PromptInit ==
  /\ kinds \in UNION {[1..n -> Kinds] : n \in 1..MaxMessages}
  /\ \A i \in DOMAIN kinds : kinds[i] = "tool" => \E call \in DOMAIN kinds : Answers(i, call)
  /\ format \in Formats /\ preset \in Presets
  /\ injs \in UNION {[1..n -> Injections] : n \in 0..MaxInjections}
  /\ preset # "rich" => \A j \in DOMAIN injs : injs[j].order = 0
  /\ preset = "none" => injs \in {<<>>, <<[depth |-> 1, order |-> 0, card |-> FALSE]>>}
  /\ \A j \in DOMAIN injs : injs[j].card =>
       /\ injs[j].order # 0 /\ \E i \in DOMAIN kinds : IsCard(i)
       /\ \A k \in DOMAIN injs : injs[k].card => k = j
  /\ stage = "received"
  /\ body = [i \in DOMAIN kinds |-> i]
  /\ prepend = <<>> /\ append = <<>>
  /\ system = <<>> /\ turns = <<>> /\ todo = DOMAIN injs
  /\ placed = [count |-> 0, length |-> 0]

-----------------------------------------------------------------------------
(* The blocks of a request.                                                *)

(* Array.splice(i, 1) on all the messages.                                 *)
Without(i) == [n \in 1..(Len(kinds) - 1) |-> IF n < i THEN n ELSE n + 1]

(* The text of the preset's own entries around the history.                *)
Own(where) == IF preset = "none" THEN <<>> ELSE <<PresetItem(where)>>

(* charDescription has no text or is disabled: the messages stay.          *)
Untaken == ~Injected /\ prepend' = Own("prepend") /\ append' = Own("append")

(* The client's i-th message goes where charDescription is: to a depth, in *)
(* front of the history or behind it.                                      *)
Taken(i) ==
  /\ IsCard(i)
  /\ \/ Injected /\ prepend' = Own("prepend") /\ append' = Own("append")
     \/ ~Injected /\ prepend' = Own("prepend") \o Content(i) /\ append' = Own("append")
     \/ ~Injected /\ prepend' = Own("prepend") /\ append' = Own("append") \o Content(i)

(* A deliberate fault: the system message that the preset has taken over   *)
(* stays in body.messages.                                                 *)
AssembleTwice ==
  /\ stage = "received"
  /\ Untaken \/ \E i \in DOMAIN kinds : Taken(i)
  /\ stage' = "assembled"
  /\ UNCHANGED <<kinds, format, preset, injs, body, system, turns, todo, placed>>

(* assembleRichPreset places the first system message; handleChat then     *)
(* removes it from the messages.                                           *)
Assemble ==
  /\ stage = "received"
  /\ \/ Untaken /\ body' = body
     \/ \E i \in DOMAIN kinds : Taken(i) /\ body' = Without(i)
  /\ stage' = "assembled"
  /\ UNCHANGED <<kinds, format, preset, injs, system, turns, todo, placed>>

(* orderInjections: deeper first; within a depth as the blocks come, which *)
(* finalizePendingInjections has sorted by injection_order (0 for all that *)
(* a rich preset did not make), and otherwise as they were registered.     *)
Before(i, j) ==
  \/ injs[i].depth > injs[j].depth
  \/ /\ injs[i].depth = injs[j].depth
     /\ injs[i].order > injs[j].order \/ (injs[i].order = injs[j].order /\ i < j)

IsNext(j) == j \in todo /\ \A i \in todo \ {j} : Before(j, i)

-----------------------------------------------------------------------------
(* openai.ts.                                                              *)
Turn(role, items) == [role |-> role, items |-> items]

Verbatim == [n \in DOMAIN body |-> Turn(Role(kinds[body[n]]), Content(body[n]))]

(* applyPrependBlocks: behind the text of a leading system message.        *)
MergePrepended ==
  /\ stage = "assembled" /\ format = "openai"
  /\ turns' = CASE prepend = <<>> -> Verbatim
                [] prepend # <<>> /\ Verbatim # <<>> /\ Head(Verbatim).role = "system" ->
                     [Verbatim EXCEPT ![1].items = @ \o prepend]
                [] OTHER -> InsertAt(Verbatim, 1, Turn("system", prepend))
  /\ placed' = [placed EXCEPT !.length = Len(turns')]
  /\ body' = <<>>
  /\ stage' = "mapped"
  /\ UNCHANGED <<kinds, format, preset, injs, prepend, append, system, todo>>

(* A lorebook's block and a trigger's carry the name of their producer as  *)
(* their role; a prompt entry has one of the API's, here the default.      *)
BlockRole(j) == IF injs[j].order = 0 THEN "lorebook" ELSE "system"

(* A deliberate fault: the index is computed from the growing array.       *)
SpliceByLiveLength ==
  /\ stage = "mapped" /\ format = "openai"
  /\ \E j \in todo :
       /\ IsNext(j)
       /\ LET depth == injs[j].depth
              before == (IF Len(turns) > depth THEN Len(turns) - depth ELSE 0) + placed.count
          IN turns' = InsertAt(turns, (IF before > Len(turns) THEN Len(turns) ELSE before) + 1,
                               Turn(BlockRole(j), <<InjItem(j)>>))
       /\ placed' = [placed EXCEPT !.count = @ + 1]
       /\ todo' = todo \ {j}
  /\ UNCHANGED <<kinds, format, preset, injs, stage, body, prepend, append, system>>

(* Where a block of this depth is due, in an array of the original length. *)
Due(depth) == IF placed.length > depth THEN placed.length - depth ELSE 0

(* One injection becomes a message, with the role of its block.            *)
Splice ==
  /\ stage = "mapped" /\ format = "openai"
  /\ \E j \in todo :
       /\ IsNext(j)
       /\ turns' = InsertAt(turns, Due(injs[j].depth) + placed.count + 1,
                            Turn(BlockRole(j), <<InjItem(j)>>))
       /\ placed' = [placed EXCEPT !.count = @ + 1]
       /\ todo' = todo \ {j}
  /\ UNCHANGED <<kinds, format, preset, injs, stage, body, prepend, append, system>>

Append1 ==
  /\ stage = "mapped" /\ format = "openai" /\ todo = {}
  /\ turns' = IF append = <<>> THEN turns ELSE Append(turns, Turn("system", append))
  /\ append' = <<>>
  /\ stage' = "sent"
  /\ UNCHANGED <<kinds, format, preset, injs, body, prepend, system, todo, placed>>

-----------------------------------------------------------------------------
(* anthropic/request.ts and gemini/request.ts.                             *)

(* hoistedSystem, hoistedSystemParts: Gemini has no place of its own for   *)
(* what is to be appended.  The client's system messages follow in Map.    *)
Hoist ==
  /\ stage = "assembled" /\ format # "openai"
  /\ \/ format = "gemini" /\ system' = prepend \o append /\ append' = <<>>
     \/ format = "anthropic" /\ system' = prepend /\ append' = append
  /\ stage' = "mapping"
  /\ UNCHANGED <<kinds, format, preset, injs, body, prepend, turns, todo, placed>>

(* A tool result joins the turn before it if that is a user's and starts   *)
(* with one; Gemini's also if it is empty.                                 *)
Joins(out) ==
  /\ out # <<>>
  /\ Last(out).role = "user"
  /\ IF Last(out).items = <<>> THEN format = "gemini"
     ELSE Head(Last(out).items).is = "result"

(* A deliberate fault: every tool result is a message of its own.          *)
MapMessageAlone(out, i) ==
  Append(out, Turn(IF kinds[i] = "tool" THEN "user" ELSE Role(kinds[i]), Content(i)))

MapMessage(out, i) ==
  IF kinds[i] = "tool" /\ Joins(out)
  THEN [out EXCEPT ![Len(out)].items = @ \o Content(i)]
  ELSE Append(out, Turn(IF kinds[i] = "tool" THEN "user" ELSE Role(kinds[i]), Content(i)))

(* One message: a system message is hoisted, any other one mapped          *)
(* (mapMessagesToAnthropic, mapMessagesToGemini).  The two loops over the  *)
(* messages do not touch what the other one builds.                        *)
Map ==
  /\ stage = "mapping" /\ body # <<>>
  /\ LET i == Head(body)
     IN \/ kinds[i] = "system" /\ system' = system \o Content(i) /\ turns' = turns
        \/ kinds[i] # "system" /\ turns' = MapMessage(turns, i) /\ system' = system
  /\ body' = Tail(body)
  /\ UNCHANGED <<kinds, format, preset, injs, stage, prepend, append, todo, placed>>

(* Anthropic's append blocks come behind the client's system messages.     *)
Mapped ==
  /\ stage = "mapping" /\ body = <<>>
  /\ system' = system \o append /\ append' = <<>>
  /\ stage' = "hoisted"
  /\ UNCHANGED <<kinds, format, preset, injs, body, prepend, turns, todo, placed>>

Greets == turns # <<>> /\ Head(turns).role = "assistant"

(* absorbLeadingAssistant, absorbLeadingModel: a turn before the first     *)
(* user's goes, its text moves to the system field.  An assistant's turn   *)
(* has one item, a text or a call.                                         *)
Absorb ==
  /\ stage = "hoisted" /\ Greets
  /\ system' = system \o (IF Head(turns).items[1].is = "text" THEN Head(turns).items ELSE <<>>)
  /\ turns' = Tail(turns)
  /\ UNCHANGED <<kinds, format, preset, injs, stage, body, prepend, append, todo, placed>>

Absorbed ==
  /\ stage = "hoisted" /\ ~Greets
  /\ stage' = "mapped"
  /\ UNCHANGED <<kinds, format, preset, injs, body, prepend, append, system, turns, todo, placed>>

(* The turn an injection asks for: depth 0 is the last one.                *)
Asked(depth) == IF Len(turns) > depth THEN Len(turns) - depth ELSE 1

IsUser(n) == n \in DOMAIN turns /\ turns[n].role = "user"

(* The nearest user turn at or before the one asked for, or else the first *)
(* one, or else the one asked for.                                         *)
IsSpot(at, asked) ==
  \/ IsUser(at) /\ at <= asked /\ \A n \in (at + 1)..asked : ~IsUser(n)
  \/ IsUser(at) /\ at > asked /\ \A n \in 1..(at - 1) : ~IsUser(n)
  \/ at = asked /\ \A n \in DOMAIN turns : ~IsUser(n)

(* A deliberate fault: an injection stays on the turn it asked for, even   *)
(* if the model has that turn.                                             *)
PlaceWhereAsked ==
  /\ stage = "mapped" /\ format # "openai"
  /\ \E j \in todo :
       /\ IsNext(j)
       /\ turns' = IF turns = <<>> THEN turns
                   ELSE [turns EXCEPT ![Asked(injs[j].depth)].items = @ \o <<InjItem(j)>>]
       /\ todo' = todo \ {j}
  /\ UNCHANGED <<kinds, format, preset, injs, stage, body, prepend, append, system, placed>>

(* placeInjections, placeGeminiInjections.                                 *)
Place ==
  /\ stage = "mapped" /\ format # "openai"
  /\ \E j \in todo :
       /\ IsNext(j)
       /\ \/ turns = <<>> /\ turns' = turns
          \/ \E at \in DOMAIN turns :
               /\ IsSpot(at, Asked(injs[j].depth))
               /\ turns' = [turns EXCEPT ![at].items = @ \o <<InjItem(j)>>]
       /\ todo' = todo \ {j}
  /\ UNCHANGED <<kinds, format, preset, injs, stage, body, prepend, append, system, placed>>

Placed ==
  /\ stage = "mapped" /\ format # "openai" /\ todo = {}
  /\ stage' = "stripping"
  /\ UNCHANGED <<kinds, format, preset, injs, body, prepend, append, system, turns, todo, placed>>

AllFilled == \A n \in DOMAIN turns : turns[n].items # <<>>

Trails == format = "anthropic" /\ turns # <<>> /\ Last(turns).role = "assistant"

(* stripEmpty, stripEmptyContents.                                         *)
Strip ==
  /\ stage = "stripping"
  /\ \E n \in DOMAIN turns :
       /\ turns[n].items = <<>> /\ \A k \in 1..(n - 1) : turns[k].items # <<>>
       /\ turns' = RemoveAt(turns, n)
  /\ UNCHANGED <<kinds, format, preset, injs, stage, body, prepend, append, system, todo, placed>>

(* For Anthropic dropTrailingAssistant.                                    *)
Drop ==
  /\ stage = "stripping" /\ AllFilled /\ Trails
  /\ turns' = Front(turns)
  /\ UNCHANGED <<kinds, format, preset, injs, stage, body, prepend, append, system, todo, placed>>

Finish ==
  /\ stage = "stripping" /\ AllFilled /\ ~Trails
  /\ stage' = "sent"
  /\ UNCHANGED <<kinds, format, preset, injs, body, prepend, append, system, turns, todo, placed>>

Next ==
  \/ Assemble
  \/ MergePrepended \/ Splice \/ Append1
  \/ Hoist \/ Map \/ Mapped \/ Absorb \/ Absorbed \/ Place \/ Placed \/ Strip \/ Drop \/ Finish

PromptSpec == PromptInit /\ [][Next]_vars

-----------------------------------------------------------------------------
Sent == stage = "sent"

(* The prompt in the order in which the model reads it: the system field   *)
(* and then the turns.  A place is a part and a position in it.            *)
Part(n) == IF n = 0 THEN system ELSE turns[n].items

Places == UNION {{n} \X DOMAIN Part(n) : n \in 0..Len(turns)}

At(p) == Part(p[1])[p[2]]

PlacesOf(item) == {p \in Places : At(p) = item}

Precedes(p, q) == p[1] < q[1] \/ (p[1] = q[1] /\ p[2] < q[2])

UserSpeaks == \E i \in DOMAIN kinds : kinds[i] \in {"user", "blank", "tool"}

(* Whatever the client's history looks like, every lorebook text, trigger  *)
(* result and depth prompt reaches the model exactly once, and never as    *)
(* something the model said itself.  Anthropic and Gemini have no place    *)
(* for it when the history has no turn of the user's.                      *)
InjectionsReachTheModel ==
  Sent /\ (format = "openai" \/ UserSpeaks) =>
    \A j \in DOMAIN injs :
      \E p \in Places : /\ PlacesOf(InjItem(j)) = {p}
                        /\ p[1] # 0 /\ turns[p[1]].role # "assistant"

FromClient(t) == \A n \in DOMAIN t.items : t.items[n].from # "injection"

(* The client's messages behind turn at.                                   *)
Following(at) == {n \in (at + 1)..Len(turns) : FromClient(turns[n])}

(* Injections sit at their depth, no matter how many there are: on OpenAI  *)
(* exactly depth messages follow, on the others at most assistant turns    *)
(* lie between one and the turn it asked for; and a deeper one, or in a    *)
(* rich preset one of a higher order, is never behind a shallower one.     *)
InjectionsHonourDepth ==
  stage = "mapped" /\ todo = {} /\ turns # <<>> =>
    \A j \in DOMAIN injs : \A p \in PlacesOf(InjItem(j)) :
      /\ IF format = "openai"
         THEN Cardinality(Following(p[1])) =
                (IF placed.length > injs[j].depth THEN injs[j].depth ELSE placed.length)
         ELSE /\ p[1] <= Asked(injs[j].depth)
              /\ \A n \in (p[1] + 1)..Asked(injs[j].depth) : turns[n].role = "assistant"
      /\ \A i \in DOMAIN injs :
           \/ injs[i].depth > injs[j].depth
           \/ injs[i].depth = injs[j].depth /\ injs[i].order > injs[j].order
           => \A q \in PlacesOf(InjItem(i)) : Precedes(q, p)

SaidByClient(k) == kinds[k] \in {"user", "assistant", "system"}

(* Where a text of the client's is, also as the depth-injection that a     *)
(* rich preset has made of it.                                             *)
TextPlaces(k) ==
  PlacesOf(ClientItem("text", k)) \cup
    UNION {PlacesOf(InjItem(j)) : j \in {i \in DOMAIN injs : injs[i].card /\ IsCard(k)}}

(* Nothing the client wrote is doubled, what the user and the model said   *)
(* stays in its order, and nothing is lost but for two admitted cases:     *)
(* Anthropic gets no text of the assistant's after the user's last turn    *)
(* (dropTrailingAssistant), and a system message that a rich preset makes  *)
(* a depth-injection of is lost on Anthropic and Gemini if the history has *)
(* no turn of the user's, for then request.ts:275 has nowhere to put it    *)
(* and handleChat.ts:173 has removed it from the messages.                 *)
ClientTextKept ==
  Sent =>
    \A k \in DOMAIN kinds : SaidByClient(k) =>
      LET here == TextPlaces(k) IN
      /\ \A p, q \in here : p = q
      /\ here = {} =>
           \/ /\ format = "anthropic" /\ kinds[k] = "assistant"
              /\ \A later \in (k + 1)..Len(kinds) : kinds[later] \notin {"user", "tool"}
           \/ format # "openai" /\ IsCard(k) /\ Injected /\ ~UserSpeaks
      /\ kinds[k] # "system" =>
           \A later \in (k + 1)..Len(kinds) :
             kinds[later] \in {"user", "assistant"} =>
               \A p \in here, q \in TextPlaces(later) : Precedes(p, q)

(* The history without its system messages, and what calls and results the *)
(* providers demand of it: results in one run right behind their call, and *)
(* no call in a greeting, whose turn is absorbed.                          *)
Spoken(i) == i \in DOMAIN kinds /\ kinds[i] # "system"

Follows(i, k) == Spoken(i) /\ Spoken(k) /\ k < i /\ \A m \in (k + 1)..(i - 1) : ~Spoken(m)

CallsAreAnswered ==
  \A i \in DOMAIN kinds :
    /\ kinds[i] = "tool" =>
         \E k \in DOMAIN kinds : Follows(i, k) /\ kinds[k] \in {"calls", "tool"}
    /\ kinds[i] = "calls" =>
         /\ \E k \in DOMAIN kinds : Follows(k, i) /\ kinds[k] = "tool"
         /\ \E m \in 1..(i - 1) : kinds[m] \in {"user", "blank"}

(* Then Anthropic and Gemini get every call with its results in the very   *)
(* next turn, in front of any text that was injected there, and no result  *)
(* without its call; otherwise they refuse the request.                    *)
ResultsFollowCalls ==
  Sent /\ format # "openai" /\ CallsAreAnswered =>
    \A n \in DOMAIN turns : \A m \in DOMAIN turns[n].items :
      LET item == turns[n].items[m] IN
      /\ item.is = "call" =>
           \E i \in DOMAIN kinds :
             /\ Answers(i, item.of)
             /\ n < Len(turns) /\ Head(turns[n + 1].items) = ClientItem("result", i)
      /\ item.is = "result" =>
           /\ \E call \in DOMAIN kinds :
                /\ Answers(item.of, call)
                /\ n > 1 /\ Contains(turns[n - 1].items, ClientItem("call", call))
           /\ m = 1 \/ turns[n].items[m - 1].is = "result"

-----------------------------------------------------------------------------
(* What openai.ts says of its targets: a depth-injection is rendered as a  *)
(* system message at its depth.                                            *)
InjectionsAreSystemMessages ==
  Sent /\ format = "openai" =>
    \A p \in Places : At(p).from = "injection" => turns[p[1]].role = "system"
=============================================================================
