---------------------------- MODULE PromptProofs ----------------------------
(***************************************************************************)
(* Proofs about Prompt, for histories of any length, any number of blocks  *)
(* and any depth: on the way through the passes of a converter nothing is  *)
(* doubled or reordered and only what ClientTextKept names is lost, blocks *)
(* are at their depth, and calls keep their results.  A card that a rich   *)
(* preset puts behind the history or at a depth is in neither the messages *)
(* nor the prompt until it is placed: Held and Appended account for it.    *)
(*                                                                         *)
(* The invariant has four parts.  Base says what a pass leaves for the     *)
(* next one; Said what is in the prompt, once and in which order, and who  *)
(* says it; Deep where the blocks that have been placed are; Calls what a  *)
(* call and its results have around them.  Each is shown action by action. *)
(*                                                                         *)
(* A pass adds items to a part, inserts a turn, removes one, or moves the  *)
(* first one's items into the system field.  The lemmas Grows, Inserts,    *)
(* Removes and Absorbs say of each that it Carries the items over in their *)
(* order, and what that keeps is proved once, from Carries.                *)
(***************************************************************************)
EXTENDS Prompt, SequenceTheorems, FiniteSetTheorems, TLAPS

(* A prompt as it is built: the items of its system field and its turns.   *)
(* The passes move items between places; what follows says of a prompt     *)
(* what Places, At and Precedes say of the one in the model.               *)
Word(i) ==
  IF kinds[i] = "calls" THEN ClientItem("call", i)
  ELSE IF kinds[i] = "tool" THEN ClientItem("result", i) ELSE ClientItem("text", i)

Items == [from : {"client", "prepend", "append", "injection"},
          is : {"text", "call", "result"}, of : Nat]

Voices == {"user", "assistant", "system", "tool", "lorebook"}

TurnsOf == [role : Voices, items : Seq(Items)]

PartOf(sys, ts, n) == IF n = 0 THEN sys ELSE ts[n].items

PlacesIn(sys, ts) ==
  {p \in (0..Len(ts)) \X Nat : p[2] \in 1..Len(PartOf(sys, ts, p[1]))}

ItemAt(sys, ts, p) == PartOf(sys, ts, p[1])[p[2]]

Has(sys, ts, x) == \E p \in PlacesIn(sys, ts) : ItemAt(sys, ts, p) = x

-----------------------------------------------------------------------------
(* The card that the messages no longer hold and the prompt does not yet:  *)
(* it became a depth-injection, or goes with what is to be appended.       *)
Late(i) == <<PresetItem("append"), Word(i)>>

Held == {i \in DOMAIN kinds : IsCard(i) /\ (Injected \/ append = Late(i))}

(* The messages that are no longer in body, without that one.              *)
Read == {i \in DOMAIN kinds \ Held : \A n \in DOMAIN body : body[n] # i}

Increasing(s) == \A m, n \in DOMAIN s : m < n => s[m] < s[n]

Converting == {"mapping", "hoisted", "mapped", "stripping", "sent"}

Shape ==
  /\ kinds \in Seq(Kinds) /\ format \in Formats /\ preset \in Presets /\ injs \in Seq(Injections)
  /\ stage \in {"received", "assembled"} \cup Converting
  /\ body \in Seq(DOMAIN kinds) /\ Increasing(body)
  /\ prepend \in Seq(Items) /\ append \in Seq(Items)
  /\ system \in Seq(Items) /\ turns \in Seq(TurnsOf)
  /\ todo \subseteq DOMAIN injs
  /\ placed \in [count : Nat, length : Nat]

Progress ==
  /\ stage \in {"received", "assembled"} => system = <<>> /\ turns = <<>> /\ todo = DOMAIN injs
  /\ stage = "received" => prepend = <<>> /\ Read = {}
  /\ stage \in {"hoisted", "mapped", "stripping", "sent"} => body = <<>>
  /\ stage \in {"mapping", "hoisted"} => todo = DOMAIN injs
  /\ stage \in {"stripping", "sent"} => todo = {}
  /\ stage \in {"mapping", "hoisted", "stripping"} => format # "openai"
  /\ stage \in {"received", "assembled"} => placed.count = 0
  /\ stage = "mapped" /\ format = "openai" => Len(turns) = placed.length + placed.count

Prepended ==
  stage = "assembled" =>
    /\ \/ prepend = <<>> \/ prepend = <<PresetItem("prepend")>>
       \/ \E i \in Read : prepend = <<PresetItem("prepend"), Word(i)>>
    /\ \A i \in Read : kinds[i] = "system" /\ prepend = <<PresetItem("prepend"), Word(i)>>

Ending ==
  \/ append = <<>> \/ append = <<PresetItem("append")>>
  \/ ~Injected /\ \E i \in Held : append = Late(i)

OneCard == \A i, j \in DOMAIN injs : injs[i].card /\ injs[j].card => i = j

Appended ==
  /\ Ending /\ OneCard
  /\ stage = "received" => append = <<>>
  /\ stage = "sent" => append = <<>>
  /\ format # "openai" /\ stage \in {"hoisted", "mapped", "stripping"} => append = <<>>
  /\ stage # "received" => \A n \in DOMAIN body : body[n] \notin Held

InOrder ==
  \A i \in Read : kinds[i] # "system" => \A n \in DOMAIN body : i < body[n]

(* What is in the prompt: blocks of the preset, words of messages that     *)
(* have been read, injections that have been placed.                       *)
IsWord(x, read) == x.of \in read /\ kinds[x.of] # "blank" /\ x = Word(x.of)
IsBlock(x, done) == x.of \in done /\ x = InjItem(x.of)

KnownItem(x, read, done) ==
  \/ x \in {PresetItem("prepend"), PresetItem("append")}
  \/ IsWord(x, read)
  \/ IsBlock(x, done)

Done == DOMAIN injs \ todo

Known ==
  \A p \in PlacesIn(system, turns) : KnownItem(ItemAt(system, turns, p), Read, Done)

Clean == \A m \in DOMAIN system : system[m].from # "injection"

Distinct(sys, ts) ==
  \A p, q \in PlacesIn(sys, ts) :
    ItemAt(sys, ts, p) = ItemAt(sys, ts, q) /\ ItemAt(sys, ts, p).from \in {"client", "injection"}
      => p = q

Turning(x) == x.from = "client" /\ kinds[x.of] # "system"

Sorted(sys, ts) ==
  \A p, q \in PlacesIn(sys, ts) :
    /\ Turning(ItemAt(sys, ts, p)) /\ Turning(ItemAt(sys, ts, q))
    /\ ItemAt(sys, ts, p).of < ItemAt(sys, ts, q).of
    => Precedes(p, q)

(* Who says what.                                                          *)
Fits(t) ==
  /\ t.role = "assistant" => \A m \in DOMAIN t.items : t.items[m].from = "client"
  /\ format # "openai" =>
       /\ t.role \in {"user", "assistant"}
       /\ t.role = "assistant" => Len(t.items) = 1
       /\ \A m \in DOMAIN t.items :
            t.items[m].from = "client" =>
              (kinds[t.items[m].of] \in {"assistant", "calls"} <=> t.role = "assistant")

Speakers == \A n \in DOMAIN turns : Fits(turns[n])

(* The text of an assistant's message that nothing of the user's follows.  *)
Prefill(i) ==
  /\ format = "anthropic" /\ kinds[i] = "assistant"
  /\ \A later \in (i + 1)..Len(kinds) : kinds[later] \notin {"user", "tool"}

Kept ==
  stage \in Converting =>
    \A i \in Read :
      kinds[i] \in {"system", "user", "assistant", "tool"} =>
        Has(system, turns, Word(i)) \/ (stage \in {"stripping", "sent"} /\ Prefill(i))

HasUser == \E n \in DOMAIN turns : turns[n].role = "user"

UserTurn ==
  format # "openai" /\ stage \in {"mapping", "hoisted", "mapped"} =>
    /\ (\E i \in Read : kinds[i] \in {"user", "blank", "tool"}) => HasUser
    /\ stage = "mapped" /\ turns # <<>> => turns[1].role = "user"

Reached ==
  format = "openai" \/ UserSpeaks => \A j \in Done : Has(system, turns, InjItem(j))

-----------------------------------------------------------------------------
(* Depth.                                                                  *)
DeeperFirst == \A i \in Done : \A j \in todo : Before(i, j)

InTurn(sys, ts) ==
  \A i, j \in DOMAIN injs : \A p, q \in PlacesIn(sys, ts) :
    Before(i, j) /\ ItemAt(sys, ts, p) = InjItem(i) /\ ItemAt(sys, ts, q) = InjItem(j)
      => Precedes(p, q)

DueIn(length, depth) == IF length > depth THEN length - depth ELSE 0

AskedIn(length, depth) == IF length > depth THEN length - depth ELSE 1

FollowingIn(ts, at) == {n \in (at + 1)..Len(ts) : FromClient(ts[n])}

(* A block of this depth is at place p of the turns ts.                    *)
IsAt(ts, now, p, depth) ==
  IF format = "openai"
  THEN /\ p[1] <= DueIn(now.length, depth) + now.count
       /\ Cardinality(FollowingIn(ts, p[1])) = now.length - DueIn(now.length, depth)
  ELSE /\ p[1] <= AskedIn(Len(ts), depth)
       /\ \A n \in (p[1] + 1)..AskedIn(Len(ts), depth) : ts[n].role = "assistant"

BlocksAt(sys, ts, now) ==
  \A j \in DOMAIN injs : \A p \in PlacesIn(sys, ts) :
    ItemAt(sys, ts, p) = InjItem(j) => IsAt(ts, now, p, injs[j].depth)

AtDepth == stage = "mapped" => BlocksAt(system, turns, placed)

Depths == stage = "mapped" => InTurn(system, turns)

-----------------------------------------------------------------------------
(* Calls and results.                                                      *)
Open(read) ==
  {k \in read : kinds[k] # "system" /\ \A m \in read : m > k => kinds[m] = "system"}

Answered(ts, n, c) ==
  /\ n < Len(ts) /\ ts[n + 1].items # <<>>
  /\ \E i \in DOMAIN kinds : Answers(i, c) /\ Head(ts[n + 1].items) = ClientItem("result", i)

CallsIn(ts, open) ==
  \A n \in DOMAIN ts : \A m \in DOMAIN ts[n].items :
    ts[n].items[m].is = "call" =>
      Answered(ts, n, ts[n].items[m].of) \/ (n = Len(ts) /\ ts[n].items[m].of \in open)

ResultsIn(ts) ==
  \A n \in DOMAIN ts : \A m \in DOMAIN ts[n].items :
    ts[n].items[m].is = "result" =>
      /\ m = 1 \/ ts[n].items[m - 1].is = "result"
      /\ n > 1
      /\ \E c \in DOMAIN kinds :
           Answers(ts[n].items[m].of, c) /\ ts[n - 1].items = <<ClientItem("call", c)>>

EndsWith(ts, k) ==
  /\ kinds[k] = "calls" => ts # <<>> /\ Last(ts) = Turn("assistant", <<ClientItem("call", k)>>)
  /\ kinds[k] = "tool" =>
       /\ ts # <<>> /\ Last(ts).role = "user" /\ Last(ts).items # <<>>
       /\ Head(Last(ts).items).is = "result"
       /\ Last(Last(ts).items) = ClientItem("result", k)

Greeted(ts) ==
  \A n \in DOMAIN ts : \A m \in DOMAIN ts[n].items :
    ts[n].items[m].is = "call" => \E k \in 1..(n - 1) : ts[k].role = "user"

CallsAt(pass, ts, read) ==
  /\ CallsIn(ts, IF pass = "mapping" THEN Open(read) ELSE {})
  /\ ResultsIn(ts)
  /\ pass = "mapping" => \A k \in Open(read) : EndsWith(ts, k)
  /\ pass \in {"mapping", "hoisted"} => Greeted(ts)

Calls ==
  format # "openai" /\ CallsAreAnswered => CallsAt(stage, turns, Read)
-----------------------------------------------------------------------------
(* Places.                                                                 *)
LEMMA PartIs ==
  ASSUME NEW sys \in Seq(Items), NEW ts \in Seq(TurnsOf), NEW n \in 0..Len(ts)
  PROVE  PartOf(sys, ts, n) \in Seq(Items) /\ Len(PartOf(sys, ts, n)) \in Nat
<1>1. CASE n = 0
  BY <1>1 DEF PartOf
<1>2. CASE n # 0
  <2>1. n \in 1..Len(ts)
    BY <1>2
  <2>2. ts[n] \in TurnsOf
    BY <2>1
  <2>3. QED
    BY <1>2, <2>2 DEF PartOf, TurnsOf
<1>3. QED
  BY <1>1, <1>2

LEMMA PlaceIs ==
  ASSUME NEW sys \in Seq(Items), NEW ts \in Seq(TurnsOf), NEW p \in PlacesIn(sys, ts)
  PROVE  /\ p[1] \in 0..Len(ts) /\ p[2] \in Nat /\ p = <<p[1], p[2]>>
         /\ p[2] \in 1..Len(PartOf(sys, ts, p[1]))
         /\ ItemAt(sys, ts, p) = PartOf(sys, ts, p[1])[p[2]]
         /\ ItemAt(sys, ts, p) \in Items
<1>1. /\ p[1] \in 0..Len(ts) /\ p[2] \in Nat /\ p = <<p[1], p[2]>>
      /\ p[2] \in 1..Len(PartOf(sys, ts, p[1]))
  BY DEF PlacesIn
<1>2. PartOf(sys, ts, p[1]) \in Seq(Items)
  BY <1>1, PartIs
<1>3. PartOf(sys, ts, p[1])[p[2]] \in Items
  BY <1>1, <1>2
<1>4. QED
  BY <1>1, <1>3 DEF ItemAt

LEMMA PlaceAt ==
  ASSUME NEW sys \in Seq(Items), NEW ts \in Seq(TurnsOf), NEW n \in 0..Len(ts),
         NEW m \in 1..Len(PartOf(sys, ts, n))
  PROVE  <<n, m>> \in PlacesIn(sys, ts) /\ ItemAt(sys, ts, <<n, m>>) = PartOf(sys, ts, n)[m]
<1>1. PartOf(sys, ts, n) \in Seq(Items)
  BY PartIs
<1>2. m \in Nat
  BY <1>1
<1>3. QED
  BY <1>2 DEF PlacesIn, ItemAt

(* A pass moves the item of each place to another, in the same order, and  *)
(* puts new ones at the fresh places; back is where an item comes from.    *)
Carries(sys, ts, sys2, ts2, back, fresh) ==
  /\ fresh \subseteq PlacesIn(sys2, ts2)
  /\ \A p \in PlacesIn(sys2, ts2) \ fresh :
       back[p] \in PlacesIn(sys, ts) /\ ItemAt(sys, ts, back[p]) = ItemAt(sys2, ts2, p)
  /\ \A p, q \in PlacesIn(sys2, ts2) \ fresh :
       /\ back[p] = back[q] => p = q
       /\ Precedes(back[p], back[q]) => Precedes(p, q)

(* A step that carries the items over keeps them distinct, if the fresh    *)
(* ones are new.                                                           *)
LEMMA CarriesDistinct ==
  ASSUME NEW sys, NEW ts, NEW sys2, NEW ts2, NEW back, NEW fresh,
         Carries(sys, ts, sys2, ts2, back, fresh), Distinct(sys, ts),
         \A p \in fresh : ItemAt(sys2, ts2, p).from \in {"client", "injection"} =>
           /\ ~Has(sys, ts, ItemAt(sys2, ts2, p))
           /\ \A q \in fresh : ItemAt(sys2, ts2, p) = ItemAt(sys2, ts2, q) => p = q
  PROVE  Distinct(sys2, ts2)
<1> SUFFICES ASSUME NEW p \in PlacesIn(sys2, ts2), NEW q \in PlacesIn(sys2, ts2),
                    ItemAt(sys2, ts2, p) = ItemAt(sys2, ts2, q),
                    ItemAt(sys2, ts2, p).from \in {"client", "injection"}
             PROVE  p = q
  BY DEF Distinct
<1>1. CASE p \notin fresh /\ q \notin fresh
  <2>1. back[p] = back[q]
    BY <1>1 DEF Carries, Distinct
  <2>2. QED
    BY <1>1, <2>1 DEF Carries
<1>2. CASE p \in fresh /\ q \notin fresh
  <2>1. Has(sys, ts, ItemAt(sys2, ts2, p))
    BY <1>2 DEF Carries, Has
  <2>2. QED
    BY <1>2, <2>1
<1>3. CASE p \notin fresh /\ q \in fresh
  <2>1. Has(sys, ts, ItemAt(sys2, ts2, q))
    BY <1>3 DEF Carries, Has
  <2>2. QED
    BY <1>3, <2>1
<1>4. CASE p \in fresh /\ q \in fresh
  BY <1>4
<1>5. QED
  BY <1>1, <1>2, <1>3, <1>4

(* A fresh word of the client's is behind all the others.                  *)
LEMMA CarriesSorted ==
  ASSUME NEW sys, NEW ts, NEW sys2, NEW ts2, NEW back, NEW fresh,
         Carries(sys, ts, sys2, ts2, back, fresh), Sorted(sys, ts),
         \A p \in PlacesIn(sys2, ts2) : ItemAt(sys2, ts2, p).of \in Nat,
         \A p \in fresh : Turning(ItemAt(sys2, ts2, p)) =>
           /\ \A q \in PlacesIn(sys2, ts2) \ fresh : Turning(ItemAt(sys2, ts2, q)) =>
                ItemAt(sys2, ts2, q).of < ItemAt(sys2, ts2, p).of /\ Precedes(q, p)
           /\ \A q \in fresh : Turning(ItemAt(sys2, ts2, q)) => p = q
  PROVE  Sorted(sys2, ts2)
<1> SUFFICES ASSUME NEW p \in PlacesIn(sys2, ts2), NEW q \in PlacesIn(sys2, ts2),
                    Turning(ItemAt(sys2, ts2, p)), Turning(ItemAt(sys2, ts2, q)),
                    ItemAt(sys2, ts2, p).of < ItemAt(sys2, ts2, q).of
             PROVE  Precedes(p, q)
  BY DEF Sorted
<1> DEFINE m == ItemAt(sys2, ts2, p).of
           n == ItemAt(sys2, ts2, q).of
<1>1. m \in Nat /\ n \in Nat /\ m < n
  OBVIOUS
<1>2. CASE p \notin fresh /\ q \notin fresh
  <2>1. Precedes(back[p], back[q])
    BY <1>2 DEF Carries, Sorted
  <2>2. QED
    BY <1>2, <2>1 DEF Carries
<1>3. CASE q \in fresh /\ p \notin fresh
  BY <1>3
<1>4. CASE p \in fresh /\ q \notin fresh
  <2>1. n < m
    BY <1>4
  <2> HIDE DEF m, n
  <2>2. QED
    BY <1>1, <2>1
<1>5. CASE p \in fresh /\ q \in fresh
  <2>1. p = q
    BY <1>5
  <2>2. m = n
    BY <2>1
  <2> HIDE DEF m, n
  <2>3. QED
    BY <1>1, <2>2
<1>6. QED
  BY <1>2, <1>3, <1>4, <1>5

(* A fresh injection is behind all that go before it.                      *)
LEMMA CarriesInTurn ==
  ASSUME NEW sys, NEW ts, NEW sys2, NEW ts2, NEW back, NEW fresh,
         Carries(sys, ts, sys2, ts2, back, fresh), InTurn(sys, ts),
         \A p \in fresh : \A j \in DOMAIN injs : ItemAt(sys2, ts2, p) = InjItem(j) =>
           /\ \A q \in PlacesIn(sys2, ts2) \ fresh : \A i \in DOMAIN injs :
                ItemAt(sys2, ts2, q) = InjItem(i) => ~Before(j, i) /\ Precedes(q, p)
           /\ \A q \in fresh : \A i \in DOMAIN injs :
                ItemAt(sys2, ts2, q) = InjItem(i) => ~Before(i, j)
  PROVE  InTurn(sys2, ts2)
<1> SUFFICES ASSUME NEW i \in DOMAIN injs, NEW j \in DOMAIN injs,
                    NEW p \in PlacesIn(sys2, ts2), NEW q \in PlacesIn(sys2, ts2),
                    Before(i, j), ItemAt(sys2, ts2, p) = InjItem(i),
                    ItemAt(sys2, ts2, q) = InjItem(j)
             PROVE  Precedes(p, q)
  BY DEF InTurn
<1>1. CASE p \notin fresh /\ q \notin fresh
  <2>1. Precedes(back[p], back[q])
    BY <1>1 DEF Carries, InTurn
  <2>2. QED
    BY <1>1, <2>1 DEF Carries
<1>2. CASE q \in fresh /\ p \notin fresh
  BY <1>2
<1>3. CASE p \in fresh
  BY <1>3
<1>4. QED
  BY <1>1, <1>2, <1>3

(* An item that is not fresh has been there before.                        *)
LEMMA CarriesItems ==
  ASSUME NEW sys, NEW ts, NEW sys2, NEW ts2, NEW back, NEW fresh,
         Carries(sys, ts, sys2, ts2, back, fresh), NEW p \in PlacesIn(sys2, ts2)
  PROVE  p \in fresh \/ Has(sys, ts, ItemAt(sys2, ts2, p))
BY DEF Carries, Has

-----------------------------------------------------------------------------
(* The ways in which a pass changes a prompt.                              *)

(* Items at the end of a part.                                             *)
Behind(k, size, c) == {p \in {k} \X Nat : p[2] \in (size + 1)..(size + Len(c))}

Same(sys, ts) == [p \in PlacesIn(sys, ts) |-> p]

Stays(sys, ts, sys2, ts2) ==
  \A p \in PlacesIn(sys, ts) :
    p \in PlacesIn(sys2, ts2) /\ ItemAt(sys2, ts2, p) = ItemAt(sys, ts, p)

(* Two sequences of items behind one another.                              *)
LEMMA ConcatIs ==
  ASSUME NEW s \in Seq(Items), NEW c \in Seq(Items)
  PROVE  /\ s \o c \in Seq(Items) /\ Len(s \o c) = Len(s) + Len(c)
         /\ \A m \in 1..Len(s) : (s \o c)[m] = s[m]
         /\ \A m \in 1..Len(c) : (s \o c)[Len(s) + m] = c[m]
OBVIOUS

LEMMA Grows ==
  ASSUME NEW sys \in Seq(Items), NEW ts \in Seq(TurnsOf),
         NEW sys2 \in Seq(Items), NEW ts2 \in Seq(TurnsOf),
         NEW k \in 0..Len(ts), NEW c \in Seq(Items), Len(ts2) = Len(ts),
         PartOf(sys2, ts2, k) = PartOf(sys, ts, k) \o c,
         \A n \in 0..Len(ts) : n # k => PartOf(sys2, ts2, n) = PartOf(sys, ts, n)
  PROVE  LET size == Len(PartOf(sys, ts, k))
             fresh == Behind(k, size, c)
         IN /\ size \in Nat
            /\ Carries(sys, ts, sys2, ts2, Same(sys2, ts2), fresh)
            /\ Stays(sys, ts, sys2, ts2)
            /\ \A p \in fresh : /\ p[1] = k /\ p[2] \in (size + 1)..(size + Len(c))
                                /\ ItemAt(sys2, ts2, p) = c[p[2] - size]
                                /\ p = <<k, p[2]>>
            /\ \A m \in 1..Len(c) : <<k, size + m>> \in fresh
            /\ \A q \in PlacesIn(sys2, ts2) \ fresh :
                 /\ q \in PlacesIn(sys, ts)
                 /\ q[1] < k \/ (q[1] = k /\ q[2] <= size) \/ q[1] > k
<1> DEFINE old == PartOf(sys, ts, k)
           new == PartOf(sys2, ts2, k)
           size == Len(old)
           more == Len(c)
           fresh == Behind(k, size, c)
           top == Len(ts)
<1>1. /\ old \in Seq(Items) /\ size \in Nat /\ more \in Nat /\ top \in Nat /\ k \in 0..top
      /\ k \in Nat
  BY PartIs
<1>2. /\ Len(new) = size + more
      /\ \A m \in 1..size : new[m] = old[m]
      /\ \A m \in (size + 1)..(size + more) : new[m] = c[m - size]
  <2> HIDE DEF old
  <2>1. new = old \o c
    BY DEF old
  <2> HIDE DEF new
  <2>2. QED
    BY <1>1, <2>1
<1>3. ASSUME NEW n \in 0..top, n # k
      PROVE  PartOf(sys2, ts2, n) = PartOf(sys, ts, n)
  BY <1>3
<1> HIDE DEF old, new, size, more, fresh, top
<1>4. ASSUME NEW p \in PlacesIn(sys, ts)
      PROVE  p \in PlacesIn(sys2, ts2) /\ ItemAt(sys2, ts2, p) = ItemAt(sys, ts, p)
  <2>1. /\ p[1] \in 0..top /\ p[2] \in Nat /\ p = <<p[1], p[2]>>
        /\ p[2] \in 1..Len(PartOf(sys, ts, p[1]))
        /\ ItemAt(sys, ts, p) = PartOf(sys, ts, p[1])[p[2]]
    BY PlaceIs DEF top
  <2>2. /\ p[2] \in 1..Len(PartOf(sys2, ts2, p[1]))
        /\ PartOf(sys2, ts2, p[1])[p[2]] = PartOf(sys, ts, p[1])[p[2]]
    <3>1. CASE p[1] = k
      <4>1. p[2] \in 1..size
        BY <2>1, <3>1 DEF old, size
      <4>2. p[2] \in 1..(size + more) /\ new[p[2]] = old[p[2]]
        BY <1>1, <1>2, <4>1
      <4>3. QED
        BY <1>2, <3>1, <4>2 DEF old, new
    <3>2. CASE p[1] # k
      BY <1>3, <2>1, <3>2
    <3>3. QED
      BY <3>1, <3>2
  <2>3. /\ <<p[1], p[2]>> \in PlacesIn(sys2, ts2)
        /\ ItemAt(sys2, ts2, <<p[1], p[2]>>) = PartOf(sys2, ts2, p[1])[p[2]]
    BY <2>1, <2>2, PlaceAt DEF top
  <2>4. QED
    BY <2>1, <2>2, <2>3
<1>5. ASSUME NEW p \in fresh
      PROVE  /\ p[1] = k /\ p[2] \in (size + 1)..(size + more) /\ p = <<k, p[2]>>
             /\ p \in PlacesIn(sys2, ts2) /\ ItemAt(sys2, ts2, p) = c[p[2] - size]
  <2>1. /\ p[1] = k /\ p[2] \in (size + 1)..(size + more) /\ p = <<k, p[2]>>
    BY DEF fresh, Behind, more
  <2>2. p[2] \in 1..Len(new) /\ k \in 0..Len(ts2)
    BY <1>1, <1>2, <2>1 DEF top
  <2>3. /\ <<k, p[2]>> \in PlacesIn(sys2, ts2)
        /\ ItemAt(sys2, ts2, <<k, p[2]>>) = new[p[2]]
    BY <2>2, PlaceAt DEF new
  <2>4. QED
    BY <1>2, <2>1, <2>3
<1>6. ASSUME NEW q \in PlacesIn(sys2, ts2), q \notin fresh
      PROVE  /\ q \in PlacesIn(sys, ts)
             /\ q[1] < k \/ (q[1] = k /\ q[2] <= size) \/ q[1] > k
  <2>1. /\ q[1] \in 0..top /\ q[2] \in Nat /\ q = <<q[1], q[2]>>
        /\ q[2] \in 1..Len(PartOf(sys2, ts2, q[1]))
    BY PlaceIs DEF top
  <2>2. CASE q[1] = k
    <3>1. q[2] \in 1..(size + more)
      BY <1>2, <2>1, <2>2 DEF new
    <3>2. ~(q[2] \in (size + 1)..(size + more))
      BY <1>6, <2>1, <2>2 DEF fresh, Behind, more
    <3>3. q[2] \in 1..size /\ q[2] <= size
      BY <1>1, <3>1, <3>2
    <3>4. <<q[1], q[2]>> \in PlacesIn(sys, ts)
      BY <2>2, <3>3, PlaceAt DEF size, old
    <3>5. QED
      BY <2>1, <2>2, <3>3, <3>4
  <2>3. CASE q[1] # k
    <3>1. q[2] \in 1..Len(PartOf(sys, ts, q[1]))
      BY <1>3, <2>1, <2>3
    <3>2. <<q[1], q[2]>> \in PlacesIn(sys, ts)
      BY <2>1, <3>1, PlaceAt DEF top
    <3>3. q[1] < k \/ q[1] > k
      BY <1>1, <2>1, <2>3
    <3>4. QED
      BY <2>1, <3>2, <3>3
  <2>4. QED
    BY <2>2, <2>3
<1>7. \A m \in 1..more : <<k, size + m>> \in fresh
  BY <1>1 DEF fresh, Behind, more
<1>8. Carries(sys, ts, sys2, ts2, Same(sys2, ts2), fresh)
  <2>1. fresh \subseteq PlacesIn(sys2, ts2)
    BY <1>5
  <2>2. \A p \in PlacesIn(sys2, ts2) : Same(sys2, ts2)[p] = p
    BY DEF Same
  <2>3. \A p \in PlacesIn(sys2, ts2) \ fresh :
          p \in PlacesIn(sys, ts) /\ ItemAt(sys, ts, p) = ItemAt(sys2, ts2, p)
    BY <1>4, <1>6
  <2>4. QED
    BY <2>1, <2>2, <2>3 DEF Carries
<1>9. Stays(sys, ts, sys2, ts2)
  BY <1>4 DEF Stays
<1>10. QED
  BY <1>1, <1>5, <1>6, <1>7, <1>8, <1>9 DEF fresh, size, old, more

(* A turn more, at position r.                                             *)
Lower(sys, ts, r) ==
  [p \in PlacesIn(sys, ts) |-> IF p[1] < r THEN p ELSE <<p[1] - 1, p[2]>>]

Up(p, r) == IF p[1] < r THEN p ELSE <<p[1] + 1, p[2]>>

LEMMA Inserts ==
  ASSUME NEW sys \in Seq(Items), NEW ts \in Seq(TurnsOf), NEW ts2 \in Seq(TurnsOf),
         NEW r \in 1..(Len(ts) + 1), NEW c \in Seq(Items), Len(ts2) = Len(ts) + 1,
         \A n \in 0..(Len(ts) + 1) :
           PartOf(sys, ts2, n) = IF n < r THEN PartOf(sys, ts, n)
                                 ELSE IF n = r THEN c ELSE PartOf(sys, ts, n - 1)
  PROVE  LET fresh == Behind(r, 0, c)
             back == Lower(sys, ts2, r)
         IN /\ Carries(sys, ts, sys, ts2, back, fresh)
            /\ \A p \in PlacesIn(sys, ts) :
                 /\ Up(p, r) \in PlacesIn(sys, ts2)
                 /\ ItemAt(sys, ts2, Up(p, r)) = ItemAt(sys, ts, p)
            /\ \A p \in fresh : /\ p[1] = r /\ p[2] \in 1..Len(c) /\ p = <<r, p[2]>>
                                /\ ItemAt(sys, ts2, p) = c[p[2]]
            /\ \A m \in 1..Len(c) : <<r, m>> \in fresh
            /\ \A p \in PlacesIn(sys, ts2) \ fresh :
                 /\ p[1] # r
                 /\ back[p] = IF p[1] < r THEN p ELSE <<p[1] - 1, p[2]>>
<1> DEFINE fresh == Behind(r, 0, c)
           back == Lower(sys, ts2, r)
           top == Len(ts)
           more == Len(c)
<1>1. top \in Nat /\ more \in Nat /\ r \in 1..(top + 1) /\ Len(ts2) = top + 1 /\ r \in Nat
  OBVIOUS
<1>2. ASSUME NEW n \in 0..(top + 1)
      PROVE  /\ n < r => PartOf(sys, ts2, n) = PartOf(sys, ts, n)
             /\ n = r => PartOf(sys, ts2, n) = c
             /\ n > r => PartOf(sys, ts2, n) = PartOf(sys, ts, n - 1)
  BY <1>1
<1> HIDE DEF fresh, back, top, more
<1>3. ASSUME NEW p \in PlacesIn(sys, ts)
      PROVE  /\ Up(p, r) \in PlacesIn(sys, ts2)
             /\ ItemAt(sys, ts2, Up(p, r)) = ItemAt(sys, ts, p)
  <2>1. /\ p[1] \in 0..top /\ p[2] \in Nat /\ p = <<p[1], p[2]>>
        /\ p[2] \in 1..Len(PartOf(sys, ts, p[1]))
        /\ ItemAt(sys, ts, p) = PartOf(sys, ts, p[1])[p[2]]
    BY PlaceIs DEF top
  <2> DEFINE n == IF p[1] < r THEN p[1] ELSE p[1] + 1
  <2>2. n \in 0..(top + 1) /\ PartOf(sys, ts2, n) = PartOf(sys, ts, p[1])
    <3>1. CASE p[1] < r
      BY <1>1, <1>2, <2>1, <3>1
    <3>2. CASE ~(p[1] < r)
      <4>1. p[1] + 1 \in 0..(top + 1) /\ p[1] + 1 > r /\ (p[1] + 1) - 1 = p[1]
        BY <1>1, <2>1, <3>2
      <4>2. QED
        BY <1>2, <3>2, <4>1
    <3>3. QED
      BY <3>1, <3>2
  <2>3. Up(p, r) = <<n, p[2]>>
    BY <2>1 DEF Up
  <2> HIDE DEF n
  <2>4. /\ <<n, p[2]>> \in PlacesIn(sys, ts2)
        /\ ItemAt(sys, ts2, <<n, p[2]>>) = PartOf(sys, ts2, n)[p[2]]
    <3>1. n \in 0..Len(ts2) /\ p[2] \in 1..Len(PartOf(sys, ts2, n))
      BY <1>1, <2>1, <2>2
    <3>2. QED
      BY <3>1, PlaceAt
  <2>5. QED
    BY <2>1, <2>2, <2>3, <2>4
<1>4. ASSUME NEW p \in fresh
      PROVE  /\ p[1] = r /\ p[2] \in 1..more /\ p = <<r, p[2]>>
             /\ p \in PlacesIn(sys, ts2) /\ ItemAt(sys, ts2, p) = c[p[2]]
  <2>1. /\ p[1] = r /\ p[2] \in 1..more /\ p = <<r, p[2]>>
    BY <1>1 DEF fresh, Behind, more
  <2>2. r \in 0..Len(ts2) /\ PartOf(sys, ts2, r) = c
    BY <1>1, <1>2
  <2>3. p[2] \in 1..Len(PartOf(sys, ts2, r))
    BY <2>1, <2>2 DEF more
  <2>4. /\ <<r, p[2]>> \in PlacesIn(sys, ts2)
        /\ ItemAt(sys, ts2, <<r, p[2]>>) = PartOf(sys, ts2, r)[p[2]]
    BY <2>2, <2>3, PlaceAt
  <2>5. QED
    BY <2>1, <2>2, <2>4
<1>5. ASSUME NEW p \in PlacesIn(sys, ts2), p \notin fresh
      PROVE  /\ p[1] # r /\ p[1] \in 0..(top + 1) /\ p[2] \in Nat /\ p = <<p[1], p[2]>>
             /\ back[p] = (IF p[1] < r THEN p ELSE <<p[1] - 1, p[2]>>)
             /\ back[p] \in PlacesIn(sys, ts)
             /\ ItemAt(sys, ts, back[p]) = ItemAt(sys, ts2, p)
  <2>1. /\ p[1] \in 0..(top + 1) /\ p[2] \in Nat /\ p = <<p[1], p[2]>>
        /\ p[2] \in 1..Len(PartOf(sys, ts2, p[1]))
        /\ ItemAt(sys, ts2, p) = PartOf(sys, ts2, p[1])[p[2]]
    BY <1>1, PlaceIs
  <2>2. p[1] # r
    <3>1. SUFFICES ASSUME p[1] = r PROVE FALSE
      OBVIOUS
    <3>2. p[2] \in 1..more
      BY <1>2, <2>1, <3>1 DEF more
    <3>3. p \in fresh
      BY <1>1, <2>1, <3>1, <3>2 DEF fresh, Behind, more
    <3>4. QED
      BY <1>5, <3>3
  <2>3. back[p] = (IF p[1] < r THEN p ELSE <<p[1] - 1, p[2]>>)
    BY DEF back, Lower
  <2> DEFINE n == IF p[1] < r THEN p[1] ELSE p[1] - 1
  <2>4. n \in 0..top /\ PartOf(sys, ts2, p[1]) = PartOf(sys, ts, n)
    BY <1>1, <1>2, <2>1, <2>2
  <2>5. back[p] = <<n, p[2]>>
    BY <2>1, <2>3
  <2> HIDE DEF n
  <2>6. /\ <<n, p[2]>> \in PlacesIn(sys, ts)
        /\ ItemAt(sys, ts, <<n, p[2]>>) = PartOf(sys, ts, n)[p[2]]
    <3>1. n \in 0..Len(ts) /\ p[2] \in 1..Len(PartOf(sys, ts, n))
      BY <2>1, <2>4 DEF top
    <3>2. QED
      BY <3>1, PlaceAt
  <2>7. QED
    BY <2>1, <2>2, <2>3, <2>4, <2>5, <2>6
<1>6. ASSUME NEW p \in PlacesIn(sys, ts2) \ fresh, NEW q \in PlacesIn(sys, ts2) \ fresh
      PROVE  /\ back[p] = back[q] => p = q
             /\ Precedes(back[p], back[q]) => Precedes(p, q)
  <2> DEFINE a == p[1]
             b == q[1]
             m == p[2]
             n == q[2]
             a2 == IF a < r THEN a ELSE a - 1
             b2 == IF b < r THEN b ELSE b - 1
  <2>1. /\ a # r /\ b # r /\ a \in Nat /\ b \in Nat /\ m \in Nat /\ n \in Nat
        /\ p = <<a, m>> /\ q = <<b, n>>
    <3>1. a \in 0..(top + 1) /\ m \in Nat /\ a # r /\ p = <<a, m>>
      BY <1>5
    <3>2. b \in 0..(top + 1) /\ n \in Nat /\ b # r /\ q = <<b, n>>
      BY <1>5
    <3> HIDE DEF a, b, m, n
    <3>3. QED
      BY <1>1, <3>1, <3>2
  <2>2. back[p] = <<a2, m>> /\ back[q] = <<b2, n>>
    BY <1>5, <2>1
  <2> HIDE DEF a, b, m, n
  <2>3. a2 = b2 => a = b
    BY <1>1, <2>1
  <2>4. a2 < b2 => a < b
    BY <1>1, <2>1
  <2> HIDE DEF a2, b2
  <2>5. QED
    BY <2>1, <2>2, <2>3, <2>4 DEF Precedes
<1>7. Carries(sys, ts, sys, ts2, back, fresh)
  BY <1>4, <1>5, <1>6 DEF Carries
<1>8. \A m \in 1..more : <<r, m>> \in fresh
  BY <1>1 DEF fresh, Behind, more
<1>9. QED
  BY <1>3, <1>4, <1>5, <1>7, <1>8 DEF fresh, back, more

(* A turn less.                                                            *)
Higher(sys, ts, r) == [p \in PlacesIn(sys, ts) |-> Up(p, r)]

LEMMA Removes ==
  ASSUME NEW sys \in Seq(Items), NEW ts \in Seq(TurnsOf), NEW ts2 \in Seq(TurnsOf),
         NEW r \in 1..Len(ts), Len(ts) = Len(ts2) + 1,
         \A n \in 0..Len(ts2) :
           PartOf(sys, ts2, n) = IF n < r THEN PartOf(sys, ts, n) ELSE PartOf(sys, ts, n + 1)
  PROVE  /\ Carries(sys, ts, sys, ts2, Higher(sys, ts2, r), {})
         /\ \A p \in PlacesIn(sys, ts) : p[1] # r => Has(sys, ts2, ItemAt(sys, ts, p))
         /\ \A p \in PlacesIn(sys, ts2) : Up(p, r) \in PlacesIn(sys, ts)
<1> DEFINE back == Higher(sys, ts2, r)
           top == Len(ts2)
<1>1. top \in Nat /\ r \in 1..(top + 1) /\ Len(ts) = top + 1 /\ r \in Nat
  OBVIOUS
<1>2. ASSUME NEW n \in 0..top
      PROVE  /\ n < r => PartOf(sys, ts2, n) = PartOf(sys, ts, n)
             /\ ~(n < r) => PartOf(sys, ts2, n) = PartOf(sys, ts, n + 1)
  BY <1>1
<1> HIDE DEF back, top
<1>3. ASSUME NEW p \in PlacesIn(sys, ts), p[1] # r
      PROVE  Has(sys, ts2, ItemAt(sys, ts, p))
  <2>1. /\ p[1] \in 0..(top + 1) /\ p[2] \in Nat /\ p = <<p[1], p[2]>>
        /\ p[2] \in 1..Len(PartOf(sys, ts, p[1]))
        /\ ItemAt(sys, ts, p) = PartOf(sys, ts, p[1])[p[2]]
    BY <1>1, PlaceIs
  <2> DEFINE n == IF p[1] < r THEN p[1] ELSE p[1] - 1
  <2>2. n \in 0..top /\ PartOf(sys, ts2, n) = PartOf(sys, ts, p[1])
    <3>1. CASE p[1] < r
      BY <1>1, <1>2, <2>1, <3>1
    <3>2. CASE ~(p[1] < r)
      <4>1. p[1] - 1 \in 0..top /\ ~(p[1] - 1 < r) /\ (p[1] - 1) + 1 = p[1]
        BY <1>1, <1>3, <2>1, <3>2
      <4>2. QED
        BY <1>2, <3>2, <4>1
    <3>3. QED
      BY <3>1, <3>2
  <2> HIDE DEF n
  <2>3. /\ <<n, p[2]>> \in PlacesIn(sys, ts2)
        /\ ItemAt(sys, ts2, <<n, p[2]>>) = PartOf(sys, ts2, n)[p[2]]
    <3>1. n \in 0..Len(ts2) /\ p[2] \in 1..Len(PartOf(sys, ts2, n))
      BY <1>1, <2>1, <2>2 DEF top
    <3>2. QED
      BY <3>1, PlaceAt
  <2>4. ItemAt(sys, ts2, <<n, p[2]>>) = ItemAt(sys, ts, p)
    BY <2>1, <2>2, <2>3
  <2>5. QED
    BY <2>3, <2>4 DEF Has
<1>4. ASSUME NEW p \in PlacesIn(sys, ts2)
      PROVE  /\ p[1] \in 0..top /\ p[2] \in Nat /\ p = <<p[1], p[2]>>
             /\ back[p] = Up(p, r)
             /\ back[p] \in PlacesIn(sys, ts)
             /\ ItemAt(sys, ts, back[p]) = ItemAt(sys, ts2, p)
  <2>1. /\ p[1] \in 0..top /\ p[2] \in Nat /\ p = <<p[1], p[2]>>
        /\ p[2] \in 1..Len(PartOf(sys, ts2, p[1]))
        /\ ItemAt(sys, ts2, p) = PartOf(sys, ts2, p[1])[p[2]]
    BY PlaceIs DEF top
  <2>2. back[p] = Up(p, r)
    BY DEF back, Higher
  <2> DEFINE n == IF p[1] < r THEN p[1] ELSE p[1] + 1
  <2>3. n \in 0..(top + 1) /\ PartOf(sys, ts2, p[1]) = PartOf(sys, ts, n)
    BY <1>1, <1>2, <2>1
  <2>4. back[p] = <<n, p[2]>>
    BY <2>1, <2>2 DEF Up
  <2> HIDE DEF n
  <2>5. /\ <<n, p[2]>> \in PlacesIn(sys, ts)
        /\ ItemAt(sys, ts, <<n, p[2]>>) = PartOf(sys, ts, n)[p[2]]
    <3>1. n \in 0..Len(ts) /\ p[2] \in 1..Len(PartOf(sys, ts, n))
      BY <1>1, <2>1, <2>3
    <3>2. QED
      BY <3>1, PlaceAt
  <2>6. QED
    BY <2>1, <2>2, <2>3, <2>4, <2>5
<1>5. ASSUME NEW p \in PlacesIn(sys, ts2), NEW q \in PlacesIn(sys, ts2)
      PROVE  /\ back[p] = back[q] => p = q
             /\ Precedes(back[p], back[q]) => Precedes(p, q)
  <2> DEFINE a == p[1]
             b == q[1]
             m == p[2]
             n == q[2]
             a2 == IF a < r THEN a ELSE a + 1
             b2 == IF b < r THEN b ELSE b + 1
  <2>1. /\ a \in Nat /\ b \in Nat /\ m \in Nat /\ n \in Nat
        /\ p = <<a, m>> /\ q = <<b, n>>
    <3>1. a \in 0..top /\ m \in Nat /\ p = <<a, m>>
      BY <1>4
    <3>2. b \in 0..top /\ n \in Nat /\ q = <<b, n>>
      BY <1>4
    <3> HIDE DEF a, b, m, n
    <3>3. QED
      BY <1>1, <3>1, <3>2
  <2>2. back[p] = <<a2, m>> /\ back[q] = <<b2, n>>
    BY <1>4, <2>1 DEF Up
  <2> HIDE DEF a, b, m, n
  <2>3. a2 = b2 => a = b
    BY <1>1, <2>1
  <2>4. a2 < b2 => a < b
    BY <1>1, <2>1
  <2> HIDE DEF a2, b2
  <2>5. QED
    BY <2>1, <2>2, <2>3, <2>4 DEF Precedes
<1>6. Carries(sys, ts, sys, ts2, back, {})
  BY <1>4, <1>5 DEF Carries
<1>7. QED
  BY <1>3, <1>4, <1>6 DEF back

(* The first turn goes into the system field.                              *)
Lifted(sys, ts, size) ==
  [p \in PlacesIn(sys, ts) |->
     IF p[1] # 0 THEN <<p[1] + 1, p[2]>>
     ELSE IF p[2] <= size THEN p ELSE <<1, p[2] - size>>]

LEMMA Absorbs ==
  ASSUME NEW sys \in Seq(Items), NEW ts \in Seq(TurnsOf),
         NEW sys2 \in Seq(Items), NEW ts2 \in Seq(TurnsOf),
         Len(ts) = Len(ts2) + 1,
         sys2 = sys \o PartOf(sys, ts, 1),
         \A n \in 1..Len(ts2) : PartOf(sys2, ts2, n) = PartOf(sys, ts, n + 1)
  PROVE  /\ Carries(sys, ts, sys2, ts2, Lifted(sys2, ts2, Len(sys)), {})
         /\ \A p \in PlacesIn(sys, ts) : Has(sys2, ts2, ItemAt(sys, ts, p))
<1> DEFINE size == Len(sys)
           c == PartOf(sys, ts, 1)
           more == Len(c)
           top == Len(ts2)
           back == Lifted(sys2, ts2, size)
<1>1. /\ top \in Nat /\ size \in Nat /\ Len(ts) = top + 1 /\ c \in Seq(Items) /\ more \in Nat
      /\ PartOf(sys, ts, 0) = sys /\ PartOf(sys2, ts2, 0) = sys2
  <2>1. 1 \in 0..Len(ts)
    OBVIOUS
  <2>2. QED
    BY <2>1, PartIs DEF PartOf
<1>2. /\ Len(sys2) = size + more
      /\ \A m \in 1..size : sys2[m] = sys[m]
      /\ \A m \in 1..more : sys2[size + m] = c[m]
  <2>1. sys2 = sys \o c
    OBVIOUS
  <2>2. QED
    BY <1>1, <2>1, ConcatIs
<1>3. ASSUME NEW n \in 1..top
      PROVE  PartOf(sys2, ts2, n) = PartOf(sys, ts, n + 1)
  OBVIOUS
<1> HIDE DEF size, c, more, top, back
<1>4. ASSUME NEW p \in PlacesIn(sys, ts)
      PROVE  Has(sys2, ts2, ItemAt(sys, ts, p))
  <2>1. /\ p[1] \in 0..(top + 1) /\ p[2] \in Nat
        /\ p[2] \in 1..Len(PartOf(sys, ts, p[1]))
        /\ ItemAt(sys, ts, p) = PartOf(sys, ts, p[1])[p[2]]
    BY <1>1, PlaceIs
  <2> DEFINE n == IF p[1] = 0 THEN 0 ELSE p[1] - 1
             m == IF p[1] = 1 THEN size + p[2] ELSE p[2]
  <2>2. /\ n \in 0..top /\ m \in 1..Len(PartOf(sys2, ts2, n))
        /\ PartOf(sys2, ts2, n)[m] = PartOf(sys, ts, p[1])[p[2]]
    <3>1. CASE p[1] = 0
      <4>1. p[2] \in 1..size
        BY <1>1, <2>1, <3>1 DEF size
      <4>2. p[2] \in 1..(size + more) /\ sys2[p[2]] = sys[p[2]]
        BY SMTT(30), <1>1, <1>2, <4>1
      <4>3. n = 0 /\ m = p[2] /\ n \in 0..top
        BY <1>1, <3>1
      <4> HIDE DEF n, m
      <4>4. QED
        BY <1>1, <1>2, <3>1, <4>2, <4>3
    <3>2. CASE p[1] = 1
      <4>1. p[2] \in 1..more
        BY <2>1, <3>2 DEF c, more
      <4>2. size + p[2] \in 1..(size + more)
        BY <1>1, <4>1
      <4>3. sys2[size + p[2]] = c[p[2]]
        BY <1>2, <4>1
      <4>4. n = 0 /\ m = size + p[2] /\ n \in 0..top
        BY <1>1, <3>2
      <4> HIDE DEF n, m
      <4>5. QED
        BY <1>1, <1>2, <3>2, <4>2, <4>3, <4>4 DEF c
    <3>3. CASE p[1] # 0 /\ p[1] # 1
      <4> DEFINE a == p[1]
      <4>1. a - 1 \in 1..top /\ (a - 1) + 1 = a
        <5>1. a \in 0..(top + 1) /\ a # 0 /\ a # 1
          BY <2>1, <3>3
        <5> HIDE DEF a
        <5>2. QED
          BY <1>1, <5>1
      <4>2. PartOf(sys2, ts2, p[1] - 1) = PartOf(sys, ts, p[1])
        BY <1>3, <4>1
      <4>3. QED
        BY <2>1, <3>3, <4>1, <4>2
    <3>4. QED
      BY <3>1, <3>2, <3>3
  <2> HIDE DEF n, m
  <2>3. <<n, m>> \in PlacesIn(sys2, ts2) /\ ItemAt(sys2, ts2, <<n, m>>) = PartOf(sys2, ts2, n)[m]
    <3>1. n \in 0..Len(ts2)
      BY <2>2 DEF top
    <3>2. QED
      BY <2>2, <3>1, PlaceAt
  <2>4. ItemAt(sys2, ts2, <<n, m>>) = ItemAt(sys, ts, p)
    BY <2>1, <2>2, <2>3
  <2>5. QED
    BY <2>3, <2>4 DEF Has
<1>5. ASSUME NEW p \in PlacesIn(sys2, ts2)
      PROVE  /\ p[1] \in Nat /\ p[2] \in Nat \ {0} /\ p = <<p[1], p[2]>>
             /\ back[p] = (IF p[1] # 0 THEN <<p[1] + 1, p[2]>>
                           ELSE IF p[2] <= size THEN <<0, p[2]>> ELSE <<1, p[2] - size>>)
             /\ back[p] \in PlacesIn(sys, ts)
             /\ ItemAt(sys, ts, back[p]) = ItemAt(sys2, ts2, p)
  <2>1. /\ p[1] \in 0..top /\ p[2] \in Nat /\ p = <<p[1], p[2]>>
        /\ p[2] \in 1..Len(PartOf(sys2, ts2, p[1]))
        /\ ItemAt(sys2, ts2, p) = PartOf(sys2, ts2, p[1])[p[2]]
    BY PlaceIs DEF top
  <2> DEFINE n == IF p[1] # 0 THEN p[1] + 1 ELSE IF p[2] <= size THEN 0 ELSE 1
             m == IF p[1] = 0 /\ ~(p[2] <= size) THEN p[2] - size ELSE p[2]
  <2>2. back[p] = <<n, m>>
    BY <2>1 DEF back, Lifted
  <2>3. /\ n \in 0..(top + 1) /\ m \in 1..Len(PartOf(sys, ts, n))
        /\ PartOf(sys2, ts2, p[1])[p[2]] = PartOf(sys, ts, n)[m]
    <3>1. CASE p[1] # 0
      <4>1. p[1] \in 1..top /\ p[1] + 1 \in 0..(top + 1)
        BY SMTT(30), <1>1, <2>1, <3>1
      <4>2. QED
        BY <1>3, <2>1, <3>1, <4>1
    <3>2. CASE p[1] = 0 /\ p[2] <= size
      <4>1. p[2] \in 1..size
        BY <1>1, <2>1, <3>2
      <4>2. QED
        BY <1>1, <1>2, <3>2, <4>1 DEF size
    <3>3. CASE p[1] = 0 /\ ~(p[2] <= size)
      <4>1. p[2] \in 1..(size + more)
        BY <1>1, <1>2, <2>1, <3>3
      <4> DEFINE a == p[2]
      <4>2. a - size \in 1..more /\ size + (a - size) = a
        <5>1. a \in 1..(size + more) /\ ~(a <= size)
          BY <3>3, <4>1
        <5> HIDE DEF a
        <5>2. QED
          BY <1>1, <5>1
      <4>3. sys2[p[2]] = c[p[2] - size]
        BY <1>2, <4>2
      <4>4. 1 \in 0..(top + 1)
        BY <1>1
      <4>5. QED
        BY <1>1, <3>3, <4>2, <4>3, <4>4 DEF c, more
    <3>4. QED
      BY <3>1, <3>2, <3>3
  <2>4. p[2] \in Nat \ {0} /\ p[1] \in Nat
    <3>1. Len(PartOf(sys2, ts2, p[1])) \in Nat
      BY <2>1, PartIs DEF top
    <3>2. QED
      BY <1>1, <2>1, <3>1
  <2>5. back[p] = (IF p[1] # 0 THEN <<p[1] + 1, p[2]>>
                   ELSE IF p[2] <= size THEN <<0, p[2]>> ELSE <<1, p[2] - size>>)
    BY <2>2
  <2> HIDE DEF n, m
  <2>6. <<n, m>> \in PlacesIn(sys, ts) /\ ItemAt(sys, ts, <<n, m>>) = PartOf(sys, ts, n)[m]
    <3>1. n \in 0..Len(ts)
      BY <1>1, <2>3
    <3>2. QED
      BY <2>3, <3>1, PlaceAt
  <2>7. QED
    BY <2>1, <2>2, <2>3, <2>4, <2>5, <2>6
<1>6. ASSUME NEW p \in PlacesIn(sys2, ts2), NEW q \in PlacesIn(sys2, ts2)
      PROVE  /\ back[p] = back[q] => p = q
             /\ Precedes(back[p], back[q]) => Precedes(p, q)
  <2> DEFINE a == p[1]
             b == q[1]
             m == p[2]
             n == q[2]
             a2 == IF a # 0 THEN a + 1 ELSE IF m <= size THEN 0 ELSE 1
             b2 == IF b # 0 THEN b + 1 ELSE IF n <= size THEN 0 ELSE 1
             m2 == IF a = 0 /\ ~(m <= size) THEN m - size ELSE m
             n2 == IF b = 0 /\ ~(n <= size) THEN n - size ELSE n
  <2>1. /\ a \in Nat /\ b \in Nat /\ m \in Nat \ {0} /\ n \in Nat \ {0}
        /\ p = <<a, m>> /\ q = <<b, n>>
    BY <1>5
  <2>2. back[p] = <<a2, m2>> /\ back[q] = <<b2, n2>>
    BY <1>5, <2>1
  <2> HIDE DEF a, b, m, n
  <2>3. (a2 = b2 /\ m2 = n2) => (a = b /\ m = n)
    BY <1>1, <2>1
  <2>4. (a2 < b2 \/ (a2 = b2 /\ m2 < n2)) => (a < b \/ (a = b /\ m < n))
    BY <1>1, <2>1
  <2> HIDE DEF a2, b2, m2, n2
  <2>5. QED
    BY <2>1, <2>2, <2>3, <2>4 DEF Precedes
<1>7. Carries(sys, ts, sys2, ts2, back, {})
  BY <1>5, <1>6 DEF Carries
<1>8. QED
  BY <1>4, <1>7 DEF back, size

-----------------------------------------------------------------------------
(* What the array operations do to the turns.                              *)
OneMore(s, r, x, s2) ==
  \A n \in 1..(Len(s) + 1) : s2[n] = IF n < r THEN s[n] ELSE IF n = r THEN x ELSE s[n - 1]

(* InsertAt and RemoveAt, position by position.                            *)
LEMMA InsertIs ==
  ASSUME NEW S, NEW s \in Seq(S), NEW r \in 1..(Len(s) + 1), NEW x \in S
  PROVE  /\ InsertAt(s, r, x) \in Seq(S) /\ Len(InsertAt(s, r, x)) = Len(s) + 1
         /\ OneMore(s, r, x, InsertAt(s, r, x))
<1> DEFINE top == Len(s)
           a == SubSeq(s, 1, r - 1)
           b == SubSeq(s, r, top)
           ax == a \o <<x>>
<1>1. top \in Nat /\ r \in 1..(top + 1) /\ r \in Int /\ top \in Int /\ r - 1 \in Int
  OBVIOUS
<1>2. a \in Seq(S) /\ Len(a) = r - 1 /\ \A i \in 1..(r - 1) : a[i] = s[i]
  <2>1. \A i \in 1..(r - 1) : s[i] \in S
    BY <1>1
  <2>2. /\ a \in Seq(S) /\ Len(a) = (IF 1 <= r - 1 THEN (r - 1) - 1 + 1 ELSE 0)
        /\ \A i \in 1..((r - 1) - 1 + 1) : a[i] = s[1 + i - 1]
    BY <1>1, <2>1, SubSeqProperties, 1 \in Int
  <2> HIDE DEF a, top
  <2>3. QED
    BY <1>1, <2>2
<1>3. b \in Seq(S) /\ Len(b) = top + 1 - r /\ \A i \in 1..(top + 1 - r) : b[i] = s[r + i - 1]
  <2>1. \A i \in r..top : s[i] \in S
    BY <1>1
  <2>2. /\ b \in Seq(S) /\ Len(b) = (IF r <= top THEN top - r + 1 ELSE 0)
        /\ \A i \in 1..(top - r + 1) : b[i] = s[r + i - 1]
    BY <1>1, <2>1, SubSeqProperties
  <2> HIDE DEF b, top
  <2>3. QED
    BY <1>1, <2>2
<1>4. InsertAt(s, r, x) = ax \o b
  BY DEF InsertAt
<1> HIDE DEF a, b, top
<1>5. ax \in Seq(S) /\ Len(ax) = r /\ ax[r] = x /\ \A i \in 1..(r - 1) : ax[i] = a[i]
  BY <1>1, <1>2
<1> HIDE DEF ax
<1>6. /\ ax \o b \in Seq(S) /\ Len(ax \o b) = top + 1
      /\ \A i \in 1..(top + 1) : (ax \o b)[i] = IF i <= r THEN ax[i] ELSE b[i - r]
  <2>1. /\ ax \o b \in Seq(S) /\ Len(ax \o b) = Len(ax) + Len(b)
        /\ \A i \in 1..(Len(ax) + Len(b)) : (ax \o b)[i] = IF i <= Len(ax) THEN ax[i] ELSE b[i - Len(ax)]
    BY <1>3, <1>5, ConcatProperties
  <2>2. Len(ax) + Len(b) = top + 1
    BY <1>1, <1>3, <1>5
  <2>3. QED
    BY <1>5, <2>1, <2>2
<1> DEFINE w == ax \o b
<1>7. w \in Seq(S) /\ Len(w) = top + 1 /\ \A i \in 1..(top + 1) : w[i] = IF i <= r THEN ax[i] ELSE b[i - r]
  BY <1>6
<1> HIDE DEF w
<1>8. ASSUME NEW n \in 1..(top + 1)
      PROVE  w[n] = IF n < r THEN s[n] ELSE IF n = r THEN x ELSE s[n - 1]
  <2>1. CASE n < r
    BY <1>1, <1>2, <1>5, <1>7, <2>1
  <2>2. CASE n = r
    BY <1>1, <1>5, <1>7, <2>2
  <2>3. CASE n > r
    <3>1. n - r \in 1..(top + 1 - r) /\ r + (n - r) - 1 = n - 1 /\ ~(n <= r)
      BY <1>1, <2>3
    <3>2. b[n - r] = s[n - 1]
      BY <1>3, <3>1
    <3>3. QED
      BY <1>1, <1>7, <2>3, <3>1, <3>2
  <2>4. QED
    BY <1>1, <2>1, <2>2, <2>3
<1>9. QED
  BY <1>4, <1>7, <1>8 DEF w, top, OneMore

LEMMA RemoveIs ==
  ASSUME NEW S, NEW s \in Seq(S), NEW r \in 1..Len(s)
  PROVE  /\ RemoveAt(s, r) \in Seq(S) /\ Len(s) = Len(RemoveAt(s, r)) + 1
         /\ \A n \in 1..Len(RemoveAt(s, r)) :
              RemoveAt(s, r)[n] = IF n < r THEN s[n] ELSE s[n + 1]
<1> DEFINE top == Len(s)
           a == SubSeq(s, 1, r - 1)
           b == SubSeq(s, r + 1, top)
           w == a \o b
<1>1. top \in Nat /\ r \in 1..top /\ r + 1 \in Int /\ top \in Int /\ r - 1 \in Int
  OBVIOUS
<1>2. a \in Seq(S) /\ Len(a) = r - 1 /\ \A i \in 1..(r - 1) : a[i] = s[i]
  <2>1. \A i \in 1..(r - 1) : s[i] \in S
    BY <1>1
  <2>2. /\ a \in Seq(S) /\ Len(a) = (IF 1 <= r - 1 THEN (r - 1) - 1 + 1 ELSE 0)
        /\ \A i \in 1..((r - 1) - 1 + 1) : a[i] = s[1 + i - 1]
    BY <1>1, <2>1, SubSeqProperties, 1 \in Int
  <2> HIDE DEF a, top
  <2>3. QED
    BY <1>1, <2>2
<1>3. b \in Seq(S) /\ Len(b) = top - r /\ \A i \in 1..(top - r) : b[i] = s[r + i]
  <2>1. \A i \in (r + 1)..top : s[i] \in S
    BY <1>1
  <2>2. /\ b \in Seq(S) /\ Len(b) = (IF r + 1 <= top THEN top - (r + 1) + 1 ELSE 0)
        /\ \A i \in 1..(top - (r + 1) + 1) : b[i] = s[(r + 1) + i - 1]
    BY <1>1, <2>1, SubSeqProperties
  <2> HIDE DEF b, top
  <2>3. top - (r + 1) + 1 = top - r /\ Len(b) = top - r
    BY <1>1, <2>2
  <2>4. ASSUME NEW i \in 1..(top - r)
        PROVE  b[i] = s[r + i]
    <3>1. (r + 1) + i - 1 = r + i
      BY <1>1
    <3>2. QED
      BY <2>2, <2>3, <3>1
  <2>5. QED
    BY <2>2, <2>3, <2>4
<1>4. RemoveAt(s, r) = w
  BY DEF RemoveAt
<1> HIDE DEF a, b, top
<1>5. /\ w \in Seq(S) /\ Len(w) = top - 1
      /\ \A i \in 1..(top - 1) : w[i] = IF i <= r - 1 THEN a[i] ELSE b[i - (r - 1)]
  <2>1. /\ a \o b \in Seq(S) /\ Len(a \o b) = Len(a) + Len(b)
        /\ \A i \in 1..(Len(a) + Len(b)) : (a \o b)[i] = IF i <= Len(a) THEN a[i] ELSE b[i - Len(a)]
    BY <1>2, <1>3, ConcatProperties
  <2>2. Len(a) + Len(b) = top - 1
    BY <1>1, <1>2, <1>3
  <2>3. QED
    BY <1>2, <2>1, <2>2
<1> HIDE DEF w
<1>6. ASSUME NEW n \in 1..(top - 1)
      PROVE  w[n] = IF n < r THEN s[n] ELSE s[n + 1]
  <2>1. CASE n < r
    BY <1>1, <1>2, <1>5, <2>1
  <2>2. CASE ~(n < r)
    <3>1. n - (r - 1) \in 1..(top - r) /\ r + (n - (r - 1)) = n + 1 /\ ~(n <= r - 1)
      BY <1>1, <2>2
    <3>2. b[n - (r - 1)] = s[n + 1]
      BY <1>3, <3>1
    <3>3. QED
      BY <1>5, <2>2, <3>1, <3>2
  <2>3. QED
    BY <2>1, <2>2
<1>7. Len(w) \in Nat /\ top = Len(w) + 1
  BY <1>1, <1>5
<1>8. \A n \in 1..Len(w) : w[n] = IF n < r THEN s[n] ELSE s[n + 1]
  BY <1>5, <1>6
<1>9. QED
  BY <1>4, <1>5, <1>7, <1>8 DEF top

(* Turns with a turn more.                                                 *)
LEMMA TurnIs ==
  ASSUME NEW role \in Voices, NEW c \in Seq(Items)
  PROVE  Turn(role, c) \in TurnsOf /\ Turn(role, c).role = role /\ Turn(role, c).items = c
BY DEF Turn, TurnsOf

(* The same of the parts of a prompt: a turn is inserted.                  *)
LEMMA InsertedParts ==
  ASSUME NEW sys \in Seq(Items), NEW ts \in Seq(TurnsOf), NEW t \in TurnsOf,
         NEW r \in 1..(Len(ts) + 1)
  PROVE  LET ts2 == InsertAt(ts, r, t)
         IN /\ ts2 \in Seq(TurnsOf) /\ Len(ts2) = Len(ts) + 1 /\ t.items \in Seq(Items)
            /\ \A n \in 0..(Len(ts) + 1) :
                 PartOf(sys, ts2, n) = IF n < r THEN PartOf(sys, ts, n)
                                       ELSE IF n = r THEN t.items ELSE PartOf(sys, ts, n - 1)
<1> DEFINE ts2 == InsertAt(ts, r, t)
           top == Len(ts)
<1>1. /\ ts2 \in Seq(TurnsOf) /\ Len(ts2) = top + 1
      /\ \A n \in 1..(top + 1) :
           ts2[n] = IF n < r THEN ts[n] ELSE IF n = r THEN t ELSE ts[n - 1]
  <2> DEFINE S == TurnsOf
  <2>1. ts \in Seq(S) /\ t \in S
    OBVIOUS
  <2> HIDE DEF S
  <2>2. /\ ts2 \in Seq(S) /\ Len(ts2) = top + 1
        /\ \A n \in 1..(top + 1) :
             ts2[n] = IF n < r THEN ts[n] ELSE IF n = r THEN t ELSE ts[n - 1]
    BY <2>1, InsertIs DEF OneMore
  <2>3. QED
    BY <2>2 DEF S
<1>2. t.items \in Seq(Items) /\ top \in Nat /\ r \in 1..(top + 1)
  BY DEF TurnsOf
<1> HIDE DEF ts2, top
<1>3. ASSUME NEW n \in 0..(top + 1)
      PROVE  PartOf(sys, ts2, n) = IF n < r THEN PartOf(sys, ts, n)
                                   ELSE IF n = r THEN t.items ELSE PartOf(sys, ts, n - 1)
  <2>1. CASE n = 0
    BY <1>2, <2>1 DEF PartOf
  <2>2. CASE n # 0
    <3>1. n \in 1..(top + 1) /\ (n > r => n - 1 # 0)
      BY <1>2, <2>2
    <3>2. PartOf(sys, ts2, n) = ts2[n].items
      BY <2>2 DEF PartOf
    <3>3. CASE n < r
      BY <1>1, <2>2, <3>1, <3>2, <3>3 DEF PartOf
    <3>4. CASE n = r
      BY <1>1, <1>2, <3>1, <3>2, <3>4
    <3>5. CASE n > r
      <4>1. ~(n < r) /\ n # r
        BY <1>2, <3>5
      <4>2. PartOf(sys, ts, n - 1) = ts[n - 1].items
        BY <3>1, <3>5 DEF PartOf
      <4>3. QED
        BY <1>1, <3>1, <3>2, <4>1, <4>2
    <3>6. QED
      BY <1>2, <3>1, <3>3, <3>4, <3>5
  <2>3. QED
    BY <2>1, <2>2
<1>4. QED
  BY <1>1, <1>2, <1>3 DEF ts2, top

(* A turn is removed.                                                      *)
LEMMA RemovedParts ==
  ASSUME NEW sys \in Seq(Items), NEW ts \in Seq(TurnsOf), NEW r \in 1..Len(ts)
  PROVE  LET ts2 == RemoveAt(ts, r)
         IN /\ ts2 \in Seq(TurnsOf) /\ Len(ts) = Len(ts2) + 1
            /\ \A n \in 0..Len(ts2) :
                 PartOf(sys, ts2, n) = IF n < r THEN PartOf(sys, ts, n)
                                       ELSE PartOf(sys, ts, n + 1)
<1> DEFINE ts2 == RemoveAt(ts, r)
           top == Len(ts2)
<1>1. /\ ts2 \in Seq(TurnsOf) /\ Len(ts) = top + 1
      /\ \A n \in 1..top : ts2[n] = IF n < r THEN ts[n] ELSE ts[n + 1]
  BY RemoveIs
<1> HIDE DEF ts2
<1>2. top \in Nat /\ r \in 1..(top + 1)
  BY <1>1
<1> HIDE DEF top
<1>3. ASSUME NEW n \in 0..top
      PROVE  PartOf(sys, ts2, n) = IF n < r THEN PartOf(sys, ts, n) ELSE PartOf(sys, ts, n + 1)
  <2>1. CASE n = 0
    BY <1>2, <2>1 DEF PartOf
  <2>2. CASE n # 0
    <3>1. n \in 1..top /\ n + 1 # 0
      BY <1>2, <2>2
    <3>2. PartOf(sys, ts2, n) = ts2[n].items
      BY <2>2 DEF PartOf
    <3>3. PartOf(sys, ts, n) = ts[n].items /\ PartOf(sys, ts, n + 1) = ts[n + 1].items
      BY <2>2, <3>1 DEF PartOf
    <3>4. QED
      BY <1>1, <3>1, <3>2, <3>3
  <2>3. QED
    BY <2>1, <2>2
<1>4. QED
  BY <1>1, <1>3 DEF ts2, top

(* The turns with items added to one of them.                              *)
AddTo(ts, k, c) == [ts EXCEPT ![k].items = @ \o c]

(* Part k is longer by c.                                                  *)
GrownAt(sys, ts, sys2, ts2, k, c) ==
  /\ Len(ts2) = Len(ts)
  /\ PartOf(sys2, ts2, k) = PartOf(sys, ts, k) \o c
  /\ \A n \in 0..Len(ts) : n # k => PartOf(sys2, ts2, n) = PartOf(sys, ts, n)

OneLonger(ts, k, c, ts2) ==
  /\ \A n \in 1..Len(ts) : ts2[n].role = ts[n].role
  /\ \A n \in 1..Len(ts) : n # k => ts2[n] = ts[n]
  /\ ts2[k].items = ts[k].items \o c

(* Items are added to a turn.                                              *)
LEMMA AddedParts ==
  ASSUME NEW sys \in Seq(Items), NEW ts \in Seq(TurnsOf), NEW k \in 1..Len(ts),
         NEW c \in Seq(Items)
  PROVE  /\ AddTo(ts, k, c) \in Seq(TurnsOf) /\ Len(AddTo(ts, k, c)) = Len(ts)
         /\ OneLonger(ts, k, c, AddTo(ts, k, c))
         /\ GrownAt(sys, ts, sys, AddTo(ts, k, c), k, c)
<1> DEFINE ts2 == AddTo(ts, k, c)
           t == [ts[k] EXCEPT !.items = @ \o c]
           top == Len(ts)
<1>1. ts[k] \in TurnsOf /\ top \in Nat /\ k \in 1..top /\ k # 0
  OBVIOUS
<1>2. t \in TurnsOf /\ t.role = ts[k].role /\ t.items = ts[k].items \o c
  <2> DEFINE u == ts[k]
             d == u.items \o c
  <2>1. u \in TurnsOf /\ d \in Seq(Items) /\ t = [u EXCEPT !.items = d]
    BY <1>1 DEF TurnsOf
  <2> HIDE DEF u, d, t
  <2>2. t \in TurnsOf /\ t.role = u.role /\ t.items = d
    BY <2>1 DEF TurnsOf
  <2>3. QED
    BY <2>2 DEF u, d
<1>3. ts2 = [ts EXCEPT ![k] = t]
  BY DEF AddTo
<1> HIDE DEF ts2, t
<1>4. /\ ts2 \in Seq(TurnsOf) /\ Len(ts2) = top /\ ts2[k] = t
      /\ \A n \in 1..top : n # k => ts2[n] = ts[n]
  BY <1>1, <1>2, <1>3
<1> HIDE DEF top
<1>5. \A n \in 1..top : ts2[n].role = ts[n].role
  BY <1>2, <1>4
<1>6. PartOf(sys, ts2, k) = PartOf(sys, ts, k) \o c
  BY <1>1, <1>2, <1>4 DEF PartOf
<1>7. ASSUME NEW n \in 0..top, n # k
      PROVE  PartOf(sys, ts2, n) = PartOf(sys, ts, n)
  <2>1. CASE n = 0
    BY <2>1 DEF PartOf
  <2>2. CASE n # 0
    <3>1. n \in 1..top
      BY <1>1, <2>2
    <3>2. QED
      BY <1>4, <1>7, <2>2, <3>1 DEF PartOf
  <2>3. QED
    BY <2>1, <2>2
<1>8. QED
  BY <1>2, <1>4, <1>5, <1>6, <1>7 DEF ts2, top, OneLonger, GrownAt

-----------------------------------------------------------------------------
(* Messages, and which of them have been read.                             *)
LEMMA KindsAre ==
  ASSUME kinds \in Seq(Kinds), NEW i \in DOMAIN kinds
  PROVE  i \in Nat \ {0} /\ i <= Len(kinds) /\ kinds[i] \in Kinds /\ DOMAIN kinds = 1..Len(kinds)
         /\ Len(kinds) \in Nat
OBVIOUS

LEMMA ItemsAre ==
  ASSUME NEW i \in Nat
  PROVE  /\ Word(i) \in Items /\ Word(i).from = "client" /\ Word(i).of = i
         /\ InjItem(i) \in Items /\ InjItem(i).from = "injection" /\ InjItem(i).of = i
         /\ InjItem(i).is = "text"
         /\ \A where \in {"prepend", "append"} :
              /\ PresetItem(where) \in Items /\ PresetItem(where).from = where
              /\ PresetItem(where).is = "text"
         /\ \A is \in {"text", "call", "result"} :
              /\ ClientItem(is, i) \in Items /\ ClientItem(is, i).from = "client"
              /\ ClientItem(is, i).is = is /\ ClientItem(is, i).of = i
BY DEF Word, ClientItem, InjItem, PresetItem, Items

LEMMA WordIs ==
  ASSUME kinds \in Seq(Kinds), NEW i \in DOMAIN kinds
  PROVE  /\ Word(i).is = (IF kinds[i] = "calls" THEN "call"
                          ELSE IF kinds[i] = "tool" THEN "result" ELSE "text")
         /\ kinds[i] \in {"system", "user", "assistant", "blank"} => Word(i) = ClientItem("text", i)
         /\ kinds[i] = "calls" => Word(i) = ClientItem("call", i)
         /\ kinds[i] = "tool" => Word(i) = ClientItem("result", i)
BY KindsAre DEF Word, ClientItem, Kinds

LEMMA ContentIs ==
  ASSUME kinds \in Seq(Kinds), NEW i \in DOMAIN kinds
  PROVE  /\ Content(i) \in Seq(Items)
         /\ kinds[i] = "blank" => Content(i) = <<>> /\ Len(Content(i)) = 0
         /\ kinds[i] # "blank" =>
              Content(i) = <<Word(i)>> /\ Len(Content(i)) = 1 /\ Content(i)[1] = Word(i)
<1>1. i \in Nat /\ kinds[i] \in Kinds
  BY KindsAre
<1>2. CASE kinds[i] = "blank"
  BY <1>2 DEF Content
<1>3. CASE kinds[i] # "blank"
  <2>1. Content(i) = <<Word(i)>>
    BY <1>1, <1>3 DEF Content, Word, Kinds
  <2>2. Word(i) \in Items
    BY <1>1, ItemsAre
  <2> DEFINE w == Word(i)
  <2> HIDE DEF w
  <2>3. QED
    BY <1>3, <2>1, <2>2 DEF w
<1>4. QED
  BY <1>2, <1>3

LEMMA RoleIs ==
  ASSUME NEW kind \in Kinds
  PROVE  /\ Role(kind) \in {"user", "assistant", "system", "tool"} /\ Role(kind) \in Voices
         /\ Role(kind) = "assistant" <=> kind \in {"assistant", "calls"}
         /\ Role(kind) = "user" <=> kind \in {"user", "blank"}
         /\ Role(kind) = "system" <=> kind = "system"
         /\ Role(kind) = "tool" <=> kind = "tool"
BY DEF Role, Kinds, Voices

(* Taking the first message of an increasing body.                         *)
LEMMA TakeFirst ==
  ASSUME Shape, InOrder, body # <<>>, \A n \in DOMAIN body : body[n] \notin Held
  PROVE  LET i == Head(body)
         IN /\ i \in DOMAIN kinds /\ i \notin Read /\ i = body[1]
            /\ Tail(body) \in Seq(DOMAIN kinds) /\ Increasing(Tail(body))
            /\ \A n \in DOMAIN body : i <= body[n]
            /\ \A k \in DOMAIN kinds :
                 k \in Read \cup {i} <=>
                   k \notin Held /\ \A n \in DOMAIN Tail(body) : Tail(body)[n] # k
            /\ \A n \in DOMAIN Tail(body) : i < Tail(body)[n] /\ Tail(body)[n] = body[n + 1]
            /\ \A k \in DOMAIN kinds : k < i /\ kinds[k] # "system" => k \in Read
            /\ \A k \in Read : kinds[k] # "system" => k < i
<1> DEFINE S == DOMAIN kinds
           top == Len(body)
           rest == Tail(body)
           i == Head(body)
<1>1. body \in Seq(S) /\ Increasing(body)
  BY DEF Shape
<1>2. S \subseteq Nat
  BY DEF Shape
<1> HIDE DEF S
<1>3. /\ top \in Nat \ {0} /\ DOMAIN body = 1..top /\ i = body[1] /\ i \in S
      /\ rest \in Seq(S) /\ DOMAIN rest = 1..(top - 1)
      /\ \A n \in 1..(top - 1) : rest[n] = body[n + 1]
      /\ \A n \in 1..top : body[n] \in S
  BY <1>1
<1> HIDE DEF top, rest, i
<1>4. ASSUME NEW m \in 1..top, NEW n \in 1..top, m < n
      PROVE  body[m] < body[n]
  BY <1>1, <1>3, <1>4 DEF Increasing
<1>5. Increasing(rest)
  <2>1. SUFFICES ASSUME NEW m \in 1..(top - 1), NEW n \in 1..(top - 1), m < n
                 PROVE  rest[m] < rest[n]
    BY <1>3 DEF Increasing
  <2>2. m + 1 \in 1..top /\ n + 1 \in 1..top /\ m + 1 < n + 1
    BY <1>3, <2>1
  <2>3. QED
    BY <1>3, <1>4, <2>2
<1>6. ASSUME NEW n \in 1..(top - 1)
      PROVE  i < rest[n]
  <2>1. 1 \in 1..top /\ n + 1 \in 1..top /\ 1 < n + 1
    BY <1>3
  <2>2. QED
    BY <1>3, <1>4, <2>1
<1>7. ASSUME NEW n \in 1..top
      PROVE  i <= body[n]
  <2>1. CASE n = 1
    BY <1>2, <1>3, <2>1
  <2>2. CASE n # 1
    <3>1. n - 1 \in 1..(top - 1) /\ (n - 1) + 1 = n
      BY <1>3, <2>2
    <3>2. i < body[n]
      BY <1>3, <1>6, <3>1
    <3>3. i \in Nat /\ body[n] \in Nat
      BY <1>2, <1>3
    <3>4. QED
      BY <3>2, <3>3
  <2>3. QED
    BY <2>1, <2>2
<1>8. i \notin Read
  BY <1>3 DEF Read
<1>9. ASSUME NEW k \in S
      PROVE  k \in Read \cup {i} <=> k \notin Held /\ \A n \in 1..(top - 1) : rest[n] # k
  <2>1. k \in Read <=> k \notin Held /\ \A n \in 1..top : body[n] # k
    BY <1>3 DEF Read, S
  <2> i \notin Held
    BY <1>3
  <2>2. ASSUME k = i, NEW n \in 1..(top - 1)
        PROVE  rest[n] # k
    <3>1. i < rest[n]
      BY <1>6, <2>2
    <3>2. i \in Nat /\ rest[n] \in Nat
      <4>1. rest[n] \in S
        BY <1>3, <2>2
      <4>2. QED
        BY <1>2, <1>3, <4>1
    <3>3. QED
      BY <2>2, <3>1, <3>2
  <2>3. ASSUME k \in Read, NEW n \in 1..(top - 1)
        PROVE  rest[n] # k
    <3>1. n + 1 \in 1..top
      BY <1>3
    <3>2. QED
      BY <1>3, <2>1, <2>3, <3>1
  <2>4. ASSUME \A n \in 1..(top - 1) : rest[n] # k, k # i, k \notin Held
        PROVE  k \in Read
    <3>1. ASSUME NEW n \in 1..top
          PROVE  body[n] # k
      <4>1. CASE n = 1
        BY <1>3, <2>4, <4>1
      <4>2. CASE n # 1
        <5>1. n - 1 \in 1..(top - 1) /\ (n - 1) + 1 = n
          BY <1>3, <4>2
        <5>2. QED
          BY <1>3, <2>4, <5>1
      <4>3. QED
        BY <4>1, <4>2
    <3>2. QED
      BY <2>1, <2>4, <3>1
  <2>5. QED
    BY <2>1, <2>2, <2>3, <2>4
<1>10. ASSUME NEW k \in S, k < i, kinds[k] # "system"
       PROVE  k \in Read
  <2>1. ASSUME NEW n \in 1..top
        PROVE  body[n] # k
    <3>1. i <= body[n] /\ i \in Nat /\ body[n] \in Nat /\ k \in Nat
      BY <1>2, <1>3, <1>7
    <3>2. QED
      BY <1>10, <3>1
  <2>2. k \notin Held
    BY <1>10 DEF Held, IsCard
  <2>3. QED
    BY <1>3, <2>1, <2>2 DEF Read, S
<1>11. \A k \in Read : kinds[k] # "system" => k < i
  BY <1>3 DEF InOrder
<1>12. QED
  BY <1>3, <1>5, <1>6, <1>7, <1>8, <1>9, <1>10, <1>11 DEF S, rest, i

-----------------------------------------------------------------------------
(* The history of a prompt: what each pass leaves for the next one.        *)
Base == Shape /\ Progress /\ Prepended /\ Appended /\ InOrder

(* Who is held depends on what is still to be appended.                    *)
LEMMA SameRead ==
  ASSUME kinds' = kinds, preset' = preset, injs' = injs, append' = append
  PROVE  /\ Held' = Held /\ Injected' = Injected
         /\ Ending => Ending'
         /\ body' = body => Read' = Read
<1>1. Injected' = Injected
  BY DEF Injected
<1>2. \A i : Late(i)' = Late(i)
  BY DEF Late, Word, ClientItem, PresetItem
<1>3. Held' = Held
  BY <1>1, <1>2 DEF Held, IsCard
<1>4. Ending => Ending'
  BY <1>1, <1>2, <1>3 DEF Ending
<1>5. body' = body => Read' = Read
  BY <1>3 DEF Read
<1>6. QED
  BY <1>1, <1>3, <1>4, <1>5

(* At most one message is the card, and nothing that was said.             *)
LEMMA HeldIs ==
  ASSUME kinds \in Seq(Kinds)
  PROVE  /\ Held \subseteq DOMAIN kinds /\ Read \subseteq DOMAIN kinds
         /\ \A i \in Held : i \notin Read /\ kinds[i] = "system" /\ IsCard(i)
         /\ \A i, k \in DOMAIN kinds : IsCard(i) /\ IsCard(k) => i = k
         /\ Injected => Held = {i \in DOMAIN kinds : IsCard(i)}
         /\ \A x : <<x>> # <<>> /\ \A i : Late(i) # <<x>> /\ Late(i) # <<>>
         /\ ~Injected /\ (append = <<>> \/ append = <<PresetItem("append")>>) => Held = {}
<1>1. ASSUME NEW i \in DOMAIN kinds, NEW k \in DOMAIN kinds, IsCard(i), IsCard(k)
      PROVE  i = k
  <2>1. i \in Nat \ {0} /\ k \in Nat \ {0}
    BY KindsAre
  <2>2. ~(i < k) /\ ~(k < i)
    BY <1>1, <2>1 DEF IsCard
  <2>3. QED
    BY <2>1, <2>2
<1>2. ASSUME NEW x, NEW i
      PROVE  <<x>> # <<>> /\ Late(i) # <<x>> /\ Late(i) # <<>>
  <2> DEFINE a == PresetItem("append")
             w == Word(i)
  <2>1. Late(i) = <<a, w>>
    BY DEF Late
  <2> HIDE DEF a, w
  <2>2. Len(<<a, w>>) = 2 /\ Len(<<x>>) = 1 /\ Len(<<>>) = 0
    OBVIOUS
  <2>3. QED
    BY <2>1, <2>2
<1>3. \A i \in Held : i \notin Read /\ kinds[i] = "system" /\ IsCard(i)
  BY DEF Held, Read, IsCard
<1>4. Held \subseteq DOMAIN kinds /\ Read \subseteq DOMAIN kinds
  BY DEF Held, Read
<1>5. Injected => Held = {i \in DOMAIN kinds : IsCard(i)}
  BY DEF Held
<1>6. ~Injected /\ (append = <<>> \/ append = <<PresetItem("append")>>) => Held = {}
  BY <1>2 DEF Held
<1>7. QED
  BY <1>1, <1>2, <1>3, <1>4, <1>5, <1>6

(* The steps after the first keep what is held out of body.                *)
LEMMA AppendedOn ==
  ASSUME Base, kinds' = kinds, preset' = preset, injs' = injs, format' = format,
         stage # "received", stage' # "received",
         append' = append \/ append' = <<>>,
         stage' = "sent" => append' = <<>>,
         format # "openai" /\ stage' \in {"hoisted", "mapped", "stripping"} => append' = <<>>,
         \A n \in DOMAIN body' : \E m \in DOMAIN body : body'[n] = body[m]
  PROVE  Appended'
<1>1. Appended /\ kinds \in Seq(Kinds)
  BY DEF Base, Shape
<1>2. Injected' = Injected
  BY DEF Injected
<1>3. Held' \subseteq Held
  <2>1. CASE append' = append
    BY <2>1, SameRead
  <2>2. CASE append' = <<>>
    <3>1. \A i : IsCard(i)' <=> IsCard(i)
      BY DEF IsCard
    <3>2. \A i : Late(i)' # <<>>
      <4>1. \A i : Late(i)' = Late(i)
        BY DEF Late, Word, ClientItem, PresetItem
      <4>2. QED
        BY <1>1, <4>1, HeldIs
    <3>3. QED
      BY <1>2, <2>2, <3>1, <3>2 DEF Held
  <2>3. QED
    BY <2>1, <2>2
<1>4. Ending'
  <2>1. CASE append' = append
    BY <1>1, <2>1, SameRead DEF Appended
  <2>2. CASE append' = <<>>
    BY <2>2 DEF Ending
  <2>3. QED
    BY <2>1, <2>2
<1>5. OneCard'
  BY <1>1 DEF Appended, OneCard
<1>6. \A n \in DOMAIN body' : body'[n] \notin Held'
  BY <1>1, <1>3 DEF Appended
<1>7. QED
  BY <1>4, <1>5, <1>6 DEF Appended

(* At first no message has been read.                                      *)
LEMMA NothingRead ==
  ASSUME kinds \in Seq(Kinds), body = [i \in DOMAIN kinds |-> i]
  PROVE  body \in Seq(DOMAIN kinds) /\ Increasing(body) /\ Read = {}
<1>1. DOMAIN kinds = 1..Len(kinds) /\ Len(kinds) \in Nat
  OBVIOUS
<1>2. body \in Seq(DOMAIN kinds)
  BY <1>1
<1>3. Increasing(body)
  BY <1>1 DEF Increasing
<1>4. Read = {}
  BY DEF Read
<1>5. QED
  BY <1>2, <1>3, <1>4

(* Base holds at first, and every action keeps it.                         *)
LEMMA InitBase == PromptInit => Base
<1> SUFFICES ASSUME PromptInit PROVE Base
  OBVIOUS
<1>1. kinds \in Seq(Kinds)
  <2>1. PICK n \in 1..MaxMessages : kinds \in [1..n -> Kinds]
    BY DEF PromptInit
  <2>2. n \in Nat
    BY <2>1, PromptAssumption
  <2>3. QED
    BY <2>1, <2>2
<1>2. injs \in Seq(Injections)
  <2>1. PICK n \in 0..MaxInjections : injs \in [1..n -> Injections]
    BY DEF PromptInit
  <2>2. n \in Nat
    BY <2>1, PromptAssumption
  <2>3. QED
    BY <2>1, <2>2
<1>3. body \in Seq(DOMAIN kinds) /\ Increasing(body) /\ Read = {}
  BY <1>1, NothingRead DEF PromptInit
<1>4. Shape
  <2>1. /\ prepend \in Seq(Items) /\ append \in Seq(Items)
        /\ system \in Seq(Items) /\ turns \in Seq(TurnsOf)
    BY DEF PromptInit
  <2>2. todo \subseteq DOMAIN injs /\ placed \in [count : Nat, length : Nat]
    BY DEF PromptInit
  <2>3. format \in Formats /\ preset \in Presets /\ stage = "received"
    BY DEF PromptInit
  <2>4. QED
    BY <1>1, <1>2, <1>3, <2>1, <2>2, <2>3 DEF Shape
<1>5. Progress
  BY <1>3 DEF PromptInit, Progress, Converting
<1>6. Prepended /\ InOrder
  BY <1>3 DEF PromptInit, Prepended, InOrder
<1>7. Appended
  BY DEF PromptInit, Appended, Ending, OneCard
<1>8. QED
  BY <1>4, <1>5, <1>6, <1>7 DEF Base

(* A rich preset takes a system message over.                              *)
LEMMA WithoutIs ==
  ASSUME kinds \in Seq(Kinds), NEW i \in DOMAIN kinds
  PROVE  /\ Without(i) \in Seq(DOMAIN kinds) /\ Increasing(Without(i))
         /\ \A k \in DOMAIN kinds : k = i <=> \A n \in DOMAIN Without(i) : Without(i)[n] # k
<1> DEFINE top == Len(kinds)
           w == Without(i)
<1>1. top \in Nat /\ DOMAIN kinds = 1..top /\ i \in 1..top
  OBVIOUS
<1>2. /\ DOMAIN w = 1..(top - 1)
      /\ \A n \in 1..(top - 1) : w[n] = (IF n < i THEN n ELSE n + 1)
  BY DEF Without
<1>3. w = [n \in 1..(top - 1) |-> IF n < i THEN n ELSE n + 1]
  BY DEF Without
<1> HIDE DEF top, w
<1>4. w \in Seq(1..top)
  <2> DEFINE m == top - 1
             S == 1..top
  <2>1. m \in Nat
    BY <1>1
  <2>2. w \in [1..m -> S]
    BY <1>1, <1>3
  <2> HIDE DEF m, S
  <2>3. w \in Seq(S)
    BY <2>1, <2>2
  <2>4. QED
    BY <2>3 DEF S
<1>5. Increasing(w)
  BY <1>1, <1>2 DEF Increasing
<1>6. ASSUME NEW k \in 1..top
      PROVE  k = i <=> \A n \in 1..(top - 1) : w[n] # k
  <2>1. ASSUME k = i, NEW n \in 1..(top - 1)
        PROVE  w[n] # k
    BY <1>1, <1>2, <2>1
  <2>2. ASSUME k < i
        PROVE  k \in 1..(top - 1) /\ w[k] = k
    BY <1>1, <1>2, <2>2
  <2>3. ASSUME k > i
        PROVE  k - 1 \in 1..(top - 1) /\ w[k - 1] = k
    <3>1. k - 1 \in 1..(top - 1) /\ ~(k - 1 < i) /\ (k - 1) + 1 = k
      BY <1>1, <2>3
    <3>2. QED
      BY <1>2, <3>1
  <2>4. QED
    BY <1>1, <2>1, <2>2, <2>3
<1>7. QED
  BY <1>1, <1>2, <1>4, <1>5, <1>6 DEF w

(* The items that prepend and append may hold.                             *)
LEMMA BlocksAre ==
  ASSUME NEW where \in {"prepend", "append"}, NEW x \in Items
  PROVE  /\ <<PresetItem(where)>> \in Seq(Items)
         /\ <<PresetItem(where), x>> \in Seq(Items)
         /\ <<PresetItem(where)>> \o <<x>> = <<PresetItem(where), x>>
<1> DEFINE a == PresetItem(where)
<1>1. a \in Items
  BY DEF PresetItem, Items
<1> HIDE DEF a
<1>2. <<a>> \in Seq(Items) /\ <<a, x>> \in Seq(Items)
  BY <1>1
<1>3. <<a>> \o <<x>> = <<a, x>>
  <2> DEFINE s == <<a>>
             t == <<x>>
             u == s \o t
             v == <<a, x>>
  <2>1. s \in Seq(Items) /\ t \in Seq(Items) /\ Len(s) = 1 /\ Len(t) = 1 /\ s[1] = a /\ t[1] = x
    BY <1>1
  <2>2. v \in Seq(Items) /\ Len(v) = 2 /\ v[1] = a /\ v[2] = x
    BY <1>1
  <2> HIDE DEF s, t, v
  <2>3. /\ u \in Seq(Items) /\ Len(u) = Len(s) + Len(t)
        /\ \A m \in 1..Len(s) : u[m] = s[m]
        /\ \A m \in 1..Len(t) : u[Len(s) + m] = t[m]
    BY <2>1, ConcatIs
  <2> HIDE DEF u
  <2>4. Len(u) = 2 /\ u[1] = a /\ u[2] = x
    BY <2>1, <2>3
  <2>5. \A i \in 1..Len(u) : u[i] = v[i]
    BY <2>2, <2>4
  <2>6. u = v
    BY <2>2, <2>3, <2>4, <2>5, SeqEqual
  <2>7. QED
    BY <2>6 DEF u, s, t, v
<1>4. QED
  BY <1>2, <1>3 DEF a

LEMMA AssembleBase == Base /\ Assemble => Base'
<1> SUFFICES ASSUME Base, Assemble PROVE Base'
  OBVIOUS
<1>1. /\ stage = "received" /\ stage' = "assembled" /\ system' = system /\ turns' = turns
      /\ todo' = todo /\ placed' = placed /\ kinds' = kinds /\ format' = format
      /\ preset' = preset /\ injs' = injs
  BY DEF Assemble
<1>2. /\ kinds \in Seq(Kinds) /\ body \in Seq(DOMAIN kinds) /\ Increasing(body)
      /\ Read = {} /\ append = <<>> /\ OneCard
  BY <1>1 DEF Base, Shape, Progress, Appended
<1>3. /\ Held' = {i \in DOMAIN kinds : IsCard(i) /\ (Injected \/ append' = Late(i))}
      /\ Injected' = Injected /\ OneCard'
      /\ \A i : Late(i)' = Late(i)
  <2>1. \A i : Late(i)' = Late(i)
    BY <1>1 DEF Late, Word, ClientItem, PresetItem
  <2>2. Injected' = Injected /\ OneCard'
    BY <1>1, <1>2 DEF Injected, OneCard
  <2>3. \A i : IsCard(i)' <=> IsCard(i)
    BY <1>1 DEF IsCard
  <2>4. QED
    BY <1>1, <2>1, <2>2, <2>3 DEF Held
<1>4. Read' = {i \in DOMAIN kinds \ Held' : \A n \in DOMAIN body' : body'[n] # i}
  BY <1>1 DEF Read
<1> DEFINE a == <<PresetItem("append")>>
           b == <<PresetItem("prepend")>>
<1>5. /\ <<>> \in Seq(Items) /\ a \in Seq(Items) /\ b \in Seq(Items)
      /\ \A where : Own(where) = <<>> \/ Own(where) = <<PresetItem(where)>>
  <2>1. InjItem(0) \in Items /\ <<>> \in Seq(Items)
    BY ItemsAre
  <2>2. a \in Seq(Items) /\ b \in Seq(Items)
    BY <2>1, BlocksAre
  <2>3. QED
    BY <2>1, <2>2 DEF Own
<1>6. /\ prepend' \in Seq(Items) /\ append' \in Seq(Items)
      /\ body' \in Seq(DOMAIN kinds) /\ Increasing(body')
      /\ \/ prepend' = <<>> \/ prepend' = b
         \/ \E i \in Read' : prepend' = <<PresetItem("prepend"), Word(i)>>
      /\ \A i \in Read' : kinds[i] = "system" /\ prepend' = <<PresetItem("prepend"), Word(i)>>
      /\ \/ append' = <<>> \/ append' = a
         \/ ~Injected /\ \E i \in Held' : append' = Late(i)
      /\ \A n \in DOMAIN body' : body'[n] \notin Held'
  <2>1. ASSUME Untaken, body' = body
        PROVE  <1>6!:
    <3>1. /\ ~Injected /\ (prepend' = <<>> \/ prepend' = b) /\ (append' = <<>> \/ append' = a)
      BY <1>5, <2>1 DEF Untaken
    <3>2. Held' = {} /\ Held = {}
      BY <1>2, <1>3, <3>1, HeldIs DEF Held
    <3>3. Read' = {}
      BY <1>2, <1>4, <2>1, <3>2 DEF Read
    <3>4. QED
      BY <1>2, <1>5, <2>1, <3>1, <3>2, <3>3
  <2>2. ASSUME NEW i \in DOMAIN kinds, Taken(i), body' = Without(i)
        PROVE  <1>6!:
    <3>1. /\ IsCard(i) /\ kinds[i] = "system" /\ kinds[i] # "blank"
          /\ Own("append") = a /\ Own("prepend") = b
      BY <2>2 DEF Taken, IsCard, Own
    <3>2. Content(i) = <<Word(i)>> /\ i \in Nat
      BY <1>2, <3>1, ContentIs, KindsAre
    <3>3. /\ b \o Content(i) = <<PresetItem("prepend"), Word(i)>>
          /\ a \o Content(i) = Late(i)
          /\ b \o Content(i) \in Seq(Items) /\ a \o Content(i) \in Seq(Items)
      BY <3>2, ItemsAre, BlocksAre DEF Late
    <3>4. /\ body' \in Seq(DOMAIN kinds) /\ Increasing(body')
          /\ \A k \in DOMAIN kinds : k = i <=> \A n \in DOMAIN body' : body'[n] # k
      BY <1>2, <2>2, WithoutIs
    <3>5. \A k \in DOMAIN kinds : IsCard(k) => k = i
      BY <1>2, <3>1, HeldIs
    <3>6. \A n \in DOMAIN body' : body'[n] # i /\ body'[n] \in DOMAIN kinds
      BY <3>4
    <3>7. \A n \in DOMAIN body' : body'[n] \notin Held'
      BY <1>3, <3>5, <3>6
    <3> HIDE DEF a, b
    <3>8. CASE Injected /\ prepend' = b /\ append' = a
      <4>1. Held' = {i}
        BY <1>3, <3>1, <3>5, <3>8
      <4>2. Read' = {}
        BY <1>4, <3>4, <4>1
      <4>3. QED
        BY <1>5, <3>4, <3>7, <3>8, <4>2
    <3>9. CASE ~Injected /\ prepend' = b \o Content(i) /\ append' = a
      <4>1. Held' = {}
        BY <1>2, <1>3, <3>9, HeldIs DEF a
      <4>2. Read' = {i}
        BY <1>4, <3>4, <4>1
      <4>3. QED
        BY <1>5, <3>1, <3>3, <3>4, <3>7, <3>9, <4>2
    <3>10. CASE ~Injected /\ prepend' = b /\ append' = a \o Content(i)
      <4>1. append' = Late(i) /\ append' \in Seq(Items)
        BY <3>3, <3>10
      <4>2. i \in Held'
        BY <1>3, <3>1, <4>1
      <4>3. Read' = {}
        BY <1>4, <3>4, <4>2
      <4>4. QED
        BY <1>5, <3>4, <3>7, <3>10, <4>1, <4>2, <4>3
    <3>11. QED
      BY <2>2, <3>1, <3>8, <3>9, <3>10 DEF Taken
  <2>3. QED
    BY <2>1, <2>2 DEF Assemble
<1>7. Shape'
  <2>1. Shape
    BY DEF Base
  <2>2. QED
    BY <1>1, <1>6, <2>1 DEF Shape
<1>8. Progress'
  <2>1. Progress
    BY DEF Base
  <2>2. QED
    BY <1>1, <2>1 DEF Progress, Converting
<1>9. Prepended'
  BY <1>1, <1>6 DEF Prepended, Word, ClientItem
<1>10. Appended'
  <2>1. Ending'
    BY <1>3, <1>6 DEF Ending
  <2>2. QED
    BY <1>1, <1>3, <1>6, <2>1 DEF Appended
<1>11. InOrder'
  BY <1>1, <1>6 DEF InOrder
<1>12. QED
  BY <1>7, <1>8, <1>9, <1>10, <1>11 DEF Base

(* openai.ts takes the messages as they are.                               *)
LEMMA VerbatimIs ==
  ASSUME Shape
  PROVE  /\ Verbatim \in Seq(TurnsOf) /\ Len(Verbatim) = Len(body) /\ Len(body) \in Nat
         /\ DOMAIN body = 1..Len(body)
         /\ \A n \in 1..Len(body) :
              /\ body[n] \in DOMAIN kinds
              /\ Verbatim[n].role = Role(kinds[body[n]])
              /\ Verbatim[n].items = Content(body[n])
<1> DEFINE top == Len(body)
<1>1. /\ kinds \in Seq(Kinds) /\ top \in Nat /\ DOMAIN body = 1..top
      /\ \A n \in 1..top : body[n] \in DOMAIN kinds
  BY DEF Shape
<1> HIDE DEF top
<1>2. ASSUME NEW n \in 1..top
      PROVE  /\ Turn(Role(kinds[body[n]]), Content(body[n])) \in TurnsOf
             /\ Turn(Role(kinds[body[n]]), Content(body[n])).role = Role(kinds[body[n]])
             /\ Turn(Role(kinds[body[n]]), Content(body[n])).items = Content(body[n])
  <2>1. body[n] \in DOMAIN kinds
    BY <1>1
  <2>2. kinds[body[n]] \in Kinds
    BY <1>1, <2>1, KindsAre
  <2>3. Role(kinds[body[n]]) \in Voices /\ Content(body[n]) \in Seq(Items)
    BY <1>1, <2>1, <2>2, RoleIs, ContentIs
  <2>4. QED
    BY <2>3, TurnIs
<1>3. Verbatim = [n \in 1..top |-> Turn(Role(kinds[body[n]]), Content(body[n]))]
  BY <1>1 DEF Verbatim
<1>4. Verbatim \in [1..top -> TurnsOf]
  BY <1>2, <1>3
<1>5. Verbatim \in Seq(TurnsOf) /\ Len(Verbatim) = top
  BY <1>1, <1>4
<1>6. \A n \in 1..top : Verbatim[n] = Turn(Role(kinds[body[n]]), Content(body[n]))
  BY <1>3
<1>7. QED
  BY <1>1, <1>2, <1>5, <1>6 DEF top

(* The three ways in which the prepended blocks are merged.                *)
LEMMA MergedIs ==
  ASSUME Shape, MergePrepended
  PROVE  /\ turns' \in Seq(TurnsOf) /\ Len(turns') \in Nat
         /\ \/ prepend = <<>> /\ turns' = Verbatim
            \/ /\ 1 \in 1..Len(Verbatim) /\ Verbatim[1].role = "system"
               /\ turns' = AddTo(Verbatim, 1, prepend)
            \/ turns' = InsertAt(Verbatim, 1, Turn("system", prepend))
<1> DEFINE v == Verbatim
<1>1. v \in Seq(TurnsOf) /\ prepend \in Seq(Items)
  BY VerbatimIs DEF Shape
<1>2. turns' = CASE prepend = <<>> -> v
                 [] prepend # <<>> /\ v # <<>> /\ Head(v).role = "system" ->
                      AddTo(v, 1, prepend)
                 [] OTHER -> InsertAt(v, 1, Turn("system", prepend))
  BY DEF MergePrepended, AddTo
<1> HIDE DEF v
<1>3. CASE prepend = <<>>
  BY <1>1, <1>2, <1>3 DEF v
<1>4. CASE prepend # <<>> /\ v # <<>> /\ Head(v).role = "system"
  <2>1. 1 \in 1..Len(v) /\ v[1].role = "system"
    BY <1>1, <1>4
  <2>2. turns' = AddTo(v, 1, prepend)
    BY <1>2, <1>4
  <2>3. AddTo(v, 1, prepend) \in Seq(TurnsOf)
    <3>1. InjItem(0) \in Items /\ <<>> \in Seq(Items)
      BY ItemsAre
    <3>2. QED
      BY <1>1, <2>1, <3>1, AddedParts
  <2>4. QED
    BY <2>1, <2>2, <2>3 DEF v
<1>5. CASE prepend # <<>> /\ ~(v # <<>> /\ Head(v).role = "system")
  <2>1. turns' = InsertAt(v, 1, Turn("system", prepend))
    BY <1>2, <1>5
  <2>2. Turn("system", prepend) \in TurnsOf
    BY <1>1, TurnIs DEF Voices
  <2>3. 1 \in 1..(Len(v) + 1)
    BY <1>1
  <2>4. InsertAt(v, 1, Turn("system", prepend)) \in Seq(TurnsOf)
    BY <1>1, <2>2, <2>3, InsertIs
  <2>5. QED
    BY <2>1, <2>4 DEF v
<1>6. QED
  BY <1>3, <1>4, <1>5

LEMMA MergeBase == Base /\ MergePrepended => Base'
<1> SUFFICES ASSUME Base, MergePrepended PROVE Base'
  OBVIOUS
<1>1. /\ stage = "assembled" /\ stage' = "mapped" /\ format = "openai" /\ system' = system
      /\ todo' = todo /\ kinds' = kinds /\ format' = format /\ preset' = preset /\ injs' = injs
      /\ prepend' = prepend /\ append' = append /\ body' = <<>>
      /\ placed' = [placed EXCEPT !.length = Len(turns')]
  BY DEF MergePrepended
<1>2. Shape /\ Progress
  BY DEF Base
<1>3. turns' \in Seq(TurnsOf) /\ Len(turns') \in Nat
  BY <1>2, MergedIs
<1>4. placed' \in [count : Nat, length : Nat] /\ placed'.count = 0 /\ placed'.length = Len(turns')
  <2> DEFINE m == Len(turns')
  <2>1. placed \in [count : Nat, length : Nat] /\ placed.count = 0 /\ m \in Nat
    BY <1>1, <1>2, <1>3 DEF Shape, Progress
  <2>2. placed' = [placed EXCEPT !.length = m]
    BY <1>1
  <2> HIDE DEF m
  <2>3. placed' \in [count : Nat, length : Nat] /\ placed'.count = 0 /\ placed'.length = m
    BY <2>1, <2>2
  <2>4. QED
    BY <2>3 DEF m
<1>5. body' \in Seq(DOMAIN kinds) /\ Increasing(body')
  BY <1>1 DEF Increasing
<1>6. Shape'
  BY <1>1, <1>2, <1>3, <1>4, <1>5 DEF Shape, Converting
<1>7. Progress'
  <2>1. Len(turns') = placed'.length + placed'.count
    BY <1>3, <1>4
  <2>2. QED
    BY <1>1, <1>4, <2>1 DEF Progress
<1>8. Prepended' /\ InOrder'
  BY <1>1 DEF Prepended, InOrder
<1>9. Appended'
  BY <1>1, AppendedOn
<1>10. QED
  BY <1>6, <1>7, <1>8, <1>9 DEF Base

(* A block's place in the array.                                           *)
LEMMA SpliceIs ==
  ASSUME Base, stage = "mapped", format = "openai", NEW j \in todo
  PROVE  LET t == Turn(BlockRole(j), <<InjItem(j)>>)
         IN /\ j \in Nat /\ j \in DOMAIN injs /\ injs[j].depth \in Nat
            /\ t \in TurnsOf /\ t.items = <<InjItem(j)>> /\ t.role \in {"lorebook", "system"}
            /\ Due(injs[j].depth) \in 0..placed.length
            /\ placed.count \in Nat /\ placed.length \in Nat
            /\ Len(turns) = placed.length + placed.count
            /\ Due(injs[j].depth) + placed.count + 1 \in 1..(Len(turns) + 1)
<1>1. /\ injs \in Seq(Injections) /\ todo \subseteq DOMAIN injs
      /\ placed \in [count : Nat, length : Nat] /\ Len(turns) = placed.length + placed.count
  BY DEF Base, Shape, Progress
<1>2. j \in Nat /\ j \in DOMAIN injs /\ injs[j] \in Injections
  BY <1>1
<1>3. injs[j].depth \in Nat
  BY <1>2, PromptAssumption DEF Injections
<1>4. placed.count \in Nat /\ placed.length \in Nat
  BY <1>1
<1>5. Due(injs[j].depth) \in 0..placed.length
  BY <1>3, <1>4 DEF Due
<1>6. BlockRole(j) \in {"lorebook", "system"}
  BY DEF BlockRole
<1>7. <<InjItem(j)>> \in Seq(Items)
  <2> DEFINE x == InjItem(j)
  <2>1. x \in Items
    BY <1>2, ItemsAre
  <2> HIDE DEF x
  <2>2. <<x>> \in Seq(Items)
    BY <2>1
  <2>3. QED
    BY <2>2 DEF x
<1>8. /\ Turn(BlockRole(j), <<InjItem(j)>>) \in TurnsOf
      /\ Turn(BlockRole(j), <<InjItem(j)>>).items = <<InjItem(j)>>
      /\ Turn(BlockRole(j), <<InjItem(j)>>).role \in {"lorebook", "system"}
  <2>1. BlockRole(j) \in Voices
    BY <1>6 DEF Voices
  <2>2. QED
    BY <1>6, <1>7, <2>1, TurnIs
<1>9. Due(injs[j].depth) + placed.count + 1 \in 1..(Len(turns) + 1)
  BY <1>1, <1>4, <1>5
<1>10. QED
  BY <1>1, <1>2, <1>3, <1>4, <1>5, <1>8, <1>9

LEMMA SpliceBase == Base /\ Splice => Base'
<1> SUFFICES ASSUME Base, Splice PROVE Base'
  OBVIOUS
<1>1. /\ stage = "mapped" /\ format = "openai" /\ stage' = stage /\ system' = system
      /\ kinds' = kinds /\ format' = format /\ preset' = preset /\ injs' = injs
      /\ prepend' = prepend /\ append' = append /\ body' = body
      /\ placed' = [placed EXCEPT !.count = @ + 1]
  BY DEF Splice
<1>2. PICK j \in todo :
        /\ turns' = InsertAt(turns, Due(injs[j].depth) + placed.count + 1,
                             Turn(BlockRole(j), <<InjItem(j)>>))
        /\ todo' = todo \ {j}
  BY DEF Splice
<1>3. Shape /\ Progress
  BY DEF Base
<1>4. turns' \in Seq(TurnsOf) /\ Len(turns') = Len(turns) + 1
  <2>1. /\ Turn(BlockRole(j), <<InjItem(j)>>) \in TurnsOf
        /\ Due(injs[j].depth) + placed.count + 1 \in 1..(Len(turns) + 1)
    BY <1>1, SpliceIs
  <2>2. turns \in Seq(TurnsOf)
    BY <1>3 DEF Shape
  <2>3. QED
    BY <1>2, <2>1, <2>2, InsertIs
<1>5. /\ placed' \in [count : Nat, length : Nat] /\ placed'.count = placed.count + 1
      /\ placed'.length = placed.length /\ placed.count \in Nat /\ placed.length \in Nat
      /\ Len(turns) = placed.length + placed.count
  <2>1. placed \in [count : Nat, length : Nat] /\ Len(turns) = placed.length + placed.count
    BY <1>1, <1>3 DEF Shape, Progress
  <2>2. QED
    BY <1>1, <2>1
<1>6. Shape'
  BY <1>1, <1>2, <1>3, <1>4, <1>5 DEF Shape
<1>7. Progress'
  <2>1. Len(turns') = placed'.length + placed'.count
    BY <1>4, <1>5
  <2>2. QED
    BY <1>1, <1>3, <2>1 DEF Progress
<1>8. Prepended' /\ InOrder'
  BY <1>1, <1>3 DEF Prepended, InOrder, Progress
<1>9. Appended'
  BY <1>1, AppendedOn
<1>10. QED
  BY <1>6, <1>7, <1>8, <1>9 DEF Base

-----------------------------------------------------------------------------
(* Append, Tail and Front as an insertion or a removal.                    *)
LEMMA AppendInserts ==
  ASSUME NEW ts \in Seq(TurnsOf), NEW t \in TurnsOf
  PROVE  Append(ts, t) = InsertAt(ts, Len(ts) + 1, t)
<1> DEFINE S == TurnsOf
           a == Append(ts, t)
           b == InsertAt(ts, Len(ts) + 1, t)
           top == Len(ts)
<1>1. ts \in Seq(S) /\ t \in S
  OBVIOUS
<1> HIDE DEF S
<1>2. /\ a \in Seq(S) /\ Len(a) = top + 1 /\ top \in Nat
      /\ \A n \in 1..top : a[n] = ts[n]
      /\ a[top + 1] = t
  BY <1>1
<1>3. /\ b \in Seq(S) /\ Len(b) = top + 1
      /\ \A n \in 1..(top + 1) : b[n] = IF n < top + 1 THEN ts[n]
                                        ELSE IF n = top + 1 THEN t ELSE ts[n - 1]
  <2> DEFINE r == top + 1
  <2>1. r \in 1..(Len(ts) + 1)
    BY <1>1
  <2> HIDE DEF r
  <2>2. /\ InsertAt(ts, r, t) \in Seq(S) /\ Len(InsertAt(ts, r, t)) = Len(ts) + 1
        /\ \A n \in 1..(Len(ts) + 1) :
             InsertAt(ts, r, t)[n] = IF n < r THEN ts[n] ELSE IF n = r THEN t ELSE ts[n - 1]
    BY <1>1, <2>1, InsertIs DEF OneMore
  <2>3. QED
    BY <2>2 DEF r
<1> HIDE DEF a, b, top
<1>4. \A n \in 1..Len(a) : a[n] = b[n]
  BY <1>2, <1>3
<1>5. a = b
  BY <1>2, <1>3, <1>4, SeqEqual
<1>6. QED
  BY <1>5 DEF a, b, top

LEMMA TailRemoves ==
  ASSUME NEW ts \in Seq(TurnsOf), ts # <<>>
  PROVE  Tail(ts) = RemoveAt(ts, 1) /\ 1 \in 1..Len(ts)
<1> DEFINE S == TurnsOf
           a == Tail(ts)
           b == RemoveAt(ts, 1)
           top == Len(ts)
<1>1. ts \in Seq(S) /\ ts # <<>>
  OBVIOUS
<1> HIDE DEF S
<1>2. /\ a \in Seq(S) /\ Len(a) = top - 1 /\ top \in Nat \ {0} /\ 1 \in 1..top
      /\ \A n \in 1..(top - 1) : a[n] = ts[n + 1]
  BY <1>1
<1>3. /\ b \in Seq(S) /\ top = Len(b) + 1
      /\ \A n \in 1..Len(b) : b[n] = IF n < 1 THEN ts[n] ELSE ts[n + 1]
  BY <1>1, <1>2, RemoveIs
<1> HIDE DEF a, b, top
<1>4. Len(a) = Len(b) /\ Len(a) \in Nat
  BY <1>2, <1>3
<1>5. \A n \in 1..Len(a) : a[n] = b[n]
  BY <1>2, <1>3, <1>4
<1>6. a = b
  BY <1>2, <1>3, <1>4, <1>5, SeqEqual
<1>7. QED
  BY <1>2, <1>6 DEF a, b, top

LEMMA FrontRemoves ==
  ASSUME NEW ts \in Seq(TurnsOf), ts # <<>>
  PROVE  Front(ts) = RemoveAt(ts, Len(ts)) /\ Len(ts) \in 1..Len(ts)
<1> DEFINE S == TurnsOf
           a == Front(ts)
           b == RemoveAt(ts, Len(ts))
           top == Len(ts)
<1>1. ts \in Seq(S) /\ ts # <<>> /\ top \in Nat \ {0} /\ top \in 1..top
  OBVIOUS
<1> HIDE DEF S
<1>2. /\ a \in Seq(S) /\ Len(a) = top - 1
      /\ \A n \in 1..(top - 1) : a[n] = ts[n]
  <2>1. \A i \in 1..(top - 1) : ts[i] \in S
    BY <1>1
  <2>2. a = SubSeq(ts, 1, top - 1)
    BY DEF Front
  <2>3. 1 \in Int /\ top - 1 \in Int
    BY <1>1
  <2> DEFINE m == top - 1
  <2>4. m \in Int /\ \A i \in 1..m : ts[i] \in S
    BY <2>1, <2>3
  <2> HIDE DEF m
  <2>5. /\ SubSeq(ts, 1, m) \in Seq(S)
        /\ Len(SubSeq(ts, 1, m)) = IF 1 <= m THEN m - 1 + 1 ELSE 0
        /\ \A i \in 1..(m - 1 + 1) : SubSeq(ts, 1, m)[i] = ts[1 + i - 1]
    BY <2>3, <2>4, SubSeqProperties
  <2>6. /\ a \in Seq(S)
        /\ Len(a) = IF 1 <= m THEN m - 1 + 1 ELSE 0
        /\ \A i \in 1..(m - 1 + 1) : a[i] = ts[1 + i - 1]
    BY <2>2, <2>5 DEF m
  <2>7. m = top - 1
    BY DEF m
  <2> HIDE DEF a, top
  <2>8. QED
    BY <1>1, <2>6, <2>7
<1>3. /\ b \in Seq(S) /\ top = Len(b) + 1
      /\ \A n \in 1..Len(b) : b[n] = IF n < top THEN ts[n] ELSE ts[n + 1]
  BY <1>1, RemoveIs
<1> HIDE DEF a, b, top
<1>4. Len(a) = Len(b) /\ Len(a) \in Nat
  BY <1>1, <1>2, <1>3
<1>5. \A n \in 1..Len(a) : a[n] = b[n]
  BY <1>1, <1>2, <1>3, <1>4
<1>6. a = b
  BY <1>2, <1>3, <1>4, <1>5, SeqEqual
<1>7. QED
  BY <1>1, <1>6 DEF a, b, top

LEMMA ConcatsAre ==
  ASSUME NEW s \in Seq(Items), NEW c \in Seq(Items)
  PROVE  s \o c \in Seq(Items) /\ s \o <<>> = s /\ <<>> \o s = s
OBVIOUS

(* What Append1 puts behind.                                               *)
LEMMA Append1Is ==
  ASSUME Shape, Append1
  PROVE  /\ turns' \in Seq(TurnsOf) /\ append \in Seq(Items) /\ Turn("system", append) \in TurnsOf
         /\ Turn("system", append).items = append
         /\ \/ append = <<>> /\ turns' = turns
            \/ turns' = InsertAt(turns, Len(turns) + 1, Turn("system", append))
<1>1. turns \in Seq(TurnsOf)
  BY DEF Shape
<1>2. append \in Seq(Items)
  BY DEF Shape
<1>3. Turn("system", append) \in TurnsOf /\ Turn("system", append).items = append
  BY <1>2, TurnIs DEF Voices
<1>4. \/ append = <<>> /\ turns' = turns
      \/ turns' = InsertAt(turns, Len(turns) + 1, Turn("system", append))
  BY <1>1, <1>3, AppendInserts DEF Append1
<1>5. turns' \in Seq(TurnsOf)
  <2> DEFINE t == Turn("system", append)
             S == TurnsOf
  <2>1. t \in S /\ turns \in Seq(S)
    BY <1>1, <1>3
  <2>2. Len(turns) + 1 \in 1..(Len(turns) + 1)
    BY <1>1
  <2> HIDE DEF t, S
  <2>3. InsertAt(turns, Len(turns) + 1, t) \in Seq(S)
    BY <2>1, <2>2, InsertIs
  <2>4. QED
    BY <1>1, <1>4, <2>3 DEF t, S
<1>6. QED
  BY <1>2, <1>3, <1>4, <1>5

LEMMA Append1Base == Base /\ Append1 => Base'
<1> SUFFICES ASSUME Base, Append1 PROVE Base'
  OBVIOUS
<1>1. /\ stage = "mapped" /\ stage' = "sent" /\ format = "openai" /\ system' = system
      /\ todo' = todo /\ todo = {} /\ kinds' = kinds /\ format' = format /\ preset' = preset
      /\ injs' = injs /\ prepend' = prepend /\ append' = <<>> /\ body' = body
      /\ placed' = placed
  BY DEF Append1
<1>2. Shape /\ Progress
  BY DEF Base
<1>3. turns' \in Seq(TurnsOf)
  BY <1>2, Append1Is
<1>4. Shape'
  BY <1>1, <1>2, <1>3 DEF Shape, Converting
<1>5. Progress'
  BY <1>1, <1>2 DEF Progress
<1>6. Prepended' /\ InOrder'
  BY <1>1, <1>2 DEF Prepended, InOrder, Progress
<1>7. Appended'
  BY <1>1, AppendedOn
<1>8. QED
  BY <1>4, <1>5, <1>6, <1>7 DEF Base

(* What Hoist puts into the system field.                                  *)
LEMMA HoistIs ==
  ASSUME Base, Hoist
  PROVE  /\ system = <<>> /\ turns = <<>> /\ turns' = <<>>
         /\ \/ system' = prepend /\ append' = append
            \/ system' = prepend \o append /\ append' = <<>>
         /\ system' \in Seq(Items) /\ prepend \in Seq(Items) /\ append \in Seq(Items)
<1>1. /\ system = <<>> /\ turns = <<>> /\ prepend \in Seq(Items) /\ append \in Seq(Items)
  BY DEF Base, Shape, Progress, Hoist
<1>2. prepend \o append \in Seq(Items)
  BY <1>1, ConcatsAre
<1>3. QED
  BY <1>1, <1>2 DEF Hoist

LEMMA HoistBase == Base /\ Hoist => Base'
<1> SUFFICES ASSUME Base, Hoist PROVE Base'
  OBVIOUS
<1>1. /\ stage = "assembled" /\ stage' = "mapping" /\ format # "openai" /\ turns' = turns
      /\ todo' = todo /\ kinds' = kinds /\ format' = format /\ preset' = preset
      /\ injs' = injs /\ prepend' = prepend /\ body' = body /\ placed' = placed
  BY DEF Hoist
<1>2. Shape /\ Progress /\ Prepended
  BY DEF Base
<1>3. /\ system' \in Seq(Items) /\ (append' = append \/ append' = <<>>)
      /\ append' \in Seq(Items)
  <2>1. /\ system' \in Seq(Items) /\ (append' = append \/ append' = <<>>)
        /\ append \in Seq(Items)
    BY HoistIs
  <2>2. <<>> \in Seq(Items)
    OBVIOUS
  <2>3. QED
    BY <2>1, <2>2
<1>4. Shape'
  BY <1>1, <1>2, <1>3 DEF Shape, Converting
<1>5. Progress'
  BY <1>1, <1>2 DEF Progress
<1>6. \A i \in Read' : kinds[i] = "system"
  <2>1. \A i \in Read : kinds[i] = "system"
    BY <1>1, <1>2 DEF Prepended
  <2>2. \A i \in Held : kinds[i] = "system"
    BY DEF Held, IsCard
  <2>3. Read' \subseteq Read \cup Held
    BY <1>1 DEF Read
  <2>4. QED
    BY <2>1, <2>2, <2>3
<1>7. InOrder'
  BY <1>1, <1>6 DEF InOrder
<1>8. Prepended'
  BY <1>1 DEF Prepended
<1>9. Appended'
  BY <1>1, <1>3, AppendedOn
<1>10. QED
  BY <1>4, <1>5, <1>7, <1>8, <1>9 DEF Base

(* A message becomes a turn: a system message joins the system field, a    *)
(* tool's result may join the turn before it.                              *)
Speaker(kind) == IF kind = "tool" THEN "user" ELSE Role(kind)

LEMMA MapIs ==
  ASSUME Base, Map
  PROVE  LET i == Head(body)
             t == Turn(Speaker(kinds[i]), Content(i))
         IN /\ i \in DOMAIN kinds /\ kinds[i] \in Kinds /\ Content(i) \in Seq(Items)
            /\ turns' \in Seq(TurnsOf) /\ system' \in Seq(Items)
            /\ \/ kinds[i] = "system" /\ turns' = turns /\ system' = system \o Content(i)
               \/ /\ kinds[i] = "tool" /\ Joins(turns) /\ system' = system
                  /\ Len(turns) \in 1..Len(turns) /\ turns' = AddTo(turns, Len(turns), Content(i))
               \/ /\ kinds[i] # "system" /\ ~(kinds[i] = "tool" /\ Joins(turns)) /\ system' = system
                  /\ t \in TurnsOf /\ t.role = Speaker(kinds[i]) /\ t.items = Content(i)
                  /\ turns' = InsertAt(turns, Len(turns) + 1, t)
<1> DEFINE i == Head(body)
           c == Content(i)
           t == Turn(Speaker(kinds[i]), c)
<1>1. Shape /\ InOrder /\ body # <<>> /\ \A n \in DOMAIN body : body[n] \notin Held
  BY DEF Base, Map, Appended
<1>2. i \in DOMAIN kinds
  BY <1>1, TakeFirst
<1>3. kinds \in Seq(Kinds) /\ turns \in Seq(TurnsOf) /\ system \in Seq(Items)
  BY <1>1 DEF Shape
<1>4. kinds[i] \in Kinds /\ c \in Seq(Items)
  BY <1>2, <1>3, KindsAre, ContentIs
<1>5. \/ kinds[i] = "system" /\ turns' = turns /\ system' = system \o c
      \/ /\ kinds[i] = "tool" /\ Joins(turns) /\ system' = system
         /\ turns' = AddTo(turns, Len(turns), c)
      \/ /\ kinds[i] # "system" /\ ~(kinds[i] = "tool" /\ Joins(turns)) /\ system' = system
         /\ turns' = Append(turns, t)
  BY DEF Map, MapMessage, AddTo, Speaker
<1> HIDE DEF i, c, t
<1>6. CASE kinds[i] = "system" /\ turns' = turns /\ system' = system \o c
  <2>1. system' \in Seq(Items)
    BY <1>3, <1>4, <1>6, ConcatsAre
  <2>2. QED
    BY <1>2, <1>3, <1>4, <1>6, <2>1 DEF i, c, t
<1>7. CASE /\ kinds[i] = "tool" /\ Joins(turns) /\ system' = system
           /\ turns' = AddTo(turns, Len(turns), c)
  <2>1. Len(turns) \in 1..Len(turns)
    BY <1>3, <1>7 DEF Joins
  <2>2. turns' \in Seq(TurnsOf)
    BY <1>3, <1>4, <1>7, <2>1, AddedParts
  <2>3. QED
    BY <1>2, <1>3, <1>4, <1>7, <2>1, <2>2 DEF i, c, t
<1>8. CASE /\ kinds[i] # "system" /\ ~(kinds[i] = "tool" /\ Joins(turns)) /\ system' = system
           /\ turns' = Append(turns, t)
  <2>1. Speaker(kinds[i]) \in Voices
    BY <1>4, RoleIs DEF Speaker, Voices
  <2>2. t \in TurnsOf /\ t.role = Speaker(kinds[i]) /\ t.items = c
    BY <1>4, <2>1, TurnIs DEF t
  <2>3. turns' = InsertAt(turns, Len(turns) + 1, t)
    BY <1>3, <1>8, <2>2, AppendInserts
  <2>4. turns' \in Seq(TurnsOf)
    <3>1. Len(turns) + 1 \in 1..(Len(turns) + 1)
      BY <1>3
    <3>2. QED
      BY <1>3, <2>2, <2>3, <3>1, InsertedParts
  <2>5. QED
    BY <1>2, <1>3, <1>4, <1>8, <2>2, <2>3, <2>4 DEF i, c, t
<1>9. QED
  BY <1>5, <1>6, <1>7, <1>8

(* Reading one message.                                                    *)
LEMMA MapReads ==
  ASSUME Base, Map
  PROVE  LET i == Head(body)
         IN /\ i \in DOMAIN kinds /\ i \notin Read /\ Read' = Read \cup {i}
            /\ body' \in Seq(DOMAIN kinds) /\ Increasing(body')
            /\ \A n \in DOMAIN body' : i < body'[n]
            /\ \A k \in Read : kinds[k] # "system" => k < i
            /\ \A k \in DOMAIN kinds : k < i /\ kinds[k] # "system" => k \in Read
            /\ InOrder'
<1> DEFINE i == Head(body)
<1>1. /\ Shape /\ InOrder /\ body # <<>> /\ body' = Tail(body) /\ kinds' = kinds
      /\ \A n \in DOMAIN body : body[n] \notin Held
  BY DEF Base, Map, Appended
<1>2. /\ i \in DOMAIN kinds /\ i \notin Read
      /\ body' \in Seq(DOMAIN kinds) /\ Increasing(body')
      /\ \A k \in DOMAIN kinds :
           k \in Read \cup {i} <=>
             k \notin Held /\ \A n \in DOMAIN body' : body'[n] # k
      /\ \A n \in DOMAIN body' : i < body'[n] /\ body'[n] = body[n + 1]
      /\ \A k \in DOMAIN kinds : k < i /\ kinds[k] # "system" => k \in Read
      /\ \A k \in Read : kinds[k] # "system" => k < i
  BY <1>1, TakeFirst
<1> HIDE DEF i
<1>3. Read' = Read \cup {i}
  <2>1. Read \subseteq DOMAIN kinds
    BY DEF Read
  <2>2. Read' = {k \in DOMAIN kinds \ Held : \A n \in DOMAIN body' : body'[n] # k}
    <3>1. Held' = Held
      BY SameRead DEF Map
    <3>2. QED
      BY <1>1, <3>1 DEF Read
  <2>3. QED
    BY <1>2, <2>1, <2>2
<1>4. InOrder'
  <2>1. SUFFICES ASSUME NEW k \in Read \cup {i}, kinds[k] # "system", NEW n \in DOMAIN body'
                 PROVE  k < body'[n]
    BY <1>1, <1>3 DEF InOrder
  <2>2. CASE k = i
    BY <1>2, <2>2
  <2>3. CASE k \in Read
    <3>1. k < i /\ i < body'[n]
      BY <1>2, <2>1, <2>3
    <3>2. k \in Nat /\ i \in Nat /\ body'[n] \in Nat
      <4>1. DOMAIN kinds \subseteq Nat
        <5>1. kinds \in Seq(Kinds)
          BY DEF Base, Shape
        <5>2. QED
          BY <5>1, KindsAre
      <4>2. k \in DOMAIN kinds /\ body'[n] \in DOMAIN kinds
        BY <1>2, <2>3 DEF Read
      <4>3. QED
        BY <1>2, <4>1, <4>2
    <3>3. QED
      BY <3>1, <3>2
  <2>4. QED
    BY <2>2, <2>3
<1>5. QED
  BY <1>2, <1>3, <1>4 DEF i

LEMMA MapBase == Base /\ Map => Base'
<1> SUFFICES ASSUME Base, Map PROVE Base'
  OBVIOUS
<1>1. /\ stage = "mapping" /\ stage' = stage /\ kinds' = kinds /\ format' = format
      /\ preset' = preset /\ injs' = injs /\ prepend' = prepend /\ append' = append
      /\ todo' = todo /\ placed' = placed
  BY DEF Map
<1>2. Shape /\ Progress
  BY DEF Base
<1>3. turns' \in Seq(TurnsOf) /\ system' \in Seq(Items)
  BY MapIs
<1>4. body' \in Seq(DOMAIN kinds) /\ Increasing(body') /\ InOrder'
  BY MapReads
<1>5. Shape'
  BY <1>1, <1>2, <1>3, <1>4 DEF Shape
<1>6. Progress'
  BY <1>1, <1>2 DEF Progress
<1>7. Prepended'
  BY <1>1 DEF Prepended
<1>8. Appended'
  <2>1. \A n \in DOMAIN body' : \E m \in DOMAIN body : body'[n] = body[m]
    <3>1. body \in Seq(DOMAIN kinds) /\ body # <<>> /\ body' = Tail(body)
      BY <1>2 DEF Map, Shape
    <3> DEFINE S == DOMAIN kinds
    <3>2. body \in Seq(S)
      BY <3>1
    <3> HIDE DEF S
    <3>3. ASSUME NEW n \in DOMAIN body'
          PROVE  n + 1 \in DOMAIN body /\ body'[n] = body[n + 1]
      BY <3>1, <3>2
    <3>4. QED
      BY <3>3
  <2>2. QED
    BY <1>1, <2>1, AppendedOn
<1>9. QED
  BY <1>4, <1>5, <1>6, <1>7, <1>8 DEF Base

(* For Anthropic the rest of the preset follows the system messages.       *)
LEMMA MappedIs ==
  ASSUME Shape, Mapped
  PROVE  /\ append \in Seq(Items) /\ system' \in Seq(Items) /\ turns' = turns
         /\ system' = system \o append /\ append' = <<>>
<1>1. append \in Seq(Items) /\ system \in Seq(Items)
  BY DEF Shape
<1>2. system \o append \in Seq(Items)
  BY <1>1, ConcatsAre
<1>3. QED
  BY <1>1, <1>2 DEF Mapped

LEMMA MappedBase == Base /\ Mapped => Base'
<1> SUFFICES ASSUME Base, Mapped PROVE Base'
  OBVIOUS
<1>1. /\ stage = "mapping" /\ stage' = "hoisted" /\ body' = body /\ body = <<>>
      /\ kinds' = kinds /\ format' = format
      /\ preset' = preset /\ injs' = injs /\ prepend' = prepend /\ append' = <<>>
      /\ todo' = todo /\ placed' = placed /\ turns' = turns
  BY DEF Mapped
<1>2. Shape /\ Progress
  BY DEF Base
<1>3. system' \in Seq(Items)
  BY <1>2, MappedIs
<1>4. Shape'
  BY <1>1, <1>2, <1>3 DEF Shape, Converting
<1>5. Progress'
  BY <1>1, <1>2 DEF Progress
<1>6. Prepended' /\ InOrder'
  BY <1>1 DEF Prepended, InOrder
<1>7. Appended'
  BY <1>1, AppendedOn
<1>8. QED
  BY <1>4, <1>5, <1>6, <1>7 DEF Base

(* Absorb removes the first turn.                                          *)
LEMMA AbsorbIs ==
  ASSUME Shape, Absorb
  PROVE  /\ turns' \in Seq(TurnsOf) /\ system' \in Seq(Items)
         /\ turns' = RemoveAt(turns, 1) /\ 1 \in 1..Len(turns) /\ turns[1] \in TurnsOf
         /\ turns[1].role = "assistant"
         /\ \/ turns[1].items[1].is = "text" /\ system' = system \o turns[1].items
            \/ turns[1].items[1].is # "text" /\ system' = system
<1>1. turns \in Seq(TurnsOf) /\ system \in Seq(Items) /\ turns # <<>>
  BY DEF Shape, Absorb, Greets
<1>2. turns' = RemoveAt(turns, 1) /\ 1 \in 1..Len(turns)
  BY <1>1, TailRemoves DEF Absorb
<1>3. turns[1] \in TurnsOf /\ turns[1] = Head(turns)
  BY <1>1, <1>2
<1>4. turns' \in Seq(TurnsOf)
  BY <1>1, <1>2, RemovedParts
<1>5. \/ turns[1].items[1].is = "text" /\ system' = system \o turns[1].items
      \/ turns[1].items[1].is # "text" /\ system' = system
  <2>1. system \o <<>> = system
    <3>1. <<>> \in Seq(Items)
      OBVIOUS
    <3>2. QED
      BY <1>1, <3>1, ConcatsAre
  <2>2. QED
    BY <1>3, <2>1 DEF Absorb
<1>6. system' \in Seq(Items)
  <2>1. turns[1].items \in Seq(Items)
    BY <1>3 DEF TurnsOf
  <2>2. QED
    BY <1>1, <1>5, <2>1, ConcatsAre
<1>7. QED
  BY <1>2, <1>3, <1>4, <1>5, <1>6 DEF Absorb, Greets

LEMMA AbsorbBase == Base /\ (Absorb \/ Absorbed) => Base'
<1> SUFFICES ASSUME Base, Absorb \/ Absorbed PROVE Base'
  OBVIOUS
<1>1. /\ stage = "hoisted" /\ stage' \in {"hoisted", "mapped"} /\ body' = body
      /\ kinds' = kinds /\ format' = format
      /\ preset' = preset /\ injs' = injs /\ prepend' = prepend /\ append' = append
      /\ todo' = todo /\ placed' = placed
  BY DEF Absorb, Absorbed
<1>2. Shape /\ Progress /\ InOrder
  BY DEF Base
<1>3. system' \in Seq(Items) /\ turns' \in Seq(TurnsOf)
  BY <1>2, AbsorbIs DEF Absorbed, Shape
<1>4. Shape'
  BY <1>1, <1>2, <1>3 DEF Shape, Converting
<1>5. Progress'
  BY <1>1, <1>2 DEF Progress
<1>6. Prepended' /\ InOrder'
  BY <1>1, <1>2 DEF Prepended, InOrder, Progress
<1>7. Appended'
  <2>1. append = <<>> /\ format # "openai"
    BY <1>1, <1>2 DEF Base, Appended, Progress
  <2>2. QED
    BY <1>1, <2>1, AppendedOn
<1>8. QED
  BY <1>4, <1>5, <1>6, <1>7 DEF Base

(* Place adds one block to one turn, if there is any.                      *)
LEMMA PlaceStep ==
  ASSUME Shape, Place
  PROVE  \E j \in todo :
           /\ IsNext(j) /\ todo' = todo \ {j} /\ j \in DOMAIN injs /\ j \in Nat
           /\ <<InjItem(j)>> \in Seq(Items) /\ turns' \in Seq(TurnsOf)
           /\ \/ turns = <<>> /\ turns' = turns
              \/ \E at \in 1..Len(turns) :
                   /\ IsSpot(at, Asked(injs[j].depth))
                   /\ turns' = AddTo(turns, at, <<InjItem(j)>>)
<1>1. turns \in Seq(TurnsOf) /\ injs \in Seq(Injections) /\ todo \subseteq DOMAIN injs
  BY DEF Shape
<1>2. PICK j \in todo :
        /\ IsNext(j) /\ todo' = todo \ {j}
        /\ \/ turns = <<>> /\ turns' = turns
           \/ \E at \in DOMAIN turns :
                /\ IsSpot(at, Asked(injs[j].depth))
                /\ turns' = AddTo(turns, at, <<InjItem(j)>>)
  BY DEF Place, AddTo
<1>3. j \in DOMAIN injs /\ j \in Nat
  BY <1>1
<1>4. <<InjItem(j)>> \in Seq(Items)
  <2> DEFINE x == InjItem(j)
  <2>1. x \in Items
    BY <1>3, ItemsAre
  <2> HIDE DEF x
  <2>2. <<x>> \in Seq(Items)
    BY <2>1
  <2>3. QED
    BY <2>2 DEF x
<1>5. DOMAIN turns = 1..Len(turns)
  BY <1>1
<1>6. CASE turns = <<>> /\ turns' = turns
  BY <1>1, <1>2, <1>3, <1>4, <1>6
<1>7. ASSUME NEW at \in 1..Len(turns), IsSpot(at, Asked(injs[j].depth)),
             turns' = AddTo(turns, at, <<InjItem(j)>>)
      PROVE  turns' \in Seq(TurnsOf)
  <2>1. InjItem(0) \in Items /\ <<>> \in Seq(Items)
    BY ItemsAre
  <2>2. QED
    BY <1>1, <1>4, <1>7, <2>1, AddedParts
<1>8. QED
  BY <1>2, <1>3, <1>4, <1>5, <1>6, <1>7

LEMMA PlaceBase == Base /\ (Place \/ Placed) => Base'
<1> SUFFICES ASSUME Base, Place \/ Placed PROVE Base'
  OBVIOUS
<1>1. /\ stage = "mapped" /\ stage' \in {"mapped", "stripping"} /\ body' = body
      /\ kinds' = kinds /\ format' = format /\ format # "openai" /\ system' = system
      /\ preset' = preset /\ injs' = injs /\ prepend' = prepend /\ append' = append
      /\ placed' = placed
  BY DEF Place, Placed
<1>2. Shape /\ Progress /\ InOrder
  BY DEF Base
<1>3. turns' \in Seq(TurnsOf) /\ todo' \subseteq todo
  BY <1>2, PlaceStep DEF Placed, Shape
<1>4. Shape'
  BY <1>1, <1>2, <1>3 DEF Shape, Converting
<1>5. Progress'
  <2>1. stage' = "stripping" => todo' = {}
    BY DEF Place, Placed
  <2>2. QED
    BY <1>1, <1>2, <2>1 DEF Progress
<1>6. Prepended' /\ InOrder'
  BY <1>1, <1>2 DEF Prepended, InOrder, Progress
<1>7. Appended'
  <2>1. append = <<>> /\ format # "openai"
    BY <1>1, <1>2 DEF Base, Appended, Progress
  <2>2. QED
    BY <1>1, <2>1, AppendedOn
<1>8. QED
  BY <1>4, <1>5, <1>6, <1>7 DEF Base

(* Strip and Drop remove a turn.                                           *)
LEMMA StripIs ==
  ASSUME Shape, Strip
  PROVE  \E n \in 1..Len(turns) :
           /\ turns[n].items = <<>> /\ turns' = RemoveAt(turns, n) /\ turns' \in Seq(TurnsOf)
<1>1. turns \in Seq(TurnsOf)
  BY DEF Shape
<1>2. PICK n \in DOMAIN turns : turns[n].items = <<>> /\ turns' = RemoveAt(turns, n)
  BY DEF Strip
<1>3. n \in 1..Len(turns)
  BY <1>1
<1>4. turns' \in Seq(TurnsOf)
  BY <1>1, <1>2, <1>3, RemoveIs
<1>5. QED
  BY <1>2, <1>3, <1>4

LEMMA DropIs ==
  ASSUME Shape, Drop
  PROVE  /\ Len(turns) \in 1..Len(turns) /\ format = "anthropic" /\ turns' \in Seq(TurnsOf)
         /\ turns[Len(turns)].role = "assistant" /\ turns' = RemoveAt(turns, Len(turns))
<1>1. turns \in Seq(TurnsOf) /\ turns # <<>>
  BY DEF Shape, Drop, Trails
<1>2. turns' = RemoveAt(turns, Len(turns)) /\ Len(turns) \in 1..Len(turns)
  BY <1>1, FrontRemoves DEF Drop
<1>3. turns' \in Seq(TurnsOf)
  <2> DEFINE r == Len(turns)
  <2>1. r \in 1..Len(turns) /\ turns' = RemoveAt(turns, r)
    BY <1>2
  <2> HIDE DEF r
  <2>2. QED
    BY <1>1, <2>1, RemoveIs
<1>4. QED
  BY <1>2, <1>3 DEF Drop, Trails, Last

LEMMA StripBase == Base /\ (Strip \/ Drop \/ Finish) => Base'
<1> SUFFICES ASSUME Base, Strip \/ Drop \/ Finish PROVE Base'
  OBVIOUS
<1>1. /\ stage = "stripping" /\ stage' \in {"stripping", "sent"} /\ body' = body
      /\ kinds' = kinds /\ format' = format /\ system' = system /\ todo' = todo
      /\ preset' = preset /\ injs' = injs /\ prepend' = prepend /\ append' = append
      /\ placed' = placed
  BY DEF Strip, Drop, Finish
<1>2. Shape /\ Progress /\ InOrder
  BY DEF Base
<1>3. turns' \in Seq(TurnsOf)
  BY <1>2, StripIs, DropIs DEF Finish, Shape
<1>4. Shape'
  BY <1>1, <1>2, <1>3 DEF Shape, Converting
<1>5. Progress'
  BY <1>1, <1>2 DEF Progress
<1>6. Prepended' /\ InOrder'
  BY <1>1, <1>2 DEF Prepended, InOrder, Progress
<1>7. Appended'
  <2>1. append = <<>> /\ format # "openai"
    BY <1>1, <1>2 DEF Base, Appended, Progress
  <2>2. QED
    BY <1>1, <2>1, AppendedOn
<1>8. QED
  BY <1>4, <1>5, <1>6, <1>7 DEF Base

LEMMA StutterBase == Base /\ UNCHANGED vars => Base'
<1> SUFFICES ASSUME Base, UNCHANGED vars PROVE Base'
  OBVIOUS
<1>1. Held' = Held /\ Read' = Read /\ Ending'
  BY SameRead DEF vars, Base, Appended
<1> USE DEF vars
<1>2. Shape'
  BY DEF Base, Shape
<1>3. Progress'
  BY <1>1 DEF Base, Progress
<1>4. Prepended'
  BY <1>1 DEF Base, Prepended, Word, ClientItem
<1>5. Appended'
  BY <1>1 DEF Base, Appended, OneCard
<1>6. InOrder'
  BY <1>1 DEF Base, InOrder
<1>7. QED
  BY <1>2, <1>3, <1>4, <1>5, <1>6 DEF Base

(* Base is an invariant.                                                   *)
LEMMA NextBase == Base /\ [Next]_vars => Base'
BY AssembleBase, MergeBase, SpliceBase, Append1Base, HoistBase, MapBase, MappedBase, AbsorbBase,
   PlaceBase, StripBase, StutterBase DEF Next

-----------------------------------------------------------------------------
(* What a request is made of does not change on the way.                   *)
Frozen == kinds' = kinds /\ format' = format /\ preset' = preset /\ injs' = injs

LEMMA NextFrozen == [Next]_vars => Frozen
BY DEF Next, vars, Frozen, Assemble, MergePrepended, Splice, Append1, Hoist, Map, Mapped, Absorb,
   Absorbed, Place, Placed, Strip, Drop, Finish

(* The parts of the invariant in the next state.                           *)
LEMMA Primed ==
  ASSUME Frozen
  PROVE  /\ Distinct(system', turns') <=> (Distinct(system, turns))'
         /\ Sorted(system', turns') <=> (Sorted(system, turns))'
         /\ InTurn(system', turns') <=> (InTurn(system, turns))'
         /\ \A x : Has(system', turns', x) <=> (Has(system, turns, x))'
<1>1. Distinct(system', turns') <=> (Distinct(system, turns))'
  BY DEF Distinct, PlacesIn, ItemAt, PartOf
<1>2. Sorted(system', turns') <=> (Sorted(system, turns))'
  BY DEF Sorted, PlacesIn, ItemAt, PartOf, Turning, Frozen
<1>3. InTurn(system', turns') <=> (InTurn(system, turns))'
  BY DEF InTurn, PlacesIn, ItemAt, PartOf, Before, Frozen
<1>4. \A x : Has(system', turns', x) <=> (Has(system, turns, x))'
  BY DEF Has, PlacesIn, ItemAt, PartOf
<1>5. QED
  BY <1>1, <1>2, <1>3, <1>4

(* What is not known to be there is not there.                             *)
LEMMA Unread ==
  ASSUME Shape, Known, NEW i \in DOMAIN kinds, i \notin Read
  PROVE  ~Has(system, turns, Word(i))
<1> SUFFICES ASSUME NEW p \in PlacesIn(system, turns), ItemAt(system, turns, p) = Word(i)
             PROVE  FALSE
  BY DEF Has
<1> DEFINE x == ItemAt(system, turns, p)
<1>1. i \in Nat
  BY DEF Shape
<1>2. x.from = "client" /\ x.of = i
  BY <1>1, ItemsAre
<1>3. KnownItem(x, Read, Done)
  BY DEF Known
<1> HIDE DEF x
<1>4. QED
  BY <1>2, <1>3 DEF KnownItem, IsWord, IsBlock, PresetItem, InjItem

LEMMA Unplaced ==
  ASSUME Known, NEW j \in Nat, j \notin Done
  PROVE  ~Has(system, turns, InjItem(j))
<1> SUFFICES ASSUME NEW p \in PlacesIn(system, turns), ItemAt(system, turns, p) = InjItem(j)
             PROVE  FALSE
  BY DEF Has
<1> DEFINE x == ItemAt(system, turns, p)
<1>1. x.from = "injection" /\ x.of = j
  BY ItemsAre
<1>2. KnownItem(x, Read, Done)
  BY DEF Known
<1> HIDE DEF x
<1>3. QED
  BY <1>1, <1>2 DEF KnownItem, IsWord, IsBlock, PresetItem, Word, ClientItem

LEMMA NoInjections ==
  ASSUME Known, todo = DOMAIN injs, NEW p \in PlacesIn(system, turns)
  PROVE  ItemAt(system, turns, p).from # "injection"
<1> DEFINE x == ItemAt(system, turns, p)
<1>1. KnownItem(x, Read, Done)
  BY DEF Known
<1> HIDE DEF x
<1>2. Done = {}
  BY DEF Done
<1>3. x.from # "injection"
  BY <1>1, <1>2 DEF KnownItem, IsWord, IsBlock, PresetItem, Word, ClientItem
<1>4. QED
  BY <1>3 DEF x

(* A prompt gains the items c and keeps all it had.                        *)
Single(c) ==
  \A m, n \in 1..Len(c) : c[m] = c[n] /\ c[m].from \in {"client", "injection"} => m = n

Gains(sys, ts, sys2, ts2, back, fresh, c) ==
  /\ Carries(sys, ts, sys2, ts2, back, fresh)
  /\ \A p \in fresh : \E m \in 1..Len(c) : ItemAt(sys2, ts2, p) = c[m]
  /\ \A p \in PlacesIn(sys, ts) : Has(sys2, ts2, ItemAt(sys, ts, p))
  /\ \A m \in 1..Len(c) : Has(sys2, ts2, c[m])
  /\ Single(c) =>
       \A p, q \in fresh : /\ ItemAt(sys2, ts2, p) = ItemAt(sys2, ts2, q)
                           /\ ItemAt(sys2, ts2, p).from \in {"client", "injection"}
                           => p = q
  /\ Len(c) = 1 => \A p, q \in fresh : p = q

Grown(sys, ts, sys2, ts2, k, size, c, fresh) ==
  /\ size \in Nat
  /\ Gains(sys, ts, sys2, ts2, Same(sys2, ts2), fresh, c)
  /\ \A p \in fresh : p[1] = k /\ p[2] \in Nat /\ p[2] > size
  /\ \A q \in PlacesIn(sys2, ts2) \ fresh :
       /\ q \in PlacesIn(sys, ts) /\ ItemAt(sys, ts, q) = ItemAt(sys2, ts2, q)
       /\ q[1] < k \/ (q[1] = k /\ q[2] <= size) \/ q[1] > k

LEMMA GrowsGains ==
  ASSUME NEW sys \in Seq(Items), NEW ts \in Seq(TurnsOf),
         NEW sys2 \in Seq(Items), NEW ts2 \in Seq(TurnsOf),
         NEW k \in 0..Len(ts), NEW c \in Seq(Items), GrownAt(sys, ts, sys2, ts2, k, c)
  PROVE  Grown(sys, ts, sys2, ts2, k, Len(PartOf(sys, ts, k)), c,
               Behind(k, Len(PartOf(sys, ts, k)), c))
<1> DEFINE size == Len(PartOf(sys, ts, k))
           fresh == Behind(k, size, c)
           back == Same(sys2, ts2)
           more == Len(c)
<1>1. /\ size \in Nat
      /\ Carries(sys, ts, sys2, ts2, back, fresh)
      /\ Stays(sys, ts, sys2, ts2)
      /\ \A p \in fresh : /\ p[1] = k /\ p[2] \in (size + 1)..(size + more)
                          /\ ItemAt(sys2, ts2, p) = c[p[2] - size]
                          /\ p = <<k, p[2]>>
      /\ \A m \in 1..more : <<k, size + m>> \in fresh
      /\ \A q \in PlacesIn(sys2, ts2) \ fresh :
           /\ q \in PlacesIn(sys, ts)
           /\ q[1] < k \/ (q[1] = k /\ q[2] <= size) \/ q[1] > k
  BY Grows DEF GrownAt
<1>2. more \in Nat
  OBVIOUS
<1> HIDE DEF size, fresh, more
<1>3. ASSUME NEW p \in fresh
      PROVE  /\ p[1] = k /\ p[2] \in Nat /\ p[2] > size /\ p = <<k, p[2]>>
             /\ p[2] - size \in 1..more /\ ItemAt(sys2, ts2, p) = c[p[2] - size]
  <2> DEFINE a == p[2]
  <2>1. a \in (size + 1)..(size + more)
    BY <1>1
  <2> HIDE DEF a
  <2>2. a \in Nat /\ a > size /\ a - size \in 1..more
    BY <1>1, <1>2, <2>1
  <2>3. QED
    BY <1>1, <2>2 DEF a
<1>4. ASSUME NEW m \in 1..more
      PROVE  Has(sys2, ts2, c[m])
  <2>1. (size + m) - size = m
    BY <1>1, <1>2
  <2> DEFINE a == size + m
  <2>2. <<k, a>> \in fresh
    BY <1>1
  <2>3. ItemAt(sys2, ts2, <<k, a>>) = c[a - size]
    BY <1>3, <2>2
  <2>4. ItemAt(sys2, ts2, <<k, size + m>>) = c[m] /\ <<k, size + m>> \in fresh
    BY <2>1, <2>2, <2>3
  <2>5. <<k, size + m>> \in PlacesIn(sys2, ts2)
    BY <1>1, <2>4 DEF Carries
  <2>6. QED
    BY <2>4, <2>5 DEF Has
<1>5. ASSUME NEW p \in fresh, NEW q \in fresh, p[2] - size = q[2] - size
      PROVE  p = q
  <2> DEFINE a == p[2]
             b == q[2]
  <2>1. a \in Nat /\ b \in Nat /\ a - size = b - size /\ p = <<k, a>> /\ q = <<k, b>>
    BY <1>3, <1>5
  <2> HIDE DEF a, b
  <2>2. a = b
    BY <1>1, <2>1
  <2>3. QED
    BY <2>1, <2>2
<1>6. ASSUME Single(c), NEW p \in fresh, NEW q \in fresh,
             ItemAt(sys2, ts2, p) = ItemAt(sys2, ts2, q),
             ItemAt(sys2, ts2, p).from \in {"client", "injection"}
      PROVE  p = q
  <2>1. p[2] - size = q[2] - size
    BY <1>3, <1>6 DEF Single, more
  <2>2. QED
    BY <1>5, <2>1
<1>7. ASSUME more = 1, NEW p \in fresh, NEW q \in fresh
      PROVE  p = q
  <2>1. p[2] - size \in 1..1 /\ q[2] - size \in 1..1
    BY <1>3, <1>7
  <2>2. p[2] - size = q[2] - size
    BY <2>1
  <2>3. QED
    BY <1>5, <2>2
<1>8. \A p \in PlacesIn(sys, ts) : Has(sys2, ts2, ItemAt(sys, ts, p))
  BY <1>1 DEF Stays, Has
<1>9. \A p \in fresh : \E m \in 1..more : ItemAt(sys2, ts2, p) = c[m]
  BY <1>3
<1>10. Gains(sys, ts, sys2, ts2, back, fresh, c)
  BY <1>1, <1>4, <1>6, <1>7, <1>8, <1>9 DEF Gains, more
<1>11. \A q \in PlacesIn(sys2, ts2) \ fresh : ItemAt(sys, ts, q) = ItemAt(sys2, ts2, q)
  BY <1>1 DEF Stays
<1>12. QED
  BY <1>1, <1>3, <1>10, <1>11 DEF size, fresh, back, Grown

(* There is a turn with the items c at position r.                         *)
InsertedAt(sys, ts, ts2, r, c) ==
  /\ Len(ts2) = Len(ts) + 1
  /\ \A n \in 0..(Len(ts) + 1) :
       PartOf(sys, ts2, n) = IF n < r THEN PartOf(sys, ts, n)
                             ELSE IF n = r THEN c ELSE PartOf(sys, ts, n - 1)

Inserted(sys, ts, ts2, r, c, back, fresh) ==
  /\ Gains(sys, ts, sys, ts2, back, fresh, c)
  /\ \A p \in fresh : p[1] = r /\ p[2] \in Nat /\ p[2] > 0
  /\ \A p \in PlacesIn(sys, ts2) \ fresh :
       /\ p[1] # r
       /\ back[p] = IF p[1] < r THEN p ELSE <<p[1] - 1, p[2]>>

LEMMA InsertsGains ==
  ASSUME NEW sys \in Seq(Items), NEW ts \in Seq(TurnsOf), NEW ts2 \in Seq(TurnsOf),
         NEW r \in 1..(Len(ts) + 1), NEW c \in Seq(Items), InsertedAt(sys, ts, ts2, r, c)
  PROVE  Inserted(sys, ts, ts2, r, c, Lower(sys, ts2, r), Behind(r, 0, c))
<1> DEFINE fresh == Behind(r, 0, c)
           back == Lower(sys, ts2, r)
           more == Len(c)
<1>1. /\ Carries(sys, ts, sys, ts2, back, fresh)
      /\ \A p \in PlacesIn(sys, ts) :
           /\ Up(p, r) \in PlacesIn(sys, ts2)
           /\ ItemAt(sys, ts2, Up(p, r)) = ItemAt(sys, ts, p)
      /\ \A p \in fresh : /\ p[1] = r /\ p[2] \in 1..more /\ p = <<r, p[2]>>
                          /\ ItemAt(sys, ts2, p) = c[p[2]]
      /\ \A m \in 1..more : <<r, m>> \in fresh
      /\ \A p \in PlacesIn(sys, ts2) \ fresh :
           /\ p[1] # r
           /\ back[p] = IF p[1] < r THEN p ELSE <<p[1] - 1, p[2]>>
  BY Inserts DEF InsertedAt
<1>2. more \in Nat
  OBVIOUS
<1> HIDE DEF fresh, back, more
<1>3. ASSUME NEW m \in 1..more
      PROVE  Has(sys, ts2, c[m])
  <2>1. <<r, m>> \in fresh /\ ItemAt(sys, ts2, <<r, m>>) = c[m]
    BY <1>1
  <2>2. <<r, m>> \in PlacesIn(sys, ts2)
    BY <1>1, <2>1 DEF Carries
  <2>3. QED
    BY <2>1, <2>2 DEF Has
<1>4. ASSUME NEW p \in fresh, NEW q \in fresh, p[2] = q[2]
      PROVE  p = q
  BY <1>1, <1>4
<1>5. ASSUME Single(c), NEW p \in fresh, NEW q \in fresh,
             ItemAt(sys, ts2, p) = ItemAt(sys, ts2, q),
             ItemAt(sys, ts2, p).from \in {"client", "injection"}
      PROVE  p = q
  <2>1. p[2] = q[2]
    BY <1>1, <1>5 DEF Single, more
  <2>2. QED
    BY <1>4, <2>1
<1>6. ASSUME more = 1, NEW p \in fresh, NEW q \in fresh
      PROVE  p = q
  <2>1. p[2] \in 1..1 /\ q[2] \in 1..1
    BY <1>1, <1>6
  <2>2. p[2] = q[2]
    BY <2>1
  <2>3. QED
    BY <1>4, <2>2
<1>7. \A p \in PlacesIn(sys, ts) : Has(sys, ts2, ItemAt(sys, ts, p))
  BY <1>1 DEF Has
<1>8. \A p \in fresh : \E m \in 1..more : ItemAt(sys, ts2, p) = c[m]
  BY <1>1
<1>9. Gains(sys, ts, sys, ts2, back, fresh, c)
  BY <1>1, <1>3, <1>5, <1>6, <1>7, <1>8 DEF Gains, more
<1>10. ASSUME NEW p \in fresh
       PROVE  p[2] \in Nat /\ p[2] > 0
  BY <1>1, <1>2
<1>11. QED
  BY <1>1, <1>9, <1>10 DEF fresh, back, Inserted

LEMMA PrimedKnown ==
  ASSUME Frozen
  PROVE  Known' <=> \A p \in PlacesIn(system', turns') :
                      KnownItem(ItemAt(system', turns', p), Read', Done')
BY DEF Known, KnownItem, IsWord, IsBlock, Word, PlacesIn, ItemAt, PartOf, Frozen

LEMMA StillKnown ==
  ASSUME Read \subseteq Read', Done \subseteq Done', NEW x, KnownItem(x, Read, Done)
  PROVE  KnownItem(x, Read', Done')
BY DEF KnownItem, IsWord, IsBlock

(* A step that adds c to the prompt, and one that only takes from it.      *)
LEMMA Passed ==
  ASSUME Base', Frozen, Known, Distinct(system, turns), Sorted(system, turns),
         Read \subseteq Read', Done \subseteq Done',
         NEW back, NEW fresh, NEW c \in Seq(Items),
         Gains(system, turns, system', turns', back, fresh, c), Single(c),
         \A m \in 1..Len(c) : KnownItem(c[m], Read', Done'),
         \A m \in 1..Len(c) : c[m].from \in {"client", "injection"} => ~Has(system, turns, c[m]),
         \A m \in 1..Len(c) : Turning(c[m]) =>
           /\ Len(c) = 1
           /\ \A p \in fresh : \A q \in PlacesIn(system', turns') \ fresh :
                Turning(ItemAt(system', turns', q)) =>
                  ItemAt(system', turns', q).of < c[m].of /\ Precedes(q, p)
  PROVE  /\ Known' /\ (Distinct(system, turns))' /\ (Sorted(system, turns))'
         /\ \A x : Has(system, turns, x) => Has(system', turns', x)
         /\ \A m \in 1..Len(c) : Has(system', turns', c[m])
<1>1. /\ Carries(system, turns, system', turns', back, fresh)
      /\ \A p \in fresh : \E m \in 1..Len(c) : ItemAt(system', turns', p) = c[m]
      /\ \A p \in PlacesIn(system, turns) : Has(system', turns', ItemAt(system, turns, p))
      /\ \A m \in 1..Len(c) : Has(system', turns', c[m])
      /\ \A p, q \in fresh : /\ ItemAt(system', turns', p) = ItemAt(system', turns', q)
                             /\ ItemAt(system', turns', p).from \in {"client", "injection"}
                             => p = q
      /\ Len(c) = 1 => \A p, q \in fresh : p = q
  BY DEF Gains
<1>2. system' \in Seq(Items) /\ turns' \in Seq(TurnsOf)
  BY DEF Base, Shape
<1>3. Known'
  <2>1. ASSUME NEW p \in PlacesIn(system', turns')
        PROVE  KnownItem(ItemAt(system', turns', p), Read', Done')
    <3>1. CASE p \in fresh
      BY <1>1, <3>1
    <3>2. CASE p \notin fresh
      <4>1. Has(system, turns, ItemAt(system', turns', p))
        BY <1>1, <3>2, CarriesItems
      <4>2. KnownItem(ItemAt(system', turns', p), Read, Done)
        BY <4>1 DEF Has, Known
      <4>3. QED
        BY <4>2, StillKnown
    <3>3. QED
      BY <3>1, <3>2
  <2>2. QED
    BY <2>1, PrimedKnown
<1>4. Distinct(system', turns')
  <2>1. \A p \in fresh : ItemAt(system', turns', p).from \in {"client", "injection"} =>
          /\ ~Has(system, turns, ItemAt(system', turns', p))
          /\ \A q \in fresh : ItemAt(system', turns', p) = ItemAt(system', turns', q) => p = q
    BY <1>1
  <2>2. QED
    BY <1>1, <2>1, CarriesDistinct
<1>5. Sorted(system', turns')
  <2>1. \A p \in PlacesIn(system', turns') : ItemAt(system', turns', p).of \in Nat
    <3>1. \A p \in PlacesIn(system', turns') : ItemAt(system', turns', p) \in Items
      BY <1>2, PlaceIs
    <3>2. QED
      BY <3>1 DEF Items
  <2>2. ASSUME NEW p \in fresh, Turning(ItemAt(system', turns', p))
        PROVE  /\ \A q \in PlacesIn(system', turns') \ fresh :
                    Turning(ItemAt(system', turns', q)) =>
                      /\ ItemAt(system', turns', q).of < ItemAt(system', turns', p).of
                      /\ Precedes(q, p)
               /\ \A q \in fresh : Turning(ItemAt(system', turns', q)) => p = q
    <3>1. PICK m \in 1..Len(c) : ItemAt(system', turns', p) = c[m]
      BY <1>1
    <3>2. Turning(c[m])
      BY <2>2, <3>1
    <3>3. QED
      BY <1>1, <3>1, <3>2
  <2>3. QED
    BY <1>1, <2>1, <2>2, CarriesSorted
<1>6. \A x : Has(system, turns, x) => Has(system', turns', x)
  BY <1>1 DEF Has
<1>7. QED
  BY <1>1, <1>3, <1>4, <1>5, <1>6, Primed

LEMMA TakesAway ==
  ASSUME Base', Frozen, Known, Distinct(system, turns), Sorted(system, turns),
         Read \subseteq Read', Done \subseteq Done',
         NEW back, Carries(system, turns, system', turns', back, {})
  PROVE  Known' /\ (Distinct(system, turns))' /\ (Sorted(system, turns))'
<1>1. system' \in Seq(Items) /\ turns' \in Seq(TurnsOf)
  BY DEF Base, Shape
<1>2. Known'
  <2>1. ASSUME NEW p \in PlacesIn(system', turns')
        PROVE  KnownItem(ItemAt(system', turns', p), Read', Done')
    <3>1. Has(system, turns, ItemAt(system', turns', p))
      BY CarriesItems
    <3>2. KnownItem(ItemAt(system', turns', p), Read, Done)
      BY <3>1 DEF Has, Known
    <3>3. QED
      BY <3>2, StillKnown
  <2>2. QED
    BY <2>1, PrimedKnown
<1>3. Distinct(system', turns')
  BY CarriesDistinct
<1>4. Sorted(system', turns')
  <2>1. \A p \in PlacesIn(system', turns') : ItemAt(system', turns', p).of \in Nat
    <3>1. \A p \in PlacesIn(system', turns') : ItemAt(system', turns', p) \in Items
      BY <1>1, PlaceIs
    <3>2. QED
      BY <3>1 DEF Items
  <2>2. QED
    BY <2>1, CarriesSorted
<1>5. QED
  BY <1>2, <1>3, <1>4, Primed

(* A step that leaves the prompt alone.                                    *)
LEMMA Left ==
  ASSUME Frozen, Known, Distinct(system, turns), Sorted(system, turns),
         Read \subseteq Read', Done \subseteq Done', system' = system, turns' = turns
  PROVE  /\ Known' /\ (Distinct(system, turns))' /\ (Sorted(system, turns))'
         /\ \A x : Has(system, turns, x) => Has(system', turns', x)
<1>1. Known'
  <2>1. ASSUME NEW p \in PlacesIn(system', turns')
        PROVE  KnownItem(ItemAt(system', turns', p), Read', Done')
    BY StillKnown DEF Known
  <2>2. QED
    BY <2>1, PrimedKnown
<1>2. Distinct(system', turns') /\ Sorted(system', turns')
  OBVIOUS
<1>3. QED
  BY <1>1, <1>2, Primed

(* Items of the preset's and one word.                                     *)
LEMMA SingleIs ==
  ASSUME NEW c \in Seq(Items),
         \/ \A m \in 1..Len(c) : c[m].from \notin {"client", "injection"}
         \/ Len(c) <= 1
  PROVE  Single(c)
<1>1. Len(c) \in Nat
  OBVIOUS
<1>2. CASE \A m \in 1..Len(c) : c[m].from \notin {"client", "injection"}
  BY <1>2 DEF Single
<1>3. CASE Len(c) <= 1
  <2>1. \A m, n \in 1..Len(c) : m = n
    BY <1>1, <1>3
  <2>2. QED
    BY <2>1 DEF Single
<1>4. QED
  BY <1>2, <1>3

LEMMA PresetKnown ==
  ASSUME NEW where \in {"prepend", "append"}, NEW read, NEW done
  PROVE  /\ KnownItem(PresetItem(where), read, done) /\ ~Turning(PresetItem(where))
         /\ PresetItem(where).from \notin {"client", "injection"}
BY DEF KnownItem, PresetItem, Turning

LEMMA WordKnown ==
  ASSUME kinds \in Seq(Kinds), NEW read, NEW i \in DOMAIN kinds, i \in read, kinds[i] # "blank",
         NEW done
  PROVE  KnownItem(Word(i), read, done) /\ (Turning(Word(i)) <=> kinds[i] # "system")
<1>1. i \in Nat
  BY KindsAre
<1>2. Word(i).of = i /\ Word(i).from = "client"
  BY <1>1, ItemsAre
<1>3. QED
  BY <1>2 DEF KnownItem, IsWord, Turning

LEMMA BlockKnown ==
  ASSUME NEW j \in Nat, NEW read, NEW done, j \in done
  PROVE  KnownItem(InjItem(j), read, done) /\ ~Turning(InjItem(j))
<1>1. InjItem(j).of = j /\ InjItem(j).from = "injection"
  BY ItemsAre
<1>2. QED
  BY <1>1 DEF KnownItem, IsBlock, Turning

-----------------------------------------------------------------------------
(* What is said, and by whom, as an inductive invariant.                   *)
Said ==
  /\ Known /\ Clean /\ Distinct(system, turns) /\ Sorted(system, turns) /\ Speakers
  /\ Kept /\ UserTurn /\ Reached

(* Items are added to the system field, or to a turn; a turn is inserted,  *)
(* or removed.                                                             *)
LEMMA SystemGrows ==
  ASSUME Base, NEW c \in Seq(Items), system' \in Seq(Items), turns' \in Seq(TurnsOf),
         turns' = turns, system' = system \o c
  PROVE  LET fresh == Behind(0, Len(system), c)
         IN /\ Gains(system, turns, system', turns', Same(system', turns'), fresh, c)
            /\ \A p \in fresh : p[1] = 0 /\ p[2] \in Nat /\ p[2] > Len(system)
            /\ \A q \in PlacesIn(system', turns') \ fresh :
                 /\ q \in PlacesIn(system, turns)
                 /\ ItemAt(system, turns, q) = ItemAt(system', turns', q)
<1>1. /\ system \in Seq(Items) /\ turns \in Seq(TurnsOf)
  BY DEF Base, Shape
<1> DEFINE sys2 == system'
           ts2 == turns'
<1>2. /\ sys2 \in Seq(Items) /\ ts2 \in Seq(TurnsOf) /\ Len(ts2) = Len(turns)
      /\ 0 \in 0..Len(turns)
  BY <1>1
<1>3. PartOf(sys2, ts2, 0) = PartOf(system, turns, 0) \o c /\ PartOf(system, turns, 0) = system
  BY DEF PartOf
<1>4. \A n \in 0..Len(turns) : n # 0 => PartOf(sys2, ts2, n) = PartOf(system, turns, n)
  BY DEF PartOf
<1> HIDE DEF sys2, ts2
<1>5. GrownAt(system, turns, sys2, ts2, 0, c)
  BY <1>2, <1>3, <1>4 DEF GrownAt
<1>6. Grown(system, turns, sys2, ts2, 0, Len(PartOf(system, turns, 0)), c,
            Behind(0, Len(PartOf(system, turns, 0)), c))
  BY <1>1, <1>2, <1>5, GrowsGains
<1>7. QED
  BY <1>3, <1>6 DEF sys2, ts2, Grown

LEMMA TurnGrows ==
  ASSUME Base, NEW c \in Seq(Items), system' = system, turns' \in Seq(TurnsOf),
         NEW k \in 1..Len(turns), turns' = AddTo(turns, k, c)
  PROVE  LET size == Len(turns[k].items)
             fresh == Behind(k, size, c)
         IN /\ size \in Nat
            /\ Gains(system, turns, system', turns', Same(system', turns'), fresh, c)
            /\ \A p \in fresh : p[1] = k /\ p[2] \in Nat /\ p[2] > size
            /\ \A q \in PlacesIn(system', turns') \ fresh :
                 /\ q \in PlacesIn(system, turns)
                 /\ ItemAt(system, turns, q) = ItemAt(system', turns', q)
                 /\ q[1] < k \/ (q[1] = k /\ q[2] <= size) \/ q[1] > k
            /\ Len(turns') = Len(turns) /\ OneLonger(turns, k, c, turns')
<1>1. /\ system \in Seq(Items) /\ turns \in Seq(TurnsOf) /\ k \in 0..Len(turns) /\ k # 0
  BY DEF Base, Shape
<1> DEFINE sys2 == system'
           ts2 == turns'
<1>2. /\ sys2 = system /\ ts2 \in Seq(TurnsOf) /\ ts2 = AddTo(turns, k, c)
  OBVIOUS
<1> HIDE DEF sys2, ts2
<1>3. /\ Len(ts2) = Len(turns)
      /\ OneLonger(turns, k, c, ts2)
      /\ GrownAt(system, turns, sys2, ts2, k, c)
  <2>1. /\ Len(AddTo(turns, k, c)) = Len(turns)
        /\ OneLonger(turns, k, c, AddTo(turns, k, c))
        /\ GrownAt(system, turns, system, AddTo(turns, k, c), k, c)
    BY <1>1, AddedParts
  <2>2. QED
    BY <1>2, <2>1
<1>4. Grown(system, turns, sys2, ts2, k, Len(PartOf(system, turns, k)), c,
            Behind(k, Len(PartOf(system, turns, k)), c))
  BY <1>1, <1>2, <1>3, GrowsGains
<1>5. PartOf(system, turns, k) = turns[k].items
  BY <1>1 DEF PartOf
<1>6. QED
  BY <1>3, <1>4, <1>5 DEF sys2, ts2, Grown

LEMMA TurnInserted ==
  ASSUME Base, system' = system, turns' \in Seq(TurnsOf),
         NEW r \in 1..(Len(turns) + 1), NEW t \in TurnsOf, turns' = InsertAt(turns, r, t)
  PROVE  LET c == t.items
             fresh == Behind(r, 0, c)
             back == Lower(system', turns', r)
         IN /\ c \in Seq(Items)
            /\ Gains(system, turns, system', turns', back, fresh, c)
            /\ \A p \in fresh : p[1] = r /\ p[2] \in Nat /\ p[2] > 0
            /\ \A p \in PlacesIn(system', turns') \ fresh :
                 /\ p[1] # r
                 /\ back[p] = IF p[1] < r THEN p ELSE <<p[1] - 1, p[2]>>
            /\ Len(turns') = Len(turns) + 1
            /\ OneMore(turns, r, t, turns')
<1>1. /\ system \in Seq(Items) /\ turns \in Seq(TurnsOf)
  BY DEF Base, Shape
<1> DEFINE ts2 == turns'
           sys2 == system'
<1>2. ts2 \in Seq(TurnsOf) /\ ts2 = InsertAt(turns, r, t) /\ sys2 = system
  OBVIOUS
<1> HIDE DEF ts2, sys2
<1>3. Len(ts2) = Len(turns) + 1 /\ t.items \in Seq(Items) /\ InsertedAt(system, turns, ts2, r, t.items)
  BY <1>1, <1>2, InsertedParts DEF InsertedAt
<1>4. Inserted(system, turns, ts2, r, t.items, Lower(system, ts2, r), Behind(r, 0, t.items))
  BY <1>1, <1>2, <1>3, InsertsGains
<1>5. OneMore(turns, r, t, ts2)
  <2> DEFINE S == TurnsOf
  <2>1. turns \in Seq(S) /\ t \in S
    BY <1>1
  <2> HIDE DEF S
  <2>2. /\ InsertAt(turns, r, t) \in Seq(S) /\ Len(InsertAt(turns, r, t)) = Len(turns) + 1
        /\ OneMore(turns, r, t, InsertAt(turns, r, t))
    BY <2>1, InsertIs
  <2>3. QED
    BY <1>2, <2>2
<1>6. QED
  BY <1>2, <1>3, <1>4, <1>5 DEF ts2, sys2, Inserted

LEMMA TurnRemoved ==
  ASSUME Base, system' = system, turns' \in Seq(TurnsOf),
         NEW r \in 1..Len(turns), turns' = RemoveAt(turns, r)
  PROVE  /\ Carries(system, turns, system', turns', Higher(system', turns', r), {})
         /\ \A p \in PlacesIn(system, turns) :
              p[1] # r => Has(system', turns', ItemAt(system, turns, p))
         /\ \A p \in PlacesIn(system', turns') : Up(p, r) \in PlacesIn(system, turns)
         /\ Len(turns) = Len(turns') + 1
         /\ \A n \in 1..Len(turns') : turns'[n] = IF n < r THEN turns[n] ELSE turns[n + 1]
<1>1. /\ system \in Seq(Items) /\ turns \in Seq(TurnsOf)
  BY DEF Base, Shape
<1> DEFINE ts2 == turns'
           sys2 == system'
<1>2. ts2 \in Seq(TurnsOf) /\ ts2 = RemoveAt(turns, r) /\ sys2 = system
  OBVIOUS
<1> HIDE DEF ts2, sys2
<1>3. /\ Len(turns) = Len(ts2) + 1
      /\ \A n \in 0..Len(ts2) :
           PartOf(system, ts2, n) = IF n < r THEN PartOf(system, turns, n)
                                    ELSE PartOf(system, turns, n + 1)
  BY <1>1, <1>2, RemovedParts
<1>4. /\ Carries(system, turns, system, ts2, Higher(system, ts2, r), {})
      /\ \A p \in PlacesIn(system, turns) : p[1] # r => Has(system, ts2, ItemAt(system, turns, p))
      /\ \A p \in PlacesIn(system, ts2) : Up(p, r) \in PlacesIn(system, turns)
  BY <1>1, <1>2, <1>3, Removes
<1>5. \A n \in 1..Len(ts2) : ts2[n] = IF n < r THEN turns[n] ELSE turns[n + 1]
  BY <1>1, <1>2, RemoveIs
<1>6. QED
  BY <1>2, <1>3, <1>4, <1>5 DEF ts2, sys2

(* The other parts of the invariant in the next state.                     *)
LEMMA SpeakersOn ==
  ASSUME Frozen, Base, Base', Speakers,
         \A n \in 1..Len(turns') :
           (\E k \in 1..Len(turns) : turns'[n] = turns[k]) \/ Fits(turns'[n])
  PROVE  Speakers'
<1>1. turns \in Seq(TurnsOf) /\ turns' \in Seq(TurnsOf)
  BY DEF Base, Shape
<1>2. ASSUME NEW n \in 1..Len(turns')
      PROVE  Fits(turns'[n])
  <2>1. CASE \E k \in 1..Len(turns) : turns'[n] = turns[k]
    BY <1>1, <2>1 DEF Speakers
  <2>2. QED
    BY <2>1
<1>3. DOMAIN turns' = 1..Len(turns')
  BY <1>1
<1>4. QED
  BY <1>2, <1>3 DEF Speakers, Fits, Frozen

LEMMA KeptOn ==
  ASSUME Frozen, Kept, stage \in Converting \/ Read = {},
         stage \in {"stripping", "sent"} => stage' \in {"stripping", "sent"},
         \A x : Has(system, turns, x) => Has(system', turns', x),
         \A i \in Read' \ Read : kinds[i] \in {"system", "user", "assistant", "tool"} =>
           Has(system', turns', Word(i))
  PROVE  Kept'
<1>1. ASSUME NEW i \in Read', kinds[i] \in {"system", "user", "assistant", "tool"}
      PROVE  Has(system', turns', Word(i)) \/ (stage' \in {"stripping", "sent"} /\ Prefill(i))
  BY <1>1 DEF Kept
<1>2. QED
  <2>1. ASSUME NEW i
        PROVE  /\ (Has(system, turns, Word(i)))' <=> Has(system', turns', Word(i))
               /\ (Prefill(i))' <=> Prefill(i)
    BY DEF Prefill, Word, ClientItem, Has, PlacesIn, ItemAt, PartOf, Frozen
  <2>2. kinds' = kinds
    BY DEF Frozen
  <2>3. QED
    BY <1>1, <2>1, <2>2 DEF Kept

LEMMA ReachedOn ==
  ASSUME Frozen, Reached,
         \A x : Has(system, turns, x) => Has(system', turns', x),
         format = "openai" \/ UserSpeaks =>
           \A j \in Done' \ Done : Has(system', turns', InjItem(j))
  PROVE  Reached'
<1>1. ASSUME format = "openai" \/ UserSpeaks, NEW j \in Done'
      PROVE  Has(system', turns', InjItem(j))
  BY <1>1 DEF Reached
<1>2. QED
  BY <1>1 DEF Reached, UserSpeaks, InjItem, Has, PlacesIn, ItemAt, PartOf, Frozen

(* Said, action by action.                                                 *)
LEMMA AssembleSaid == Base /\ Base' /\ Frozen /\ Said /\ Assemble => Said'
<1> SUFFICES ASSUME Base, Base', Frozen, Said, Assemble PROVE Said'
  OBVIOUS
<1>1. /\ stage = "received" /\ stage' = "assembled" /\ system' = system /\ turns' = turns
      /\ todo' = todo
  BY DEF Assemble
<1>2. Read = {} /\ Done = {} /\ Done' = {}
  BY <1>1 DEF Base, Progress, Done, Frozen
<1>3. /\ Known' /\ (Distinct(system, turns))' /\ (Sorted(system, turns))'
      /\ \A x : Has(system, turns, x) => Has(system', turns', x)
  BY <1>1, <1>2, Left DEF Said
<1>4. Clean'
  BY <1>1 DEF Said, Clean
<1>5. Speakers'
  <2>1. turns \in Seq(TurnsOf)
    BY DEF Base, Shape
  <2>2. QED
    BY <1>1, <2>1, SpeakersOn DEF Said
<1>6. Kept' /\ UserTurn'
  BY <1>1 DEF Kept, UserTurn, Converting
<1>7. Reached'
  BY <1>2, <1>3, ReachedOn DEF Said
<1>8. QED
  BY <1>3, <1>4, <1>5, <1>6, <1>7 DEF Said

LEMMA SpliceSaid == Base /\ Base' /\ Frozen /\ Said /\ Splice => Said'
<1> SUFFICES ASSUME Base, Base', Frozen, Said, Splice PROVE Said'
  OBVIOUS
<1>1. /\ stage = "mapped" /\ format = "openai" /\ stage' = stage /\ system' = system
      /\ body' = body /\ kinds' = kinds /\ injs' = injs
  BY DEF Splice
<1>2. PICK j \in todo :
        /\ turns' = InsertAt(turns, Due(injs[j].depth) + placed.count + 1,
                             Turn(BlockRole(j), <<InjItem(j)>>))
        /\ todo' = todo \ {j}
  BY DEF Splice
<1> DEFINE t == Turn(BlockRole(j), <<InjItem(j)>>)
           r == Due(injs[j].depth) + placed.count + 1
           x == InjItem(j)
           c == <<x>>
<1>3. /\ j \in Nat /\ j \in DOMAIN injs
      /\ t \in TurnsOf /\ t.items = c /\ t.role \in {"lorebook", "system"}
      /\ r \in 1..(Len(turns) + 1)
  BY <1>1, SpliceIs
<1>4. x \in Items /\ x.from = "injection"
  BY <1>3, ItemsAre
<1>5. turns' \in Seq(TurnsOf)
  BY DEF Base, Shape
<1>6. turns' = InsertAt(turns, r, t)
  BY <1>2
<1> HIDE DEF t, r, x
<1>7. c \in Seq(Items) /\ Len(c) = 1 /\ c[1] = x
  BY <1>4
<1> HIDE DEF c
<1>8. Read' = Read /\ j \notin Done /\ Done' = Done \cup {j}
  <2>1. Read' = Read
    BY SameRead DEF Splice
  <2>2. QED
    BY <1>1, <1>2, <1>3, <2>1 DEF Done
<1>9. PICK back, fresh :
        /\ Gains(system, turns, system', turns', back, fresh, c)
        /\ Len(turns') = Len(turns) + 1
        /\ OneMore(turns, r, t, turns')
  BY <1>1, <1>3, <1>5, <1>6, TurnInserted
<1>10. /\ Known' /\ (Distinct(system, turns))' /\ (Sorted(system, turns))'
       /\ \A y : Has(system, turns, y) => Has(system', turns', y)
       /\ Has(system', turns', x)
  <2>1. KnownItem(x, Read', Done') /\ ~Turning(x)
    BY <1>3, <1>8, BlockKnown DEF x
  <2>2. ~Has(system, turns, x)
    BY <1>3, <1>8, Unplaced DEF Said, x
  <2>3. Single(c)
    <3>1. Len(c) <= 1
      BY <1>7
    <3>2. QED
      BY <1>7, <3>1, SingleIs
  <2>4. \A m \in 1..Len(c) : c[m] = x
    BY <1>7
  <2>5. /\ Known' /\ (Distinct(system, turns))' /\ (Sorted(system, turns))'
        /\ \A y : Has(system, turns, y) => Has(system', turns', y)
        /\ \A m \in 1..Len(c) : Has(system', turns', c[m])
    BY <1>7, <1>8, <1>9, <2>1, <2>2, <2>3, <2>4, Passed DEF Said
  <2>6. QED
    BY <1>7, <2>5
<1>11. Clean'
  BY <1>1 DEF Said, Clean
<1>12. Speakers'
  <2>1. ASSUME NEW n \in 1..Len(turns')
        PROVE  (\E k \in 1..Len(turns) : turns'[n] = turns[k]) \/ Fits(turns'[n])
    <3>1. Len(turns) \in Nat /\ r \in 1..(Len(turns) + 1) /\ n \in 1..(Len(turns) + 1)
      BY <1>3, <1>9 DEF Base, Shape
    <3>2. CASE n < r
      BY <1>9, <3>1, <3>2 DEF OneMore
    <3>3. CASE n = r
      <4>1. turns'[n] = t
        BY <1>9, <3>1, <3>3 DEF OneMore
      <4>2. Fits(t)
        BY <1>1, <1>3 DEF Fits
      <4>3. QED
        BY <4>1, <4>2
    <3>4. CASE n > r
      <4>1. n - 1 \in 1..Len(turns) /\ ~(n < r) /\ n # r
        BY <3>1, <3>4
      <4>2. turns'[n] = turns[n - 1]
        BY <1>9, <3>1, <4>1 DEF OneMore
      <4>3. QED
        BY <4>1, <4>2
    <3>5. QED
      BY <3>1, <3>2, <3>3, <3>4
  <2>2. QED
    BY <2>1, SpeakersOn DEF Said
<1>13. Kept'
  BY <1>1, <1>8, <1>10, KeptOn DEF Said, Converting
<1>14. UserTurn'
  BY <1>1 DEF UserTurn, Frozen
<1>15. Reached'
  BY <1>8, <1>10, ReachedOn DEF Said, x
<1>16. QED
  BY <1>10, <1>11, <1>12, <1>13, <1>14, <1>15 DEF Said

(* What is appended are a block of the preset and the card, if it is late. *)
LEMMA AppendItems ==
  ASSUME Base, Frozen, stage # "received", body' = body, append' = <<>>
  PROVE  /\ append \in Seq(Items) /\ Single(append) /\ Read \subseteq Read'
         /\ Read' \subseteq DOMAIN kinds
         /\ \A m \in 1..Len(append) :
              /\ \A done : KnownItem(append[m], Read', done)
              /\ ~Turning(append[m]) /\ append[m].from # "injection"
              /\ append[m].from = "client" =>
                   /\ append[m].of \in DOMAIN kinds \ Read
                   /\ append[m] = Word(append[m].of)
         /\ \A i \in Read' \ Read : /\ kinds[i] = "system"
                                     /\ \E m \in 1..Len(append) : append[m] = Word(i)
<1> DEFINE a == PresetItem("append")
<1>1. kinds \in Seq(Kinds) /\ append \in Seq(Items) /\ Ending
  BY DEF Base, Shape, Appended
<1>2. /\ \A done : KnownItem(a, Read', done)
      /\ ~Turning(a) /\ a.from \notin {"client", "injection"}
  BY PresetKnown
<1>3. /\ Held' = {i \in DOMAIN kinds : IsCard(i) /\ Injected}
      /\ Read' = {i \in DOMAIN kinds \ Held' : \A n \in DOMAIN body : body[n] # i}
  <2>1. Injected' = Injected /\ \A i : IsCard(i)' <=> IsCard(i)
    BY DEF Injected, IsCard, Frozen
  <2>2. \A i : Late(i)' # <<>>
    <3>1. \A i : Late(i)' = Late(i)
      BY DEF Late, Word, ClientItem, PresetItem, Frozen
    <3>2. QED
      BY <1>1, <3>1, HeldIs
  <2>3. QED
    BY <2>1, <2>2 DEF Held, Read, Frozen
<1>4. CASE append = <<>> \/ append = <<a>>
  <2>1. Held = Held'
    BY <1>1, <1>3, <1>4, HeldIs DEF Held
  <2>2. Read' = Read /\ Read' \subseteq DOMAIN kinds
    BY <1>3, <2>1 DEF Read
  <2> HIDE DEF a
  <2>3. \A m \in 1..Len(append) : append[m] = a
    BY <1>4
  <2>4. Single(append)
    BY <1>1, <1>2, <2>3, SingleIs
  <2>5. QED
    BY <1>1, <1>2, <2>2, <2>3, <2>4
<1>5. ASSUME ~Injected, NEW i \in Held, append = Late(i)
      PROVE  /\ Single(append) /\ Read' = Read \cup {i} /\ i \notin Read
             /\ i \in DOMAIN kinds /\ kinds[i] = "system"
             /\ \A m \in 1..Len(append) :
                  append[m] = a \/ (append[m] = Word(i) /\ Word(i).of = i)
             /\ 2 \in 1..Len(append) /\ append[2] = Word(i)
  <2> DEFINE w == Word(i)
  <2>1. append = <<a, w>>
    BY <1>5 DEF Late
  <2>2. i \in DOMAIN kinds /\ kinds[i] = "system" /\ i \notin Read /\ IsCard(i) /\ i \in Nat
    BY <1>1, HeldIs, KindsAre
  <2>3. w.from = "client" /\ w.of = i
    BY <2>2, ItemsAre
  <2>4. Held = {i} /\ Held' = {}
    BY <1>1, <1>3, <1>5, <2>2, HeldIs
  <2>5. \A n \in DOMAIN body : body[n] # i
    BY DEF Base, Appended
  <2>6. Read' = Read \cup {i}
    BY <1>3, <2>2, <2>4, <2>5 DEF Read
  <2> HIDE DEF w, a
  <2>7. Len(append) = 2 /\ append[1] = a /\ append[2] = w
    BY <2>1
  <2>8. \A m \in 1..Len(append) : m = 1 \/ m = 2
    BY <2>7
  <2>9. a # w
    BY <1>2, <2>3
  <2>10. Single(append)
    <3>1. ASSUME NEW m \in 1..Len(append), NEW n \in 1..Len(append), append[m] = append[n]
          PROVE  m = n
      BY <2>7, <2>8, <2>9, <3>1
    <3>2. QED
      BY <3>1 DEF Single
  <2>11. QED
    BY <2>2, <2>3, <2>6, <2>7, <2>8, <2>10 DEF w
<1>6. ASSUME ~Injected, NEW i \in Held, append = Late(i)
      PROVE  /\ Read \subseteq Read' /\ Read' \subseteq DOMAIN kinds
             /\ \A m \in 1..Len(append) :
                  /\ \A done : KnownItem(append[m], Read', done)
                  /\ ~Turning(append[m]) /\ append[m].from # "injection"
                  /\ append[m].from = "client" =>
                       /\ append[m].of \in DOMAIN kinds \ Read
                       /\ append[m] = Word(append[m].of)
             /\ \A k \in Read' \ Read : /\ kinds[k] = "system"
                                         /\ \E m \in 1..Len(append) : append[m] = Word(k)
  <2>1. /\ Read' = Read \cup {i} /\ i \notin Read
        /\ i \in DOMAIN kinds /\ kinds[i] = "system"
        /\ \A m \in 1..Len(append) :
             append[m] = a \/ (append[m] = Word(i) /\ Word(i).of = i)
        /\ 2 \in 1..Len(append) /\ append[2] = Word(i)
    BY <1>5, <1>6
  <2>2. i \in Nat /\ Read \subseteq DOMAIN kinds
    BY <1>1, <2>1, KindsAre, HeldIs
  <2> HIDE DEF a
  <2>3. /\ \A done : KnownItem(Word(i), Read', done)
        /\ ~Turning(Word(i)) /\ Word(i).from = "client"
    <3>1. Word(i).of = i /\ Word(i).from = "client"
      BY <2>2, ItemsAre
    <3>2. ~Turning(Word(i))
      BY <2>1, <3>1 DEF Turning
    <3>3. i \in Read' /\ kinds[i] # "blank"
      BY <2>1
    <3>4. ASSUME NEW done PROVE KnownItem(Word(i), Read', done)
      BY <3>1, <3>3 DEF KnownItem, IsWord
    <3>5. QED
      BY <3>1, <3>2, <3>4
  <2>4. QED
    BY <1>2, <2>1, <2>2, <2>3
<1>7. QED
  BY <1>1, <1>4, <1>5, <1>6 DEF Ending

LEMMA Append1Said == Base /\ Base' /\ Frozen /\ Said /\ Append1 => Said'
<1> SUFFICES ASSUME Base, Base', Frozen, Said, Append1 PROVE Said'
  OBVIOUS
<1>1. /\ stage = "mapped" /\ format = "openai" /\ stage' = "sent" /\ system' = system
      /\ body' = body /\ kinds' = kinds /\ injs' = injs /\ todo' = todo
  BY DEF Append1
<1>2. /\ Single(append) /\ Read \subseteq Read' /\ Done' = Done
      /\ \A m \in 1..Len(append) :
           /\ KnownItem(append[m], Read', Done') /\ ~Turning(append[m])
           /\ append[m].from # "injection"
           /\ append[m].from = "client" =>
                /\ append[m].of \in DOMAIN kinds \ Read
                /\ append[m] = Word(append[m].of)
      /\ \A i \in Read' \ Read : \E m \in 1..Len(append) : append[m] = Word(i)
  <2>1. stage # "received" /\ append' = <<>>
    BY DEF Append1
  <2>2. Done' = Done
    BY <1>1 DEF Done
  <2>3. QED
    BY <1>1, <2>1, <2>2, AppendItems
<1>3. Clean' /\ UserTurn'
  BY <1>1 DEF Said, Clean, UserTurn
<1>4. turns \in Seq(TurnsOf) /\ turns' \in Seq(TurnsOf)
  BY DEF Base, Shape
<1> DEFINE t == Turn("system", append)
           r == Len(turns) + 1
<1>5. CASE append = <<>> /\ turns' = turns
  <2>1. /\ Known' /\ (Distinct(system, turns))' /\ (Sorted(system, turns))'
        /\ \A x : Has(system, turns, x) => Has(system', turns', x)
    BY <1>1, <1>2, <1>5, Left DEF Said
  <2> \A i \in Read' \ Read : FALSE
    BY <1>2, <1>5
  <2>2. Speakers'
    BY <1>4, <1>5, SpeakersOn DEF Said
  <2>3. Kept'
    BY <1>1, <1>2, <2>1, KeptOn DEF Said, Converting
  <2>4. Reached'
    BY <1>2, <2>1, ReachedOn DEF Said
  <2>5. QED
    BY <1>3, <2>1, <2>2, <2>3, <2>4 DEF Said
<1>6. CASE turns' = InsertAt(turns, r, t)
  <2>1. /\ append \in Seq(Items) /\ t \in TurnsOf /\ t.items = append /\ r \in 1..(Len(turns) + 1)
    BY <1>4, Append1Is DEF Base
  <2>2. PICK back, fresh :
          /\ Gains(system, turns, system', turns', back, fresh, append)
          /\ Len(turns') = Len(turns) + 1
          /\ OneMore(turns, r, t, turns')
    <3> HIDE DEF t, r
    <3>1. QED
      BY <1>1, <1>4, <1>6, <2>1, TurnInserted
  <2>3. /\ Known' /\ (Distinct(system, turns))' /\ (Sorted(system, turns))'
        /\ \A x : Has(system, turns, x) => Has(system', turns', x)
        /\ \A m \in 1..Len(append) : Has(system', turns', append[m])
    <3>1. \A m \in 1..Len(append) :
            append[m].from \in {"client", "injection"} => ~Has(system, turns, append[m])
      BY <1>2, Unread DEF Said, Base
    <3>2. QED
      BY <1>2, <2>1, <2>2, <3>1, Passed DEF Said
  <2>4. Speakers'
    <3>1. ASSUME NEW n \in 1..Len(turns')
          PROVE  (\E k \in 1..Len(turns) : turns'[n] = turns[k]) \/ Fits(turns'[n])
      <4>1. Len(turns) \in Nat /\ n \in 1..(Len(turns) + 1)
        BY <1>4, <2>2
      <4>2. CASE n < r
        BY <2>2, <4>1, <4>2 DEF OneMore
      <4>3. CASE n = r
        <5>1. turns'[n] = t
          BY <2>2, <4>1, <4>3 DEF OneMore
        <5>2. Fits(t)
          BY <1>1 DEF Fits, Turn
        <5>3. QED
          BY <5>1, <5>2
      <4>4. QED
        BY <4>1, <4>2, <4>3
    <3>2. QED
      BY <3>1, SpeakersOn DEF Said
  <2>5. Kept'
    BY <1>1, <1>2, <2>3, KeptOn DEF Said, Converting
  <2>6. Reached'
    BY <1>2, <2>3, ReachedOn DEF Said
  <2>7. QED
    BY <1>3, <2>3, <2>4, <2>5, <2>6 DEF Said
<1>7. QED
  BY <1>5, <1>6, Append1Is DEF Base

(* What is hoisted first are the prepended blocks.                         *)
LEMMA BlockItems ==
  ASSUME Base, stage = "assembled"
  PROVE  /\ prepend \in Seq(Items) /\ Single(prepend)
         /\ \A m \in 1..Len(prepend) :
              /\ KnownItem(prepend[m], Read, {}) /\ ~Turning(prepend[m])
              /\ prepend[m].from # "injection"
              /\ prepend[m].from = "client" => prepend[m].of \in Read
         /\ \A i \in Read : /\ kinds[i] = "system" /\ 2 \in 1..Len(prepend)
                            /\ prepend[2] = Word(i)
<1> DEFINE a == PresetItem("prepend")
<1>1. /\ kinds \in Seq(Kinds) /\ prepend \in Seq(Items)
      /\ \/ prepend = <<>> \/ prepend = <<a>>
         \/ \E i \in Read : prepend = <<a, Word(i)>>
      /\ \A i \in Read : kinds[i] = "system" /\ prepend = <<a, Word(i)>>
  BY DEF Base, Shape, Prepended
<1>2. /\ KnownItem(a, Read, {}) /\ ~Turning(a) /\ a.from \notin {"client", "injection"}
  BY PresetKnown
<1>3. ASSUME NEW i \in Read
      PROVE  /\ KnownItem(Word(i), Read, {}) /\ ~Turning(Word(i)) /\ Word(i).from = "client"
             /\ Word(i).of = i
  <2>1. i \in DOMAIN kinds /\ kinds[i] = "system"
    BY <1>1 DEF Read
  <2>2. i \in Nat
    BY <1>1, <2>1, KindsAre
  <2>3. QED
    BY <1>1, <2>1, <2>2, WordKnown, ItemsAre
<1> HIDE DEF a
<1>4. CASE prepend = <<>>
  <2>1. Read = {}
    <3>1. ASSUME NEW i \in Read PROVE FALSE
      <4> DEFINE w == Word(i)
      <4>1. prepend = <<a, w>>
        BY <1>1
      <4> HIDE DEF w
      <4>2. QED
        BY <1>4, <4>1
    <3>2. QED
      BY <3>1
  <2>2. QED
    BY <1>1, <1>4, <2>1 DEF Single
<1>5. CASE prepend = <<a>>
  <2>1. Read = {}
    <3>1. ASSUME NEW i \in Read PROVE FALSE
      <4> DEFINE w == Word(i)
      <4>1. prepend = <<a, w>>
        BY <1>1
      <4> HIDE DEF w
      <4>2. QED
        BY <1>5, <4>1
    <3>2. QED
      BY <3>1
  <2>2. \A m \in 1..Len(prepend) : prepend[m] = a
    BY <1>5
  <2>3. Single(prepend)
    BY <1>1, <1>2, <2>2, SingleIs
  <2>4. QED
    BY <1>1, <1>2, <2>1, <2>2, <2>3
<1>6. ASSUME NEW i \in Read, prepend = <<a, Word(i)>>
      PROVE  /\ Single(prepend)
             /\ \A m \in 1..Len(prepend) :
                  /\ KnownItem(prepend[m], Read, {}) /\ ~Turning(prepend[m])
                  /\ prepend[m].from # "injection"
                  /\ prepend[m].from = "client" => prepend[m].of \in Read
             /\ \A k \in Read : /\ kinds[k] = "system" /\ 2 \in 1..Len(prepend)
                                /\ prepend[2] = Word(k)
  <2> DEFINE w == Word(i)
  <2>1. prepend = <<a, w>>
    BY <1>6
  <2>2. KnownItem(w, Read, {}) /\ ~Turning(w) /\ w.from = "client" /\ w.of = i
    BY <1>3
  <2> HIDE DEF w
  <2>3. Len(prepend) = 2 /\ prepend[1] = a /\ prepend[2] = w
    BY <2>1
  <2>4. ASSUME NEW m \in 1..Len(prepend)
        PROVE  m = 1 \/ m = 2
    BY <2>3
  <2>5. ASSUME NEW m \in 1..Len(prepend)
        PROVE  /\ KnownItem(prepend[m], Read, {}) /\ ~Turning(prepend[m])
               /\ prepend[m].from # "injection"
               /\ prepend[m].from = "client" => prepend[m].of \in Read
    BY <1>2, <2>2, <2>3, <2>4
  <2>6. Single(prepend)
    <3>1. ASSUME NEW m \in 1..Len(prepend), NEW n \in 1..Len(prepend), prepend[m] = prepend[n]
          PROVE  m = n
      BY <1>2, <2>2, <2>3, <2>4, <3>1
    <3>2. QED
      BY <3>1 DEF Single
  <2>7. \A k \in Read : kinds[k] = "system" /\ prepend[2] = Word(k)
    <3>1. ASSUME NEW k \in Read
          PROVE  prepend[2] = Word(k) /\ kinds[k] = "system"
      <4> DEFINE v == Word(k)
      <4>1. prepend = <<a, v>> /\ kinds[k] = "system"
        BY <1>1
      <4> HIDE DEF v
      <4>2. prepend[2] = v
        BY <4>1
      <4>3. QED
        BY <4>1, <4>2 DEF v
    <3>2. QED
      BY <3>1
  <2>8. QED
    BY <2>3, <2>5, <2>6, <2>7
<1>7. QED
  BY <1>1, <1>4, <1>5, <1>6

LEMMA KeptNow ==
  ASSUME Frozen,
         \A i \in Read' : kinds[i] \in {"system", "user", "assistant", "tool"} =>
           Has(system', turns', Word(i))
  PROVE  Kept'
BY DEF Kept, Word, ClientItem, Has, PlacesIn, ItemAt, PartOf, Frozen

(* A block of the preset and the items that are to be appended.            *)
LEMMA SingleConcat ==
  ASSUME NEW c \in Seq(Items), NEW d \in Seq(Items), Single(c), Single(d),
         \A m \in 1..Len(c) : \A n \in 1..Len(d) :
           c[m] = d[n] => c[m].from \notin {"client", "injection"}
  PROVE  /\ Single(c \o d) /\ c \o d \in Seq(Items)
         /\ \A m \in 1..Len(c) : m \in 1..Len(c \o d) /\ (c \o d)[m] = c[m]
         /\ \A n \in 1..Len(d) : \E m \in 1..Len(c \o d) : (c \o d)[m] = d[n]
         /\ \A m \in 1..Len(c \o d) :
              \/ m \in 1..Len(c) /\ (c \o d)[m] = c[m]
              \/ \E n \in 1..Len(d) : (c \o d)[m] = d[n]
<1> DEFINE e == c \o d
           k == Len(c)
           l == Len(d)
<1>1. k \in Nat /\ l \in Nat
  OBVIOUS
<1>2. /\ e \in Seq(Items) /\ Len(e) = k + l
      /\ \A m \in 1..k : e[m] = c[m]
      /\ \A m \in 1..l : e[k + m] = d[m]
  BY ConcatIs
<1> HIDE DEF e, k, l
<1>3. ASSUME NEW m \in 1..Len(e)
      PROVE  (m \in 1..k /\ e[m] = c[m]) \/ \E n \in 1..l : m = k + n /\ e[m] = d[n]
  <2>1. CASE m <= k
    BY <1>1, <1>2, <2>1
  <2>2. CASE ~(m <= k)
    <3>1. m - k \in 1..l /\ k + (m - k) = m
      BY <1>1, <1>2, <2>2
    <3>2. e[m] = d[m - k]
      BY <1>2, <3>1
    <3>3. QED
      BY <3>1, <3>2
  <2>3. QED
    BY <2>1, <2>2
<1>4. ASSUME NEW m \in 1..Len(e), NEW n \in 1..Len(e), e[m] = e[n],
             e[m].from \in {"client", "injection"}
      PROVE  m = n
  <2>1. CASE m \in 1..k /\ e[m] = c[m] /\ n \in 1..k /\ e[n] = c[n]
    BY <1>4, <2>1 DEF Single, k
  <2>2. ASSUME NEW a \in 1..l, NEW b \in 1..l, m = k + a, e[m] = d[a], n = k + b, e[n] = d[b]
        PROVE  m = n
    BY <1>4, <2>2 DEF Single, l
  <2>3. ASSUME NEW a \in 1..k, NEW b \in 1..l, c[a] = d[b],
               c[a].from \in {"client", "injection"}
        PROVE  FALSE
    BY <2>3 DEF k, l
  <2>4. QED
    BY <1>3, <1>4, <2>1, <2>2, <2>3
<1>5. Single(e)
  BY <1>4 DEF Single
<1>6. \A m \in 1..k : m \in 1..Len(e)
  BY <1>1, <1>2
<1>7. \A n \in 1..l : k + n \in 1..Len(e) /\ e[k + n] = d[n]
  BY <1>1, <1>2
<1>8. QED
  BY <1>2, <1>3, <1>5, <1>6, <1>7 DEF e, k, l

(* A prompt without items.                                                 *)
LEMMA EmptyPrompt ==
  ASSUME system = <<>>, turns = <<>>, NEW x
  PROVE  ~Has(system, turns, x) /\ \A p : p \notin PlacesIn(system, turns)
<1>1. ASSUME NEW p \in PlacesIn(system, turns) PROVE FALSE
  <2>1. p[1] = 0 /\ p[2] \in 1..Len(PartOf(system, turns, p[1]))
    BY DEF PlacesIn
  <2>2. QED
    BY <2>1 DEF PartOf
<1>2. QED
  BY <1>1 DEF Has

(* What is hoisted is blocks of the preset and the card.                   *)
LEMMA HoistedItems ==
  ASSUME Base, Frozen, Hoist
  PROVE  /\ Single(system') /\ Read \subseteq Read'
         /\ \A m \in 1..Len(system') :
              /\ KnownItem(system'[m], Read', {}) /\ ~Turning(system'[m])
              /\ system'[m].from # "injection"
         /\ \A i \in Read' : /\ kinds[i] = "system"
                             /\ \E m \in 1..Len(system') : system'[m] = Word(i)
<1>1. /\ stage = "assembled" /\ stage # "received" /\ body' = body
  BY DEF Hoist
<1>2. /\ Single(prepend) /\ prepend \in Seq(Items)
      /\ \A m \in 1..Len(prepend) :
           /\ KnownItem(prepend[m], Read, {}) /\ ~Turning(prepend[m])
           /\ prepend[m].from # "injection"
           /\ prepend[m].from = "client" => prepend[m].of \in Read
      /\ \A i \in Read : /\ kinds[i] = "system" /\ 2 \in 1..Len(prepend)
                         /\ prepend[2] = Word(i)
  BY <1>1, BlockItems
<1>3. CASE system' = prepend /\ append' = append
  <2>1. Read' = Read
    BY <1>1, <1>3, SameRead DEF Frozen
  <2>2. QED
    BY <1>2, <1>3, <2>1
<1>4. CASE system' = prepend \o append /\ append' = <<>>
  <2> DEFINE c == prepend \o append
  <2>1. /\ append \in Seq(Items) /\ Single(append) /\ Read \subseteq Read'
        /\ \A m \in 1..Len(append) :
             /\ KnownItem(append[m], Read', {}) /\ ~Turning(append[m])
             /\ append[m].from # "injection"
             /\ append[m].from = "client" => append[m].of \notin Read
        /\ \A i \in Read' \ Read : /\ kinds[i] = "system"
                                    /\ \E m \in 1..Len(append) : append[m] = Word(i)
    BY <1>1, <1>4, AppendItems
  <2>2. \A m \in 1..Len(prepend) : \A n \in 1..Len(append) :
          prepend[m] = append[n] => prepend[m].from \notin {"client", "injection"}
    BY <1>2, <2>1
  <2>3. /\ Single(c)
        /\ \A m \in 1..Len(prepend) : m \in 1..Len(c) /\ c[m] = prepend[m]
        /\ \A n \in 1..Len(append) : \E m \in 1..Len(c) : c[m] = append[n]
        /\ \A m \in 1..Len(c) :
             \/ m \in 1..Len(prepend) /\ c[m] = prepend[m]
             \/ \E n \in 1..Len(append) : c[m] = append[n]
    BY <1>2, <2>1, <2>2, SingleConcat
  <2>4. system' = c
    BY <1>4
  <2> HIDE DEF c
  <2>5. \A m \in 1..Len(prepend) : KnownItem(prepend[m], Read', {})
    BY <1>2, <2>1 DEF KnownItem, IsWord, IsBlock
  <2>6. ASSUME NEW m \in 1..Len(c)
        PROVE  KnownItem(c[m], Read', {}) /\ ~Turning(c[m]) /\ c[m].from # "injection"
    BY <1>2, <2>1, <2>3, <2>5
  <2>7. ASSUME NEW i \in Read'
        PROVE  kinds[i] = "system" /\ \E m \in 1..Len(c) : c[m] = Word(i)
    <3>1. CASE i \in Read
      BY <1>2, <2>3, <3>1
    <3>2. CASE i \notin Read
      BY <2>1, <2>3, <3>2
    <3>3. QED
      BY <3>1, <3>2
  <2>8. QED
    BY <2>1, <2>3, <2>4, <2>6, <2>7
<1>5. QED
  BY <1>3, <1>4, HoistIs

LEMMA HoistSaid == Base /\ Base' /\ Frozen /\ Said /\ Hoist => Said'
<1> SUFFICES ASSUME Base, Base', Frozen, Said, Hoist PROVE Said'
  OBVIOUS
<1>1. /\ stage = "assembled" /\ stage' = "mapping" /\ format # "openai"
      /\ body' = body /\ kinds' = kinds /\ injs' = injs /\ todo' = todo /\ turns' = turns
  BY DEF Hoist
<1>2. Done' = Done /\ Done = {}
  BY <1>1 DEF Done, Base, Progress
<1>3. /\ system = <<>> /\ turns = <<>> /\ turns' \in Seq(TurnsOf) /\ system' \in Seq(Items)
  BY HoistIs DEF Base, Shape
<1> DEFINE c == system'
<1>4. /\ Single(c) /\ Read \subseteq Read'
      /\ \A m \in 1..Len(c) :
           /\ KnownItem(c[m], Read', Done') /\ ~Turning(c[m]) /\ c[m].from # "injection"
      /\ \A i \in Read' : kinds[i] = "system" /\ \E m \in 1..Len(c) : c[m] = Word(i)
  BY <1>2, HoistedItems
<1>5. c \in Seq(Items) /\ system' = system \o c
  BY <1>3, ConcatsAre
<1>6. PICK back, fresh : Gains(system, turns, system', turns', back, fresh, c)
  <2>1. ASSUME NEW d \in Seq(Items), system' = system \o d
        PROVE  \E back, fresh : Gains(system, turns, system', turns', back, fresh, d)
    BY <1>1, <1>3, <2>1, SystemGrows
  <2>2. QED
    BY <1>5, <2>1
<1>7. /\ Known' /\ (Distinct(system, turns))' /\ (Sorted(system, turns))'
      /\ \A m \in 1..Len(c) : Has(system', turns', c[m])
  <2> HIDE DEF c
  <2>1. \A m \in 1..Len(c) : ~Has(system, turns, c[m])
    BY <1>3, EmptyPrompt
  <2>2. QED
    BY <1>2, <1>4, <1>5, <1>6, <2>1, Passed DEF Said
<1>8. Clean'
  <2>1. DOMAIN system' = 1..Len(system')
    BY <1>3
  <2>2. QED
    BY <1>4, <2>1 DEF Clean
<1>9. Speakers'
  BY <1>1, <1>3 DEF Speakers
<1>10. Kept'
  <2>1. ASSUME NEW i \in Read'
        PROVE  Has(system', turns', Word(i))
    <3> HIDE DEF c
    <3>1. QED
      BY <1>4, <1>7
  <2>2. QED
    BY <2>1, KeptNow
<1>11. UserTurn'
  <2>1. \A i \in Read' : kinds[i] = "system"
    BY <1>4
  <2>2. QED
    BY <1>1, <2>1 DEF UserTurn
<1>12. Reached'
  BY <1>2, <1>3, EmptyPrompt, ReachedOn DEF Said
<1>13. QED
  BY <1>7, <1>8, <1>9, <1>10, <1>11, <1>12 DEF Said

(* The system field takes no injection.                                    *)
LEMMA CleanConcat ==
  ASSUME Base, Base', Clean, NEW c \in Seq(Items), system' = system \o c,
         \A m \in 1..Len(c) : c[m].from # "injection"
  PROVE  Clean'
<1>1. system \in Seq(Items) /\ system' \in Seq(Items)
  BY DEF Base, Shape
<1>2. \A m \in 1..Len(system) : system[m].from # "injection"
  BY <1>1 DEF Clean
<1>3. ASSUME NEW m \in 1..Len(system \o c)
      PROVE  (system \o c)[m].from # "injection"
  <2>1. \/ m \in 1..Len(system) /\ (system \o c)[m] = system[m]
        \/ \E n \in 1..Len(c) : (system \o c)[m] = c[n]
    BY <1>1
  <2>2. QED
    BY <1>2, <2>1
<1>4. DOMAIN system' = 1..Len(system')
  BY <1>1
<1>5. QED
  BY <1>3, <1>4 DEF Clean

LEMMA MappedSaid == Base /\ Base' /\ Frozen /\ Said /\ Mapped => Said'
<1> SUFFICES ASSUME Base, Base', Frozen, Said, Mapped PROVE Said'
  OBVIOUS
<1>1. /\ stage = "mapping" /\ stage' = "hoisted" /\ kinds' = kinds /\ format' = format
      /\ body' = body /\ injs' = injs /\ todo' = todo /\ turns' = turns
  BY DEF Mapped
<1>2. /\ system' \in Seq(Items) /\ turns \in Seq(TurnsOf) /\ turns' \in Seq(TurnsOf)
      /\ system \in Seq(Items) /\ system' = system \o append /\ append' = <<>>
  BY MappedIs DEF Base, Shape
<1>3. /\ append \in Seq(Items) /\ Single(append) /\ Read \subseteq Read' /\ Done' = Done
      /\ \A m \in 1..Len(append) :
           /\ KnownItem(append[m], Read', Done') /\ ~Turning(append[m])
           /\ append[m].from # "injection"
           /\ append[m].from = "client" =>
                /\ append[m].of \in DOMAIN kinds \ Read
                /\ append[m] = Word(append[m].of)
      /\ \A i \in Read' \ Read : /\ kinds[i] = "system"
                                  /\ \E m \in 1..Len(append) : append[m] = Word(i)
  <2>1. Done' = Done
    BY <1>1 DEF Done
  <2>2. QED
    BY <1>1, <1>2, <2>1, AppendItems
<1>4. UserTurn'
  <2>1. \A i \in Read' : kinds[i] # "system" => i \in Read
    BY <1>3
  <2>2. QED
    BY <1>1, <2>1 DEF Said, UserTurn, HasUser
<1>5. Speakers'
  BY <1>1, <1>2, SpeakersOn DEF Said
<1>6. PICK back, fresh : Gains(system, turns, system', turns', back, fresh, append)
  BY <1>1, <1>2, <1>3, SystemGrows
<1>7. \A m \in 1..Len(append) :
        append[m].from \in {"client", "injection"} => ~Has(system, turns, append[m])
  BY <1>3, Unread DEF Said, Base
<1>8. /\ Known' /\ (Distinct(system, turns))' /\ (Sorted(system, turns))'
      /\ \A x : Has(system, turns, x) => Has(system', turns', x)
      /\ \A m \in 1..Len(append) : Has(system', turns', append[m])
  BY <1>3, <1>6, <1>7, Passed DEF Said
<1>9. Kept'
  BY <1>1, <1>3, <1>8, KeptOn DEF Said, Converting
<1>10. Reached'
  BY <1>3, <1>8, ReachedOn DEF Said
<1>11. Clean'
  BY <1>2, <1>3, CleanConcat DEF Said
<1>12. QED
  BY <1>4, <1>5, <1>8, <1>9, <1>10, <1>11 DEF Said

(* What has been read lies before the message that is next.                *)
LEMMA OldWords ==
  ASSUME Base, Map, Known, NEW x, Has(system, turns, x), Turning(x)
  PROVE  x.of < Head(body)
<1>1. PICK p \in PlacesIn(system, turns) : ItemAt(system, turns, p) = x
  BY DEF Has
<1>2. KnownItem(x, Read, Done)
  BY <1>1 DEF Known
<1>3. IsWord(x, Read)
  BY <1>2 DEF KnownItem, IsBlock, Turning, PresetItem, InjItem
<1>4. x.of \in Read /\ kinds[x.of] # "system"
  BY <1>3 DEF IsWord, Turning
<1>5. QED
  BY <1>4, MapReads

LEMMA MapContent ==
  ASSUME Base, Map, Known
  PROVE  LET i == Head(body)
             c == Content(i)
         IN /\ c \in Seq(Items) /\ Single(c) /\ Len(c) <= 1 /\ Len(c) \in Nat
            /\ \A m \in 1..Len(c) : c[m] = Word(i) /\ kinds[i] # "blank"
            /\ kinds[i] # "blank" => Len(c) = 1 /\ c[1] = Word(i)
            /\ kinds[i] # "blank" =>
                 /\ KnownItem(Word(i), Read', Done')
                 /\ Turning(Word(i)) <=> kinds[i] # "system"
            /\ ~Has(system, turns, Word(i))
            /\ i \in Nat /\ Word(i).of = i /\ Word(i).from = "client"
            /\ Read' = Read \cup {i} /\ Done' = Done
<1> DEFINE i == Head(body)
           c == Content(i)
<1>1. /\ i \in DOMAIN kinds /\ i \notin Read /\ Read' = Read \cup {i}
  BY MapReads
<1>2. Done' = Done
  BY DEF Map, Done
<1>3. Shape /\ kinds \in Seq(Kinds)
  BY DEF Base, Shape
<1> HIDE DEF i
<1>4. i \in Nat /\ Word(i).of = i /\ Word(i).from = "client"
  BY <1>1, <1>3, KindsAre, ItemsAre
<1>5. /\ c \in Seq(Items)
      /\ kinds[i] = "blank" => Len(c) = 0
      /\ kinds[i] # "blank" => Len(c) = 1 /\ c[1] = Word(i)
  BY <1>1, <1>3, ContentIs
<1>6. ~Has(system, turns, Word(i))
  BY <1>1, <1>3, Unread
<1>7. kinds[i] # "blank" =>
        /\ KnownItem(Word(i), Read', Done')
        /\ Turning(Word(i)) <=> kinds[i] # "system"
  <2>1. i \in Read'
    BY <1>1
  <2>2. QED
    BY <1>1, <1>3, <2>1, WordKnown
<1> HIDE DEF c
<1>8. Len(c) <= 1 /\ Len(c) \in Nat /\ \A m \in 1..Len(c) : c[m] = Word(i) /\ kinds[i] # "blank"
  <2>1. CASE kinds[i] = "blank"
    BY <1>5, <2>1
  <2>2. CASE kinds[i] # "blank"
    <3> DEFINE l == Len(c)
    <3>1. l = 1 /\ c[1] = Word(i)
      BY <1>5, <2>2
    <3> HIDE DEF l
    <3>2. l <= 1 /\ l \in Nat /\ \A m \in 1..l : m = 1
      BY <3>1
    <3>3. QED
      BY <2>2, <3>1, <3>2 DEF l
  <2>3. QED
    BY <2>1, <2>2
<1>9. Single(c)
  BY <1>5, <1>8, SingleIs
<1>10. QED
  BY <1>1, <1>2, <1>4, <1>5, <1>6, <1>7, <1>8, <1>9 DEF i, c

(* Reading a message keeps what the prompt had and adds its word behind.   *)
LEMMA MapPassed ==
  ASSUME Base, Base', Frozen, Said, Map
  PROVE  LET i == Head(body)
         IN /\ Known' /\ (Distinct(system, turns))' /\ (Sorted(system, turns))'
            /\ \A x : Has(system, turns, x) => Has(system', turns', x)
            /\ kinds[i] # "blank" => Has(system', turns', Word(i))
<1> DEFINE i == Head(body)
           c == Content(i)
           w == Word(i)
           t == Turn(Speaker(kinds[i]), Content(i))
           top == Len(turns)
<1>1. /\ c \in Seq(Items) /\ Single(c) /\ Len(c) <= 1 /\ Len(c) \in Nat
      /\ \A m \in 1..Len(c) : c[m] = w /\ kinds[i] # "blank"
      /\ kinds[i] # "blank" => Len(c) = 1 /\ c[1] = w
      /\ kinds[i] # "blank" =>
           /\ KnownItem(w, Read', Done')
           /\ Turning(w) <=> kinds[i] # "system"
      /\ ~Has(system, turns, w)
      /\ i \in Nat /\ w.of = i
      /\ Read' = Read \cup {i} /\ Done' = Done
  BY MapContent DEF Said
<1>2. turns \in Seq(TurnsOf) /\ turns' \in Seq(TurnsOf) /\ system' \in Seq(Items)
  BY DEF Base, Shape
<1>3. \A x : Has(system, turns, x) /\ Turning(x) => x.of < i
  BY OldWords DEF Said
<1>4. \/ kinds[i] = "system" /\ turns' = turns /\ system' = system \o c
      \/ /\ kinds[i] = "tool" /\ system' = system
         /\ top \in 1..top /\ turns' = AddTo(turns, top, c)
      \/ /\ kinds[i] # "system" /\ system' = system
         /\ t \in TurnsOf /\ t.items = c
         /\ turns' = InsertAt(turns, top + 1, t)
  BY MapIs
<1> HIDE DEF i, c, w, t
<1>5. ASSUME NEW back, NEW fresh, Gains(system, turns, system', turns', back, fresh, c),
             \/ kinds[i] = "system"
             \/ \A p \in fresh : \A q \in PlacesIn(system', turns') \ fresh : Precedes(q, p)
      PROVE  /\ Known' /\ (Distinct(system, turns))' /\ (Sorted(system, turns))'
             /\ \A x : Has(system, turns, x) => Has(system', turns', x)
             /\ kinds[i] # "blank" => Has(system', turns', w)
  <2>1. \A m \in 1..Len(c) : KnownItem(c[m], Read', Done')
    BY <1>1
  <2>2. \A m \in 1..Len(c) : ~Has(system, turns, c[m])
    BY <1>1
  <2>3. ASSUME NEW m \in 1..Len(c), Turning(c[m])
        PROVE  /\ Len(c) = 1
               /\ \A p \in fresh : \A q \in PlacesIn(system', turns') \ fresh :
                    Turning(ItemAt(system', turns', q)) =>
                      ItemAt(system', turns', q).of < c[m].of /\ Precedes(q, p)
    <3>1. kinds[i] # "blank" /\ Len(c) = 1 /\ c[m] = w /\ kinds[i] # "system" /\ c[m].of = i
      BY <1>1, <2>3
    <3>2. ASSUME NEW q \in PlacesIn(system', turns') \ fresh,
                 Turning(ItemAt(system', turns', q))
          PROVE  ItemAt(system', turns', q).of < i
      <4>1. Carries(system, turns, system', turns', back, fresh)
        BY <1>5 DEF Gains
      <4>2. Has(system, turns, ItemAt(system', turns', q))
        BY <4>1, CarriesItems
      <4>3. QED
        BY <1>3, <3>2, <4>2
    <3>3. QED
      BY <1>5, <3>1, <3>2
  <2>4. Read \subseteq Read' /\ Done \subseteq Done'
    BY <1>1
  <2>5. /\ Known' /\ (Distinct(system, turns))' /\ (Sorted(system, turns))'
        /\ \A x : Has(system, turns, x) => Has(system', turns', x)
        /\ \A m \in 1..Len(c) : Has(system', turns', c[m])
    BY <1>1, <1>5, <2>1, <2>2, <2>3, <2>4, Passed DEF Said
  <2>6. QED
    BY <1>1, <2>5
<1>6. CASE kinds[i] = "system" /\ turns' = turns /\ system' = system \o c
  <2>1. PICK back, fresh : Gains(system, turns, system', turns', back, fresh, c)
    BY <1>1, <1>2, <1>6, SystemGrows
  <2>2. QED
    BY <1>5, <1>6, <2>1 DEF i, w
<1>7. CASE system' = system /\ top \in 1..top /\ turns' = AddTo(turns, top, c)
  <2>1. PICK back, fresh, size :
          /\ size \in Nat
          /\ Gains(system, turns, system', turns', back, fresh, c)
          /\ \A p \in fresh : p[1] = top /\ p[2] \in Nat /\ p[2] > size
          /\ \A q \in PlacesIn(system', turns') \ fresh :
               /\ q \in PlacesIn(system, turns)
               /\ q[1] < top \/ (q[1] = top /\ q[2] <= size) \/ q[1] > top
    <3> HIDE DEF top
    <3>1. LET size == Len(turns[top].items)
              fresh == Behind(top, size, c)
          IN /\ size \in Nat
             /\ Gains(system, turns, system', turns', Same(system', turns'), fresh, c)
             /\ \A p \in fresh : p[1] = top /\ p[2] \in Nat /\ p[2] > size
             /\ \A q \in PlacesIn(system', turns') \ fresh :
                  /\ q \in PlacesIn(system, turns)
                  /\ q[1] < top \/ (q[1] = top /\ q[2] <= size) \/ q[1] > top
      <4>1. top \in 1..Len(turns)
        BY <1>7 DEF top
      <4>2. QED
        BY <1>1, <1>2, <1>7, <4>1, TurnGrows
    <3>2. QED
      BY <3>1
  <2>2. ASSUME NEW p \in fresh, NEW q \in PlacesIn(system', turns') \ fresh
        PROVE  Precedes(q, p)
    <3>1. q \in PlacesIn(system, turns) /\ system \in Seq(Items)
      BY <2>1 DEF Base, Shape
    <3>2. q[1] \in 0..top /\ q[2] \in Nat
      BY <1>2, <3>1, PlaceIs
    <3> DEFINE a == q[1]
               m == q[2]
               n == p[2]
    <3>3. /\ a \in 0..top /\ m \in Nat /\ n \in Nat /\ n > size /\ top \in Nat /\ size \in Nat
          /\ a < top \/ (a = top /\ m <= size) \/ a > top
          /\ p[1] = top
      BY <1>2, <2>1, <3>2
    <3> HIDE DEF a, m, n
    <3>4. a < top \/ (a = top /\ m < n)
      BY <3>3
    <3>5. QED
      BY <3>3, <3>4 DEF Precedes, a, m, n
  <2>3. QED
    BY <1>5, <2>1, <2>2 DEF i, w
<1>8. CASE /\ kinds[i] # "system" /\ system' = system
           /\ t \in TurnsOf /\ t.items = c
           /\ turns' = InsertAt(turns, top + 1, t)
  <2>1. PICK back, fresh :
          /\ Gains(system, turns, system', turns', back, fresh, c)
          /\ \A p \in fresh : p[1] = top + 1 /\ p[2] \in Nat /\ p[2] > 0
          /\ \A p \in PlacesIn(system', turns') \ fresh : p[1] # top + 1
          /\ Len(turns') = top + 1
    <3>1. top + 1 \in 1..(Len(turns) + 1)
      BY <1>2
    <3> DEFINE r == top + 1
    <3>2. r \in 1..(Len(turns) + 1) /\ turns' = InsertAt(turns, r, t)
      BY <1>8, <3>1
    <3> HIDE DEF r
    <3>3. LET fresh == Behind(r, 0, t.items)
              back == Lower(system', turns', r)
          IN /\ Gains(system, turns, system', turns', back, fresh, t.items)
             /\ \A p \in fresh : p[1] = r /\ p[2] \in Nat /\ p[2] > 0
             /\ \A p \in PlacesIn(system', turns') \ fresh : p[1] # r
             /\ Len(turns') = Len(turns) + 1
      BY <1>2, <1>8, <3>2, TurnInserted
    <3>4. QED
      BY <1>8, <3>3 DEF r, top
  <2>2. ASSUME NEW p \in fresh, NEW q \in PlacesIn(system', turns') \ fresh
        PROVE  Precedes(q, p)
    <3>1. q[1] \in 0..(top + 1)
      BY <1>2, <2>1, PlaceIs
    <3> DEFINE a == q[1]
    <3>2. a \in 0..(top + 1) /\ a # top + 1 /\ top \in Nat /\ p[1] = top + 1
      BY <1>2, <2>1, <3>1
    <3> HIDE DEF a
    <3>3. a < top + 1
      BY <3>2
    <3>4. QED
      BY <3>2, <3>3 DEF Precedes, a
  <2>3. QED
    BY <1>5, <2>1, <2>2 DEF i, w
<1>9. QED
  <2>1. /\ Known' /\ (Distinct(system, turns))' /\ (Sorted(system, turns))'
        /\ \A x : Has(system, turns, x) => Has(system', turns', x)
        /\ kinds[i] # "blank" => Has(system', turns', w)
    BY <1>4, <1>6, <1>7, <1>8 DEF i, w
  <2>2. QED
    BY <2>1 DEF i, w

(* Reading a message keeps Said.                                           *)
LEMMA MapSaid == Base /\ Base' /\ Frozen /\ Said /\ Map => Said'
<1> SUFFICES ASSUME Base, Base', Frozen, Said, Map PROVE Said'
  OBVIOUS
<1> DEFINE i == Head(body)
           c == Content(i)
           t == Turn(Speaker(kinds[i]), Content(i))
           top == Len(turns)
<1>1. /\ stage = "mapping" /\ stage' = stage /\ todo' = todo /\ injs' = injs /\ kinds' = kinds
      /\ format' = format /\ format # "openai"
  BY DEF Map, Base, Progress
<1>2. /\ Read' = Read \cup {i} /\ Done' = Done
      /\ i \in DOMAIN kinds /\ kinds[i] \in Kinds
      /\ c \in Seq(Items) /\ Len(c) <= 1 /\ Len(c) \in Nat
      /\ \A m \in 1..Len(c) : c[m].from = "client" /\ c[m].of = i
      /\ kinds[i] # "blank" => Len(c) = 1
  BY MapContent, MapIs DEF Said
<1>3. /\ Known' /\ (Distinct(system, turns))' /\ (Sorted(system, turns))'
      /\ \A x : Has(system, turns, x) => Has(system', turns', x)
      /\ kinds[i] # "blank" => Has(system', turns', Word(i))
  BY MapPassed
<1>4. turns \in Seq(TurnsOf) /\ turns' \in Seq(TurnsOf) /\ DOMAIN c = 1..Len(c) /\ top \in Nat
  BY <1>2 DEF Base, Shape
<1>5. \/ kinds[i] = "system" /\ turns' = turns /\ system' = system \o c
      \/ /\ kinds[i] = "tool" /\ Joins(turns) /\ system' = system
         /\ top \in 1..top /\ turns' = AddTo(turns, top, c)
      \/ /\ kinds[i] # "system" /\ system' = system
         /\ t \in TurnsOf /\ t.items = c /\ t.role = Speaker(kinds[i])
         /\ turns' = InsertAt(turns, top + 1, t)
  BY MapIs
<1>6. Kept'
  <2>1. \A k \in Read' \ Read : kinds[k] \in {"system", "user", "assistant", "tool"} =>
          Has(system', turns', Word(k))
    BY <1>2, <1>3
  <2>2. QED
    BY <1>1, <1>3, <2>1, KeptOn DEF Said, Converting
<1>7. Reached'
  BY <1>2, <1>3, ReachedOn DEF Said
<1> HIDE DEF i, c, t
<1>8. CASE kinds[i] = "system" /\ turns' = turns /\ system' = system \o c
  <2>1. Clean'
    BY <1>2, <1>8, CleanConcat DEF Said
  <2>2. Speakers'
    BY <1>4, <1>8, SpeakersOn DEF Said
  <2>3. UserTurn'
    BY <1>1, <1>2, <1>8 DEF Said, UserTurn, HasUser
  <2>4. QED
    BY <1>3, <1>6, <1>7, <2>1, <2>2, <2>3 DEF Said
<1>9. CASE /\ kinds[i] = "tool" /\ Joins(turns) /\ system' = system
           /\ top \in 1..top /\ turns' = AddTo(turns, top, c)
  <2>1. Clean'
    BY <1>9 DEF Said, Clean
  <2>2. /\ Len(turns') = top
        /\ \A n \in 1..top : turns'[n].role = turns[n].role
        /\ \A n \in 1..top : n # top => turns'[n] = turns[n]
        /\ turns'[top].items = turns[top].items \o c
        /\ turns[top] \in TurnsOf /\ turns[top].role = "user"
    <3>1. system \in Seq(Items) /\ turns[top] \in TurnsOf /\ turns[top].role = "user"
      BY SMTT(30), <1>4, <1>9 DEF Joins, Last, Base, Shape
    <3>2. top \in 1..Len(turns)
      BY <1>9
    <3>3. Len(turns') = top /\ OneLonger(turns, top, c, turns')
      <4> HIDE DEF top
      <4>1. Len(turns') = Len(turns) /\ OneLonger(turns, top, c, turns')
        BY <1>2, <1>4, <1>9, <3>1, <3>2, AddedParts
      <4>2. QED
        BY <4>1 DEF top
    <3>4. QED
      BY <3>1, <3>3 DEF OneLonger
  <2>3. Fits(turns'[top])
    <3> DEFINE u == turns[top].items
               v == turns'[top]
    <3>1. u \in Seq(Items) /\ v.role = "user" /\ v.items = u \o c
      BY <1>9, <2>2 DEF TurnsOf
    <3>2. \A m \in 1..Len(u) : u[m].from = "client" => kinds[u[m].of] \notin {"assistant", "calls"}
      <4>1. Fits(turns[top])
        BY <1>4, <1>9 DEF Said, Speakers
      <4>2. QED
        BY <1>1, <2>2, <3>1, <4>1 DEF Fits
    <3> HIDE DEF u, v
    <3>3. ASSUME NEW m \in DOMAIN (u \o c)
          PROVE  (u \o c)[m].from = "client" =>
                   kinds[(u \o c)[m].of] \notin {"assistant", "calls"}
      <4>1. \/ m \in 1..Len(u) /\ (u \o c)[m] = u[m]
            \/ \E n \in 1..Len(c) : (u \o c)[m] = c[n]
        BY <1>2, <3>1
      <4>2. QED
        BY <1>2, <1>9, <3>2, <4>1
    <3>4. Fits(v)
      BY <3>1, <3>3 DEF Fits
    <3>5. QED
      BY <3>4 DEF v
  <2>4. Speakers'
    <3>1. ASSUME NEW n \in 1..Len(turns')
          PROVE  (\E k \in 1..Len(turns) : turns'[n] = turns[k]) \/ Fits(turns'[n])
      BY <2>2, <2>3
    <3>2. QED
      BY <3>1, SpeakersOn DEF Said
  <2>5. UserTurn'
    <3>1. HasUser'
      <4>1. top \in DOMAIN turns' /\ turns'[top].role = "user"
        BY <1>4, <1>9, <2>2
      <4>2. QED
        BY <4>1 DEF HasUser
    <3>2. QED
      BY <1>1, <3>1 DEF UserTurn
  <2>6. QED
    BY <1>3, <1>6, <1>7, <2>1, <2>4, <2>5 DEF Said
<1>10. CASE /\ kinds[i] # "system" /\ system' = system
            /\ t \in TurnsOf /\ t.items = c /\ t.role = Speaker(kinds[i])
            /\ turns' = InsertAt(turns, top + 1, t)
  <2>1. Clean'
    BY <1>10 DEF Said, Clean
  <2>2. /\ Len(turns') = top + 1 /\ turns'[top + 1] = t
        /\ \A n \in 1..top : turns'[n] = turns[n]
    <3> DEFINE S == TurnsOf
    <3>1. turns \in Seq(S) /\ t \in S /\ top + 1 \in 1..(Len(turns) + 1)
      BY <1>4, <1>10
    <3> HIDE DEF S
    <3> DEFINE r == top + 1
    <3>2. r \in 1..(Len(turns) + 1) /\ turns' = InsertAt(turns, r, t)
      BY <1>10, <3>1
    <3> HIDE DEF r
    <3>3. Len(turns') = Len(turns) + 1 /\ OneMore(turns, r, t, turns')
      BY <3>1, <3>2, InsertIs
    <3>4. QED
      BY <1>4, <3>3 DEF OneMore, r
  <2>3. /\ t.role \in {"user", "assistant"}
        /\ t.role = "assistant" <=> kinds[i] \in {"assistant", "calls"}
        /\ kinds[i] \in {"user", "blank", "tool"} => t.role = "user"
    BY <1>2, <1>10, RoleIs DEF Speaker, Kinds
  <2>4. Fits(t)
    BY <1>2, <1>4, <1>10, <2>3 DEF Fits
  <2>5. Speakers'
    <3>1. ASSUME NEW n \in 1..Len(turns')
          PROVE  (\E k \in 1..Len(turns) : turns'[n] = turns[k]) \/ Fits(turns'[n])
      <4>1. n \in 1..top \/ n = top + 1
        BY <1>4, <2>2
      <4>2. QED
        BY <2>2, <2>4, <4>1
    <3>2. QED
      BY <3>1, SpeakersOn DEF Said
  <2>6. UserTurn'
    <3>1. HasUser => HasUser'
      <4>1. DOMAIN turns = 1..top /\ DOMAIN turns' = 1..(top + 1)
        BY <1>4, <2>2
      <4>2. \A n \in 1..top : n \in 1..(top + 1)
        BY <1>4
      <4>3. QED
        BY <2>2, <4>1, <4>2 DEF HasUser
    <3>2. kinds[i] \in {"user", "blank", "tool"} => HasUser'
      <4>1. top + 1 \in DOMAIN turns'
        BY <1>4, <2>2
      <4>2. QED
        BY <2>2, <2>3, <4>1 DEF HasUser
    <3>3. (\E k \in Read' : kinds[k] \in {"user", "blank", "tool"}) => HasUser'
      <4>1. (\E k \in Read : kinds[k] \in {"user", "blank", "tool"}) => HasUser
        BY <1>1 DEF Said, UserTurn
      <4>2. QED
        BY <1>2, <3>1, <3>2, <4>1
    <3>4. QED
      BY <1>1, <3>3 DEF UserTurn
  <2>7. QED
    BY <1>3, <1>6, <1>7, <2>1, <2>5, <2>6 DEF Said
<1>11. QED
  <2>1. \/ kinds[i] = "system" /\ turns' = turns /\ system' = system \o c
        \/ /\ kinds[i] = "tool" /\ Joins(turns) /\ system' = system
           /\ top \in 1..top /\ turns' = AddTo(turns, top, c)
        \/ /\ kinds[i] # "system" /\ system' = system
           /\ t \in TurnsOf /\ t.items = c /\ t.role = Speaker(kinds[i])
           /\ turns' = InsertAt(turns, top + 1, t)
    BY <1>5
  <2>2. QED
    BY <1>8, <1>9, <1>10, <2>1

(* A turn less, which no item but its own is lost with.                    *)
LEMMA RemovedSaid ==
  ASSUME Base, Base', Frozen, Said, system' = system, Read' = Read, Done' = Done,
         NEW r \in 1..Len(turns), turns' = RemoveAt(turns, r)
  PROVE  /\ Known' /\ (Distinct(system, turns))' /\ (Sorted(system, turns))' /\ Clean' /\ Speakers'
         /\ \A p \in PlacesIn(system, turns) :
              p[1] # r => Has(system', turns', ItemAt(system, turns, p))
         /\ \A n \in 1..Len(turns) : n # r => \E k \in 1..Len(turns') : turns'[k] = turns[n]
<1>1. turns \in Seq(TurnsOf) /\ turns' \in Seq(TurnsOf)
  BY DEF Base, Shape
<1>2. /\ Carries(system, turns, system', turns', Higher(system', turns', r), {})
      /\ \A p \in PlacesIn(system, turns) :
           p[1] # r => Has(system', turns', ItemAt(system, turns, p))
      /\ Len(turns) = Len(turns') + 1
      /\ \A n \in 1..Len(turns') : turns'[n] = IF n < r THEN turns[n] ELSE turns[n + 1]
  BY <1>1, TurnRemoved
<1>3. Known' /\ (Distinct(system, turns))' /\ (Sorted(system, turns))'
  BY <1>2, TakesAway DEF Said
<1>4. Clean'
  BY DEF Said, Clean
<1>5. Speakers'
  <2>1. ASSUME NEW n \in 1..Len(turns')
        PROVE  \E k \in 1..Len(turns) : turns'[n] = turns[k]
    <3>1. Len(turns') \in Nat
      BY <1>1
    <3>2. n \in 1..Len(turns) /\ n + 1 \in 1..Len(turns)
      BY <1>2, <3>1
    <3>3. QED
      BY <1>2, <3>2
  <2>2. QED
    BY <2>1, SpeakersOn DEF Said
<1>6. ASSUME NEW n \in 1..Len(turns), n # r
      PROVE  \E k \in 1..Len(turns') : turns'[k] = turns[n]
  <2>1. Len(turns') \in Nat /\ r \in 1..(Len(turns') + 1) /\ n \in 1..(Len(turns') + 1)
    BY <1>1, <1>2
  <2>2. CASE n < r
    <3>1. n \in 1..Len(turns')
      BY <2>1, <2>2
    <3>2. QED
      BY <1>2, <2>2, <3>1
  <2>3. CASE n > r
    <3>1. n - 1 \in 1..Len(turns') /\ ~(n - 1 < r) /\ (n - 1) + 1 = n
      BY <2>1, <2>3
    <3>2. turns'[n - 1] = turns[n]
      BY <1>2, <3>1
    <3>3. QED
      BY <3>1, <3>2
  <2>4. QED
    BY <1>6, <2>1, <2>2, <2>3
<1>7. QED
  BY <1>2, <1>3, <1>4, <1>5, <1>6

LEMMA UserStays ==
  ASSUME Base, Base',
         \A n \in 1..Len(turns) : turns[n].role = "user" =>
           \E k \in 1..Len(turns') : turns'[k].role = "user"
  PROVE  HasUser => HasUser'
<1>1. DOMAIN turns = 1..Len(turns) /\ DOMAIN turns' = 1..Len(turns')
  BY DEF Base, Shape
<1>2. QED
  BY <1>1 DEF HasUser

LEMMA AbsorbSaid == Base /\ Base' /\ Frozen /\ Said /\ Absorb => Said'
<1> SUFFICES ASSUME Base, Base', Frozen, Said, Absorb PROVE Said'
  OBVIOUS
<1>1. /\ stage = "hoisted" /\ stage' = stage /\ todo' = todo /\ body' = body /\ kinds' = kinds
      /\ injs' = injs /\ format' = format /\ format # "openai" /\ todo = DOMAIN injs
  BY DEF Absorb, Base, Progress
<1>2. Read' = Read /\ Done' = {} /\ Done = {}
  <2>1. Read' = Read
    BY SameRead DEF Absorb
  <2>2. QED
    BY <1>1, <2>1 DEF Done
<1>3. /\ turns' \in Seq(TurnsOf) /\ system' \in Seq(Items) /\ turns \in Seq(TurnsOf)
      /\ system \in Seq(Items)
      /\ turns' = RemoveAt(turns, 1) /\ 1 \in 1..Len(turns) /\ turns[1] \in TurnsOf
      /\ turns[1].role = "assistant"
      /\ \/ turns[1].items[1].is = "text" /\ system' = system \o turns[1].items
         \/ turns[1].items[1].is # "text" /\ system' = system
  BY AbsorbIs DEF Base, Shape
<1> DEFINE c == turns[1].items
<1>4. c \in Seq(Items) /\ PartOf(system, turns, 1) = c
  BY <1>3 DEF TurnsOf, PartOf
<1>5. /\ Len(c) = 1
      /\ \A m \in 1..Len(c) : c[m].from = "client" /\ kinds[c[m].of] \in {"assistant", "calls"}
  <2>1. Fits(turns[1])
    BY <1>3 DEF Said, Speakers
  <2>2. DOMAIN c = 1..Len(c)
    BY <1>4
  <2>3. QED
    BY <1>1, <1>3, <2>1, <2>2 DEF Fits
<1> HIDE DEF c
<1>6. Reached'
  BY <1>2 DEF Reached
<1>7. ASSUME \A n \in 1..Len(turns) : n # 1 => \E k \in 1..Len(turns') : turns'[k] = turns[n]
      PROVE  UserTurn'
  <2>1. HasUser => HasUser'
    <3>1. ASSUME NEW n \in 1..Len(turns), turns[n].role = "user"
          PROVE  \E k \in 1..Len(turns') : turns'[k].role = "user"
      <4>1. n # 1
        BY <1>3, <3>1
      <4>2. QED
        BY <1>7, <3>1, <4>1
    <3>2. QED
      BY <3>1, UserStays
  <2>2. QED
    BY <1>1, <1>2, <2>1 DEF Said, UserTurn
<1>8. CASE turns[1].items[1].is = "text" /\ system' = system \o c
  <2>1. /\ Len(turns) = Len(turns') + 1
        /\ \A n \in 1..Len(turns') : turns'[n] = IF n < 1 THEN turns[n] ELSE turns[n + 1]
    BY <1>3, RemoveIs
  <2>2. Len(turns') \in Nat
    BY <1>3
  <2>3. ASSUME NEW n \in 1..Len(turns')
        PROVE  turns'[n] = turns[n + 1] /\ n + 1 \in 1..Len(turns) /\ n # 0 /\ n + 1 # 0
    BY <2>1, <2>2
  <2>4. /\ Carries(system, turns, system', turns', Lifted(system', turns', Len(system)), {})
        /\ \A p \in PlacesIn(system, turns) : Has(system', turns', ItemAt(system, turns, p))
    <3>1. system' = system \o PartOf(system, turns, 1)
      BY <1>4, <1>8
    <3>2. \A n \in 1..Len(turns') : PartOf(system', turns', n) = PartOf(system, turns, n + 1)
      BY <2>3 DEF PartOf
    <3>3. QED
      BY <1>3, <2>1, <3>1, <3>2, Absorbs
  <2>5. Known' /\ (Distinct(system, turns))' /\ (Sorted(system, turns))'
    BY <1>2, <2>4, TakesAway DEF Said
  <2>6. Clean'
    BY <1>4, <1>5, <1>8, CleanConcat DEF Said
  <2>7. Speakers'
    BY <2>3, SpeakersOn DEF Said
  <2>8. Kept'
    <3>1. \A x : Has(system, turns, x) => Has(system', turns', x)
      BY <2>4 DEF Has
    <3>2. QED
      BY <1>1, <1>2, <3>1, KeptOn DEF Said, Converting
  <2>9. UserTurn'
    <3>1. ASSUME NEW n \in 1..Len(turns), n # 1
          PROVE  \E k \in 1..Len(turns') : turns'[k] = turns[n]
      <4>1. n - 1 \in 1..Len(turns') /\ (n - 1) + 1 = n
        BY <2>1, <2>2, <3>1
      <4>2. QED
        BY <2>3, <4>1
    <3>2. QED
      BY <1>7, <3>1
  <2>10. QED
    BY <1>6, <2>5, <2>6, <2>7, <2>8, <2>9 DEF Said
<1>9. CASE turns[1].items[1].is # "text" /\ system' = system
  <2>1. /\ Known' /\ (Distinct(system, turns))' /\ (Sorted(system, turns))' /\ Clean' /\ Speakers'
        /\ \A p \in PlacesIn(system, turns) :
             p[1] # 1 => Has(system', turns', ItemAt(system, turns, p))
        /\ \A n \in 1..Len(turns) : n # 1 => \E k \in 1..Len(turns') : turns'[k] = turns[n]
    BY <1>2, <1>3, <1>9, RemovedSaid
  <2>2. ASSUME NEW i \in Read, kinds[i] \in {"system", "user", "assistant", "tool"}
        PROVE  Has(system', turns', Word(i))
    <3>1. Has(system, turns, Word(i))
      BY <1>1, <2>2 DEF Said, Kept, Converting
    <3>2. PICK p \in PlacesIn(system, turns) : ItemAt(system, turns, p) = Word(i)
      BY <3>1 DEF Has
    <3>3. CASE p[1] = 1
      <4>1. p[2] \in 1..Len(c) /\ c[p[2]] = Word(i)
        BY <1>3, <1>4, <3>2, <3>3, PlaceIs
      <4>2. p[2] = 1
        BY <1>5, <4>1
      <4>3. kinds \in Seq(Kinds) /\ i \in DOMAIN kinds
        BY DEF Read, Base, Shape
      <4>4. Word(i).of = i
        BY <4>3, KindsAre, ItemsAre
      <4>5. kinds[i] \in {"assistant", "calls"}
        BY <1>5, <4>1, <4>4
      <4>6. Word(i).is = "text"
        BY <2>2, <4>3, <4>5, WordIs
      <4>7. QED
        BY <1>9, <4>1, <4>2, <4>6 DEF c
    <3>4. CASE p[1] # 1
      BY <2>1, <3>2, <3>4
    <3>5. QED
      BY <3>3, <3>4
  <2>3. Kept'
    BY <1>2, <2>2, KeptNow
  <2>4. UserTurn'
    BY <1>7, <2>1
  <2>5. QED
    BY <1>6, <2>1, <2>3, <2>4 DEF Said
<1>10. QED
  BY <1>3, <1>8, <1>9 DEF c

(* The passes that only go on to the next one.                             *)
LEMMA GoOnSaid == Base /\ Base' /\ Frozen /\ Said /\ (Absorbed \/ Placed \/ Finish) => Said'
<1> SUFFICES ASSUME Base, Base', Frozen, Said, Absorbed \/ Placed \/ Finish PROVE Said'
  OBVIOUS
<1>1. /\ todo' = todo /\ body' = body /\ kinds' = kinds /\ system' = system
      /\ turns' = turns /\ injs' = injs /\ format' = format
      /\ \/ stage = "hoisted" /\ stage' = "mapped" /\ format # "openai" /\ ~Greets
         \/ stage = "mapped" /\ stage' = "stripping"
         \/ stage = "stripping" /\ stage' = "sent"
  BY DEF Absorbed, Placed, Finish, Base, Progress
<1>2. Read' = Read /\ Done' = Done
  <2>1. Read' = Read
    BY SameRead DEF Absorbed, Placed, Finish
  <2>2. QED
    BY <1>1, <2>1 DEF Done
<1>3. /\ Known' /\ (Distinct(system, turns))' /\ (Sorted(system, turns))'
      /\ \A x : Has(system, turns, x) => Has(system', turns', x)
  BY <1>1, <1>2, Left DEF Said
<1>4. Clean'
  BY <1>1 DEF Said, Clean
<1>5. turns \in Seq(TurnsOf)
  BY DEF Base, Shape
<1>6. Speakers'
  BY <1>1, <1>5, SpeakersOn DEF Said
<1>7. Kept'
  BY <1>1, <1>2, <1>3, KeptOn DEF Said, Converting
<1>8. Reached'
  BY <1>2, <1>3, ReachedOn DEF Said
<1>9. UserTurn'
  <2>1. CASE stage = "hoisted" /\ stage' = "mapped" /\ format # "openai" /\ ~Greets
    <3>1. turns # <<>> => turns[1].role = "user"
      <4>1. ASSUME turns # <<>>
            PROVE  turns[1].role \in {"user", "assistant"} /\ turns[1] = Head(turns)
        <5>1. 1 \in DOMAIN turns /\ turns[1] = Head(turns)
          BY <1>5, <4>1
        <5>2. QED
          BY <2>1, <5>1 DEF Said, Speakers, Fits
      <4>2. QED
        BY <2>1, <4>1 DEF Greets
    <3>2. QED
      BY <1>1, <1>2, <2>1, <3>1 DEF Said, UserTurn, HasUser
  <2>2. QED
    BY <1>1, <2>1 DEF UserTurn
<1>10. QED
  BY <1>3, <1>4, <1>6, <1>7, <1>8, <1>9 DEF Said

LEMMA StutterSaid == Base /\ Said /\ UNCHANGED vars => Said'
<1> SUFFICES ASSUME Base, Said, UNCHANGED vars PROVE Said'
  OBVIOUS
<1>1. /\ Frozen /\ Read' = Read /\ Done' = Done /\ system' = system /\ turns' = turns
      /\ stage' = stage
  <2>1. Read' = Read
    BY SameRead DEF vars
  <2>2. QED
    BY <2>1 DEF vars, Frozen, Done
<1>2. /\ Known' /\ (Distinct(system, turns))' /\ (Sorted(system, turns))'
  BY <1>1, Left DEF Said
<1>3. Clean' /\ Speakers'
  BY <1>1 DEF Said, Clean, Speakers, Fits, Frozen
<1>4. UserTurn'
  BY <1>1 DEF Said, UserTurn, HasUser, Frozen
<1>5. Kept'
  <2>1. ASSUME NEW i
        PROVE  /\ (Has(system, turns, Word(i)))' <=> Has(system, turns, Word(i))
               /\ (Prefill(i))' <=> Prefill(i)
    BY <1>1 DEF Prefill, Word, ClientItem, Has, PlacesIn, ItemAt, PartOf, Frozen
  <2>2. kinds' = kinds
    BY <1>1 DEF Frozen
  <2>3. QED
    BY <1>1, <2>1, <2>2 DEF Said, Kept
<1>6. Reached'
  BY DEF Said, Reached, UserSpeaks, Done, InjItem, Has, PlacesIn, ItemAt, PartOf, vars
<1>7. QED
  BY <1>2, <1>3, <1>4, <1>5, <1>6 DEF Said

LEMMA StripSaid == Base /\ Base' /\ Frozen /\ Said /\ Strip => Said'
<1> SUFFICES ASSUME Base, Base', Frozen, Said, Strip PROVE Said'
  OBVIOUS
<1>1. /\ stage = "stripping" /\ stage' = stage /\ todo' = todo /\ body' = body /\ kinds' = kinds
      /\ system' = system /\ injs' = injs
  BY DEF Strip
<1>2. Read' = Read /\ Done' = Done
  <2>1. Read' = Read
    BY SameRead DEF Strip
  <2>2. QED
    BY <1>1, <2>1 DEF Done
<1>3. PICK r \in 1..Len(turns) : turns[r].items = <<>> /\ turns' = RemoveAt(turns, r)
  BY StripIs DEF Base
<1>4. /\ Known' /\ (Distinct(system, turns))' /\ (Sorted(system, turns))' /\ Clean' /\ Speakers'
      /\ \A p \in PlacesIn(system, turns) :
           p[1] # r => Has(system', turns', ItemAt(system, turns, p))
  BY <1>1, <1>2, <1>3, RemovedSaid
<1>5. \A x : Has(system, turns, x) => Has(system', turns', x)
  <2>1. ASSUME NEW p \in PlacesIn(system, turns)
        PROVE  p[1] # r
    <3>1. system \in Seq(Items) /\ turns \in Seq(TurnsOf) /\ r # 0
      BY DEF Base, Shape
    <3>2. p[2] \in 1..Len(PartOf(system, turns, p[1]))
      BY <3>1, PlaceIs
    <3>3. PartOf(system, turns, r) = <<>>
      BY <1>3, <3>1 DEF PartOf
    <3>4. QED
      BY <3>2, <3>3
  <2>2. QED
    BY <1>4, <2>1 DEF Has
<1>6. Kept'
  BY <1>1, <1>2, <1>5, KeptOn DEF Said, Converting
<1>7. Reached'
  BY <1>2, <1>5, ReachedOn DEF Said
<1>8. UserTurn'
  BY <1>1 DEF UserTurn
<1>9. QED
  BY <1>4, <1>6, <1>7, <1>8 DEF Said

(* When body is empty every message has been read but the one that is held. *)
LEMMA AllRead ==
  ASSUME body = <<>>
  PROVE  Read = DOMAIN kinds \ Held /\ \A i \in DOMAIN kinds : kinds[i] # "system" => i \in Read
<1>1. DOMAIN body = {}
  OBVIOUS
<1>2. Read = DOMAIN kinds \ Held
  BY <1>1 DEF Read
<1>3. QED
  BY <1>2 DEF Held, IsCard

LEMMA DropSaid == Base /\ Base' /\ Frozen /\ Said /\ Drop => Said'
<1> SUFFICES ASSUME Base, Base', Frozen, Said, Drop PROVE Said'
  OBVIOUS
<1>1. /\ stage = "stripping" /\ stage' = stage /\ todo' = todo /\ body' = body /\ kinds' = kinds
      /\ system' = system /\ injs' = injs /\ body = <<>>
  BY DEF Drop, Base, Progress
<1>2. /\ Read' = Read /\ Done' = Done /\ Read \subseteq DOMAIN kinds
      /\ \A i \in DOMAIN kinds : kinds[i] # "system" => i \in Read
  <2>1. Read' = Read
    BY SameRead DEF Drop
  <2>2. QED
    BY <1>1, <2>1, AllRead DEF Done, Read
<1> DEFINE r == Len(turns)
<1>3. /\ r \in 1..Len(turns) /\ format = "anthropic" /\ turns[r].role = "assistant"
      /\ turns' = RemoveAt(turns, r)
  BY DropIs DEF Base
<1>4. /\ kinds \in Seq(Kinds) /\ system \in Seq(Items) /\ turns \in Seq(TurnsOf)
      /\ turns[r] \in TurnsOf /\ r \in Nat /\ r # 0
  BY SMTT(30), <1>3 DEF Base, Shape
<1> DEFINE c == turns[r].items
<1>5. /\ Len(c) = 1
      /\ \A m \in 1..Len(c) : c[m].from = "client" /\ kinds[c[m].of] \in {"assistant", "calls"}
  <2>1. Fits(turns[r])
    BY <1>3, <1>4 DEF Said, Speakers
  <2>2. DOMAIN c = 1..Len(c)
    BY <1>4 DEF TurnsOf
  <2>3. QED
    BY <1>3, <2>1, <2>2 DEF Fits
<1>6. PartOf(system, turns, r) = c
  BY <1>4 DEF PartOf
<1>7. /\ Known' /\ (Distinct(system, turns))' /\ (Sorted(system, turns))' /\ Clean' /\ Speakers'
      /\ \A p \in PlacesIn(system, turns) :
           p[1] # r => Has(system', turns', ItemAt(system, turns, p))
  <2> HIDE DEF r
  <2>1. QED
    BY <1>1, <1>2, <1>3, RemovedSaid
<1>8. UserTurn'
  BY <1>1 DEF UserTurn
<1> HIDE DEF c
<1>9. ASSUME NEW p \in PlacesIn(system, turns), p[1] = r
      PROVE  /\ p[2] = 1 /\ ItemAt(system, turns, p).from = "client"
             /\ kinds[ItemAt(system, turns, p).of] \in {"assistant", "calls"}
  <2>1. p[2] \in 1..Len(c) /\ ItemAt(system, turns, p) = c[p[2]]
    BY <1>4, <1>6, <1>9, PlaceIs
  <2>2. QED
    BY <1>5, <2>1
<1>10. Reached'
  <2>1. ASSUME format = "openai" \/ UserSpeaks, NEW j \in Done'
        PROVE  Has(system', turns', InjItem(j))
    <3>1. Has(system, turns, InjItem(j))
      BY <1>2, <2>1 DEF Said, Reached
    <3>2. PICK p \in PlacesIn(system, turns) : ItemAt(system, turns, p) = InjItem(j)
      BY <3>1 DEF Has
    <3>3. p[1] # r
      BY <1>9, <3>2 DEF InjItem
    <3>4. QED
      BY <1>7, <3>2, <3>3
  <2>2. QED
    BY <2>1 DEF Reached, UserSpeaks, InjItem, Has, PlacesIn, ItemAt, PartOf, Frozen
<1>11. ASSUME NEW i \in Read, kinds[i] \in {"system", "user", "assistant", "tool"}
       PROVE  Has(system', turns', Word(i)) \/ Prefill(i)
  <2>1. CASE Has(system, turns, Word(i))
    <3>1. PICK p \in PlacesIn(system, turns) : ItemAt(system, turns, p) = Word(i)
      BY <2>1 DEF Has
    <3>2. CASE p[1] # r
      BY <1>7, <3>1, <3>2
    <3>3. CASE p[1] = r
      <4>1. i \in DOMAIN kinds /\ i \in Nat
        BY <1>2, <1>4
      <4>2. Word(i).of = i /\ Word(i).from = "client"
        BY <4>1, ItemsAre
      <4>3. kinds[i] = "assistant" /\ p[2] = 1
        BY <1>9, <1>11, <3>1, <3>3, <4>2
      <4>4. ASSUME NEW k \in (i + 1)..Len(kinds), kinds[k] \in {"user", "tool"}
            PROVE  FALSE
        <5>1. k \in DOMAIN kinds /\ k \in Nat /\ i < k
          BY <1>4, <4>1
        <5>2. Has(system, turns, Word(k))
          <6>1. k \in Read /\ ~Prefill(k)
            BY <1>2, <4>4, <5>1 DEF Prefill
          <6>2. QED
            BY <1>1, <4>4, <6>1 DEF Said, Kept, Converting
        <5>3. PICK q \in PlacesIn(system, turns) : ItemAt(system, turns, q) = Word(k)
          BY <5>2 DEF Has
        <5>4. Word(k).of = k /\ Word(k).from = "client"
          BY <5>1, ItemsAre
        <5>5. Turning(Word(i)) /\ Turning(Word(k))
          BY <4>2, <4>3, <4>4, <5>4 DEF Turning
        <5>6. Precedes(p, q)
          BY <3>1, <4>2, <5>1, <5>3, <5>4, <5>5 DEF Said, Sorted
        <5>7. q[1] \in 0..r /\ q[2] \in Nat
          BY <1>4, PlaceIs
        <5>8. q[1] = r => q[2] = 1
          BY <1>9
        <5> DEFINE a == q[1]
                   m == q[2]
        <5>9. (r < a \/ (r = a /\ 1 < m)) /\ a \in 0..r /\ (a = r => m = 1)
          BY <3>3, <4>3, <5>6, <5>7, <5>8 DEF Precedes
        <5> HIDE DEF a, m, r
        <5>10. QED
          BY <1>4, <5>9
      <4>5. Prefill(i)
        BY <1>3, <4>3, <4>4 DEF Prefill
      <4>6. QED
        BY <4>5
    <3>4. QED
      BY <3>2, <3>3
  <2>2. CASE ~Has(system, turns, Word(i))
    BY <1>1, <1>11, <2>2 DEF Said, Kept, Converting
  <2>3. QED
    BY <2>1, <2>2
<1>12. Kept'
  <2>1. ASSUME NEW i
        PROVE  /\ (Has(system, turns, Word(i)))' <=> Has(system', turns', Word(i))
               /\ (Prefill(i))' <=> Prefill(i)
    BY DEF Prefill, Word, ClientItem, Has, PlacesIn, ItemAt, PartOf, Frozen
  <2>2. QED
    BY <1>1, <1>2, <1>11, <2>1 DEF Kept
<1>13. QED
  BY <1>7, <1>8, <1>10, <1>12 DEF Said

(* With a user's turn in front, the spot is a user's and not behind the    *)
(* turn that was asked for.                                                *)
LEMMA SpotIsUser ==
  ASSUME turns \in Seq(TurnsOf), turns # <<>>, turns[1].role = "user",
         NEW at \in 1..Len(turns), NEW asked \in 1..Len(turns), IsSpot(at, asked)
  PROVE  /\ turns[at].role = "user" /\ at <= asked
         /\ \A n \in (at + 1)..asked : turns[n].role # "user"
<1>1. IsUser(1)
  BY DEF IsUser
<1>2. Len(turns) \in Nat /\ DOMAIN turns = 1..Len(turns)
  OBVIOUS
<1>3. CASE IsUser(at) /\ at <= asked /\ \A n \in (at + 1)..asked : ~IsUser(n)
  <2>1. ASSUME NEW n \in (at + 1)..asked
        PROVE  turns[n].role # "user"
    <3>1. n \in DOMAIN turns
      BY <1>2
    <3>2. QED
      BY <1>3, <3>1 DEF IsUser
  <2>2. QED
    BY <1>3, <2>1 DEF IsUser
<1>4. CASE IsUser(at) /\ at > asked /\ \A n \in 1..(at - 1) : ~IsUser(n)
  <2>1. 1 \in 1..(at - 1)
    BY <1>2, <1>4
  <2>2. QED
    BY <1>1, <1>4, <2>1
<1>5. CASE at = asked /\ \A n \in DOMAIN turns : ~IsUser(n)
  BY <1>1, <1>5 DEF IsUser
<1>6. QED
  BY <1>3, <1>4, <1>5 DEF IsSpot

LEMMA AskedIs ==
  ASSUME turns \in Seq(TurnsOf), turns # <<>>, NEW depth \in Nat
  PROVE  Asked(depth) \in 1..Len(turns)
<1> DEFINE top == Len(turns)
<1>1. top \in Nat /\ top # 0
  OBVIOUS
<1>2. Asked(depth) = IF top > depth THEN top - depth ELSE 1
  BY DEF Asked
<1> HIDE DEF top
<1>3. Asked(depth) \in 1..top
  BY <1>1, <1>2
<1>4. QED
  BY <1>3 DEF top

LEMMA DepthIs ==
  ASSUME injs \in Seq(Injections), NEW j \in DOMAIN injs
  PROVE  injs[j].depth \in Nat /\ injs[j].order \in Orders /\ j \in Nat
<1>1. injs[j] \in Injections /\ j \in Nat
  OBVIOUS
<1>2. QED
  BY <1>1, PromptAssumption DEF Injections

LEMMA PlaceSaid == Base /\ Base' /\ Frozen /\ Said /\ Place => Said'
<1> SUFFICES ASSUME Base, Base', Frozen, Said, Place PROVE Said'
  OBVIOUS
<1>1. /\ stage = "mapped" /\ stage' = stage /\ format # "openai" /\ system' = system
      /\ body' = body /\ kinds' = kinds /\ injs' = injs /\ format' = format /\ body = <<>>
  BY DEF Place, Base, Progress
<1>2. turns \in Seq(TurnsOf) /\ turns' \in Seq(TurnsOf) /\ injs \in Seq(Injections) /\ Shape
  BY DEF Base, Shape
<1>3. PICK j \in todo :
        /\ todo' = todo \ {j} /\ j \in DOMAIN injs /\ j \in Nat
        /\ <<InjItem(j)>> \in Seq(Items)
        /\ \/ turns = <<>> /\ turns' = turns
           \/ \E at \in 1..Len(turns) :
                /\ IsSpot(at, Asked(injs[j].depth))
                /\ turns' = AddTo(turns, at, <<InjItem(j)>>)
  BY <1>2, PlaceStep
<1>4. Read' = Read /\ j \notin Done /\ Done' = Done \cup {j}
  <2>1. Read' = Read
    BY SameRead DEF Place
  <2>2. QED
    BY <1>1, <1>3, <2>1 DEF Done
<1>5. Clean'
  BY <1>1 DEF Said, Clean
<1>6. CASE turns = <<>> /\ turns' = turns
  <2>1. /\ Known' /\ (Distinct(system, turns))' /\ (Sorted(system, turns))'
        /\ \A x : Has(system, turns, x) => Has(system', turns', x)
    BY <1>1, <1>4, <1>6, Left DEF Said
  <2>2. Speakers'
    BY <1>2, <1>6, SpeakersOn DEF Said
  <2>3. Kept'
    BY <1>1, <1>4, <2>1, KeptOn DEF Said, Converting
  <2>4. UserTurn'
    BY <1>1, <1>4, <1>6 DEF Said, UserTurn, HasUser
  <2>5. Reached'
    <3>1. ~UserSpeaks
      <4>1. ASSUME NEW i \in DOMAIN kinds, kinds[i] \in {"user", "blank", "tool"}
            PROVE  FALSE
        <5>1. i \in Read
          BY <1>1, <4>1, AllRead
        <5>2. HasUser
          BY <1>1, <4>1, <5>1 DEF Said, UserTurn
        <5>3. DOMAIN turns = {}
          BY <1>6
        <5>4. QED
          BY <5>2, <5>3 DEF HasUser
      <4>2. QED
        BY <4>1 DEF UserSpeaks
    <3>2. QED
      BY <1>1, <2>1, <3>1, ReachedOn DEF Said
  <2>6. QED
    BY <1>5, <2>1, <2>2, <2>3, <2>4, <2>5 DEF Said
<1>7. ASSUME NEW at \in 1..Len(turns),
             IsSpot(at, Asked(injs[j].depth)),
             turns' = AddTo(turns, at, <<InjItem(j)>>)
      PROVE  Said'
  <2> DEFINE x == InjItem(j)
             c == <<x>>
  <2>1. x \in Items /\ x.from = "injection" /\ KnownItem(x, Read', Done') /\ ~Turning(x)
    <3>1. j \in Done'
      BY <1>4
    <3>2. QED
      BY <1>3, <3>1, ItemsAre, BlockKnown
  <2>2. ~Has(system, turns, x)
    BY <1>3, <1>4, Unplaced DEF Said
  <2>3. turns # <<>> /\ turns[1].role = "user"
    <3>1. turns # <<>>
      BY <1>2
    <3>2. QED
      BY <1>1, <3>1 DEF Said, UserTurn
  <2>4. turns[at].role = "user"
    <3>1. Asked(injs[j].depth) \in 1..Len(turns)
      BY <1>2, <1>3, <2>3, AskedIs, DepthIs
    <3>2. QED
      BY <1>2, <1>7, <2>3, <3>1, SpotIsUser
  <2> HIDE DEF x
  <2>5. c \in Seq(Items) /\ Len(c) = 1 /\ c[1] = x /\ turns' = AddTo(turns, at, c)
    BY <1>7, <2>1 DEF x
  <2> HIDE DEF c
  <2>6. PICK back, fresh :
          /\ Gains(system, turns, system', turns', back, fresh, c)
          /\ Len(turns') = Len(turns) /\ OneLonger(turns, at, c, turns')
    <3>1. LET size == Len(turns[at].items)
              fresh == Behind(at, size, c)
          IN /\ Gains(system, turns, system', turns', Same(system', turns'), fresh, c)
             /\ Len(turns') = Len(turns) /\ OneLonger(turns, at, c, turns')
      BY <1>1, <1>2, <2>5, TurnGrows
    <3>2. QED
      BY <3>1
  <2>7. /\ Known' /\ (Distinct(system, turns))' /\ (Sorted(system, turns))'
        /\ \A y : Has(system, turns, y) => Has(system', turns', y)
        /\ Has(system', turns', x)
    <3>1. \A m \in 1..Len(c) : c[m] = x
      BY <2>5
    <3>2. Single(c)
      <4>1. Len(c) <= 1
        BY <2>5
      <4>2. QED
        BY <2>5, <4>1, SingleIs
    <3>3. Read \subseteq Read' /\ Done \subseteq Done'
      BY <1>4
    <3>4. /\ Known' /\ (Distinct(system, turns))' /\ (Sorted(system, turns))'
          /\ \A y : Has(system, turns, y) => Has(system', turns', y)
          /\ \A m \in 1..Len(c) : Has(system', turns', c[m])
      BY <2>1, <2>2, <2>5, <2>6, <3>1, <3>2, <3>3, Passed DEF Said
    <3>5. QED
      BY <2>5, <3>4
  <2>8. Fits(turns'[at])
    <3> DEFINE u == turns[at].items
               v == turns'[at]
    <3>1. u \in Seq(Items) /\ v.role = "user" /\ v.items = u \o c
      <4>1. v.role = turns[at].role /\ v.items = u \o c
        BY <2>6 DEF OneLonger
      <4>2. turns[at] \in TurnsOf
        BY <1>2
      <4>3. u \in Seq(Items)
        BY <4>2 DEF TurnsOf
      <4>4. QED
        BY <2>4, <4>1, <4>3
    <3>2. \A m \in 1..Len(u) : u[m].from = "client" => kinds[u[m].of] \notin {"assistant", "calls"}
      <4>1. Fits(turns[at])
        BY <1>2 DEF Said, Speakers
      <4>2. QED
        BY <1>1, <2>4, <3>1, <4>1 DEF Fits
    <3> HIDE DEF u, v
    <3>3. ASSUME NEW m \in DOMAIN (u \o c)
          PROVE  (u \o c)[m].from = "client" =>
                   kinds[(u \o c)[m].of] \notin {"assistant", "calls"}
      <4>1. \/ m \in 1..Len(u) /\ (u \o c)[m] = u[m]
            \/ \E n \in 1..Len(c) : (u \o c)[m] = c[n]
        <5>1. c \in Seq(Items)
          BY <2>5
        <5>2. QED
          BY <3>1, <5>1
      <4>2. \A n \in 1..Len(c) : c[n].from = "injection"
        BY <2>1, <2>5
      <4>3. QED
        BY <3>2, <4>1, <4>2
    <3>4. Fits(v)
      BY <3>1, <3>3 DEF Fits
    <3>5. QED
      BY <3>4 DEF v
  <2>9. Speakers'
    <3>1. ASSUME NEW n \in 1..Len(turns')
          PROVE  (\E k \in 1..Len(turns) : turns'[n] = turns[k]) \/ Fits(turns'[n])
      BY <2>6, <2>8 DEF OneLonger
    <3>2. QED
      BY <3>1, SpeakersOn DEF Said
  <2>10. Kept'
    BY <1>1, <1>4, <2>7, KeptOn DEF Said, Converting
  <2>11. UserTurn'
    <3>1. DOMAIN turns = 1..Len(turns) /\ DOMAIN turns' = 1..Len(turns)
      BY <1>2, <2>6
    <3>2. HasUser => HasUser'
      BY <2>6, <3>1 DEF HasUser, OneLonger
    <3>3. turns'[1].role = "user"
      <4>1. 1 \in 1..Len(turns)
        BY <1>2
      <4>2. QED
        BY <2>3, <2>6, <4>1 DEF OneLonger
    <3>4. QED
      BY <1>1, <1>4, <3>2, <3>3 DEF Said, UserTurn
  <2>12. Reached'
    BY <1>4, <2>7, ReachedOn DEF Said, x
  <2>13. QED
    BY <1>5, <2>7, <2>9, <2>10, <2>11, <2>12 DEF Said
<1>8. QED
  BY <1>3, <1>6, <1>7

(* The messages as they are, before the blocks are merged into them.       *)
LEMMA VerbatimHas ==
  ASSUME Shape
  PROVE  /\ \A p \in PlacesIn(<<>>, Verbatim) :
              /\ p[1] \in 1..Len(body) /\ p = <<p[1], 1>> /\ body[p[1]] \in DOMAIN kinds
              /\ kinds[body[p[1]]] # "blank"
              /\ ItemAt(<<>>, Verbatim, p) = Word(body[p[1]])
         /\ \A n \in 1..Len(body) : kinds[body[n]] # "blank" =>
              Has(<<>>, Verbatim, Word(body[n]))
<1> DEFINE v == Verbatim
<1>1. /\ v \in Seq(TurnsOf) /\ Len(v) = Len(body) /\ Len(body) \in Nat
      /\ \A n \in 1..Len(body) :
           /\ body[n] \in DOMAIN kinds
           /\ v[n].items = Content(body[n])
      /\ kinds \in Seq(Kinds)
  BY VerbatimIs DEF Shape
<1>2. <<>> \in Seq(Items)
  OBVIOUS
<1> HIDE DEF v
<1>3. ASSUME NEW n \in 1..Len(body)
      PROVE  /\ PartOf(<<>>, v, n) = Content(body[n])
             /\ kinds[body[n]] = "blank" => Len(Content(body[n])) = 0
             /\ kinds[body[n]] # "blank" =>
                  /\ Len(Content(body[n])) = 1 /\ Content(body[n])[1] = Word(body[n])
  <2>1. n # 0
    BY <1>1
  <2>2. PartOf(<<>>, v, n) = Content(body[n])
    BY <1>1, <2>1 DEF PartOf
  <2>3. QED
    BY <1>1, <2>2, ContentIs
<1>4. ASSUME NEW p \in PlacesIn(<<>>, v)
      PROVE  /\ p[1] \in 1..Len(body) /\ p = <<p[1], 1>> /\ body[p[1]] \in DOMAIN kinds
             /\ kinds[body[p[1]]] # "blank"
             /\ ItemAt(<<>>, v, p) = Word(body[p[1]])
  <2> DEFINE a == p[1]
             m == p[2]
  <2>1. /\ a \in 0..Len(v) /\ m \in Nat /\ p = <<a, m>> /\ m \in 1..Len(PartOf(<<>>, v, a))
        /\ ItemAt(<<>>, v, p) = PartOf(<<>>, v, a)[m]
    BY <1>1, <1>2, PlaceIs
  <2> HIDE DEF a, m
  <2>2. a # 0
    <3>1. ASSUME a = 0
          PROVE  FALSE
      <4>1. PartOf(<<>>, v, a) = <<>>
        BY <3>1 DEF PartOf
      <4>2. m \in 1..0
        BY <2>1, <4>1
      <4>3. QED
        BY <2>1, <4>2
    <3>2. QED
      BY <3>1
  <2>3. a \in 1..Len(body)
    BY <1>1, <2>1, <2>2
  <2> DEFINE l == Len(Content(body[a]))
  <2>4. m \in 1..l /\ ItemAt(<<>>, v, p) = Content(body[a])[m]
    BY <1>3, <2>1, <2>3
  <2> HIDE DEF l
  <2>5. kinds[body[a]] # "blank"
    <3>1. l # 0
      BY <2>1, <2>4
    <3>2. QED
      BY <1>3, <2>3, <3>1 DEF l
  <2>6. m = 1
    <3>1. l = 1
      BY <1>3, <2>3, <2>5 DEF l
    <3>2. QED
      BY <2>4, <3>1
  <2>7. ItemAt(<<>>, v, p) = Word(body[a])
    BY <1>3, <2>3, <2>4, <2>5, <2>6
  <2>8. p = <<a, 1>> /\ body[a] \in DOMAIN kinds
    BY <1>1, <2>1, <2>3, <2>6
  <2>9. QED
    BY <2>3, <2>5, <2>7, <2>8 DEF a
<1>5. ASSUME NEW n \in 1..Len(body), kinds[body[n]] # "blank"
      PROVE  Has(<<>>, v, Word(body[n]))
  <2>1. n \in 0..Len(v)
    BY <1>1
  <2>2. Len(PartOf(<<>>, v, n)) = 1 /\ PartOf(<<>>, v, n)[1] = Word(body[n])
    BY <1>3, <1>5
  <2>3. 1 \in 1..Len(PartOf(<<>>, v, n))
    BY <2>2
  <2>4. <<n, 1>> \in PlacesIn(<<>>, v) /\ ItemAt(<<>>, v, <<n, 1>>) = Word(body[n])
    BY <1>1, <1>2, <2>1, <2>2, <2>3, PlaceAt
  <2>5. QED
    BY <2>4 DEF Has
<1>6. QED
  BY <1>4, <1>5 DEF v

LEMMA BodyOrder ==
  ASSUME Shape, NEW m \in 1..Len(body), NEW n \in 1..Len(body)
  PROVE  /\ body[m] \in Nat /\ body[n] \in Nat
         /\ body[m] = body[n] => m = n
         /\ body[m] < body[n] => m < n
<1>1. /\ DOMAIN body = 1..Len(body) /\ Len(body) \in Nat /\ m \in Nat /\ n \in Nat
      /\ body[m] \in Nat /\ body[n] \in Nat
  <2>1. body \in Seq(DOMAIN kinds) /\ kinds \in Seq(Kinds)
    BY DEF Shape
  <2>2. body[m] \in DOMAIN kinds /\ body[n] \in DOMAIN kinds
    BY <2>1
  <2>3. DOMAIN kinds = 1..Len(kinds) /\ Len(kinds) \in Nat
    BY <2>1
  <2>4. DOMAIN body = 1..Len(body) /\ Len(body) \in Nat
    BY <2>1
  <2>5. body[m] \in Nat /\ body[n] \in Nat
    BY <2>2, <2>3
  <2>6. QED
    BY <2>4, <2>5
<1>2. (m < n => body[m] < body[n]) /\ (n < m => body[n] < body[m])
  BY <1>1 DEF Shape, Increasing
<1> DEFINE a == body[m]
           b == body[n]
<1>3. /\ (m < n => a < b) /\ (n < m => b < a) /\ a \in Nat /\ b \in Nat
      /\ m \in Nat /\ n \in Nat
  BY <1>1, <1>2
<1> HIDE DEF a, b
<1>4. (a = b => m = n) /\ (a < b => m < n)
  <2>1. CASE m < n
    BY <1>3, <2>1
  <2>2. CASE m = n
    <3>1. a = b
      BY <2>2 DEF a, b
    <3>2. QED
      BY <1>3, <2>2, <3>1
  <2>3. CASE n < m
    BY <1>3, <2>3
  <2>4. QED
    BY <1>3, <2>1, <2>2, <2>3
<1>5. QED
  BY <1>1, <1>4 DEF a, b

LEMMA VerbatimOrder ==
  ASSUME Shape
  PROVE  Distinct(<<>>, Verbatim) /\ Sorted(<<>>, Verbatim)
<1> DEFINE v == Verbatim
<1>1. \A p \in PlacesIn(<<>>, v) :
        /\ p[1] \in 1..Len(body) /\ p = <<p[1], 1>> /\ body[p[1]] \in DOMAIN kinds
        /\ ItemAt(<<>>, v, p) = Word(body[p[1]])
  BY VerbatimHas
<1> HIDE DEF v
<1>2. ASSUME NEW p \in PlacesIn(<<>>, v)
      PROVE  ItemAt(<<>>, v, p).of = body[p[1]]
  <2>1. body[p[1]] \in Nat
    BY <1>1 DEF Shape
  <2>2. QED
    BY <1>1, <2>1, ItemsAre
<1>3. ASSUME NEW p \in PlacesIn(<<>>, v), NEW q \in PlacesIn(<<>>, v),
             ItemAt(<<>>, v, p) = ItemAt(<<>>, v, q)
      PROVE  p = q
  <2>1. body[p[1]] = body[q[1]]
    BY <1>2, <1>3
  <2>2. p[1] = q[1]
    BY <1>1, <2>1, BodyOrder
  <2>3. QED
    BY <1>1, <2>2
<1>4. ASSUME NEW p \in PlacesIn(<<>>, v), NEW q \in PlacesIn(<<>>, v),
             ItemAt(<<>>, v, p).of < ItemAt(<<>>, v, q).of
      PROVE  Precedes(p, q)
  <2>1. body[p[1]] < body[q[1]]
    BY <1>2, <1>4
  <2>2. p[1] < q[1]
    BY <1>1, <2>1, BodyOrder
  <2>3. QED
    BY <2>2 DEF Precedes
<1>5. QED
  BY <1>3, <1>4 DEF v, Distinct, Sorted

LEMMA GainsNothing ==
  ASSUME NEW ts
  PROVE  Gains(<<>>, ts, <<>>, ts, Same(<<>>, ts), {}, <<>>)
<1> DEFINE P == PlacesIn(<<>>, ts)
<1>1. \A p \in P : Same(<<>>, ts)[p] = p
  BY DEF Same
<1>2. Carries(<<>>, ts, <<>>, ts, Same(<<>>, ts), {})
  BY <1>1 DEF Carries
<1>3. \A p \in P : Has(<<>>, ts, ItemAt(<<>>, ts, p))
  BY DEF Has
<1> DEFINE c == <<>>
<1>4. Len(c) = 0
  OBVIOUS
<1> HIDE DEF c
<1>5. \A m \in 1..Len(c) : FALSE
  BY <1>4
<1>6. Gains(<<>>, ts, <<>>, ts, Same(<<>>, ts), {}, c)
  BY <1>2, <1>3, <1>5 DEF Gains
<1>7. QED
  BY <1>6 DEF c

(* Who says what once the blocks are merged.                               *)
LEMMA MergeSpeakers ==
  ASSUME Base, Base', Frozen, MergePrepended
  PROVE  Speakers'
<1> DEFINE v == Verbatim
<1>1. /\ v \in Seq(TurnsOf) /\ Len(v) = Len(body) /\ Len(body) \in Nat
      /\ \A n \in 1..Len(body) :
           /\ body[n] \in DOMAIN kinds
           /\ v[n].role = Role(kinds[body[n]]) /\ v[n].items = Content(body[n])
      /\ kinds \in Seq(Kinds) /\ prepend \in Seq(Items) /\ turns' \in Seq(TurnsOf)
      /\ format = "openai"
  BY VerbatimIs DEF Base, Shape, MergePrepended
<1>2. \/ prepend = <<>> /\ turns' = v
      \/ 1 \in 1..Len(v) /\ v[1].role = "system" /\ turns' = AddTo(v, 1, prepend)
      \/ turns' = InsertAt(v, 1, Turn("system", prepend))
  BY MergedIs DEF Base
<1> HIDE DEF v
<1>3. ASSUME NEW n \in 1..Len(v)
      PROVE  Fits(v[n])
  <2> DEFINE i == body[n]
             c == Content(i)
  <2>1. i \in DOMAIN kinds /\ i \in Nat /\ v[n].items = c
    BY <1>1
  <2> HIDE DEF i
  <2>2. /\ c \in Seq(Items)
        /\ kinds[i] = "blank" => Len(c) = 0
        /\ kinds[i] # "blank" => Len(c) = 1 /\ c[1] = Word(i)
    BY <1>1, <2>1, ContentIs
  <2>3. Word(i).from = "client"
    BY <2>1, ItemsAre
  <2> HIDE DEF c
  <2> DEFINE l == Len(c)
  <2>4. DOMAIN c = 1..l /\ (l = 0 \/ (l = 1 /\ c[1] = Word(i)))
    BY <2>2
  <2> HIDE DEF l
  <2>5. \A m \in 1..l : c[m].from = "client"
    BY <2>3, <2>4
  <2>6. QED
    BY <1>1, <2>1, <2>4, <2>5 DEF Fits
<1>4. ASSUME NEW n \in 1..Len(turns')
      PROVE  Fits(turns'[n])
  <2>1. CASE prepend = <<>> /\ turns' = v
    BY <1>3, <2>1
  <2>2. CASE 1 \in 1..Len(v) /\ v[1].role = "system" /\ turns' = AddTo(v, 1, prepend)
    <3>1. <<>> \in Seq(Items)
      OBVIOUS
    <3>2. Len(turns') = Len(v) /\ OneLonger(v, 1, prepend, turns')
      BY <1>1, <2>2, <3>1, AddedParts
    <3>3. CASE n = 1
      <4>1. turns'[n].role = "system"
        BY <2>2, <3>2, <3>3 DEF OneLonger
      <4>2. QED
        BY <1>1, <4>1 DEF Fits
    <3>4. CASE n # 1
      <4>1. n \in 1..Len(v) /\ turns'[n] = v[n]
        BY <3>2, <3>4 DEF OneLonger
      <4>2. QED
        BY <1>3, <4>1
    <3>5. QED
      BY <3>3, <3>4
  <2>3. CASE turns' = InsertAt(v, 1, Turn("system", prepend))
    <3> DEFINE t == Turn("system", prepend)
               S == TurnsOf
    <3>1. t \in S /\ v \in Seq(S) /\ t.role = "system"
      BY <1>1, TurnIs DEF Voices
    <3>2. turns' = InsertAt(v, 1, t)
      BY <2>3
    <3>3. 1 \in 1..(Len(v) + 1)
      BY <1>1
    <3> HIDE DEF t, S
    <3>4. Len(turns') = Len(v) + 1 /\ OneMore(v, 1, t, turns')
      BY <3>1, <3>2, <3>3, InsertIs
    <3>5. CASE n = 1
      <4>1. turns'[n] = t
        BY <3>3, <3>4, <3>5 DEF OneMore
      <4>2. QED
        BY <1>1, <3>1, <4>1 DEF Fits
    <3>6. CASE n # 1
      <4>1. n \in 1..(Len(v) + 1) /\ ~(n < 1) /\ n - 1 \in 1..Len(v)
        BY <1>1, <3>4, <3>6
      <4>2. turns'[n] = v[n - 1]
        BY <3>4, <3>6, <4>1 DEF OneMore
      <4>3. QED
        BY <1>3, <4>1, <4>2
    <3>7. QED
      BY <3>5, <3>6
  <2>4. QED
    BY <1>2, <2>1, <2>2, <2>3
<1>5. DOMAIN turns' = 1..Len(turns')
  BY <1>1
<1>6. QED
  BY <1>4, <1>5 DEF Speakers, Fits, Frozen

(* However the blocks are merged, they are added to the messages.          *)
LEMMA MergeGains ==
  ASSUME Base, Base', MergePrepended
  PROVE  \E back, fresh : Gains(<<>>, Verbatim, <<>>, turns', back, fresh, prepend)
<1> DEFINE v == Verbatim
           ts2 == turns'
           e == <<>>
<1>1. v \in Seq(TurnsOf) /\ Len(v) \in Nat /\ prepend \in Seq(Items) /\ ts2 \in Seq(TurnsOf)
  BY VerbatimIs DEF Base, Shape
<1>2. \/ prepend = e /\ ts2 = v
      \/ 1 \in 1..Len(v) /\ ts2 = AddTo(v, 1, prepend)
      \/ ts2 = InsertAt(v, 1, Turn("system", prepend))
  BY MergedIs DEF Base
<1>3. e \in Seq(Items)
  OBVIOUS
<1>4. \A ts : Gains(e, ts, e, ts, Same(e, ts), {}, e)
  BY GainsNothing
<1> HIDE DEF v, ts2, e
<1>5. CASE prepend = e /\ ts2 = v
  BY <1>4, <1>5 DEF v, ts2, e
<1>6. CASE 1 \in 1..Len(v) /\ ts2 = AddTo(v, 1, prepend)
  <2>1. GrownAt(e, v, e, AddTo(v, 1, prepend), 1, prepend)
    BY <1>1, <1>3, <1>6, AddedParts
  <2>2. 1 \in 0..Len(v)
    BY <1>1, <1>6
  <2>3. Grown(e, v, e, ts2, 1, Len(PartOf(e, v, 1)), prepend,
              Behind(1, Len(PartOf(e, v, 1)), prepend))
    BY <1>1, <1>3, <1>6, <2>1, <2>2, GrowsGains
  <2>4. QED
    BY <2>3 DEF Grown, v, ts2, e
<1>7. CASE ts2 = InsertAt(v, 1, Turn("system", prepend))
  <2> DEFINE t == Turn("system", prepend)
  <2>1. t \in TurnsOf /\ t.items = prepend /\ ts2 = InsertAt(v, 1, t)
    BY <1>1, <1>7, TurnIs DEF Voices
  <2>2. 1 \in 1..(Len(v) + 1)
    BY <1>1
  <2> HIDE DEF t
  <2>3. InsertedAt(e, v, ts2, 1, t.items)
    BY SMTT(30), <1>1, <1>3, <2>1, <2>2, InsertedParts DEF InsertedAt
  <2>4. Inserted(e, v, ts2, 1, prepend, Lower(e, ts2, 1), Behind(1, 0, prepend))
    BY <1>1, <1>3, <2>1, <2>2, <2>3, InsertsGains
  <2>5. QED
    BY <2>4 DEF Inserted, v, ts2, e
<1>8. QED
  BY <1>2, <1>5, <1>6, <1>7

LEMMA MergeSaid == Base /\ Base' /\ Frozen /\ Said /\ MergePrepended => Said'
<1> SUFFICES ASSUME Base, Base', Frozen, Said, MergePrepended PROVE Said'
  OBVIOUS
<1>1. /\ stage = "assembled" /\ stage' = "mapped" /\ format = "openai" /\ format' = format
      /\ system' = system /\ system = <<>> /\ turns = <<>> /\ body' = <<>> /\ kinds' = kinds
      /\ todo' = todo /\ injs' = injs /\ todo = DOMAIN injs
  BY DEF MergePrepended, Base, Progress
<1>2. Shape /\ turns' \in Seq(TurnsOf) /\ prepend \in Seq(Items) /\ DOMAIN body = 1..Len(body)
  BY DEF Base, Shape
<1>3. /\ Read' = DOMAIN kinds \ Held /\ Done' = {} /\ Read \subseteq Read'
      /\ \A n \in 1..Len(body) : body[n] \notin Held
  <2>1. DOMAIN body' = {}
    BY <1>1
  <2>2. Held' = Held
    BY SameRead DEF MergePrepended
  <2>3. QED
    BY <1>1, <1>2, <2>1, <2>2 DEF Read, Done, Base, Appended
<1>4. /\ Single(prepend)
      /\ \A m \in 1..Len(prepend) :
           /\ KnownItem(prepend[m], Read, {}) /\ ~Turning(prepend[m])
           /\ prepend[m].from # "injection"
           /\ prepend[m].from = "client" => prepend[m].of \in Read
      /\ \A i \in Read : 2 \in 1..Len(prepend) /\ prepend[2] = Word(i)
  BY <1>1, BlockItems
<1> DEFINE v == Verbatim
           e == <<>>
           ts2 == turns'
<1>5. /\ \A p \in PlacesIn(e, v) :
           /\ p[1] \in 1..Len(body) /\ body[p[1]] \in DOMAIN kinds
           /\ kinds[body[p[1]]] # "blank"
           /\ ItemAt(e, v, p) = Word(body[p[1]])
      /\ \A n \in 1..Len(body) : kinds[body[n]] # "blank" => Has(e, v, Word(body[n]))
      /\ Distinct(e, v) /\ Sorted(e, v)
  BY <1>2, VerbatimHas, VerbatimOrder
<1>6. PICK back, fresh : Gains(e, v, e, ts2, back, fresh, prepend)
  BY MergeGains
<1>7. system' = e /\ system = e /\ e \in Seq(Items) /\ ts2 \in Seq(TurnsOf)
  BY <1>1, <1>2
<1> HIDE DEF v, e, ts2
<1>8. /\ Carries(e, v, e, ts2, back, fresh)
      /\ \A p \in fresh : \E m \in 1..Len(prepend) : ItemAt(e, ts2, p) = prepend[m]
      /\ \A p \in PlacesIn(e, v) : Has(e, ts2, ItemAt(e, v, p))
      /\ \A m \in 1..Len(prepend) : Has(e, ts2, prepend[m])
      /\ \A p, q \in fresh : /\ ItemAt(e, ts2, p) = ItemAt(e, ts2, q)
                             /\ ItemAt(e, ts2, p).from \in {"client", "injection"}
                             => p = q
  BY <1>4, <1>6 DEF Gains
<1>9. ASSUME NEW p \in PlacesIn(e, v)
      PROVE  /\ ItemAt(e, v, p).of \in DOMAIN kinds /\ ItemAt(e, v, p).of \notin Read
             /\ IsWord(ItemAt(e, v, p), Read')
  <2> DEFINE i == body[p[1]]
  <2>1. /\ i \in DOMAIN kinds /\ ItemAt(e, v, p) = Word(i) /\ kinds[i] # "blank" /\ i \notin Read
        /\ i \in Read'
    BY <1>2, <1>3, <1>5 DEF Read
  <2> HIDE DEF i
  <2>2. Word(i).of = i
    BY <1>2, <2>1, ItemsAre DEF Shape
  <2>3. QED
    BY <2>1, <2>2 DEF IsWord
<1>10. Known'
  <2>1. ASSUME NEW p \in PlacesIn(e, ts2)
        PROVE  KnownItem(ItemAt(e, ts2, p), Read', {})
    <3>1. CASE p \in fresh
      <4>1. KnownItem(ItemAt(e, ts2, p), Read, {})
        BY <1>4, <1>8, <3>1
      <4>2. QED
        BY <1>3, <4>1 DEF KnownItem, IsWord
    <3>2. CASE p \notin fresh
      <4>1. Has(e, v, ItemAt(e, ts2, p))
        BY <1>8, <3>2, CarriesItems
      <4>2. IsWord(ItemAt(e, ts2, p), Read')
        BY <1>9, <4>1 DEF Has
      <4>3. QED
        BY <4>2 DEF KnownItem
    <3>3. QED
      BY <3>1, <3>2
  <2>2. \A p \in PlacesIn(system', turns') : KnownItem(ItemAt(system', turns', p), Read', Done')
    BY <1>3, <1>7, <2>1 DEF ts2
  <2>3. QED
    BY <2>2, PrimedKnown
<1>11. Distinct(e, ts2)
  <2>1. \A p \in fresh : ItemAt(e, ts2, p).from \in {"client", "injection"} =>
          /\ ~Has(e, v, ItemAt(e, ts2, p))
          /\ \A q \in fresh : ItemAt(e, ts2, p) = ItemAt(e, ts2, q) => p = q
    BY <1>4, <1>8, <1>9 DEF Has
  <2>2. QED
    BY <1>5, <1>8, <2>1, CarriesDistinct
<1>12. Sorted(e, ts2)
  <2>1. \A p \in PlacesIn(e, ts2) : ItemAt(e, ts2, p).of \in Nat
    <3>1. \A p \in PlacesIn(e, ts2) : ItemAt(e, ts2, p) \in Items
      BY <1>7, PlaceIs
    <3>2. QED
      BY <3>1 DEF Items
  <2>2. \A p \in fresh : ~Turning(ItemAt(e, ts2, p))
    BY <1>4, <1>8
  <2>3. QED
    BY <1>5, <1>8, <2>1, <2>2, CarriesSorted
<1>13. (Distinct(system, turns))' /\ (Sorted(system, turns))'
  BY <1>7, <1>11, <1>12, Primed DEF ts2
<1>14. Clean'
  <2>1. DOMAIN system' = {}
    BY <1>1
  <2>2. QED
    BY <2>1 DEF Clean
<1>15. Kept'
  <2>1. ASSUME NEW i \in Read', kinds[i] \in {"system", "user", "assistant", "tool"}
        PROVE  Has(e, ts2, Word(i))
    <3>1. CASE i \in Read
      <4> DEFINE two == 2
      <4>1. two \in 1..Len(prepend) /\ prepend[two] = Word(i)
        BY <1>4, <3>1
      <4> HIDE DEF two
      <4>2. QED
        BY <1>8, <4>1
    <3>2. CASE i \notin Read
      <4>1. PICK n \in 1..Len(body) : body[n] = i
        BY <1>2, <1>3, <2>1, <3>2 DEF Read
      <4>2. Has(e, v, Word(i))
        BY <1>5, <2>1, <4>1
      <4>3. QED
        BY <1>8, <4>2 DEF Has
    <3>3. QED
      BY <3>1, <3>2
  <2>2. QED
    BY <1>7, <2>1, KeptNow DEF ts2
<1>16. Speakers'
  BY MergeSpeakers
<1>17. UserTurn' /\ Reached'
  BY <1>1, <1>3 DEF UserTurn, Reached
<1>18. QED
  BY <1>10, <1>13, <1>14, <1>15, <1>16, <1>17 DEF Said

LEMMA InitSaid == PromptInit => Said
<1> SUFFICES ASSUME PromptInit PROVE Said
  OBVIOUS
<1>1. /\ stage = "received" /\ system = <<>> /\ turns = <<>> /\ todo = DOMAIN injs
  BY DEF PromptInit
<1>2. \A p : p \notin PlacesIn(system, turns)
  BY <1>1, EmptyPrompt
<1>3. Known /\ Distinct(system, turns) /\ Sorted(system, turns)
  BY <1>2 DEF Known, Distinct, Sorted
<1>4. Clean /\ Speakers
  <2>1. DOMAIN system = {} /\ DOMAIN turns = {}
    BY <1>1
  <2>2. QED
    BY <2>1 DEF Clean, Speakers
<1>5. Kept /\ UserTurn
  BY <1>1 DEF Kept, UserTurn, Converting
<1>6. Reached
  BY <1>1 DEF Reached, Done
<1>7. QED
  BY <1>3, <1>4, <1>5, <1>6 DEF Said

LEMMA NextSaid == Base /\ Said /\ [Next]_vars => Said'
<1> SUFFICES ASSUME Base, Said, [Next]_vars PROVE Said'
  OBVIOUS
<1>1. Base' /\ Frozen
  BY NextBase, NextFrozen
<1>2. QED
  BY <1>1, AssembleSaid, MergeSaid, SpliceSaid, Append1Said, HoistSaid, MapSaid, MappedSaid,
     AbsorbSaid, GoOnSaid, PlaceSaid, StripSaid, DropSaid, StutterSaid DEF Next

-----------------------------------------------------------------------------
(* Depth: where the blocks that are placed are.                            *)
LEMMA AtDepthIs ==
  /\ AtDepth <=> (stage = "mapped" => BlocksAt(system, turns, placed))
  /\ Frozen => (AtDepth' <=> (stage' = "mapped" => BlocksAt(system', turns', placed')))
<1>1. AtDepth <=> (stage = "mapped" => BlocksAt(system, turns, placed))
  BY DEF AtDepth
<1>2. ASSUME Frozen
      PROVE  AtDepth' <=> (stage' = "mapped" => BlocksAt(system', turns', placed'))
  BY <1>2 DEF AtDepth, BlocksAt, IsAt, DueIn, AskedIn, FollowingIn,
     PlacesIn, ItemAt, PartOf, InjItem, FromClient, Frozen
<1>3. QED
  BY <1>1, <1>2

LEMMA DueFalls ==
  ASSUME NEW length \in Nat, NEW a \in Nat, NEW b \in Nat, a >= b
  PROVE  /\ DueIn(length, a) \in 0..length /\ DueIn(length, b) \in 0..length
         /\ DueIn(length, a) <= DueIn(length, b)
         /\ length # 0 => AskedIn(length, a) <= AskedIn(length, b) /\ AskedIn(length, b) \in 1..length
BY DEF DueIn, AskedIn

LEMMA BeforeIs ==
  ASSUME injs \in Seq(Injections), NEW i \in DOMAIN injs, NEW j \in DOMAIN injs, Before(i, j)
  PROVE  /\ ~Before(j, i) /\ i # j
         /\ injs[i].depth \in Nat /\ injs[j].depth \in Nat /\ injs[i].depth >= injs[j].depth
<1> DEFINE a == injs[i].depth
           b == injs[j].depth
           c == injs[i].order
           d == injs[j].order
<1>1. a \in Nat /\ b \in Nat /\ c \in Nat /\ d \in Nat /\ i \in Nat /\ j \in Nat
  BY DepthIs DEF Orders
<1>2. /\ a > b \/ (a = b /\ (c > d \/ (c = d /\ i < j)))
      /\ Before(j, i) <=> b > a \/ (b = a /\ (d > c \/ (d = c /\ j < i)))
  BY DEF Before
<1> HIDE DEF a, b, c, d
<1>3. a >= b /\ ~(b > a \/ (b = a /\ (d > c \/ (d = c /\ j < i))))
  BY <1>1, <1>2
<1>4. i # j
  <2>1. CASE i = j
    <3>1. ~Before(i, i)
      BY <1>2, <1>3, <2>1
    <3>2. QED
      BY <2>1, <3>1
  <2>2. QED
    BY <2>1
<1>5. QED
  BY <1>1, <1>2, <1>3, <1>4 DEF a, b

LEMMA OldBlock ==
  ASSUME Base, Said, DeeperFirst, NEW j \in todo, NEW i \in DOMAIN injs,
         NEW q \in PlacesIn(system, turns), ItemAt(system, turns, q) = InjItem(i)
  PROVE  /\ i \in Done /\ Before(i, j) /\ ~Before(j, i)
         /\ injs[i].depth \in Nat /\ injs[j].depth \in Nat /\ injs[i].depth >= injs[j].depth
         /\ q[1] \in 1..Len(turns) /\ q[2] \in Nat /\ turns[q[1]].role # "assistant"
<1>1. /\ system \in Seq(Items) /\ turns \in Seq(TurnsOf) /\ injs \in Seq(Injections)
      /\ todo \subseteq DOMAIN injs
  BY DEF Base, Shape
<1>2. i \in Nat
  BY <1>1
<1>3. i \in Done
  <2>1. Has(system, turns, InjItem(i))
    BY DEF Has
  <2>2. QED
    BY <1>2, <2>1, Unplaced DEF Said
<1>4. Before(i, j) /\ j \in DOMAIN injs
  BY <1>1, <1>3 DEF DeeperFirst
<1>5. /\ ~Before(j, i)
      /\ injs[i].depth \in Nat /\ injs[j].depth \in Nat /\ injs[i].depth >= injs[j].depth
  BY <1>1, <1>4, BeforeIs
<1> DEFINE a == q[1]
           m == q[2]
<1>6. /\ a \in 0..Len(turns) /\ m \in Nat /\ m \in 1..Len(PartOf(system, turns, a))
      /\ PartOf(system, turns, a)[m] = InjItem(i)
  BY <1>1, PlaceIs
<1>7. InjItem(i).from = "injection"
  BY <1>2, ItemsAre
<1> HIDE DEF a, m
<1>8. a # 0
  <2>1. ASSUME a = 0
        PROVE  FALSE
    <3>1. PartOf(system, turns, a) = system
      BY <2>1 DEF PartOf
    <3>2. m \in DOMAIN system /\ system[m].from = "injection"
      BY <1>1, <1>6, <1>7, <3>1
    <3>3. QED
      BY <3>2 DEF Said, Clean
  <2>2. QED
    BY <2>1
<1>9. a \in 1..Len(turns)
  BY <1>1, <1>6, <1>8
<1>10. turns[a].role # "assistant"
  <2>1. PartOf(system, turns, a) = turns[a].items
    BY <1>8 DEF PartOf
  <2>2. a \in DOMAIN turns /\ turns[a].items \in Seq(Items)
    <3>1. a \in DOMAIN turns /\ turns[a] \in TurnsOf
      BY <1>1, <1>9
    <3>2. QED
      BY <3>1 DEF TurnsOf
  <2>3. m \in DOMAIN turns[a].items /\ turns[a].items[m].from = "injection"
    BY <1>6, <1>7, <2>1, <2>2
  <2>4. Fits(turns[a])
    BY <2>2 DEF Said, Speakers
  <2>5. QED
    BY <2>3, <2>4 DEF Fits
<1>11. QED
  BY <1>3, <1>4, <1>5, <1>6, <1>9, <1>10 DEF a, m

(* The client's messages behind a turn.                                    *)
LEMMA FollowersStay ==
  ASSUME NEW ts \in Seq(TurnsOf), NEW ts2 \in Seq(TurnsOf), NEW t, NEW r \in 1..(Len(ts) + 1),
         Len(ts2) = Len(ts) + 1, OneMore(ts, r, t, ts2), ~FromClient(t),
         NEW at \in 1..Len(ts), at < r
  PROVE  Cardinality(FollowingIn(ts2, at)) = Cardinality(FollowingIn(ts, at))
<1> DEFINE top == Len(ts)
           A == FollowingIn(ts, at)
           B == FollowingIn(ts2, at)
           f == [n \in A |-> IF n < r THEN n ELSE n + 1]
<1>1. top \in Nat /\ r \in 1..(top + 1) /\ at \in 1..top /\ Len(ts2) = top + 1
  OBVIOUS
<1>2. /\ \A n \in 1..(top + 1) :
           ts2[n] = IF n < r THEN ts[n] ELSE IF n = r THEN t ELSE ts[n - 1]
      /\ \A n : n \in A <=> n \in (at + 1)..top /\ FromClient(ts[n])
      /\ \A n : n \in B <=> n \in (at + 1)..(top + 1) /\ FromClient(ts2[n])
  BY <1>1 DEF OneMore, FollowingIn
<1>3. A \in SUBSET (1..top)
  <2>1. \A n \in (at + 1)..top : n \in 1..top
    BY <1>1
  <2>2. QED
    BY <1>2, <2>1
<1>4. IsFiniteSet(A)
  <2>1. IsFiniteSet(1..top)
    BY <1>1, FS_Interval
  <2>2. QED
    BY <1>3, <2>1, FS_Subset
<1> HIDE DEF top, A, B
<1>5. ASSUME NEW n \in A
      PROVE  f[n] \in B /\ (n < r => f[n] = n) /\ (~(n < r) => f[n] = n + 1) /\ n \in 1..top
  <2>1. n \in (at + 1)..top /\ FromClient(ts[n]) /\ n \in Nat
    BY <1>1, <1>2
  <2>2. CASE n < r
    <3>1. f[n] = n
      BY <2>2
    <3>2. n \in (at + 1)..(top + 1) /\ n \in 1..(top + 1) /\ n \in 1..top
      BY <1>1, <2>1
    <3>3. ts2[n] = ts[n]
      BY <1>2, <2>2, <3>2
    <3>4. QED
      BY <1>2, <2>1, <2>2, <3>1, <3>2, <3>3
  <2>3. CASE ~(n < r)
    <3>1. f[n] = n + 1
      BY <2>3
    <3> DEFINE k == n + 1
    <3>2. /\ k \in (at + 1)..(top + 1) /\ k \in 1..(top + 1) /\ n \in 1..top
          /\ ~(k < r) /\ k # r /\ k - 1 = n
      BY <1>1, <2>1, <2>3
    <3> HIDE DEF k
    <3>3. ts2[k] = ts[n]
      BY <1>2, <3>2
    <3>4. k \in B
      BY <1>2, <2>1, <3>2, <3>3
    <3>5. QED
      BY <2>3, <3>1, <3>2, <3>4 DEF k
  <2>4. QED
    BY <2>2, <2>3
<1>6. ASSUME NEW m \in A, NEW n \in A, f[m] = f[n]
      PROVE  m = n
  <2> DEFINE a == f[m]
             b == f[n]
  <2>1. /\ (m < r => a = m) /\ (~(m < r) => a = m + 1) /\ m \in Nat
        /\ (n < r => b = n) /\ (~(n < r) => b = n + 1) /\ n \in Nat /\ a = b /\ r \in Nat
    BY <1>1, <1>5, <1>6
  <2> HIDE DEF a, b, f
  <2>2. QED
    BY <2>1
<1>7. ASSUME NEW k \in B
      PROVE  \E n \in A : f[n] = k
  <2>1. k \in (at + 1)..(top + 1) /\ FromClient(ts2[k]) /\ k \in 1..(top + 1) /\ k \in Nat
    BY <1>1, <1>2
  <2>2. CASE k < r
    <3>1. ts2[k] = ts[k] /\ k \in (at + 1)..top
      BY <1>1, <1>2, <2>1, <2>2
    <3>2. k \in A
      BY <1>2, <2>1, <3>1
    <3>3. QED
      BY <1>5, <2>2, <3>2
  <2>3. CASE k = r
    <3>1. ts2[k] = t
      BY <1>1, <1>2, <2>1, <2>3
    <3>2. QED
      BY <2>1, <3>1
  <2>4. CASE k > r
    <3> DEFINE n == k - 1
    <3>1. n \in (at + 1)..top /\ ~(n < r) /\ n + 1 = k /\ ~(k < r) /\ k # r
      BY <1>1, <2>1, <2>4
    <3>2. ts2[k] = ts[n]
      BY <1>2, <2>1, <3>1
    <3> HIDE DEF n
    <3>3. n \in A
      BY <1>2, <2>1, <3>1, <3>2
    <3>4. f[n] = k
      BY <1>5, <3>1, <3>3
    <3>5. QED
      BY <3>3, <3>4
  <2>5. QED
    BY <1>1, <2>1, <2>2, <2>3, <2>4
<1>8. f \in Bijection(A, B)
  <2>1. f \in [A -> B]
    BY <1>5
  <2> HIDE DEF f
  <2>2. f \in Injection(A, B)
    BY <1>6, <2>1 DEF Injection, IsInjective
  <2>3. f \in Surjection(A, B)
    BY <1>7, <2>1 DEF Surjection
  <2>4. QED
    BY <2>2, <2>3 DEF Bijection
<1>9. ExistsBijection(A, B)
  BY <1>8 DEF ExistsBijection
<1>10. Cardinality(B) = Cardinality(A)
  BY <1>4, <1>9, FS_Bijection
<1>11. QED
  BY <1>10 DEF A, B

LEMMA AllFollow ==
  ASSUME NEW ts \in Seq(TurnsOf), NEW at \in 1..Len(ts),
         \A n \in (at + 1)..Len(ts) : FromClient(ts[n])
  PROVE  Cardinality(FollowingIn(ts, at)) = Len(ts) - at
<1> DEFINE top == Len(ts)
<1>1. top \in Nat /\ at \in Nat /\ at <= top
  OBVIOUS
<1>2. FollowingIn(ts, at) = (at + 1)..top
  BY DEF FollowingIn
<1> HIDE DEF top
<1> DEFINE low == at + 1
<1>3. low \in Int /\ top \in Int /\ (IF low > top THEN 0 ELSE top - low + 1) = top - at
  BY <1>1
<1> HIDE DEF low
<1>4. Cardinality(low..top) = IF low > top THEN 0 ELSE top - low + 1
  BY <1>3, FS_Interval
<1>5. QED
  BY <1>2, <1>3, <1>4 DEF low, top

(* One block more, at its depth.                                           *)
Deep == DeeperFirst /\ AtDepth /\ Depths

LEMMA FirstOfTodo ==
  ASSUME Frozen, DeeperFirst, NEW j \in todo, IsNext(j), todo' = todo \ {j},
         todo \subseteq DOMAIN injs
  PROVE  DeeperFirst'
<1>1. Done' = Done \cup {j}
  BY DEF Done, Frozen
<1>2. ASSUME NEW i \in Done', NEW k \in todo'
      PROVE  Before(i, k)
  <2>1. CASE i = j
    BY <2>1 DEF IsNext
  <2>2. CASE i # j
    BY <1>1, <2>2 DEF DeeperFirst
  <2>3. QED
    BY <2>1, <2>2
<1>3. QED
  BY <1>2 DEF DeeperFirst, Before, Frozen

LEMMA SpliceDeep == Base /\ Base' /\ Frozen /\ Said /\ Deep /\ Splice => Deep'
<1> SUFFICES ASSUME Base, Base', Frozen, Said, Deep, Splice PROVE Deep'
  OBVIOUS
<1>1. /\ stage = "mapped" /\ format = "openai" /\ stage' = stage /\ system' = system
      /\ placed' = [placed EXCEPT !.count = @ + 1] /\ DeeperFirst
  BY DEF Splice, Deep
<1>2. PICK j \in todo :
        /\ IsNext(j)
        /\ turns' = InsertAt(turns, Due(injs[j].depth) + placed.count + 1,
                             Turn(BlockRole(j), <<InjItem(j)>>))
        /\ todo' = todo \ {j}
  BY DEF Splice
<1> DEFINE d == DueIn(placed.length, injs[j].depth)
           length == placed.length
           count == placed.count
           t == Turn(BlockRole(j), <<InjItem(j)>>)
           r == d + count + 1
           x == InjItem(j)
           c == <<x>>
           top == Len(turns)
<1>3. /\ j \in Nat /\ j \in DOMAIN injs /\ injs[j].depth \in Nat
      /\ t \in TurnsOf /\ t.items = c
      /\ d \in 0..length /\ count \in Nat /\ length \in Nat /\ top = length + count
      /\ r \in 1..(Len(turns) + 1) /\ turns' = InsertAt(turns, r, t)
  BY <1>1, <1>2, SpliceIs DEF Due, DueIn
<1>4. /\ turns \in Seq(TurnsOf) /\ turns' \in Seq(TurnsOf) /\ injs \in Seq(Injections)
      /\ system \in Seq(Items) /\ todo \subseteq DOMAIN injs
      /\ placed \in [count : Nat, length : Nat]
  BY DEF Base, Shape
<1>5. placed'.length = length /\ placed'.count = count + 1
  BY <1>1, <1>4
<1>6. DeeperFirst'
  BY <1>1, <1>2, <1>4, FirstOfTodo
<1>7. x.from = "injection" /\ x \in Items
  BY <1>3, ItemsAre
<1> HIDE DEF d, t, r, x
<1>8. c \in Seq(Items) /\ Len(c) = 1 /\ c[1] = x /\ DOMAIN c = 1..1
  BY <1>7
<1> HIDE DEF c
<1>9. PICK back, fresh :
        /\ Gains(system, turns, system', turns', back, fresh, c)
        /\ \A p \in fresh : p[1] = r /\ p[2] \in Nat /\ p[2] > 0
        /\ \A p \in PlacesIn(system', turns') \ fresh :
             /\ p[1] # r
             /\ back[p] = IF p[1] < r THEN p ELSE <<p[1] - 1, p[2]>>
        /\ Len(turns') = Len(turns) + 1
        /\ OneMore(turns, r, t, turns')
  <2>1. LET fresh == Behind(r, 0, t.items)
            back == Lower(system', turns', r)
        IN /\ Gains(system, turns, system', turns', back, fresh, t.items)
           /\ \A p \in fresh : p[1] = r /\ p[2] \in Nat /\ p[2] > 0
           /\ \A p \in PlacesIn(system', turns') \ fresh :
                /\ p[1] # r
                /\ back[p] = IF p[1] < r THEN p ELSE <<p[1] - 1, p[2]>>
           /\ Len(turns') = Len(turns) + 1
           /\ OneMore(turns, r, t, turns')
    BY SMTT(30), <1>1, <1>3, <1>4, TurnInserted
  <2>2. QED
    BY <1>3, <2>1
<1>10. /\ Carries(system, turns, system', turns', back, fresh)
       /\ \A p \in fresh : ItemAt(system', turns', p) = x
       /\ \A p, q \in fresh : p = q
  <2>1. \A m \in 1..Len(c) : c[m] = x
    BY <1>8
  <2>2. QED
    BY <1>8, <1>9, <2>1 DEF Gains
<1>11. BlocksAt(system, turns, placed)
  BY <1>1, AtDepthIs DEF Deep
<1>12. ASSUME NEW i \in DOMAIN injs, NEW q \in PlacesIn(system, turns),
              ItemAt(system, turns, q) = InjItem(i)
       PROVE  /\ ~Before(j, i)
              /\ q[1] \in 1..top /\ q[1] < r
              /\ q[1] <= DueIn(length, injs[i].depth) + count
              /\ DueIn(length, injs[i].depth) \in Nat
              /\ Cardinality(FollowingIn(turns, q[1])) = length - DueIn(length, injs[i].depth)
  <2> DEFINE a == q[1]
             e == DueIn(length, injs[i].depth)
  <2>1. /\ ~Before(j, i) /\ injs[i].depth \in Nat /\ injs[i].depth >= injs[j].depth
        /\ a \in 1..top
    BY <1>1, <1>12, OldBlock
  <2>2. e \in Nat /\ e <= d
    <3>1. e \in 0..length /\ e <= DueIn(length, injs[j].depth)
      BY <1>3, <2>1, DueFalls
    <3>2. QED
      BY <1>3, <3>1 DEF d
  <2>3. /\ a <= e + count
        /\ Cardinality(FollowingIn(turns, a)) = length - e
    BY <1>1, <1>11, <1>12 DEF BlocksAt, IsAt
  <2> HIDE DEF a, e, top, count, length
  <2>4. a < r
    <3>1. d \in Nat
      BY <1>3
    <3>2. a \in Nat
      BY <1>3, <2>1
    <3>3. r = d + count + 1
      BY DEF r, count
    <3>4. QED
      BY <1>3, <2>2, <2>3, <3>1, <3>2, <3>3
  <2>5. QED
    BY <2>1, <2>2, <2>3, <2>4 DEF a, e
<1>13. ASSUME NEW i \in DOMAIN injs, NEW q \in PlacesIn(system', turns') \ fresh,
              ItemAt(system', turns', q) = InjItem(i)
       PROVE  q[1] < r /\ q \in PlacesIn(system, turns) /\ ItemAt(system, turns, q) = InjItem(i)
  <2>1. back[q] \in PlacesIn(system, turns) /\ ItemAt(system, turns, back[q]) = InjItem(i)
    BY <1>10, <1>13 DEF Carries
  <2>2. back[q][1] < r /\ back[q][1] \in 1..top
    BY <1>12, <2>1
  <2>3. q[1] < r
    <3>1. system' \in Seq(Items)
      BY <1>1, <1>4
    <3> DEFINE a == q[1]
    <3>2. a \in 0..Len(turns') /\ a # r
      BY <1>4, <1>9, <3>1, PlaceIs
    <3>3. a \in Nat
      BY <1>4, <3>2
    <3>4. r \in Nat
      BY <1>3, <1>4
    <3>5. ASSUME ~(a < r)
          PROVE  FALSE
      <4>1. back[q] = <<a - 1, q[2]>>
        BY <1>9, <3>5
      <4> HIDE DEF a
      <4>2. back[q][1] = a - 1
        BY <4>1
      <4>3. a - 1 < r
        BY <2>2, <4>2
      <4>4. QED
        BY <3>2, <3>3, <3>4, <3>5, <4>3
    <3>6. QED
      BY <3>5
  <2>4. back[q] = q
    BY <1>9, <2>3
  <2>5. QED
    BY <2>1, <2>3, <2>4
<1>14. ASSUME NEW i \in DOMAIN injs, x = InjItem(i)
       PROVE  i = j
  BY <1>14 DEF x, InjItem
<1>15. ~FromClient(t)
  BY <1>3, <1>7, <1>8 DEF FromClient
<1>16. ASSUME NEW n \in (r + 1)..Len(turns')
       PROVE  FromClient(turns'[n])
  <2> DEFINE k == n - 1
             u == turns[k].items
  <2>1. /\ k \in 1..top /\ ~(n < r) /\ n # r /\ n \in 1..(top + 1) /\ k >= r /\ k # 0
        /\ top \in Nat /\ k \in Nat /\ r \in Nat
    BY <1>3, <1>4, <1>9
  <2>2. turns'[n] = turns[k]
    BY <1>9, <2>1 DEF OneMore
  <2> HIDE DEF k
  <2>3. u \in Seq(Items) /\ DOMAIN u = 1..Len(u)
    <3>1. turns[k] \in TurnsOf
      BY <1>4, <2>1
    <3>2. QED
      BY <3>1 DEF TurnsOf
  <2>4. PartOf(system, turns, k) = u
    BY <2>1 DEF PartOf
  <2>5. ASSUME NEW m \in 1..Len(u), u[m].from = "injection"
        PROVE  FALSE
    <3>1. k \in 0..Len(turns) /\ m \in 1..Len(PartOf(system, turns, k))
      BY <2>1, <2>4
    <3>2. /\ <<k, m>> \in PlacesIn(system, turns)
          /\ ItemAt(system, turns, <<k, m>>) = u[m]
      BY <1>4, <2>4, <3>1, PlaceAt
    <3> DEFINE q == <<k, m>>
               y == u[m]
    <3>3. q[1] = k
      OBVIOUS
    <3>4. q \in PlacesIn(system, turns) /\ ItemAt(system, turns, q) = y /\ y.from = "injection"
      BY <2>5, <3>2
    <3> HIDE DEF q, y
    <3>5. KnownItem(y, Read, Done)
      BY <3>4 DEF Said, Known
    <3>6. IsBlock(y, Done)
      BY <3>4, <3>5 DEF KnownItem, IsWord, PresetItem, Word, ClientItem
    <3>7. y.of \in DOMAIN injs /\ y = InjItem(y.of)
      BY <3>6 DEF IsBlock, Done
    <3>8. q[1] < r
      BY <1>12, <3>4, <3>7
    <3>9. QED
      BY <2>1, <3>3, <3>8
  <2>6. FromClient(turns[k])
    BY <2>3, <2>5 DEF FromClient
  <2>7. QED
    BY <2>2, <2>6
<1>17. InTurn(system', turns')
  <2>1. ASSUME NEW p \in fresh, NEW k \in DOMAIN injs, ItemAt(system', turns', p) = InjItem(k)
        PROVE  /\ \A q \in PlacesIn(system', turns') \ fresh : \A i \in DOMAIN injs :
                    ItemAt(system', turns', q) = InjItem(i) => ~Before(k, i) /\ Precedes(q, p)
               /\ \A q \in fresh : \A i \in DOMAIN injs :
                    ItemAt(system', turns', q) = InjItem(i) => ~Before(i, k)
    <3>1. k = j
      BY <1>10, <1>14, <2>1
    <3>2. ASSUME NEW q \in PlacesIn(system', turns') \ fresh, NEW i \in DOMAIN injs,
                 ItemAt(system', turns', q) = InjItem(i)
          PROVE  ~Before(j, i) /\ Precedes(q, p)
      BY <1>9, <1>12, <1>13, <3>2 DEF Precedes
    <3>3. ASSUME NEW q \in fresh, NEW i \in DOMAIN injs, ItemAt(system', turns', q) = InjItem(i)
          PROVE  ~Before(i, j)
      <4>1. i = j
        BY <1>10, <1>14, <3>3
      <4>2. QED
        BY <1>3, <1>4, <4>1, BeforeIs
    <3>4. QED
      BY <3>1, <3>2, <3>3
  <2>2. InTurn(system, turns)
    BY <1>1 DEF Deep, Depths
  <2>3. QED
    BY <1>10, <2>1, <2>2, CarriesInTurn
<1>18. BlocksAt(system', turns', placed')
  <2>1. ASSUME NEW i \in DOMAIN injs, NEW p \in PlacesIn(system', turns'),
               ItemAt(system', turns', p) = InjItem(i)
        PROVE  /\ p[1] <= DueIn(length, injs[i].depth) + (count + 1)
               /\ Cardinality(FollowingIn(turns', p[1])) = length - DueIn(length, injs[i].depth)
    <3> DEFINE e == DueIn(length, injs[i].depth)
               a == p[1]
    <3>1. CASE p \in fresh
      <4>1. i = j /\ a = r
        BY <1>9, <1>10, <1>14, <2>1, <3>1
      <4>2. e = d
        BY <4>1 DEF d
      <4>3. r \in 1..Len(turns')
        BY <1>3, <1>9
      <4>4. Cardinality(FollowingIn(turns', r)) = Len(turns') - r
        BY <1>4, <1>16, <4>3, AllFollow
      <4> HIDE DEF e, a, length, count, top
      <4>5. Len(turns') = top + 1 /\ r = d + count + 1 /\ d \in Nat /\ top = length + count
            /\ length \in Nat /\ count \in Nat
        BY <1>3, <1>9 DEF r, top, count
      <4>6. Len(turns') - r = length - d /\ r <= d + (count + 1)
        BY <4>5
      <4>7. QED
        BY <4>1, <4>2, <4>4, <4>6 DEF e, a
    <3>2. CASE p \notin fresh
      <4>1. a < r /\ p \in PlacesIn(system, turns) /\ ItemAt(system, turns, p) = InjItem(i)
        BY <1>13, <2>1, <3>2
      <4>2. /\ a \in 1..top /\ a <= e + count /\ e \in Nat
            /\ Cardinality(FollowingIn(turns, a)) = length - e
        BY <1>12, <4>1
      <4>3. Cardinality(FollowingIn(turns', a)) = Cardinality(FollowingIn(turns, a))
        <5>1. a \in 1..Len(turns) /\ a < r
          BY <4>1, <4>2
        <5>2. /\ Len(turns') = Len(turns) + 1 /\ OneMore(turns, r, t, turns')
              /\ turns \in Seq(TurnsOf) /\ turns' \in Seq(TurnsOf)
              /\ r \in 1..(Len(turns) + 1)
          BY <1>3, <1>4, <1>9
        <5> HIDE DEF a, e
        <5>3. QED
          BY <1>15, <5>1, <5>2, FollowersStay
      <4> HIDE DEF e, a, count
      <4>4. a <= e + (count + 1)
        <5>1. a \in Nat
          BY <1>4, <4>2
        <5>2. QED
          BY <1>3, <4>2, <5>1
      <4>5. QED
        BY <4>2, <4>3, <4>4 DEF e, a
    <3>3. QED
      BY <3>1, <3>2
  <2>2. QED
    BY <1>1, <1>5, <2>1 DEF BlocksAt, IsAt
<1>19. AtDepth' /\ Depths'
  BY <1>17, <1>18, AtDepthIs, Primed DEF Depths
<1>20. QED
  BY <1>6, <1>19 DEF Deep

LEMMA PlaceDeep == Base /\ Base' /\ Frozen /\ Said /\ Deep /\ Place => Deep'
<1> SUFFICES ASSUME Base, Base', Frozen, Said, Deep, Place PROVE Deep'
  OBVIOUS
<1>1. /\ stage = "mapped" /\ stage' = stage /\ format # "openai" /\ system' = system
      /\ DeeperFirst
  BY DEF Place, Deep
<1>2. /\ turns \in Seq(TurnsOf) /\ turns' \in Seq(TurnsOf) /\ injs \in Seq(Injections) /\ Shape
      /\ system \in Seq(Items) /\ todo \subseteq DOMAIN injs
  BY DEF Base, Shape
<1>3. PICK j \in todo :
        /\ IsNext(j) /\ todo' = todo \ {j} /\ j \in DOMAIN injs /\ j \in Nat
        /\ <<InjItem(j)>> \in Seq(Items)
        /\ \/ turns = <<>> /\ turns' = turns
           \/ \E at \in 1..Len(turns) :
                /\ IsSpot(at, Asked(injs[j].depth))
                /\ turns' = AddTo(turns, at, <<InjItem(j)>>)
  BY <1>2, PlaceStep
<1>4. DeeperFirst'
  BY <1>1, <1>2, <1>3, FirstOfTodo
<1>5. InTurn(system, turns) /\ BlocksAt(system, turns, placed)
  BY <1>1, AtDepthIs DEF Deep, Depths
<1>6. CASE turns = <<>> /\ turns' = turns
  <2>1. ASSUME NEW p \in PlacesIn(system, turns), NEW i \in DOMAIN injs
        PROVE  ItemAt(system, turns, p) # InjItem(i)
    <3>1. ASSUME ItemAt(system, turns, p) = InjItem(i)
          PROVE  FALSE
      <4>1. p[1] \in 1..Len(turns)
        BY <1>1, <3>1, OldBlock
      <4>2. Len(turns) = 0
        BY <1>6
      <4> DEFINE a == p[1]
      <4>3. a \in 1..0
        BY <4>1, <4>2
      <4> HIDE DEF a
      <4>4. QED
        BY <4>3
    <3>2. QED
      BY <3>1
  <2>2. InTurn(system', turns') /\ BlocksAt(system', turns', placed')
    BY <1>1, <1>6, <2>1 DEF InTurn, BlocksAt
  <2>3. QED
    BY <1>4, <2>2, AtDepthIs, Primed DEF Deep, Depths
<1>7. ASSUME NEW at \in 1..Len(turns),
             IsSpot(at, Asked(injs[j].depth)),
             turns' = AddTo(turns, at, <<InjItem(j)>>)
      PROVE  Deep'
  <2> DEFINE x == InjItem(j)
             c == <<x>>
             top == Len(turns)
             asked == AskedIn(top, injs[j].depth)
  <2>1. x \in Items /\ x.from = "injection"
    BY <1>3, ItemsAre
  <2>2. turns # <<>> /\ turns[1].role = "user" /\ top \in Nat /\ top # 0
    <3>1. turns # <<>>
      BY <1>2
    <3>2. QED
      BY <1>1, <1>2, <3>1 DEF Said, UserTurn
  <2>3. /\ turns[at].role = "user" /\ at <= asked /\ asked \in 1..top
        /\ \A n \in (at + 1)..asked : turns[n].role # "user"
    <3>1. Asked(injs[j].depth) = asked
      BY DEF Asked, AskedIn
    <3>2. asked \in 1..top
      <4>1. Asked(injs[j].depth) \in 1..Len(turns)
        BY <1>2, <1>3, <2>2, AskedIs, DepthIs
      <4>2. QED
        BY <3>1, <4>1
    <3>3. IsSpot(at, asked)
      BY <1>7, <3>1
    <3> HIDE DEF asked
    <3>4. QED
      BY <1>2, <2>2, <3>2, <3>3, SpotIsUser
  <2>4. \A n \in 1..top : turns[n].role \in {"user", "assistant"}
    BY <1>1, <1>2 DEF Said, Speakers, Fits
  <2> HIDE DEF x
  <2>5. c \in Seq(Items) /\ Len(c) = 1 /\ c[1] = x /\ turns' = AddTo(turns, at, c)
    BY <1>7, <2>1 DEF x
  <2> HIDE DEF c
  <2>6. PICK fresh, size :
          /\ size \in Nat
          /\ Gains(system, turns, system', turns', Same(system', turns'), fresh, c)
          /\ \A p \in fresh : p[1] = at /\ p[2] \in Nat /\ p[2] > size
          /\ \A q \in PlacesIn(system', turns') \ fresh :
               /\ q \in PlacesIn(system, turns)
               /\ ItemAt(system, turns, q) = ItemAt(system', turns', q)
               /\ q[1] < at \/ (q[1] = at /\ q[2] <= size) \/ q[1] > at
          /\ Len(turns') = top
          /\ \A n \in 1..top : turns'[n].role = turns[n].role
    <3>1. LET size == Len(turns[at].items)
              fresh == Behind(at, size, c)
          IN /\ size \in Nat
             /\ Gains(system, turns, system', turns', Same(system', turns'), fresh, c)
             /\ \A p \in fresh : p[1] = at /\ p[2] \in Nat /\ p[2] > size
             /\ \A q \in PlacesIn(system', turns') \ fresh :
                  /\ q \in PlacesIn(system, turns)
                  /\ ItemAt(system, turns, q) = ItemAt(system', turns', q)
                  /\ q[1] < at \/ (q[1] = at /\ q[2] <= size) \/ q[1] > at
             /\ Len(turns') = Len(turns) /\ OneLonger(turns, at, c, turns')
      BY <1>1, <1>2, <2>5, TurnGrows
    <3>2. QED
      BY <3>1 DEF OneLonger
  <2>7. /\ Carries(system, turns, system', turns', Same(system', turns'), fresh)
        /\ \A p \in fresh : ItemAt(system', turns', p) = x
        /\ \A p, q \in fresh : p = q
    <3>1. \A m \in 1..Len(c) : c[m] = x
      BY <2>5
    <3>2. QED
      BY <2>5, <2>6, <3>1 DEF Gains
  <2>8. ASSUME NEW i \in DOMAIN injs, x = InjItem(i)
        PROVE  i = j
    BY <2>8 DEF x, InjItem
  <2>9. ASSUME NEW i \in DOMAIN injs, NEW q \in PlacesIn(system, turns),
               ItemAt(system, turns, q) = InjItem(i)
        PROVE  /\ ~Before(j, i) /\ q[1] <= at /\ q[1] \in Nat /\ q[2] \in Nat
               /\ q[1] <= AskedIn(top, injs[i].depth)
               /\ AskedIn(top, injs[i].depth) <= top /\ AskedIn(top, injs[i].depth) \in Nat
               /\ \A n \in (q[1] + 1)..AskedIn(top, injs[i].depth) : turns[n].role = "assistant"
    <3> DEFINE a == q[1]
               e == AskedIn(top, injs[i].depth)
    <3>1. /\ ~Before(j, i) /\ injs[i].depth \in Nat /\ injs[j].depth \in Nat
          /\ injs[i].depth >= injs[j].depth
          /\ a \in 1..top /\ q[2] \in Nat /\ turns[a].role # "assistant"
      BY <1>1, <2>9, OldBlock
    <3>2. e <= asked
      BY <2>2, <3>1, DueFalls
    <3>3. e \in 1..top
      BY <1>2, <2>2, <3>1, AskedIs DEF Asked, AskedIn
    <3>4. a <= e /\ \A n \in (a + 1)..e : turns[n].role = "assistant"
      BY <1>1, <1>5, <2>9 DEF BlocksAt, IsAt
    <3> HIDE DEF a, e, asked, top
    <3>5. a <= at
      <4>1. ASSUME a > at
            PROVE  FALSE
        <5>1. a \in (at + 1)..asked
          BY <1>7, <2>2, <2>3, <3>1, <3>2, <3>3, <3>4, <4>1
        <5>2. turns[a].role = "user"
          BY <2>4, <3>1
        <5>3. QED
          BY <2>3, <5>1, <5>2
      <4>2. a \in Nat /\ at \in Nat
        BY <2>2, <3>1
      <4>3. QED
        BY <4>1, <4>2
    <3>6. a \in Nat /\ e <= top /\ e \in Nat
      BY <2>2, <3>1, <3>3
    <3>7. QED
      BY <3>1, <3>4, <3>5, <3>6 DEF a, e
  <2>10. InTurn(system', turns')
    <3>1. ASSUME NEW p \in fresh, NEW k \in DOMAIN injs, ItemAt(system', turns', p) = InjItem(k)
          PROVE  /\ \A q \in PlacesIn(system', turns') \ fresh : \A i \in DOMAIN injs :
                      ItemAt(system', turns', q) = InjItem(i) => ~Before(k, i) /\ Precedes(q, p)
                 /\ \A q \in fresh : \A i \in DOMAIN injs :
                      ItemAt(system', turns', q) = InjItem(i) => ~Before(i, k)
      <4>1. k = j
        BY <2>7, <2>8, <3>1
      <4>2. ASSUME NEW q \in PlacesIn(system', turns') \ fresh, NEW i \in DOMAIN injs,
                   ItemAt(system', turns', q) = InjItem(i)
            PROVE  ~Before(j, i) /\ Precedes(q, p)
        <5> DEFINE a == q[1]
                   m == q[2]
                   n == p[2]
        <5>1. q \in PlacesIn(system, turns) /\ ItemAt(system, turns, q) = InjItem(i)
          BY <2>6, <4>2
        <5>2. /\ ~Before(j, i) /\ a <= at /\ a \in Nat /\ m \in Nat
              /\ a < at \/ (a = at /\ m <= size) \/ a > at
              /\ p[1] = at /\ n \in Nat /\ n > size /\ size \in Nat
          BY <2>6, <2>9, <5>1
        <5>3. at \in Nat
          BY <2>2
        <5> HIDE DEF a, m, n
        <5>4. a < at \/ (a = at /\ m < n)
          BY <5>2, <5>3
        <5>5. QED
          BY <5>2, <5>4 DEF Precedes, a, m, n
      <4>3. ASSUME NEW q \in fresh, NEW i \in DOMAIN injs, ItemAt(system', turns', q) = InjItem(i)
            PROVE  ~Before(i, j)
        <5>1. i = j
          BY <2>7, <2>8, <4>3
        <5>2. QED
          BY <1>2, <1>3, <5>1, BeforeIs
      <4>4. QED
        BY <4>1, <4>2, <4>3
    <3>2. QED
      BY <1>5, <2>7, <3>1, CarriesInTurn
  <2>11. BlocksAt(system', turns', placed')
    <3>1. ASSUME NEW i \in DOMAIN injs, NEW p \in PlacesIn(system', turns'),
                 ItemAt(system', turns', p) = InjItem(i)
          PROVE  /\ p[1] <= AskedIn(top, injs[i].depth)
                 /\ \A n \in (p[1] + 1)..AskedIn(top, injs[i].depth) :
                      turns'[n].role = "assistant"
      <4> DEFINE e == AskedIn(top, injs[i].depth)
                 a == p[1]
      <4>1. CASE p \in fresh
        <5>1. i = j /\ a = at
          BY <2>6, <2>7, <2>8, <3>1, <4>1
        <5>2. e = asked
          BY <5>1
        <5> HIDE DEF asked, top, a, e
        <5>3. ASSUME NEW n \in (at + 1)..asked
              PROVE  turns'[n].role = "assistant"
          <6>1. n \in 1..top
            BY <1>7, <2>2, <2>3, <5>3 DEF top
          <6>2. QED
            BY <2>3, <2>4, <2>6, <6>1
        <5>4. QED
          BY <2>3, <5>1, <5>2, <5>3 DEF a, e
      <4>2. CASE p \notin fresh
        <5>1. p \in PlacesIn(system, turns) /\ ItemAt(system, turns, p) = InjItem(i)
          BY <2>6, <3>1, <4>2
        <5>2. /\ a <= e /\ a \in Nat /\ e <= top /\ e \in Nat
              /\ \A n \in (a + 1)..e : turns[n].role = "assistant"
          BY <2>9, <5>1
        <5> HIDE DEF top, a, e
        <5>3. ASSUME NEW n \in (a + 1)..e
              PROVE  turns'[n].role = "assistant"
          <6>1. n \in 1..top
            BY <2>2, <5>2
          <6>2. QED
            BY <2>6, <5>2, <6>1
        <5>4. QED
          BY <5>2, <5>3 DEF a, e
      <4>3. QED
        BY <4>1, <4>2
    <3>2. QED
      BY <1>1, <2>6, <3>1 DEF BlocksAt, IsAt
  <2>12. QED
    BY <1>4, <2>10, <2>11, AtDepthIs, Primed DEF Deep, Depths
<1>8. QED
  BY <1>3, <1>6, <1>7

(* No other pass places a block, and none is placed before the turns are   *)
(* complete.                                                               *)
LEMMA OtherDeep ==
  ASSUME Base, Base', Frozen, Said, Said', Deep, todo' = todo,
         \/ stage' # "mapped"
         \/ todo = DOMAIN injs
         \/ system' = system /\ turns' = turns /\ placed' = placed /\ stage' = stage
  PROVE  Deep'
<1>1. DeeperFirst'
  BY DEF Deep, DeeperFirst, Done, Before, Frozen
<1>2. CASE stage' # "mapped"
  BY <1>1, <1>2 DEF Deep, AtDepth, Depths
<1>3. CASE todo = DOMAIN injs
  <2>1. Done' = {}
    BY <1>3 DEF Done, Frozen
  <2>2. ASSUME NEW p \in PlacesIn(system', turns'), NEW i \in DOMAIN injs
        PROVE  ItemAt(system', turns', p) # InjItem(i)
    <3> DEFINE x == ItemAt(system', turns', p)
    <3>1. KnownItem(x, Read', {})
      BY <2>1, PrimedKnown DEF Said
    <3> HIDE DEF x
    <3>2. x.from # "injection"
      BY <3>1 DEF KnownItem, IsWord, IsBlock, PresetItem, Word, ClientItem
    <3>3. InjItem(i).from = "injection"
      BY DEF InjItem
    <3>4. QED
      BY <3>2, <3>3 DEF x
  <2>3. InTurn(system', turns') /\ BlocksAt(system', turns', placed')
    BY <2>2 DEF InTurn, BlocksAt
  <2>4. QED
    BY <1>1, <2>3, AtDepthIs, Primed DEF Deep, Depths
<1>4. CASE system' = system /\ turns' = turns /\ placed' = placed /\ stage' = stage
  <2>1. stage' = "mapped" => InTurn(system', turns') /\ BlocksAt(system', turns', placed')
    BY <1>4, AtDepthIs DEF Deep, Depths
  <2>2. QED
    BY <1>1, <2>1, AtDepthIs, Primed DEF Deep, Depths
<1>5. QED
  BY <1>2, <1>3, <1>4

LEMMA InitDeep == PromptInit => Deep
BY DEF PromptInit, Deep, DeeperFirst, Done, AtDepth, Depths

(* Deep is an invariant.                                                   *)
LEMMA NextDeep == Base /\ Said /\ Deep /\ [Next]_vars => Deep'
<1> SUFFICES ASSUME Base, Said, Deep, [Next]_vars PROVE Deep'
  OBVIOUS
<1>1. Base' /\ Frozen /\ Said'
  BY NextBase, NextFrozen, NextSaid
<1>2. CASE Splice \/ Place
  BY <1>1, <1>2, SpliceDeep, PlaceDeep
<1>3. CASE MergePrepended \/ Absorbed
  <2>1. todo' = todo /\ todo = DOMAIN injs
    BY <1>3 DEF MergePrepended, Absorbed, Base, Progress
  <2>2. QED
    BY <1>1, <2>1, OtherDeep
<1>4. CASE Assemble \/ Hoist \/ Map \/ Mapped \/ Absorb \/ Append1 \/ Placed \/ Strip \/ Drop \/ Finish
  <2>1. todo' = todo /\ stage' # "mapped"
    BY <1>4 DEF Assemble, Hoist, Map, Mapped, Absorb, Append1, Placed, Strip, Drop, Finish
  <2>2. QED
    BY <1>1, <2>1, OtherDeep
<1>5. CASE UNCHANGED vars
  <2>1. todo' = todo /\ system' = system /\ turns' = turns /\ placed' = placed /\ stage' = stage
    BY <1>5 DEF vars
  <2>2. QED
    BY <1>1, <2>1, OtherDeep
<1>6. QED
  BY <1>2, <1>3, <1>4, <1>5 DEF Next

-----------------------------------------------------------------------------
(* Calls in the next state is about the next turns.                        *)
LEMMA PrimedCalls ==
  ASSUME Frozen
  PROVE  Calls' <=> (format # "openai" /\ CallsAreAnswered => CallsAt(stage', turns', Read'))
<1>1. kinds' = kinds /\ format' = format
  BY DEF Frozen
<1>2. CallsAreAnswered' <=> CallsAreAnswered
  BY <1>1 DEF CallsAreAnswered, Follows, Spoken
<1>3. (ResultsIn(turns))' <=> ResultsIn(turns')
  BY <1>1 DEF ResultsIn, Answers, ClientItem
<1>4. (Greeted(turns))' <=> Greeted(turns')
  BY DEF Greeted
<1>5. \A k : (EndsWith(turns, k))' <=> EndsWith(turns', k)
  BY <1>1 DEF EndsWith, ClientItem, Turn
<1>6. \A k : k \in (Open(Read))' <=> k \in Open(Read')
  BY <1>1 DEF Open
<1>7. \A open : (CallsIn(turns, open))' <=> CallsIn(turns', open')
  BY <1>1 DEF CallsIn, Answered, Answers, ClientItem
<1>8. (CallsAt(stage, turns, Read))' <=> CallsAt(stage', turns', Read')
  BY ZenonT(30), <1>1, <1>3, <1>4, <1>5, <1>6 DEF CallsAt, CallsIn, Answered, Answers, ClientItem
<1>9. QED
  BY <1>1, <1>2, <1>8 DEF Calls

(* A call is all that its turn says, and a result is in a user's.          *)
LEMMA TurnSays ==
  ASSUME Base, Known, Speakers, format # "openai",
         NEW n \in 1..Len(turns), NEW m \in 1..Len(turns[n].items)
  PROVE  LET x == turns[n].items[m]
         IN /\ turns[n].items \in Seq(Items)
            /\ x.is = "call" =>
                 /\ x = ClientItem("call", x.of) /\ x.of \in Read /\ kinds[x.of] = "calls"
                 /\ turns[n].role = "assistant" /\ Len(turns[n].items) = 1 /\ m = 1
            /\ x.is = "result" =>
                 /\ x = ClientItem("result", x.of) /\ x.of \in Read /\ kinds[x.of] = "tool"
                 /\ turns[n].role = "user"
<1> DEFINE s == turns[n].items
           x == s[m]
<1>1. /\ system \in Seq(Items) /\ turns \in Seq(TurnsOf) /\ kinds \in Seq(Kinds)
  BY DEF Base, Shape
<1>2. turns[n] \in TurnsOf /\ n \in 0..Len(turns) /\ n # 0 /\ n \in DOMAIN turns
  BY <1>1
<1>3. s \in Seq(Items) /\ PartOf(system, turns, n) = s
  BY <1>2 DEF TurnsOf, PartOf
<1>4. m \in DOMAIN s /\ Len(s) \in Nat
  BY <1>3
<1>5. KnownItem(x, Read, Done)
  <2>1. <<n, m>> \in PlacesIn(system, turns) /\ ItemAt(system, turns, <<n, m>>) = x
    BY <1>1, <1>2, <1>3, PlaceAt
  <2>2. QED
    BY <2>1 DEF Known
<1>6. Fits(turns[n])
  BY <1>2 DEF Speakers
<1> HIDE DEF x
<1>7. x.is # "text" => IsWord(x, Read)
  BY <1>5 DEF KnownItem, IsBlock, PresetItem, InjItem
<1>8. ASSUME IsWord(x, Read)
      PROVE  /\ x.from = "client" /\ x.of \in Read /\ x = Word(x.of) /\ x.of \in DOMAIN kinds
             /\ x.is = "call" => kinds[x.of] = "calls" /\ x = ClientItem("call", x.of)
             /\ x.is = "result" => kinds[x.of] = "tool" /\ x = ClientItem("result", x.of)
  <2> DEFINE i == x.of
  <2>1. i \in Read /\ x = Word(i) /\ i \in DOMAIN kinds
    BY <1>8 DEF IsWord, Read
  <2> HIDE DEF i
  <2>2. i \in Nat
    BY <1>1, <2>1
  <2>3. Word(i).from = "client"
    BY <2>2, ItemsAre
  <2>4. /\ Word(i).is = (IF kinds[i] = "calls" THEN "call"
                         ELSE IF kinds[i] = "tool" THEN "result" ELSE "text")
        /\ kinds[i] = "calls" => Word(i) = ClientItem("call", i)
        /\ kinds[i] = "tool" => Word(i) = ClientItem("result", i)
    BY <1>1, <2>1, WordIs
  <2>5. QED
    BY <2>1, <2>3, <2>4 DEF i
<1>9. x.from = "client" => (kinds[x.of] \in {"assistant", "calls"} <=> turns[n].role = "assistant")
  BY <1>4, <1>6 DEF Fits, x
<1>10. turns[n].role = "assistant" => Len(s) = 1
  BY <1>6 DEF Fits
<1>11. turns[n].role \in {"user", "assistant"}
  BY <1>6 DEF Fits
<1>12. Len(s) = 1 => m = 1
  <2> DEFINE l == Len(s)
  <2>1. m \in 1..l
    OBVIOUS
  <2> HIDE DEF l
  <2>2. l = 1 => m = 1
    BY <2>1
  <2>3. QED
    BY <2>2 DEF l
<1>13. x.is = "call" =>
         /\ x = ClientItem("call", x.of) /\ x.of \in Read /\ kinds[x.of] = "calls"
         /\ turns[n].role = "assistant" /\ Len(s) = 1 /\ m = 1
  BY <1>7, <1>8, <1>9, <1>10, <1>12
<1>14. x.is = "result" =>
         /\ x = ClientItem("result", x.of) /\ x.of \in Read /\ kinds[x.of] = "tool"
         /\ turns[n].role = "user"
  BY <1>7, <1>8, <1>9, <1>11
<1>15. QED
  BY <1>3, <1>13, <1>14 DEF x

(* The message that is read next follows the one that was read last.       *)
LEMMA FollowsOne ==
  ASSUME kinds \in Seq(Kinds), NEW i, NEW k, NEW c, Follows(i, c), Follows(k, c)
  PROVE  i = k
<1>1. i \in Nat /\ k \in Nat /\ c \in Nat /\ c < i /\ c < k
  BY DEF Follows, Spoken
<1>2. CASE i < k
  <2>1. i \in (c + 1)..(k - 1)
    BY <1>1, <1>2
  <2>2. QED
    BY <2>1 DEF Follows
<1>3. CASE k < i
  <2>1. k \in (c + 1)..(i - 1)
    BY <1>1, <1>3
  <2>2. QED
    BY <2>1 DEF Follows
<1>4. QED
  BY <1>1, <1>2, <1>3

(* A result behind a call answers it, and one behind a result the same     *)
(* call.                                                                   *)
LEMMA AnswersIs ==
  ASSUME kinds \in Seq(Kinds), NEW i \in DOMAIN kinds, kinds[i] = "tool", NEW k, Follows(i, k)
  PROVE  /\ kinds[k] = "calls" => Answers(i, k)
         /\ \A c \in DOMAIN kinds : Answers(k, c) => Answers(i, c)
<1>1. /\ i \in Nat /\ k \in Nat /\ k < i /\ k \in DOMAIN kinds /\ k \in 1..(i - 1)
      /\ DOMAIN kinds = 1..Len(kinds) /\ Len(kinds) \in Nat
  BY DEF Follows, Spoken
<1>2. ASSUME NEW m \in (k + 1)..i
      PROVE  kinds[m] # "calls"
  <2>1. CASE m = i
    BY <2>1
  <2>2. CASE m # i
    <3>1. m \in (k + 1)..(i - 1) /\ m \in DOMAIN kinds
      BY <1>1, <2>2
    <3>2. QED
      BY <3>1 DEF Follows, Spoken
  <2>3. QED
    BY <2>1, <2>2
<1>3. ASSUME NEW c \in DOMAIN kinds, Answers(k, c)
      PROVE  Answers(i, c)
  <2>1. c \in 1..(k - 1) /\ kinds[c] = "calls" /\ \A m \in (c + 1)..k : kinds[m] # "calls"
    BY <1>3 DEF Answers
  <2>2. c \in 1..(i - 1)
    BY <1>1, <2>1
  <2>3. ASSUME NEW m \in (c + 1)..i
        PROVE  kinds[m] # "calls"
    <3>1. m \in (c + 1)..k \/ m \in (k + 1)..i
      BY <1>1, <2>1
    <3>2. QED
      BY <1>2, <2>1, <3>1
  <2>4. QED
    BY <2>1, <2>2, <2>3 DEF Answers
<1>4. QED
  BY <1>1, <1>2, <1>3 DEF Answers

(* Items are added to a turn of the user's.                                *)
LEMMA Longer ==
  ASSUME NEW ts \in Seq(TurnsOf), NEW ts2 \in Seq(TurnsOf), Len(ts2) = Len(ts),
         NEW k \in 1..Len(ts), NEW c \in Seq(Items), OneLonger(ts, k, c, ts2)
  PROVE  LET size == Len(ts[k].items)
         IN /\ size \in Nat /\ Len(ts2[k].items) = size + Len(c)
            /\ \A m \in 1..size : ts2[k].items[m] = ts[k].items[m]
            /\ \A l \in 1..Len(c) : ts2[k].items[size + l] = c[l]
            /\ \A m \in 1..Len(ts2[k].items) :
                 \/ m \in 1..size /\ ts2[k].items[m] = ts[k].items[m]
                 \/ \E l \in 1..Len(c) : m = size + l /\ ts2[k].items[m] = c[l]
<1> DEFINE s == ts[k].items
           s2 == ts2[k].items
           size == Len(s)
           more == Len(c)
<1>1. s \in Seq(Items)
  <2>1. ts[k] \in TurnsOf
    OBVIOUS
  <2>2. QED
    BY <2>1 DEF TurnsOf
<1>2. s2 = s \o c
  BY DEF OneLonger
<1> HIDE DEF s, s2
<1>3. size \in Nat /\ more \in Nat
  BY <1>1
<1>4. /\ Len(s2) = size + more
      /\ \A m \in 1..size : s2[m] = s[m]
      /\ \A l \in 1..more : s2[size + l] = c[l]
  BY <1>1, <1>2, ConcatIs
<1> HIDE DEF size, more
<1>5. ASSUME NEW m \in 1..Len(s2)
      PROVE  \/ m \in 1..size /\ s2[m] = s[m]
             \/ \E l \in 1..more : m = size + l /\ s2[m] = c[l]
  <2>1. CASE m <= size
    BY <1>3, <1>4, <2>1
  <2>2. CASE ~(m <= size)
    <3>1. m - size \in 1..more /\ m = size + (m - size)
      BY <1>3, <1>4, <2>2
    <3>2. QED
      BY <1>4, <3>1
  <2>3. QED
    BY <2>1, <2>2
<1>6. QED
  BY <1>3, <1>4, <1>5 DEF s, s2, size, more

(* If a result is among them, it continues a run of results.               *)
NewResults(ts, k, c) ==
  \A l \in 1..Len(c) : c[l].is = "result" =>
    /\ l = 1
    /\ Len(ts[k].items) # 0 => ts[k].items[Len(ts[k].items)].is = "result"
    /\ k > 1
    /\ \E call \in DOMAIN kinds :
         Answers(c[l].of, call) /\ ts[k - 1].items = <<ClientItem("call", call)>>

(* A call stays answered when items are added behind its answer.           *)
LEMMA AnsweredOn ==
  ASSUME NEW ts \in Seq(TurnsOf), NEW ts2 \in Seq(TurnsOf), Len(ts2) = Len(ts),
         NEW k \in 1..Len(ts), NEW c \in Seq(Items), OneLonger(ts, k, c, ts2),
         NEW n \in 1..Len(ts), NEW call, Answered(ts, n, call)
  PROVE  Answered(ts2, n, call)
<1> DEFINE next == n + 1
           s == ts[next].items
           s2 == ts2[next].items
<1>1. next \in 1..Len(ts) /\ n < Len(ts2) /\ s # <<>>
      /\ \E i \in DOMAIN kinds : Answers(i, call) /\ Head(s) = ClientItem("result", i)
  BY DEF Answered
<1>2. s2 # <<>> /\ Head(s2) = Head(s)
  <2>1. CASE next = k
    <3>1. ts[k] \in TurnsOf
      OBVIOUS
    <3>2. s \in Seq(Items)
      BY <2>1, <3>1 DEF TurnsOf
    <3>3. s2 = s \o c
      BY <2>1 DEF OneLonger
    <3> HIDE DEF s, s2
    <3>4. QED
      BY <1>1, <3>2, <3>3
  <2>2. CASE next # k
    <3>1. ts2[next] = ts[next]
      BY <1>1, <2>2 DEF OneLonger
    <3>2. QED
      BY <1>1, <3>1
  <2>3. QED
    BY <2>1, <2>2
<1>3. QED
  BY <1>1, <1>2 DEF Answered

(* Adding to a user turn parts no call from its results, if what is added  *)
(* is no call and a result only where results may be.                      *)
LEMMA UserAdds ==
  ASSUME Base, Known, Speakers, format # "openai",
         NEW open, CallsIn(turns, open), ResultsIn(turns),
         NEW k \in 1..Len(turns), turns[k].role = "user", open = {} \/ k = Len(turns),
         NEW c \in Seq(Items), \A l \in 1..Len(c) : c[l].is # "call", NewResults(turns, k, c),
         NEW ts2 \in Seq(TurnsOf), Len(ts2) = Len(turns), OneLonger(turns, k, c, ts2)
  PROVE  CallsIn(ts2, {}) /\ ResultsIn(ts2) /\ (Greeted(turns) => Greeted(ts2))
<1>0. turns \in Seq(TurnsOf)
  BY DEF Base, Shape
<1>1. DOMAIN turns = 1..Len(turns) /\ DOMAIN ts2 = 1..Len(turns)
  BY <1>0
<1>2. \A n \in 1..Len(turns) : n # k => ts2[n] = turns[n]
  BY DEF OneLonger
<1>3. ASSUME NEW n \in 1..Len(turns), NEW m \in DOMAIN ts2[n].items, ts2[n].items[m].is = "call"
      PROVE  n # k /\ ts2[n] = turns[n] /\ m \in 1..Len(turns[n].items)
  <2>1. ASSUME n = k
        PROVE  FALSE
    <3>1. ts2[k] \in TurnsOf
      OBVIOUS
    <3>2. m \in 1..Len(ts2[k].items)
      BY <1>3, <2>1, <3>1 DEF TurnsOf
    <3>3. \/ m \in 1..Len(turns[k].items) /\ ts2[k].items[m] = turns[k].items[m]
          \/ \E l \in 1..Len(c) : ts2[k].items[m] = c[l]
      BY <1>0, <3>2, Longer
    <3>4. m \in 1..Len(turns[k].items) /\ turns[k].items[m].is = "call"
      BY <1>3, <2>1, <3>3
    <3>5. turns[k].role = "assistant"
      BY <3>4, TurnSays
    <3>6. QED
      BY <3>5
  <2>2. turns[n] \in TurnsOf
    BY <1>0
  <2>3. turns[n].items \in Seq(Items)
    BY <2>2 DEF TurnsOf
  <2>4. DOMAIN turns[n].items = 1..Len(turns[n].items)
    BY <2>3
  <2>5. QED
    BY <1>2, <1>3, <2>1, <2>4
<1>4. CallsIn(ts2, {})
  <2>1. ASSUME NEW n \in DOMAIN ts2, NEW m \in DOMAIN ts2[n].items, ts2[n].items[m].is = "call"
        PROVE  Answered(ts2, n, ts2[n].items[m].of)
    <3> DEFINE call == ts2[n].items[m].of
    <3>1. n # k /\ ts2[n] = turns[n] /\ n \in 1..Len(turns)
      BY <1>1, <1>3, <2>1
    <3>2. Answered(turns, n, call) \/ (n = Len(turns) /\ call \in open)
      BY <1>1, <2>1, <3>1 DEF CallsIn
    <3> HIDE DEF call
    <3>3. Answered(turns, n, call)
      BY <3>1, <3>2
    <3>4. Answered(ts2, n, call)
      BY <1>0, <3>1, <3>3, AnsweredOn
    <3>5. QED
      BY <3>4 DEF call
  <2>2. QED
    BY <2>1 DEF CallsIn
<1>5. Greeted(turns) => Greeted(ts2)
  <2>1. ASSUME Greeted(turns), NEW n \in DOMAIN ts2, NEW m \in DOMAIN ts2[n].items,
               ts2[n].items[m].is = "call"
        PROVE  \E i \in 1..(n - 1) : ts2[i].role = "user"
    <3>1. ts2[n] = turns[n] /\ n \in 1..Len(turns)
      BY <1>1, <1>3, <2>1
    <3>2. PICK i \in 1..(n - 1) : turns[i].role = "user"
      BY <1>1, <2>1, <3>1 DEF Greeted
    <3>3. Len(turns) \in Nat
      BY <1>0
    <3>4. i \in 1..Len(turns)
      BY <3>1, <3>3
    <3>5. ts2[i].role = "user"
      BY <3>2, <3>4 DEF OneLonger
    <3>6. QED
      BY <3>5
  <2>2. QED
    BY <2>1 DEF Greeted
<1>6. ASSUME NEW n \in 1..Len(turns), n > 1, NEW call \in DOMAIN kinds,
             turns[n - 1].items = <<ClientItem("call", call)>>
      PROVE  ts2[n - 1].items = <<ClientItem("call", call)>>
  <2> DEFINE b == n - 1
             x == ClientItem("call", call)
  <2>1. b \in 1..Len(turns)
    BY <1>6
  <2>2. x.is = "call"
    BY DEF ClientItem
  <2>3. turns[b].items = <<x>>
    BY <1>6
  <2> HIDE DEF b, x
  <2> DEFINE one == 1
  <2>4. one \in 1..Len(turns[b].items) /\ turns[b].items[one] = x
    BY <2>3
  <2> HIDE DEF one
  <2>5. turns[b].role = "assistant"
    BY <2>1, <2>2, <2>4, TurnSays
  <2>6. b # k
    BY <2>5
  <2>7. ts2[b] = turns[b]
    BY <1>2, <2>1, <2>6
  <2>8. QED
    BY <2>3, <2>7 DEF b, x
<1>7. ResultsIn(ts2)
  <2>1. ASSUME NEW n \in DOMAIN ts2, NEW m \in DOMAIN ts2[n].items, ts2[n].items[m].is = "result"
        PROVE  /\ m = 1 \/ ts2[n].items[m - 1].is = "result"
               /\ n > 1
               /\ \E call \in DOMAIN kinds :
                    Answers(ts2[n].items[m].of, call)
                    /\ ts2[n - 1].items = <<ClientItem("call", call)>>
    <3>1. CASE n # k
      <4>1. ts2[n] = turns[n] /\ n \in 1..Len(turns)
        BY <1>1, <1>2, <3>1
      <4>2. /\ m = 1 \/ turns[n].items[m - 1].is = "result"
            /\ n > 1
            /\ \E call \in DOMAIN kinds :
                 Answers(turns[n].items[m].of, call)
                 /\ turns[n - 1].items = <<ClientItem("call", call)>>
        BY <1>1, <2>1, <4>1 DEF ResultsIn
      <4>3. QED
        BY <1>6, <4>1, <4>2
    <3>2. CASE n = k
      <4> DEFINE size == Len(turns[k].items)
                 s == turns[k].items
                 s2 == ts2[k].items
      <4>1. s \in Seq(Items) /\ s2 \in Seq(Items)
        <5>1. turns[k] \in TurnsOf /\ ts2[k] \in TurnsOf
          BY <1>0
        <5>2. QED
          BY <5>1 DEF TurnsOf
      <4>2. /\ size \in Nat
            /\ \A l \in 1..size : s2[l] = s[l]
            /\ \A l \in 1..Len(s2) :
                 \/ l \in 1..size /\ s2[l] = s[l]
                 \/ \E h \in 1..Len(c) : l = size + h /\ s2[l] = c[h]
        BY <1>0, Longer
      <4>3. m \in 1..Len(s2) /\ s2[m].is = "result"
        BY <2>1, <3>2, <4>1
      <4>4. CASE m \in 1..size /\ s2[m] = s[m]
        <5>1. /\ m = 1 \/ s[m - 1].is = "result"
              /\ k > 1
              /\ \E call \in DOMAIN kinds :
                   Answers(s[m].of, call) /\ turns[k - 1].items = <<ClientItem("call", call)>>
          <6>1. m \in DOMAIN s
            BY <4>1, <4>4
          <6>2. k \in DOMAIN turns
            BY <1>1
          <6>3. QED
            BY <4>3, <4>4, <6>1, <6>2 DEF ResultsIn
        <5>2. m = 1 \/ s2[m - 1].is = "result"
          <6>1. m # 1 => m - 1 \in 1..size
            BY <4>2, <4>4
          <6>2. QED
            BY <4>2, <5>1, <6>1
        <5>3. \E call \in DOMAIN kinds :
                Answers(s2[m].of, call) /\ ts2[k - 1].items = <<ClientItem("call", call)>>
          BY <1>6, <4>4, <5>1
        <5>4. QED
          BY <3>2, <5>1, <5>2, <5>3
      <4>5. ASSUME NEW h \in 1..Len(c), m = size + h, s2[m] = c[h]
            PROVE  /\ m = 1 \/ s2[m - 1].is = "result"
                   /\ k > 1
                   /\ \E call \in DOMAIN kinds :
                        Answers(s2[m].of, call) /\ ts2[k - 1].items = <<ClientItem("call", call)>>
        <5>1. /\ h = 1
              /\ size # 0 => s[size].is = "result"
              /\ k > 1
              /\ \E call \in DOMAIN kinds :
                   Answers(c[h].of, call) /\ turns[k - 1].items = <<ClientItem("call", call)>>
          BY <4>3, <4>5 DEF NewResults
        <5>2. m - 1 = size /\ (m = 1 <=> size = 0)
          BY <4>2, <4>5, <5>1
        <5>3. m = 1 \/ s2[m - 1].is = "result"
          <6>1. size # 0 => size \in 1..size
            BY <4>2
          <6>2. QED
            BY <4>2, <5>1, <5>2, <6>1
        <5>4. QED
          BY <1>6, <4>5, <5>1, <5>3
      <4>6. QED
        BY <3>2, <4>2, <4>3, <4>4, <4>5
    <3>3. QED
      BY <3>1, <3>2
  <2>2. QED
    BY <2>1 DEF ResultsIn
<1>8. QED
  BY <1>4, <1>5, <1>7

(* A block is placed on a user turn, behind the results there.             *)
LEMMA PlaceCalls == Base /\ Base' /\ Frozen /\ Said /\ Calls /\ Place => Calls'
<1> SUFFICES ASSUME Base, Base', Frozen, Said, Calls, Place, format # "openai", CallsAreAnswered
             PROVE  CallsAt(stage', turns', Read')
  BY PrimedCalls
<1>1. /\ stage = "mapped" /\ stage' = stage
      /\ CallsIn(turns, {}) /\ ResultsIn(turns)
  BY DEF Place, Calls, CallsAt
<1>2. /\ turns \in Seq(TurnsOf) /\ turns' \in Seq(TurnsOf) /\ injs \in Seq(Injections) /\ Shape
      /\ system \in Seq(Items) /\ todo \subseteq DOMAIN injs
  BY DEF Base, Shape
<1>3. PICK j \in todo :
        /\ j \in DOMAIN injs /\ j \in Nat
        /\ <<InjItem(j)>> \in Seq(Items)
        /\ \/ turns = <<>> /\ turns' = turns
           \/ \E at \in 1..Len(turns) :
                /\ IsSpot(at, Asked(injs[j].depth))
                /\ turns' = AddTo(turns, at, <<InjItem(j)>>)
  BY <1>2, PlaceStep
<1>4. ASSUME NEW at \in 1..Len(turns),
             IsSpot(at, Asked(injs[j].depth)),
             turns' = AddTo(turns, at, <<InjItem(j)>>)
      PROVE  CallsIn(turns', {}) /\ ResultsIn(turns')
  <2> DEFINE x == InjItem(j)
             c == <<x>>
  <2>1. turns # <<>> /\ turns[1].role = "user"
    <3>1. turns # <<>>
      BY <1>2
    <3>2. QED
      BY <1>1, <3>1 DEF Said, UserTurn
  <2>2. turns[at].role = "user"
    <3>1. Asked(injs[j].depth) \in 1..Len(turns)
      BY <1>2, <1>3, <2>1, AskedIs, DepthIs
    <3>2. QED
      BY <1>2, <1>4, <2>1, <3>1, SpotIsUser
  <2>3. x.is = "text" /\ x \in Items
    BY <1>3, ItemsAre
  <2> HIDE DEF x
  <2>4. c \in Seq(Items) /\ Len(c) = 1 /\ c[1] = x /\ turns' = AddTo(turns, at, c)
    BY <1>4, <2>3 DEF x
  <2> HIDE DEF c
  <2>5. \A l \in 1..Len(c) : c[l].is = "text"
    BY <2>3, <2>4
  <2>6. NewResults(turns, at, c)
    BY <2>5 DEF NewResults
  <2>7. Len(turns') = Len(turns) /\ OneLonger(turns, at, c, turns')
    BY <1>2, <2>4, AddedParts
  <2> DEFINE open == {}
  <2>8. open = {} /\ CallsIn(turns, open)
    BY <1>1
  <2> HIDE DEF open
  <2>9. QED
    BY <1>1, <1>2, <2>2, <2>4, <2>5, <2>6, <2>7, <2>8, UserAdds DEF Said
<1>5. QED
  BY <1>1, <1>3, <1>4 DEF CallsAt

(* Where a turn was before turn r was removed.                             *)
Skip(n, r) == IF n < r THEN n ELSE n + 1

OneLess(ts, ts2, r) ==
  /\ r \in 1..Len(ts) /\ Len(ts) = Len(ts2) + 1
  /\ \A n \in 1..Len(ts2) : ts2[n] = ts[Skip(n, r)]

(* The turn that is removed is neither the answer to a call nor the call   *)
(* in front of a turn.                                                     *)
Apart(ts, r) ==
  \A n \in 1..Len(ts), c \in DOMAIN kinds :
    /\ Answered(ts, n, c) => n + 1 # r
    /\ n > 1 /\ ts[n - 1].items = <<ClientItem("call", c)>> => n - 1 # r

(* Turns that were next to each other, and apart from the one removed,     *)
(* still are.                                                              *)
LEMMA Neighbours ==
  ASSUME NEW length \in Nat, NEW r \in 1..(length + 1), NEW n \in 1..length
  PROVE  LET a == Skip(n, r)
         IN /\ a \in 1..(length + 1)
            /\ a < length + 1 /\ a + 1 # r => n < length /\ Skip(n + 1, r) = a + 1
            /\ a > 1 /\ a - 1 # r => n > 1 /\ Skip(n - 1, r) = a - 1
<1>1. CASE n < r
  <2>1. Skip(n, r) = n
    BY <1>1 DEF Skip
  <2>2. n + 1 # r => n < length /\ Skip(n + 1, r) = n + 1
    BY <1>1 DEF Skip
  <2>3. Skip(n - 1, r) = n - 1
    BY <1>1 DEF Skip
  <2>4. n \in 1..(length + 1)
    OBVIOUS
  <2>5. QED
    BY <2>1, <2>2, <2>3, <2>4
<1>2. CASE ~(n < r)
  <2>1. Skip(n, r) = n + 1
    BY <1>2 DEF Skip
  <2>2. n + 1 < length + 1 => n < length /\ Skip(n + 1, r) = (n + 1) + 1
    BY <1>2 DEF Skip
  <2>3. (n + 1) - 1 # r => n > 1 /\ Skip(n - 1, r) = (n + 1) - 1
    BY <1>2 DEF Skip
  <2>4. n + 1 \in 1..(length + 1)
    OBVIOUS
  <2>5. QED
    BY <2>1, <2>2, <2>3, <2>4
<1>3. QED
  BY <1>1, <1>2

(* Removing a turn that is apart keeps calls and results together.         *)
LEMMA RemovedCalls ==
  ASSUME NEW ts \in Seq(TurnsOf), NEW ts2 \in Seq(TurnsOf), NEW r, OneLess(ts, ts2, r),
         Apart(ts, r), CallsIn(ts, {}), ResultsIn(ts),
         \A n \in 1..Len(ts) : \A m \in DOMAIN ts[n].items :
           ts[n].items[m].is = "call" => ts[n].items[m].of \in DOMAIN kinds
  PROVE  CallsIn(ts2, {}) /\ ResultsIn(ts2)
<1> DEFINE length == Len(ts2)
<1>1. /\ length \in Nat /\ DOMAIN ts2 = 1..length
  OBVIOUS
<1>2. Len(ts) = length + 1 /\ DOMAIN ts = 1..Len(ts) /\ r \in 1..(length + 1)
  BY DEF OneLess
<1>3. \A n \in 1..length : ts2[n] = ts[Skip(n, r)]
  BY DEF OneLess
<1> HIDE DEF length
<1>4. ASSUME NEW n \in 1..length, NEW m \in DOMAIN ts2[n].items, ts2[n].items[m].is = "call"
      PROVE  Answered(ts2, n, ts2[n].items[m].of)
  <2> DEFINE a == Skip(n, r)
             c == ts2[n].items[m].of
  <2>1. /\ a \in 1..(length + 1)
        /\ a < length + 1 /\ a + 1 # r => n < length /\ Skip(n + 1, r) = a + 1
    BY <1>1, <1>2, Neighbours
  <2>2. ts2[n] = ts[a] /\ a \in DOMAIN ts
    BY <1>2, <1>3, <2>1
  <2> HIDE DEF a
  <2>3. Answered(ts, a, c) /\ c \in DOMAIN kinds
    BY <1>2, <1>4, <2>2 DEF CallsIn
  <2> HIDE DEF c
  <2>4. a + 1 # r
    BY <1>2, <2>2, <2>3 DEF Apart
  <2>5. a < length + 1
    BY <1>2, <2>3 DEF Answered
  <2>6. n < length /\ n + 1 \in 1..length /\ ts2[n + 1] = ts[a + 1]
    <3>1. n < length /\ Skip(n + 1, r) = a + 1
      BY <2>1, <2>4, <2>5
    <3>2. n + 1 \in 1..length
      BY <1>1, <3>1
    <3>3. ts2[n + 1] = ts[Skip(n + 1, r)]
      BY <1>3, <3>2
    <3>4. QED
      BY <3>1, <3>2, <3>3
  <2>7. Answered(ts2, n, c)
    BY <2>3, <2>6 DEF Answered, length
  <2>8. QED
    BY <2>7 DEF c
<1>5. ASSUME NEW n \in 1..length, NEW m \in DOMAIN ts2[n].items, ts2[n].items[m].is = "result"
      PROVE  /\ m = 1 \/ ts2[n].items[m - 1].is = "result"
             /\ n > 1
             /\ \E c \in DOMAIN kinds :
                  Answers(ts2[n].items[m].of, c) /\ ts2[n - 1].items = <<ClientItem("call", c)>>
  <2> DEFINE a == Skip(n, r)
  <2>1. /\ a \in 1..(length + 1)
        /\ a > 1 /\ a - 1 # r => n > 1 /\ Skip(n - 1, r) = a - 1
    BY <1>1, <1>2, Neighbours
  <2>2. ts2[n] = ts[a] /\ a \in DOMAIN ts
    BY <1>2, <1>3, <2>1
  <2> HIDE DEF a
  <2>3. /\ m = 1 \/ ts2[n].items[m - 1].is = "result"
        /\ a > 1
        /\ \E c \in DOMAIN kinds :
             Answers(ts2[n].items[m].of, c) /\ ts[a - 1].items = <<ClientItem("call", c)>>
    BY <1>5, <2>2 DEF ResultsIn
  <2>4. PICK c \in DOMAIN kinds :
          Answers(ts2[n].items[m].of, c) /\ ts[a - 1].items = <<ClientItem("call", c)>>
    BY <2>3
  <2>5. a - 1 # r
    BY <1>2, <2>2, <2>3, <2>4 DEF Apart
  <2>6. n > 1 /\ Skip(n - 1, r) = a - 1
    BY <2>1, <2>3, <2>5
  <2>7. n - 1 \in 1..length
    BY <1>1, <2>6
  <2>8. ts2[n - 1] = ts[a - 1]
    <3>1. ts2[n - 1] = ts[Skip(n - 1, r)]
      BY <1>3, <2>7
    <3>2. QED
      BY <2>6, <3>1
  <2>9. QED
    BY <2>3, <2>4, <2>6, <2>8
<1>6. CallsIn(ts2, {})
  BY <1>1, <1>4 DEF CallsIn
<1>7. ResultsIn(ts2)
  BY <1>1, <1>5 DEF ResultsIn
<1>8. QED
  BY <1>6, <1>7

(* What RemoveAt leaves.                                                   *)
LEMMA RemovedTurns ==
  ASSUME Base, Base', NEW r \in 1..Len(turns), turns' = RemoveAt(turns, r)
  PROVE  /\ turns \in Seq(TurnsOf) /\ turns' \in Seq(TurnsOf)
         /\ DOMAIN turns = 1..Len(turns) /\ OneLess(turns, turns', r)
<1> DEFINE S == TurnsOf
           s == turns
<1>1. s \in Seq(S) /\ turns' \in Seq(S) /\ r \in 1..Len(s)
  BY DEF Base, Shape
<1> HIDE DEF S
<1>2. /\ Len(s) = Len(turns') + 1
      /\ \A n \in 1..Len(turns') : turns'[n] = IF n < r THEN s[n] ELSE s[n + 1]
  BY <1>1, RemoveIs
<1>3. \A n \in 1..Len(turns') : turns'[n] = s[Skip(n, r)]
  BY <1>2 DEF Skip
<1>4. DOMAIN s = 1..Len(s)
  BY <1>1
<1>5. QED
  BY <1>1, <1>2, <1>3, <1>4 DEF OneLess, S

(* The callers of the calls in the prompt.                                 *)
LEMMA CallersAre ==
  ASSUME Base, Known, Speakers, format # "openai"
  PROVE  \A n \in 1..Len(turns) : \A m \in DOMAIN turns[n].items :
           turns[n].items[m].is = "call" => turns[n].items[m].of \in DOMAIN kinds
<1> SUFFICES ASSUME NEW n \in 1..Len(turns), NEW m \in DOMAIN turns[n].items,
                    turns[n].items[m].is = "call"
             PROVE  turns[n].items[m].of \in DOMAIN kinds
  OBVIOUS
<1>0. turns \in Seq(TurnsOf)
  BY DEF Base, Shape
<1>1. turns[n] \in TurnsOf
  BY <1>0
<1>2. m \in 1..Len(turns[n].items)
  BY <1>1 DEF TurnsOf
<1>3. turns[n].items[m].of \in Read
  BY <1>2, TurnSays
<1>4. QED
  BY <1>3 DEF Read

(* A turn that is stripped is empty: it is no answer and no call.          *)
LEMMA StripCalls == Base /\ Base' /\ Frozen /\ Said /\ Calls /\ Strip => Calls'
<1> SUFFICES ASSUME Base, Base', Frozen, Said, Calls, Strip, format # "openai", CallsAreAnswered
             PROVE  CallsAt(stage', turns', Read')
  BY PrimedCalls
<1>1. stage = "stripping" /\ stage' = stage
  BY DEF Strip
<1>2. CallsIn(turns, {}) /\ ResultsIn(turns)
  BY <1>1 DEF Calls, CallsAt
<1>3. PICK r \in DOMAIN turns : turns[r].items = <<>> /\ turns' = RemoveAt(turns, r)
  BY DEF Strip
<1>4. r \in 1..Len(turns)
  <2>1. turns \in Seq(TurnsOf)
    BY DEF Base, Shape
  <2>2. DOMAIN turns = 1..Len(turns)
    BY <2>1
  <2>3. QED
    BY <1>3, <2>2
<1>5. /\ turns \in Seq(TurnsOf) /\ turns' \in Seq(TurnsOf) /\ OneLess(turns, turns', r)
  BY <1>3, <1>4, RemovedTurns
<1>6. Apart(turns, r)
  <2>1. ASSUME NEW n \in 1..Len(turns), NEW c, Answered(turns, n, c)
        PROVE  n + 1 # r
    BY <1>3, <2>1 DEF Answered
  <2>2. ASSUME NEW n \in 1..Len(turns), NEW c, turns[n - 1].items = <<ClientItem("call", c)>>
        PROVE  n - 1 # r
    <3> DEFINE x == ClientItem("call", c)
    <3>1. turns[n - 1].items = <<x>>
      BY <2>2
    <3> HIDE DEF x
    <3>2. <<x>> # <<>>
      OBVIOUS
    <3>3. QED
      BY <1>3, <3>1, <3>2
  <2>3. QED
    BY <2>1, <2>2 DEF Apart
<1>7. CallsIn(turns', {}) /\ ResultsIn(turns')
  BY <1>2, <1>5, <1>6, CallersAre, RemovedCalls DEF Said
<1>8. QED
  BY <1>1, <1>7 DEF CallsAt

(* A turn that is dropped is the last one and the assistant's.             *)
LEMMA DropCalls == Base /\ Base' /\ Frozen /\ Said /\ Calls /\ Drop => Calls'
<1> SUFFICES ASSUME Base, Base', Frozen, Said, Calls, Drop, format # "openai", CallsAreAnswered
             PROVE  CallsAt(stage', turns', Read')
  BY PrimedCalls
<1>1. stage = "stripping" /\ stage' = stage
  BY DEF Drop
<1>2. CallsIn(turns, {}) /\ ResultsIn(turns)
  BY <1>1 DEF Calls, CallsAt
<1> DEFINE r == Len(turns)
<1>3. turns \in Seq(TurnsOf) /\ turns # <<>> /\ turns[r].role = "assistant" /\ turns' = Front(turns)
  BY DEF Drop, Trails, Last, Base, Shape
<1>4. r \in 1..Len(turns) /\ turns' = RemoveAt(turns, r)
  BY <1>3, FrontRemoves
<1>5. r \in Nat
  BY <1>3
<1> HIDE DEF r
<1>6. /\ turns' \in Seq(TurnsOf) /\ OneLess(turns, turns', r)
  BY <1>4, RemovedTurns
<1>7. Apart(turns, r)
  <2>1. ASSUME NEW n \in 1..Len(turns), NEW c, Answered(turns, n, c), n + 1 = r
        PROVE  FALSE
    <3> DEFINE s == turns[r].items
               one == 1
    <3>1. s # <<>> /\ \E i \in DOMAIN kinds : Head(s) = ClientItem("result", i)
      BY <2>1 DEF Answered
    <3>2. turns[r] \in TurnsOf
      BY <1>3, <1>4
    <3>3. s \in Seq(Items)
      BY <3>2 DEF TurnsOf
    <3>4. one \in 1..Len(s) /\ s[one] = Head(s)
      <4> HIDE DEF s
      <4>1. QED
        BY <3>1, <3>3
    <3>5. s[one].is = "result"
      BY <3>1, <3>4 DEF ClientItem
    <3> HIDE DEF one
    <3>6. turns[r].role = "user"
      BY <1>4, <3>4, <3>5, TurnSays DEF Said
    <3>7. QED
      BY <1>3, <3>6 DEF r
  <2>2. ASSUME NEW n \in 1..Len(turns)
        PROVE  n - 1 # r
    BY <1>5 DEF r
  <2>3. QED
    BY <2>1, <2>2 DEF Apart
<1>8. CallsIn(turns', {}) /\ ResultsIn(turns')
  BY <1>2, <1>3, <1>6, <1>7, CallersAre, RemovedCalls DEF Said
<1>9. QED
  BY <1>1, <1>8 DEF CallsAt

(* A turn that is absorbed is the first one, and a call in it would not be *)
(* greeted.                                                                *)
LEMMA AbsorbCalls == Base /\ Base' /\ Frozen /\ Said /\ Calls /\ Absorb => Calls'
<1> SUFFICES ASSUME Base, Base', Frozen, Said, Calls, Absorb, format # "openai", CallsAreAnswered
             PROVE  CallsAt(stage', turns', Read')
  BY PrimedCalls
<1>1. stage = "hoisted" /\ stage' = stage
  BY DEF Absorb
<1>2. CallsIn(turns, {}) /\ ResultsIn(turns) /\ Greeted(turns)
  BY <1>1 DEF Calls, CallsAt
<1> DEFINE r == 1
<1>3. turns \in Seq(TurnsOf) /\ turns # <<>> /\ turns[r].role = "assistant" /\ turns' = Tail(turns)
  BY DEF Absorb, Greets, Base, Shape
<1>4. r \in 1..Len(turns) /\ turns' = RemoveAt(turns, r)
  BY <1>3, TailRemoves
<1>5. r = 1
  OBVIOUS
<1> HIDE DEF r
<1>6. /\ turns' \in Seq(TurnsOf) /\ DOMAIN turns = 1..Len(turns) /\ OneLess(turns, turns', r)
  BY <1>4, RemovedTurns
<1>7. Apart(turns, r)
  <2>1. ASSUME NEW n \in 1..Len(turns)
        PROVE  n + 1 # r
    BY <1>5
  <2>2. ASSUME NEW n \in 1..Len(turns), NEW c, n > 1, n - 1 = r,
               turns[n - 1].items = <<ClientItem("call", c)>>
        PROVE  FALSE
    <3> DEFINE x == ClientItem("call", c)
               s == turns[r].items
    <3>1. x.is = "call" /\ s = <<x>>
      BY <2>2 DEF ClientItem
    <3> HIDE DEF x, s
    <3>2. r \in DOMAIN s /\ s[r] = x
      BY <1>5, <3>1
    <3>3. \E k \in 1..(r - 1) : turns[k].role = "user"
      BY <1>2, <1>4, <1>6, <3>1, <3>2 DEF Greeted, s
    <3>4. QED
      BY <1>5, <3>3
  <2>3. QED
    BY <2>1, <2>2 DEF Apart
<1>8. CallsIn(turns', {}) /\ ResultsIn(turns')
  BY <1>2, <1>3, <1>6, <1>7, CallersAre, RemovedCalls DEF Said
<1>9. Greeted(turns')
  <2> DEFINE length == Len(turns')
  <2>1. /\ length \in Nat /\ Len(turns) = length + 1
    BY <1>6 DEF OneLess
  <2>2. DOMAIN turns' = 1..length
    BY <1>6
  <2>3. \A n \in 1..length : turns'[n] = turns[n + 1]
    <3>1. \A n \in 1..length : Skip(n, r) = n + 1
      BY <1>5 DEF Skip
    <3>2. QED
      BY <1>6, <3>1 DEF OneLess
  <2> HIDE DEF length
  <2>4. ASSUME NEW n \in 1..length, NEW m \in DOMAIN turns'[n].items, turns'[n].items[m].is = "call"
        PROVE  \E k \in 1..(n - 1) : turns'[k].role = "user"
    <3> DEFINE a == n + 1
    <3>1. a \in DOMAIN turns /\ turns'[n] = turns[a] /\ a - 1 = n
      BY <1>6, <2>1, <2>3
    <3> HIDE DEF a
    <3>2. PICK k \in 1..(a - 1) : turns[k].role = "user"
      BY <1>2, <2>4, <3>1 DEF Greeted
    <3>3. k # 1 /\ k \in 1..n
      BY <1>3, <1>5, <3>1, <3>2
    <3> DEFINE b == k - 1
    <3>4. b \in 1..(n - 1) /\ b \in 1..length /\ k = b + 1
      BY <2>1, <3>3
    <3> HIDE DEF b
    <3>5. turns'[b].role = "user"
      BY <2>3, <3>2, <3>4
    <3>6. QED
      BY <3>4, <3>5
  <2>5. QED
    BY <2>2, <2>4 DEF Greeted
<1>10. QED
  BY <1>1, <1>8, <1>9 DEF CallsAt

-----------------------------------------------------------------------------
(* The message that is read next follows the last one that has been read.  *)
LEMMA MapFollows ==
  ASSUME Base, Map
  PROVE  LET i == Head(body)
         IN /\ i \in DOMAIN kinds
            /\ kinds[i] = "system" => Open(Read') = Open(Read)
            /\ kinds[i] # "system" =>
                 /\ Open(Read') = {i}
                 /\ \A k : Follows(i, k) <=> k \in Open(Read)
                 /\ \A k \in DOMAIN kinds : k < i /\ kinds[k] # "system" => k \in Read
<1> DEFINE i == Head(body)
<1>1. /\ i \in DOMAIN kinds /\ i \notin Read /\ Read' = Read \cup {i}
      /\ \A k \in Read : kinds[k] # "system" => k < i
      /\ \A k \in DOMAIN kinds : k < i /\ kinds[k] # "system" => k \in Read
  BY MapReads
<1>2. kinds \in Seq(Kinds)
  BY DEF Base, Shape
<1> HIDE DEF i
<1>3. i \in Nat /\ DOMAIN kinds = 1..Len(kinds) /\ Len(kinds) \in Nat /\ Read \subseteq DOMAIN kinds
  BY <1>1, <1>2 DEF Read
<1>4. kinds[i] = "system" => Open(Read') = Open(Read)
  BY <1>1 DEF Open
<1>5. ASSUME kinds[i] # "system"
      PROVE  Open(Read') = {i}
  <2>1. ASSUME NEW k \in Open(Read')
        PROVE  k = i
    <3>1. k \in Read' /\ kinds[k] # "system" /\ \A m \in Read' : m > k => kinds[m] = "system"
      BY DEF Open
    <3>2. ~(i > k)
      BY <1>1, <1>5, <3>1
    <3>3. k \in Nat
      BY <1>1, <1>3, <3>1
    <3>4. k \in Read => k < i
      BY <1>1, <3>1
    <3>5. QED
      BY <1>1, <1>3, <3>1, <3>2, <3>3, <3>4
  <2>2. i \in Open(Read')
    <3>1. ASSUME NEW m \in Read', m > i, kinds[m] # "system"
          PROVE  FALSE
      <4>1. m \in Nat /\ (m = i \/ m < i)
        BY <1>1, <1>3, <3>1
      <4>2. QED
        BY <1>3, <3>1, <4>1
    <3>2. QED
      BY <1>1, <1>5, <3>1 DEF Open
  <2>3. QED
    BY <2>1, <2>2
<1>6. ASSUME kinds[i] # "system", NEW k
      PROVE  Follows(i, k) <=> k \in Open(Read)
  <2>1. ASSUME Follows(i, k)
        PROVE  k \in Open(Read)
    <3>1. /\ k \in DOMAIN kinds /\ kinds[k] # "system" /\ k < i
          /\ \A m \in (k + 1)..(i - 1) : ~Spoken(m)
      BY <2>1 DEF Follows, Spoken
    <3>2. k \in Read /\ k \in Nat
      BY <1>1, <1>3, <3>1
    <3>3. ASSUME NEW m \in Read, m > k, kinds[m] # "system"
          PROVE  FALSE
      <4>1. m < i /\ m \in Nat /\ m \in DOMAIN kinds
        BY <1>1, <1>3, <3>3
      <4>2. m \in (k + 1)..(i - 1)
        BY <1>3, <3>2, <3>3, <4>1
      <4>3. QED
        BY <3>1, <3>3, <4>1, <4>2 DEF Spoken
    <3>4. QED
      BY <3>1, <3>2, <3>3 DEF Open
  <2>2. ASSUME k \in Open(Read)
        PROVE  Follows(i, k)
    <3>1. k \in Read /\ kinds[k] # "system" /\ \A m \in Read : m > k => kinds[m] = "system"
      BY <2>2 DEF Open
    <3>2. k < i /\ k \in DOMAIN kinds /\ k \in Nat
      BY <1>1, <1>3, <3>1
    <3>3. ASSUME NEW m \in (k + 1)..(i - 1), Spoken(m)
          PROVE  FALSE
      <4>1. m < i /\ m > k
        BY <1>3, <3>2
      <4>2. m \in Read /\ kinds[m] # "system"
        BY <1>1, <3>3, <4>1 DEF Spoken
      <4>3. QED
        BY <3>1, <4>1, <4>2
    <3>4. QED
      BY <1>1, <1>6, <3>1, <3>2, <3>3 DEF Follows, Spoken
  <2>3. QED
    BY <2>1, <2>2
<1>7. QED
  BY <1>1, <1>4, <1>5, <1>6 DEF i

(* What the next message finds when it is a tool's.                        *)
LEMMA ToolFinds ==
  ASSUME Base, Map, CallsAreAnswered, kinds[Head(body)] = "tool",
         \A k \in Open(Read) : EndsWith(turns, k)
  PROVE  LET i == Head(body)
         IN \E k \in DOMAIN kinds :
              /\ Follows(i, k) /\ turns # <<>>
              /\ \/ /\ kinds[k] = "calls" /\ Answers(i, k)
                    /\ Last(turns) = Turn("assistant", <<ClientItem("call", k)>>)
                 \/ /\ kinds[k] = "tool" /\ \A c \in DOMAIN kinds : Answers(k, c) => Answers(i, c)
                    /\ Joins(turns) /\ Last(turns).items # <<>>
                    /\ Head(Last(turns).items).is = "result"
                    /\ Last(Last(turns).items) = ClientItem("result", k)
<1> DEFINE i == Head(body)
<1>1. i \in DOMAIN kinds /\ \A k : Follows(i, k) <=> k \in Open(Read)
  BY MapFollows
<1>2. kinds \in Seq(Kinds)
  BY DEF Base, Shape
<1>3. kinds[i] = "tool"
  OBVIOUS
<1> HIDE DEF i
<1>4. PICK k \in DOMAIN kinds : Follows(i, k) /\ kinds[k] \in {"calls", "tool"}
  BY <1>1, <1>3 DEF CallsAreAnswered
<1>5. EndsWith(turns, k)
  BY <1>1, <1>4
<1>6. /\ kinds[k] = "calls" => Answers(i, k)
      /\ \A c \in DOMAIN kinds : Answers(k, c) => Answers(i, c)
  BY <1>1, <1>2, <1>3, <1>4, AnswersIs
<1>7. QED
  BY <1>4, <1>5, <1>6 DEF EndsWith, Joins, i

(* A result joins the run of results it continues.                         *)
LEMMA MapJoins ==
  ASSUME Base, Base', Said, Map, CallsAreAnswered, format # "openai",
         CallsIn(turns, Open(Read)), ResultsIn(turns), Greeted(turns),
         \A k \in Open(Read) : EndsWith(turns, k),
         kinds[Head(body)] = "tool", Joins(turns),
         turns' = AddTo(turns, Len(turns), Content(Head(body)))
  PROVE  CallsIn(turns', {}) /\ ResultsIn(turns') /\ Greeted(turns') /\ EndsWith(turns', Head(body))
<1> DEFINE i == Head(body)
           top == Len(turns)
           s == turns[top].items
           x == ClientItem("result", i)
           c == <<x>>
           s2 == turns'[top].items
<1>1. turns \in Seq(TurnsOf) /\ turns' \in Seq(TurnsOf) /\ system \in Seq(Items) /\ kinds \in Seq(Kinds)
  BY DEF Base, Shape
<1>2. i \in DOMAIN kinds
  BY MapFollows
<1>3. x \in Items /\ x.is = "result" /\ x.of = i /\ Content(i) = c
  <2> HIDE DEF i
  <2>1. i \in Nat
    BY <1>1, <1>2
  <2>2. x \in Items /\ x.is = "result" /\ x.of = i
    BY <2>1, ItemsAre
  <2>3. kinds[i] = "tool"
    BY DEF i
  <2>4. QED
    BY <2>2, <2>3 DEF Content
<1>4. PICK k \in DOMAIN kinds :
        /\ turns # <<>>
        /\ \/ Last(turns) = Turn("assistant", <<ClientItem("call", k)>>)
           \/ /\ kinds[k] = "tool" /\ \A a \in DOMAIN kinds : Answers(k, a) => Answers(i, a)
              /\ Last(turns).items # <<>>
              /\ Head(Last(turns).items).is = "result"
              /\ Last(Last(turns).items) = ClientItem("result", k)
  BY ToolFinds
<1>5. Last(turns).role = "user" /\ Last(turns) = turns[top]
  BY DEF Joins, Last
<1>6. /\ s # <<>> /\ Head(s).is = "result" /\ Last(s) = ClientItem("result", k)
      /\ \A a \in DOMAIN kinds : Answers(k, a) => Answers(i, a)
  BY <1>4, <1>5 DEF Turn
<1>7. top \in 1..Len(turns) /\ top \in DOMAIN turns /\ top \in Nat
  BY <1>1, <1>4
<1> HIDE DEF i, x
<1>8. c \in Seq(Items) /\ Len(c) = 1 /\ c[1] = x
  BY <1>3
<1>9. turns' = AddTo(turns, top, c)
  BY <1>3 DEF i
<1> HIDE DEF c, top
<1>10. Len(turns') = Len(turns) /\ OneLonger(turns, top, c, turns')
  BY <1>1, <1>7, <1>8, <1>9, AddedParts
<1>11. turns[top] \in TurnsOf
  BY <1>1, <1>7
<1>12. s \in Seq(Items)
  BY <1>11 DEF TurnsOf
<1>13. s2 = s \o c
  BY <1>10 DEF OneLonger
<1> HIDE DEF s, s2
<1> DEFINE size == Len(s)
<1>14. size \in DOMAIN s /\ s[size] = ClientItem("result", k) /\ size # 0
  BY <1>6, <1>12 DEF Last
<1> HIDE DEF size
<1>15. s[size].is = "result" /\ s[size].of = k
  BY <1>14 DEF ClientItem
<1>16. NewResults(turns, top, c)
  <2>1. /\ top > 1
        /\ \E a \in DOMAIN kinds : Answers(k, a) /\ turns[top - 1].items = <<ClientItem("call", a)>>
    BY <1>7, <1>14, <1>15 DEF ResultsIn, s
  <2>2. ASSUME NEW l \in 1..Len(c)
        PROVE  l = 1
    BY <1>8
  <2>3. c[1].of = i
    BY <1>3, <1>8
  <2>4. s[Len(s)].is = "result"
    BY <1>15 DEF size
  <2>5. QED
    BY <1>6, <2>1, <2>2, <2>3, <2>4 DEF NewResults, s
<1>17. \A l \in 1..Len(c) : c[l].is # "call"
  BY <1>3, <1>8
<1>18. CallsIn(turns', {}) /\ ResultsIn(turns') /\ Greeted(turns')
  <2> DEFINE open == Open(Read)
  <2>1. CallsIn(turns, open)
    OBVIOUS
  <2> HIDE DEF open
  <2>2. turns[top].role = "user" /\ top = Len(turns)
    BY <1>5 DEF top
  <2>3. QED
    BY <1>1, <1>7, <1>8, <1>10, <1>16, <1>17, <2>1, <2>2, UserAdds DEF Said
<1>19. s2 # <<>> /\ Head(s2).is = "result" /\ Last(s2) = x
  <2> DEFINE one == 1
  <2>1. /\ s2 \in Seq(Items) /\ Len(s2) = size + Len(c)
        /\ \A m \in 1..size : s2[m] = s[m]
        /\ \A m \in 1..Len(c) : s2[size + m] = c[m]
    BY <1>8, <1>12, <1>13, ConcatIs DEF size
  <2>2. size \in Nat /\ Len(c) = one /\ size # 0 /\ c[one] = x
    BY <1>8, <1>12, <1>14 DEF size
  <2> HIDE DEF one
  <2>3. one = 1
    BY DEF one
  <2>4. Len(s2) = size + 1 /\ s2[size + 1] = x
    BY <2>1, <2>2, <2>3
  <2>5. s2[1] = s[1]
    BY <2>1, <2>2
  <2>6. s2 # <<>> /\ Head(s2) = s2[1] /\ Head(s) = s[1]
    <3>1. s2 # <<>>
      BY <2>1, <2>2, <2>4
    <3>2. QED
      BY <1>6, <1>12, <2>1, <3>1
  <2>7. QED
    BY <1>6, <2>4, <2>5, <2>6 DEF Last
<1>20. EndsWith(turns', i)
  <2>1. turns' # <<>> /\ Last(turns') = turns'[top]
    BY <1>1, <1>7, <1>10 DEF Last, top
  <2>2. Last(turns').role = "user"
    BY <1>5, <1>7, <1>10, <2>1 DEF OneLonger
  <2>3. kinds[i] = "tool"
    BY DEF i
  <2>4. QED
    BY <1>19, <2>1, <2>2, <2>3 DEF EndsWith, s2, x
<1>21. QED
  BY <1>18, <1>20 DEF i

MoreBy(ts, t, ts2) ==
  /\ Len(ts2) = Len(ts) + 1 /\ ts2[Len(ts) + 1] = t
  /\ \A n \in 1..Len(ts) : ts2[n] = ts[n]

(* A message becomes a turn of its own.                                    *)
LEMMA MapMore ==
  ASSUME Base, Base', NEW t \in TurnsOf, turns' = InsertAt(turns, Len(turns) + 1, t)
  PROVE  MoreBy(turns, t, turns')
<1> DEFINE S == TurnsOf
           top == Len(turns)
           r == top + 1
<1>1. turns \in Seq(S) /\ t \in S /\ top \in Nat
  BY DEF Base, Shape
<1>2. r \in 1..(Len(turns) + 1) /\ turns' = InsertAt(turns, r, t)
  BY <1>1
<1> HIDE DEF S, r
<1>3. Len(turns') = Len(turns) + 1 /\ OneMore(turns, r, t, turns')
  BY <1>1, <1>2, InsertIs
<1>4. QED
  BY <1>1, <1>3 DEF OneMore, MoreBy, r

(* The turn of the next message.                                           *)
LEMMA NextTurn ==
  ASSUME Base, Map, NEW t, t.items = Content(Head(body)), NEW m \in DOMAIN t.items
  PROVE  LET i == Head(body)
         IN /\ m = 1
            /\ t.items[m].is = "call" => kinds[i] = "calls" /\ t.items[m].of = i
            /\ t.items[m].is = "result" => kinds[i] = "tool" /\ t.items[m].of = i
<1> DEFINE i == Head(body)
           c == Content(i)
<1>1. i \in DOMAIN kinds /\ kinds \in Seq(Kinds)
  BY MapFollows DEF Base, Shape
<1>2. t.items = c
  OBVIOUS
<1> HIDE DEF i
<1>3. \/ c = <<>>
      \/ c = <<ClientItem("call", i)>> /\ kinds[i] = "calls"
      \/ c = <<ClientItem("result", i)>> /\ kinds[i] = "tool"
      \/ c = <<ClientItem("text", i)>>
  BY DEF Content
<1> HIDE DEF c
<1>4. ASSUME NEW x, c = <<x>>
      PROVE  m = 1 /\ c[m] = x
  BY <1>2, <1>4
<1>5. c # <<>>
  BY <1>2
<1>6. CASE c = <<ClientItem("call", i)>> /\ kinds[i] = "calls"
  <2> DEFINE x == ClientItem("call", i)
  <2>1. x.is = "call" /\ x.of = i /\ c = <<x>>
    BY <1>6 DEF ClientItem
  <2> HIDE DEF x
  <2>2. m = 1 /\ c[m] = x
    BY <1>4, <2>1
  <2>3. QED
    BY <1>2, <1>6, <2>1, <2>2 DEF i
<1>7. CASE c = <<ClientItem("result", i)>> /\ kinds[i] = "tool"
  <2> DEFINE x == ClientItem("result", i)
  <2>1. x.is = "result" /\ x.of = i /\ c = <<x>>
    BY <1>7 DEF ClientItem
  <2> HIDE DEF x
  <2>2. m = 1 /\ c[m] = x
    BY <1>4, <2>1
  <2>3. QED
    BY <1>2, <1>7, <2>1, <2>2 DEF i
<1>8. CASE c = <<ClientItem("text", i)>>
  <2> DEFINE x == ClientItem("text", i)
  <2>1. x.is = "text" /\ c = <<x>>
    BY <1>8 DEF ClientItem
  <2> HIDE DEF x
  <2>2. m = 1 /\ c[m] = x
    BY <1>4, <2>1
  <2>3. QED
    BY <1>2, <2>1, <2>2
<1>9. QED
  BY <1>3, <1>5, <1>6, <1>7, <1>8

(* The turn of the next message answers the call before it, if that is     *)
(* open, or is itself the open call.                                       *)
LEMMA MapAppends ==
  ASSUME Base, Base', Said, Map, CallsAreAnswered, format # "openai",
         CallsIn(turns, Open(Read)), ResultsIn(turns), Greeted(turns),
         \A k \in Open(Read) : EndsWith(turns, k),
         kinds[Head(body)] # "system", ~(kinds[Head(body)] = "tool" /\ Joins(turns)),
         NEW t \in TurnsOf, t.role = Speaker(kinds[Head(body)]), t.items = Content(Head(body)),
         MoreBy(turns, t, turns')
  PROVE  /\ CallsIn(turns', {Head(body)}) /\ ResultsIn(turns') /\ Greeted(turns')
         /\ EndsWith(turns', Head(body))
<1> DEFINE i == Head(body)
           top == Len(turns)
<1>1. turns \in Seq(TurnsOf) /\ turns' \in Seq(TurnsOf) /\ kinds \in Seq(Kinds)
  BY DEF Base, Shape
<1>2. /\ i \in DOMAIN kinds /\ kinds[i] # "system"
      /\ \A k : Follows(i, k) <=> k \in Open(Read)
      /\ \A k \in DOMAIN kinds : k < i /\ kinds[k] # "system" => k \in Read
  BY MapFollows
<1>3. /\ top \in Nat /\ Len(turns') = top + 1 /\ turns'[top + 1] = t
      /\ \A n \in 1..top : turns'[n] = turns[n]
  BY <1>1 DEF MoreBy
<1>4. DOMAIN turns = 1..top /\ DOMAIN turns' = 1..(top + 1)
  BY <1>1, <1>3
<1>5. \A n \in 1..(top + 1) : n \in 1..top \/ n = top + 1
  BY <1>3
<1>6. \A n \in 1..top : n + 1 \in 1..(top + 1)
  BY <1>3
<1>7. \A m \in DOMAIN t.items :
        /\ m = 1
        /\ t.items[m].is = "call" => kinds[i] = "calls" /\ t.items[m].of = i
        /\ t.items[m].is = "result" => kinds[i] = "tool" /\ t.items[m].of = i
  BY NextTurn
<1>8. t.items = Content(i) /\ t.role = Speaker(kinds[i])
  OBVIOUS
<1>9. i \in Nat /\ DOMAIN kinds = 1..Len(kinds)
  BY <1>1, <1>2
<1> DEFINE MyTool == kinds[i] = "tool"
<1>10. MyTool => \E k \in DOMAIN kinds :
         /\ Follows(i, k) /\ Answers(i, k) /\ turns # <<>>
         /\ Last(turns) = Turn("assistant", <<ClientItem("call", k)>>)
  BY ToolFinds
<1> HIDE DEF i
<1>11. kinds[i] = "tool" => t.role = "user" /\ t.items = <<ClientItem("result", i)>>
  BY <1>8 DEF Content, Speaker
<1>12. kinds[i] = "calls" => t.role = "assistant" /\ t.items = <<ClientItem("call", i)>>
  BY <1>8 DEF Content, Speaker, Role
<1> HIDE DEF top
<1>13. CallsIn(turns', {i})
  <2>1. ASSUME NEW n \in 1..top, NEW m \in DOMAIN turns[n].items, turns[n].items[m].is = "call"
        PROVE  Answered(turns', n, turns[n].items[m].of)
    <3> DEFINE c == turns[n].items[m].of
    <3>1. Answered(turns, n, c) \/ (n = top /\ c \in Open(Read))
      BY <1>4, <2>1 DEF CallsIn, top
    <3>2. c \in DOMAIN kinds /\ kinds[c] = "calls"
      <4>1. turns[n] \in TurnsOf /\ n \in 1..Len(turns)
        BY <1>1 DEF top
      <4>2. m \in 1..Len(turns[n].items)
        BY <4>1 DEF TurnsOf
      <4>3. c \in Read /\ kinds[c] = "calls"
        BY <2>1, <4>1, <4>2, TurnSays DEF Said
      <4>4. QED
        BY <4>3 DEF Read
    <3> HIDE DEF c
    <3>3. CASE Answered(turns, n, c)
      <4>1. n + 1 \in 1..top /\ n < top + 1
        BY <1>3, <3>3 DEF Answered, top
      <4>2. turns'[n + 1] = turns[n + 1]
        BY <1>3, <4>1
      <4>3. Answered(turns', n, c)
        BY <1>3, <3>3, <4>1, <4>2 DEF Answered
      <4>4. QED
        BY <4>3 DEF c
    <3>4. CASE n = top /\ c \in Open(Read)
      <4>1. Follows(i, c)
        BY <1>2, <3>4
      <4>2. PICK k \in DOMAIN kinds : Follows(k, c) /\ kinds[k] = "tool"
        BY <3>2 DEF CallsAreAnswered
      <4>3. k = i
        BY <1>1, <4>1, <4>2, FollowsOne
      <4>4. Answers(i, c)
        BY <1>1, <1>2, <3>2, <4>1, <4>2, <4>3, AnswersIs
      <4>5. turns'[n + 1].items = <<ClientItem("result", i)>>
        BY <1>3, <1>11, <3>4, <4>2, <4>3
      <4> DEFINE x == ClientItem("result", i)
                 s == turns'[n + 1].items
      <4>6. s = <<x>>
        BY <4>5
      <4> HIDE DEF x, s
      <4>7. s # <<>> /\ Head(s) = x
        BY <4>6
      <4>8. n < Len(turns')
        BY <1>3, <3>4
      <4>9. Answered(turns', n, c)
        BY <1>2, <4>4, <4>7, <4>8 DEF Answered, x, s
      <4>10. QED
        BY <4>9 DEF c
    <3>5. QED
      BY <3>1, <3>3, <3>4
  <2>2. ASSUME NEW n \in DOMAIN turns', NEW m \in DOMAIN turns'[n].items,
               turns'[n].items[m].is = "call"
        PROVE  \/ Answered(turns', n, turns'[n].items[m].of)
               \/ n = Len(turns') /\ turns'[n].items[m].of \in {i}
    <3>1. n \in 1..top \/ n = top + 1
      BY <1>4, <1>5
    <3>2. CASE n \in 1..top
      BY <1>3, <2>1, <2>2, <3>2
    <3>3. CASE n = top + 1
      BY <1>3, <1>7, <2>2, <3>3
    <3>4. QED
      BY <3>1, <3>2, <3>3
  <2>3. QED
    BY <2>2 DEF CallsIn
<1>14. ResultsIn(turns')
  <2> SUFFICES ASSUME NEW n \in DOMAIN turns', NEW m \in DOMAIN turns'[n].items,
                      turns'[n].items[m].is = "result"
               PROVE  /\ m = 1 \/ turns'[n].items[m - 1].is = "result"
                      /\ n > 1
                      /\ \E c \in DOMAIN kinds :
                           /\ Answers(turns'[n].items[m].of, c)
                           /\ turns'[n - 1].items = <<ClientItem("call", c)>>
    BY DEF ResultsIn
  <2>1. CASE n \in 1..top
    <3>1. turns'[n] = turns[n] /\ n \in DOMAIN turns
      BY <1>3, <1>4, <2>1
    <3>2. /\ m = 1 \/ turns[n].items[m - 1].is = "result"
          /\ n > 1
          /\ \E c \in DOMAIN kinds :
               /\ Answers(turns[n].items[m].of, c)
               /\ turns[n - 1].items = <<ClientItem("call", c)>>
      BY <3>1 DEF ResultsIn
    <3>3. n - 1 \in 1..top
      BY <1>3, <2>1, <3>2
    <3>4. turns'[n - 1] = turns[n - 1]
      BY <1>3, <3>3
    <3>5. QED
      BY <3>1, <3>2, <3>4
  <2>2. CASE n = top + 1
    <3>1. turns'[n] = t
      BY <1>3, <2>2
    <3>2. m = 1 /\ kinds[i] = "tool" /\ t.items[m].of = i
      BY <1>7, <3>1
    <3>3. PICK k \in DOMAIN kinds :
            /\ Answers(i, k) /\ turns # <<>>
            /\ Last(turns) = Turn("assistant", <<ClientItem("call", k)>>)
      BY <1>10, <3>2 DEF i
    <3>4. top \in 1..top
      BY <1>1, <3>3 DEF top
    <3>5. turns'[top] = Turn("assistant", <<ClientItem("call", k)>>)
      BY <1>3, <3>3, <3>4 DEF Last, top
    <3>6. turns'[top].items = <<ClientItem("call", k)>>
      BY <3>5 DEF Turn
    <3>7. n - 1 = top /\ n > 1
      BY <1>3, <2>2, <3>4
    <3>8. QED
      BY <3>1, <3>2, <3>3, <3>6, <3>7
  <2>3. QED
    BY <1>4, <1>5, <2>1, <2>2
<1>15. Greeted(turns')
  <2> SUFFICES ASSUME NEW n \in DOMAIN turns', NEW m \in DOMAIN turns'[n].items,
                      turns'[n].items[m].is = "call"
               PROVE  \E k \in 1..(n - 1) : turns'[k].role = "user"
    BY DEF Greeted
  <2>1. CASE n \in 1..top
    <3>1. turns'[n] = turns[n] /\ n \in DOMAIN turns
      BY <1>3, <1>4, <2>1
    <3>2. PICK k \in 1..(n - 1) : turns[k].role = "user"
      BY <3>1 DEF Greeted
    <3>3. k \in 1..top
      BY <1>3, <2>1
    <3>4. QED
      BY <1>3, <3>2, <3>3
  <2>2. CASE n = top + 1
    <3>1. kinds[i] = "calls"
      BY <1>3, <1>7, <2>2
    <3>2. PICK k \in 1..(i - 1) : kinds[k] \in {"user", "blank"}
      BY <1>2, <3>1 DEF CallsAreAnswered
    <3>3. k \in DOMAIN kinds /\ k < i
      <4>1. i \in 1..Len(kinds) /\ Len(kinds) \in Nat
        BY <1>1, <1>2, <1>9
      <4>2. QED
        BY <1>9, <4>1
    <3>4. k \in Read
      BY <1>2, <3>2, <3>3
    <3>5. HasUser
      BY <3>2, <3>4 DEF Said, UserTurn, Map
    <3>6. PICK a \in 1..top : turns[a].role = "user"
      BY <1>4, <3>5 DEF HasUser
    <3>7. a \in 1..(n - 1)
      BY <1>3, <2>2
    <3>8. QED
      BY <1>3, <3>6, <3>7
  <2>3. QED
    BY <1>4, <1>5, <2>1, <2>2
<1>16. EndsWith(turns', i)
  <2>1. turns' # <<>> /\ Last(turns') = t
    BY <1>1, <1>3 DEF Last
  <2>2. kinds[i] = "calls" => Last(turns') = Turn("assistant", <<ClientItem("call", i)>>)
    <3>1. t = [role |-> t.role, items |-> t.items]
      BY DEF TurnsOf
    <3>2. QED
      BY <1>12, <2>1, <3>1 DEF Turn
  <2>3. ASSUME kinds[i] = "tool"
        PROVE  /\ t.role = "user" /\ t.items # <<>>
               /\ Head(t.items).is = "result" /\ Last(t.items) = ClientItem("result", i)
    <3> DEFINE x == ClientItem("result", i)
    <3>1. t.items = <<x>> /\ t.role = "user"
      BY <1>11, <2>3
    <3>2. x.is = "result"
      BY DEF ClientItem
    <3> HIDE DEF x
    <3>3. t.items # <<>> /\ Head(t.items) = x /\ Last(t.items) = x
      BY <3>1 DEF Last
    <3>4. QED
      BY <3>1, <3>2, <3>3 DEF x
  <2>4. QED
    BY <2>1, <2>2, <2>3 DEF EndsWith
<1>17. QED
  BY <1>13, <1>14, <1>15, <1>16 DEF i

(* Reading a message keeps calls and results together.                     *)
LEMMA MapCalls == Base /\ Base' /\ Frozen /\ Said /\ Calls /\ Map => Calls'
<1> SUFFICES ASSUME Base, Base', Frozen, Said, Calls, Map, format # "openai", CallsAreAnswered
             PROVE  CallsAt(stage', turns', Read')
  BY PrimedCalls
<1> DEFINE i == Head(body)
<1>1. stage = "mapping" /\ stage' = stage
  BY DEF Map
<1>2. /\ CallsIn(turns, Open(Read)) /\ ResultsIn(turns) /\ Greeted(turns)
      /\ \A k \in Open(Read) : EndsWith(turns, k)
  BY <1>1 DEF Calls, CallsAt
<1>3. /\ kinds[i] = "system" => Open(Read') = Open(Read)
      /\ kinds[i] # "system" => Open(Read') = {i}
  BY MapFollows
<1>4. CASE kinds[i] = "system" /\ turns' = turns
  BY <1>1, <1>2, <1>3, <1>4 DEF CallsAt
<1>5. ASSUME kinds[i] # "system", CallsIn(turns', {i}), ResultsIn(turns'), Greeted(turns'),
             EndsWith(turns', i)
      PROVE  CallsAt(stage', turns', Read')
  <2> HIDE DEF i
  <2>1. Open(Read') = {i}
    BY <1>3, <1>5
  <2>2. QED
    BY <1>1, <1>5, <2>1 DEF CallsAt
<1>6. CASE /\ kinds[i] = "tool" /\ Joins(turns)
           /\ turns' = AddTo(turns, Len(turns), Content(i))
  <2>1. CallsIn(turns', {}) /\ ResultsIn(turns') /\ Greeted(turns') /\ EndsWith(turns', i)
    BY <1>2, <1>6, MapJoins
  <2>2. CallsIn(turns', {i})
    BY <2>1 DEF CallsIn
  <2>3. QED
    BY <1>5, <1>6, <2>1, <2>2
<1>7. ASSUME NEW t \in TurnsOf, t.role = Speaker(kinds[i]), t.items = Content(i),
             kinds[i] # "system", ~(kinds[i] = "tool" /\ Joins(turns)),
             turns' = InsertAt(turns, Len(turns) + 1, t)
      PROVE  CallsAt(stage', turns', Read')
  <2>1. MoreBy(turns, t, turns')
    BY <1>7, MapMore
  <2>2. CallsIn(turns', {i}) /\ ResultsIn(turns') /\ Greeted(turns') /\ EndsWith(turns', i)
    BY <1>2, <1>7, <2>1, MapAppends
  <2>3. QED
    BY <1>5, <1>7, <2>2
<1>8. QED
  BY <1>4, <1>6, <1>7, MapIs

(* Nothing has been mapped yet.                                            *)
LEMMA NoTurns ==
  ASSUME NEW pass, NEW read, pass = "mapping" => \A k \in read : kinds[k] = "system"
  PROVE  CallsAt(pass, <<>>, read)
<1> DEFINE ts == <<>>
<1>1. DOMAIN ts = {}
  OBVIOUS
<1> HIDE DEF ts
<1>2. \A open : CallsIn(ts, open)
  BY <1>1 DEF CallsIn
<1>3. ResultsIn(ts) /\ Greeted(ts)
  BY <1>1 DEF ResultsIn, Greeted
<1>4. pass = "mapping" => Open(read) = {}
  BY DEF Open
<1>5. CallsAt(pass, ts, read)
  BY <1>2, <1>3, <1>4 DEF CallsAt
<1>6. QED
  BY <1>5 DEF ts

(* Before the first message is mapped there are no turns.                  *)
LEMMA EarlyCalls == Base /\ Base' /\ Frozen /\ Said /\ (Assemble \/ Hoist) => Calls'
<1> SUFFICES ASSUME Base, Base', Frozen, Said, Assemble \/ Hoist
             PROVE  CallsAt(stage', turns', Read')
  BY PrimedCalls
<1>1. turns' = <<>>
  BY DEF Assemble, Hoist, Base, Progress
<1>2. stage' = "mapping" => \A k \in Read' : kinds[k] = "system"
  <2>1. CASE Assemble
    BY <2>1 DEF Assemble
  <2>2. CASE Hoist
    BY <2>2, HoistedItems
  <2>3. QED
    BY <2>1, <2>2
<1>3. QED
  BY <1>1, <1>2, NoTurns

(* The last call has been answered when there are no more messages.        *)
LEMMA MappedCalls == Base /\ Base' /\ Frozen /\ Said /\ Calls /\ Mapped => Calls'
<1> SUFFICES ASSUME Base, Base', Frozen, Said, Calls, Mapped, format # "openai", CallsAreAnswered
             PROVE  CallsAt(stage', turns', Read')
  BY PrimedCalls
<1>1. stage = "mapping" /\ stage' = "hoisted" /\ turns' = turns /\ body = <<>>
  BY DEF Mapped
<1>2. CallsIn(turns, Open(Read)) /\ ResultsIn(turns) /\ Greeted(turns)
  BY <1>1 DEF Calls, CallsAt
<1>3. kinds \in Seq(Kinds) /\ turns \in Seq(TurnsOf)
  BY DEF Base, Shape
<1>4. \A i \in DOMAIN kinds : kinds[i] # "system" => i \in Read
  BY <1>1, AllRead
<1>5. CallsIn(turns, {})
  <2>1. ASSUME NEW n \in DOMAIN turns, NEW m \in DOMAIN turns[n].items,
               turns[n].items[m].is = "call"
        PROVE  Answered(turns, n, turns[n].items[m].of)
    <3> DEFINE c == turns[n].items[m].of
    <3>1. turns[n] \in TurnsOf /\ n \in 1..Len(turns)
      <4>1. DOMAIN turns = 1..Len(turns)
        BY <1>3
      <4>2. QED
        BY <1>3, <4>1
    <3>2. m \in 1..Len(turns[n].items)
      BY <3>1 DEF TurnsOf
    <3>3. c \in Read /\ kinds[c] = "calls"
      BY <2>1, <3>1, <3>2, TurnSays DEF Said
    <3>4. c \notin Open(Read)
      <4>1. PICK i \in DOMAIN kinds : Follows(i, c)
        BY <3>3 DEF CallsAreAnswered, Read
      <4>2. i \in Read /\ kinds[i] # "system" /\ i > c
        BY <1>3, <1>4, <4>1 DEF Follows, Spoken
      <4>3. QED
        BY <4>2 DEF Open
    <3>5. QED
      BY <1>2, <2>1, <3>4 DEF CallsIn
  <2>2. QED
    BY <2>1 DEF CallsIn
<1>6. QED
  BY <1>1, <1>2, <1>5 DEF CallsAt

(* The passes that only go on to the next one.                             *)
LEMMA GoOnCalls ==
  Base /\ Base' /\ Frozen /\ Calls /\ (Absorbed \/ Placed \/ Finish \/ UNCHANGED vars) => Calls'
<1> SUFFICES ASSUME Base, Base', Frozen, Calls, Absorbed \/ Placed \/ Finish \/ UNCHANGED vars,
                    format # "openai", CallsAreAnswered
             PROVE  CallsAt(stage', turns', Read')
  BY PrimedCalls
<1>1. turns' = turns /\ Read' = Read /\ CallsAt(stage, turns, Read)
  <2>1. Read' = Read
    BY SameRead DEF Absorbed, Placed, Finish, vars
  <2>2. QED
    BY <2>1 DEF Absorbed, Placed, Finish, vars, Calls
<1>2. \/ stage' = stage
      \/ stage # "mapping" /\ stage' \notin {"mapping", "hoisted"}
  BY DEF Absorbed, Placed, Finish, vars
<1>3. QED
  BY <1>1, <1>2 DEF CallsAt

LEMMA InitCalls == PromptInit => Calls
<1> SUFFICES ASSUME PromptInit PROVE CallsAt(stage, turns, Read)
  BY DEF Calls
<1>1. stage = "received" /\ turns = <<>>
  BY DEF PromptInit
<1>2. QED
  BY <1>1, NoTurns

(* Calls is an invariant.                                                  *)
LEMMA NextCalls == Base /\ Said /\ Calls /\ [Next]_vars => Calls'
<1> SUFFICES ASSUME Base, Said, Calls, [Next]_vars PROVE Calls'
  OBVIOUS
<1>1. Base' /\ Frozen
  BY NextBase, NextFrozen
<1>2. CASE MergePrepended \/ Splice \/ Append1
  <2>1. format = "openai"
    BY <1>2 DEF MergePrepended, Splice, Append1
  <2>2. QED
    BY <1>1, <2>1, PrimedCalls
<1>3. QED
  BY <1>1, <1>2, EarlyCalls, MapCalls, MappedCalls, AbsorbCalls, GoOnCalls, PlaceCalls,
     StripCalls, DropCalls DEF Next

-----------------------------------------------------------------------------
(* Places, At and PlacesOf are those of the prompt in the model.           *)
LEMMA PlacesAre ==
  ASSUME Base
  PROVE  /\ Places = PlacesIn(system, turns)
         /\ \A p \in Places : At(p) = ItemAt(system, turns, p)
         /\ \A x, p : p \in PlacesOf(x) <=>
                        p \in PlacesIn(system, turns) /\ ItemAt(system, turns, p) = x
<1>1. system \in Seq(Items) /\ turns \in Seq(TurnsOf)
  BY DEF Base, Shape
<1>2. \A n : Part(n) = PartOf(system, turns, n)
  BY DEF Part, PartOf
<1>3. ASSUME NEW n \in 0..Len(turns)
      PROVE  DOMAIN Part(n) = 1..Len(PartOf(system, turns, n)) /\ DOMAIN Part(n) \subseteq Nat
  <2> DEFINE s == PartOf(system, turns, n)
  <2>1. s \in Seq(Items)
    BY <1>1, PartIs
  <2>2. Part(n) = s
    BY <1>2
  <2> HIDE DEF s
  <2>3. DOMAIN s = 1..Len(s) /\ Len(s) \in Nat
    BY <2>1
  <2>4. QED
    BY <2>2, <2>3 DEF s
<1>4. Places = PlacesIn(system, turns)
  <2>1. ASSUME NEW p \in Places
        PROVE  p \in PlacesIn(system, turns)
    <3>1. PICK n \in 0..Len(turns) : p \in {n} \X DOMAIN Part(n)
      BY DEF Places
    <3> DEFINE m == p[2]
    <3>2. m \in DOMAIN Part(n) /\ p = <<n, m>> /\ p[1] = n
      BY <3>1
    <3>3. m \in Nat /\ m \in 1..Len(PartOf(system, turns, n))
      BY <1>3, <3>2
    <3> HIDE DEF m
    <3>4. p \in (0..Len(turns)) \X Nat
      BY <3>2, <3>3
    <3>5. QED
      BY <3>2, <3>3, <3>4 DEF PlacesIn, m
  <2>2. ASSUME NEW p \in PlacesIn(system, turns)
        PROVE  p \in Places
    <3> DEFINE n == p[1]
               m == p[2]
    <3>1. n \in 0..Len(turns) /\ p = <<n, m>> /\ m \in 1..Len(PartOf(system, turns, n))
      BY <1>1, PlaceIs
    <3> HIDE DEF n, m
    <3>2. m \in DOMAIN Part(n)
      BY <1>3, <3>1
    <3>3. p \in {n} \X DOMAIN Part(n)
      BY <3>1, <3>2
    <3>4. QED
      BY <3>1, <3>3 DEF Places
  <2>3. QED
    BY <2>1, <2>2
<1>5. \A p \in Places : At(p) = ItemAt(system, turns, p)
  BY <1>2 DEF At, ItemAt
<1>6. QED
  BY <1>4, <1>5 DEF PlacesOf

Inv == Base /\ Said /\ Deep /\ Calls

(* Every step of the assembly keeps the prompt consistent: what is in it,  *)
(* in which order, who says it, at which depth, and calls with results.    *)
THEOREM PromptIsConsistent == PromptSpec => []Inv
<1>1. PromptInit => Inv
  BY InitBase, InitSaid, InitDeep, InitCalls DEF Inv
<1>2. Inv /\ [Next]_vars => Inv'
  BY NextBase, NextSaid, NextDeep, NextCalls DEF Inv
<1>3. QED
  BY <1>1, <1>2, PTL DEF PromptSpec

(* orderInjections, spliceInjections, placeInjections: every block that is *)
(* tagged depth-injection is in the request once, and not as the model's.  *)
THEOREM EveryInjectionArrives == PromptSpec => []InjectionsReachTheModel
<1>1. Inv => InjectionsReachTheModel
  <2> SUFFICES ASSUME Inv, Sent, format = "openai" \/ UserSpeaks, NEW j \in DOMAIN injs
               PROVE  \E p \in Places : /\ PlacesOf(InjItem(j)) = {p}
                                        /\ p[1] # 0 /\ turns[p[1]].role # "assistant"
    BY DEF InjectionsReachTheModel
  <2> DEFINE x == InjItem(j)
  <2>1. /\ Base /\ system \in Seq(Items) /\ turns \in Seq(TurnsOf) /\ todo = {}
        /\ injs \in Seq(Injections)
    BY DEF Inv, Base, Shape, Progress, Sent
  <2>2. Clean /\ Distinct(system, turns) /\ Speakers /\ Reached
    BY DEF Inv, Said
  <2>3. x.from = "injection"
    BY DEF InjItem
  <2>4. Has(system, turns, x)
    BY <2>1, <2>2 DEF Reached, Done
  <2> HIDE DEF x
  <2>5. PICK p \in PlacesIn(system, turns) : ItemAt(system, turns, p) = x
    BY <2>4 DEF Has
  <2>6. \A q \in PlacesIn(system, turns) : ItemAt(system, turns, q) = x => q = p
    BY <2>2, <2>3, <2>5 DEF Distinct
  <2>7. PlacesOf(x) = {p} /\ p \in Places
    BY <2>1, <2>5, <2>6, PlacesAre
  <2> DEFINE n == p[1]
             m == p[2]
  <2>8. n \in 0..Len(turns) /\ m \in 1..Len(PartOf(system, turns, n)) /\ PartOf(system, turns, n)[m] = x
    BY <2>1, <2>5, PlaceIs
  <2> HIDE DEF n, m
  <2>9. n # 0
    <3>1. ASSUME n = 0
          PROVE  FALSE
      <4>1. m \in 1..Len(system) /\ system[m] = x
        BY <2>8, <3>1 DEF PartOf
      <4>2. m \in DOMAIN system
        BY <2>1, <4>1
      <4>3. QED
        BY <2>2, <2>3, <4>1, <4>2 DEF Clean
    <3>2. QED
      BY <3>1
  <2>10. turns[n].role # "assistant"
    <3>1. n \in DOMAIN turns /\ turns[n] \in TurnsOf
      BY <2>1, <2>8, <2>9
    <3>2. turns[n].items \in Seq(Items)
      BY <3>1 DEF TurnsOf
    <3>3. m \in DOMAIN turns[n].items /\ turns[n].items[m] = x
      BY <2>8, <2>9, <3>2 DEF PartOf
    <3>4. Fits(turns[n])
      BY <2>2, <3>1 DEF Speakers
    <3>5. QED
      BY <2>3, <3>3, <3>4 DEF Fits
  <2>11. QED
    BY <2>7, <2>9, <2>10 DEF n, x
<1>2. QED
  BY <1>1, PromptIsConsistent, PTL

(* spliceInjections of openai.ts and placeInjections of the other two:     *)
(* blocks are at their depth and the deeper ones first, for any number.    *)
THEOREM DepthsAreHonoured == PromptSpec => []InjectionsHonourDepth
<1>1. Inv => InjectionsHonourDepth
  <2> SUFFICES ASSUME Inv, stage = "mapped", NEW j \in DOMAIN injs, NEW p \in PlacesOf(InjItem(j))
               PROVE  /\ IF format = "openai"
                         THEN Cardinality(Following(p[1])) =
                                (IF placed.length > injs[j].depth THEN injs[j].depth
                                 ELSE placed.length)
                         ELSE /\ p[1] <= Asked(injs[j].depth)
                              /\ \A n \in (p[1] + 1)..Asked(injs[j].depth) :
                                   turns[n].role = "assistant"
                      /\ \A i \in DOMAIN injs :
                           \/ injs[i].depth > injs[j].depth
                           \/ injs[i].depth = injs[j].depth /\ injs[i].order > injs[j].order
                           => \A q \in PlacesOf(InjItem(i)) : Precedes(q, p)
    BY DEF InjectionsHonourDepth
  <2> DEFINE depth == injs[j].depth
             length == placed.length
  <2>1. Base /\ injs \in Seq(Injections) /\ placed \in [count : Nat, length : Nat]
    BY DEF Inv, Base, Shape
  <2>2. BlocksAt(system, turns, placed) /\ InTurn(system, turns)
    BY DEF Inv, Deep, AtDepth, Depths
  <2>3. p \in PlacesIn(system, turns) /\ ItemAt(system, turns, p) = InjItem(j)
    BY <2>1, PlacesAre
  <2>4. IsAt(turns, placed, p, depth)
    BY <2>2, <2>3 DEF BlocksAt
  <2>5. depth \in Nat /\ length \in Nat
    BY <2>1, DepthIs
  <2>6. Following(p[1]) = FollowingIn(turns, p[1]) /\ Asked(depth) = AskedIn(Len(turns), depth)
    BY DEF Following, FollowingIn, Asked, AskedIn
  <2>7. length - DueIn(length, depth) = IF length > depth THEN depth ELSE length
    <3> HIDE DEF depth, length
    <3>1. QED
      BY <2>5 DEF DueIn
  <2>8. ASSUME NEW i \in DOMAIN injs,
               \/ injs[i].depth > injs[j].depth
               \/ injs[i].depth = injs[j].depth /\ injs[i].order > injs[j].order,
               NEW q \in PlacesOf(InjItem(i))
        PROVE  Precedes(q, p)
    <3>1. Before(i, j)
      BY <2>8 DEF Before
    <3>2. q \in PlacesIn(system, turns) /\ ItemAt(system, turns, q) = InjItem(i)
      BY <2>1, PlacesAre
    <3>3. QED
      BY <2>2, <2>3, <3>1, <3>2 DEF InTurn
  <2>9. QED
    BY <2>4, <2>6, <2>7, <2>8 DEF IsAt
<1>2. QED
  BY <1>1, PromptIsConsistent, PTL

(* mapMessages, hoistedSystem, absorbLeadingAssistant, stripEmpty,         *)
(* assembleRichPreset and the removal of the card in handleChat: for any   *)
(* history and any number of blocks the passes double and reorder no text  *)
(* of the client's, and lose none but the assistant's that Anthropic drops *)
(* behind the user's last turn, and a card that was made a depth-injection *)
(* of a history in which the user has no turn.                             *)
THEOREM NoTextIsLost == PromptSpec => []ClientTextKept
<1>1. Inv => ClientTextKept
  <2> DEFINE Here(k) == PlacesOf(ClientItem("text", k))
             Card(k) == {i \in DOMAIN injs : injs[i].card /\ IsCard(k)}
             Deeper(k) == UNION {PlacesOf(InjItem(j)) : j \in Card(k)}
  <2> SUFFICES ASSUME Inv, Sent, NEW k \in DOMAIN kinds, SaidByClient(k)
               PROVE  /\ \A p, q \in TextPlaces(k) : p = q
                      /\ TextPlaces(k) = {} =>
                           \/ Prefill(k)
                           \/ format # "openai" /\ IsCard(k) /\ Injected /\ ~UserSpeaks
                      /\ kinds[k] # "system" =>
                           \A later \in (k + 1)..Len(kinds) :
                             kinds[later] \in {"user", "assistant"} =>
                               \A p \in TextPlaces(k), q \in TextPlaces(later) : Precedes(p, q)
    BY DEF ClientTextKept, Prefill
  <2>1. /\ Base /\ Shape /\ kinds \in Seq(Kinds) /\ body = <<>> /\ append = <<>> /\ OneCard
        /\ stage = "sent" /\ stage \in Converting /\ Done = DOMAIN injs
        /\ injs \in Seq(Injections)
    BY DEF Inv, Base, Shape, Progress, Appended, Sent, Converting, Done
  <2>2. /\ Known /\ Distinct(system, turns) /\ Sorted(system, turns) /\ Kept /\ Reached
    BY DEF Inv, Said
  <2>3. /\ \A i : \A p \in Here(i) :
             p \in PlacesIn(system, turns) /\ ItemAt(system, turns, p) = ClientItem("text", i)
        /\ \A i : Has(system, turns, ClientItem("text", i)) <=> Here(i) # {}
        /\ \A j : \A p \in PlacesOf(InjItem(j)) :
             p \in PlacesIn(system, turns) /\ ItemAt(system, turns, p) = InjItem(j)
        /\ \A j : Has(system, turns, InjItem(j)) => PlacesOf(InjItem(j)) # {}
    BY <2>1, PlacesAre DEF Has
  <2>4. \A i : /\ ClientItem("text", i).from = "client" /\ ClientItem("text", i).of = i
               /\ InjItem(i).from = "injection"
    BY DEF ClientItem, InjItem
  <2>5. \A i : TextPlaces(i) = Here(i) \cup Deeper(i)
    BY DEF TextPlaces
  <2>6. \A i : ~(Injected /\ IsCard(i)) => Card(i) = {} /\ TextPlaces(i) = Here(i)
    <3>1. ASSUME NEW i, ~(Injected /\ IsCard(i))
          PROVE  Card(i) = {}
      BY <3>1 DEF Injected
    <3>2. \A i : Card(i) = {} => Deeper(i) = {}
      OBVIOUS
    <3>3. QED
      BY <2>5, <3>1, <3>2
  <2>7. ASSUME ~(Injected /\ IsCard(k))
        PROVE  /\ \A p, q \in Here(k) : p = q
               /\ Here(k) = {} => Prefill(k)
    <3>1. \A p, q \in Here(k) : p = q
      BY <2>2, <2>3, <2>4 DEF Distinct
    <3>2. k \in Read
      <4>1. k \notin Held
        BY <2>1, <2>7, HeldIs DEF Held
      <4>2. QED
        BY <2>1, <4>1, AllRead
    <3>3. Has(system, turns, Word(k)) \/ Prefill(k)
      BY <2>1, <2>2, <3>2 DEF Kept, SaidByClient
    <3>4. Word(k) = ClientItem("text", k)
      BY <2>1, WordIs DEF SaidByClient
    <3>5. QED
      BY <2>3, <3>1, <3>3, <3>4
  <2>8. ASSUME Injected, IsCard(k)
        PROVE  /\ \A p, q \in TextPlaces(k) : p = q
               /\ TextPlaces(k) = {} => format # "openai" /\ ~UserSpeaks
    <3>1. PICK j \in DOMAIN injs : injs[j].card
      BY <2>8 DEF Injected
    <3>2. Card(k) = {j}
      BY <2>1, <2>8, <3>1 DEF OneCard
    <3>3. Deeper(k) = PlacesOf(InjItem(j))
      BY <3>2
    <3>4. Here(k) = {}
      <4>1. k \notin Read /\ kinds[k] = "system"
        BY <2>1, <2>8, HeldIs DEF IsCard
      <4>2. ~Has(system, turns, Word(k))
        BY <2>1, <2>2, <4>1, Unread
      <4>3. Word(k) = ClientItem("text", k)
        BY <2>1, <4>1, WordIs
      <4>4. QED
        BY <2>3, <4>2, <4>3
    <3>5. TextPlaces(k) = PlacesOf(InjItem(j))
      BY <2>5, <3>3, <3>4
    <3>6. \A p, q \in PlacesOf(InjItem(j)) : p = q
      BY <2>2, <2>3, <2>4 DEF Distinct
    <3>7. format = "openai" \/ UserSpeaks => PlacesOf(InjItem(j)) # {}
      BY <2>1, <2>2, <2>3, <3>1 DEF Reached
    <3>8. QED
      BY <3>5, <3>6, <3>7
  <2>9. ASSUME kinds[k] # "system", NEW later \in (k + 1)..Len(kinds),
               kinds[later] \in {"user", "assistant"},
               NEW p \in Here(k), NEW q \in Here(later)
        PROVE  Precedes(p, q)
    <3>1. k < later
      BY <2>1
    <3>2. ItemAt(system, turns, p) = ClientItem("text", k)
      BY <2>3
    <3>3. ItemAt(system, turns, q) = ClientItem("text", later)
      BY <2>3
    <3>4. Turning(ItemAt(system, turns, p)) /\ Turning(ItemAt(system, turns, q))
      BY <2>4, <2>9, <3>2, <3>3 DEF Turning
    <3>5. ItemAt(system, turns, p).of < ItemAt(system, turns, q).of
      BY <2>4, <3>1, <3>2, <3>3
    <3>6. p \in PlacesIn(system, turns) /\ q \in PlacesIn(system, turns)
      BY <2>3
    <3>7. QED
      BY <2>2, <3>4, <3>5, <3>6 DEF Sorted
  <2>10. \A i : kinds[i] # "system" => TextPlaces(i) = Here(i)
    BY <2>6 DEF IsCard
  <2> HIDE DEF Here, Card, Deeper
  <2>11. \A p, q \in TextPlaces(k) : p = q
    BY <2>6, <2>7, <2>8
  <2>12. TextPlaces(k) = {} =>
           \/ Prefill(k)
           \/ format # "openai" /\ IsCard(k) /\ Injected /\ ~UserSpeaks
    BY <2>6, <2>7, <2>8
  <2>13. kinds[k] # "system" =>
           \A later \in (k + 1)..Len(kinds) :
             kinds[later] \in {"user", "assistant"} =>
               \A p \in TextPlaces(k), q \in TextPlaces(later) : Precedes(p, q)
    BY <2>9, <2>10
  <2>14. QED
    BY <2>11, <2>12, <2>13
<1>2. QED
  BY <1>1, PromptIsConsistent, PTL

(* mapMessages joins the results of a round and places nothing between a   *)
(* call and its results, and no later pass takes one of them away.         *)
THEOREM CallsKeepTheirResults == PromptSpec => []ResultsFollowCalls
<1>1. Inv => ResultsFollowCalls
  <2> SUFFICES ASSUME Inv, Sent, format # "openai", CallsAreAnswered,
                      NEW n \in DOMAIN turns, NEW m \in DOMAIN turns[n].items
               PROVE  LET item == turns[n].items[m] IN
                      /\ item.is = "call" =>
                           \E i \in DOMAIN kinds :
                             /\ Answers(i, item.of)
                             /\ n < Len(turns) /\ Head(turns[n + 1].items) = ClientItem("result", i)
                      /\ item.is = "result" =>
                           /\ \E call \in DOMAIN kinds :
                                /\ Answers(item.of, call)
                                /\ n > 1 /\ Contains(turns[n - 1].items, ClientItem("call", call))
                           /\ m = 1 \/ turns[n].items[m - 1].is = "result"
    BY DEF ResultsFollowCalls
  <2>1. CallsIn(turns, {}) /\ ResultsIn(turns)
    BY DEF Inv, Calls, CallsAt, Sent
  <2>2. ASSUME turns[n].items[m].is = "call"
        PROVE  \E i \in DOMAIN kinds :
                 /\ Answers(i, turns[n].items[m].of)
                 /\ n < Len(turns) /\ Head(turns[n + 1].items) = ClientItem("result", i)
    <3>1. Answered(turns, n, turns[n].items[m].of)
      BY <2>1, <2>2 DEF CallsIn
    <3>2. QED
      BY <3>1 DEF Answered
  <2>3. ASSUME turns[n].items[m].is = "result"
        PROVE  /\ \E call \in DOMAIN kinds :
                    /\ Answers(turns[n].items[m].of, call)
                    /\ n > 1 /\ Contains(turns[n - 1].items, ClientItem("call", call))
               /\ m = 1 \/ turns[n].items[m - 1].is = "result"
    <3>1. PICK call \in DOMAIN kinds :
            /\ Answers(turns[n].items[m].of, call) /\ n > 1
            /\ turns[n - 1].items = <<ClientItem("call", call)>>
      BY <2>1, <2>3 DEF ResultsIn
    <3>2. \A x : Contains(<<x>>, x)
      <4>1. ASSUME NEW x
            PROVE  \E i \in 1..Len(<<x>>) : <<x>>[i] = x
        <5> DEFINE one == 1
        <5>1. one \in 1..Len(<<x>>) /\ <<x>>[one] = x
          OBVIOUS
        <5> HIDE DEF one
        <5>2. QED
          BY <5>1
      <4>2. QED
        BY <4>1 DEF Contains
    <3>3. QED
      BY <2>1, <2>3, <3>1, <3>2 DEF ResultsIn
  <2>4. QED
    BY <2>2, <2>3
<1>2. QED
  BY <1>1, PromptIsConsistent, PTL
=============================================================================
