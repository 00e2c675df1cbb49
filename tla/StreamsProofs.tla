--------------------------- MODULE StreamsProofs ---------------------------
(***************************************************************************)
(* Proofs about Streams and the scanner inside it (TagScanner), for any    *)
(* alphabet, tags, scripts, margin and cap, and answers of any length.     *)
(*                                                                         *)
(* A frame passes the stages before the next one is sent, so the proofs    *)
(* are about one walk of one frame: XPasses says what stage X does to the  *)
(* line (the stages and the client), Went what the whole way does to it,   *)
(* and Steps that every step of Next is a walk, the close of the stream    *)
(* or the client's leaving.  The invariants then look at Went alone.       *)
(*                                                                         *)
(* The scanner's loop and the scripts' replacements are recursive          *)
(* functions; what is said about them is by induction, as the lemmas       *)
(* Induction and RankInduction have it for sets.                           *)
(*                                                                         *)
(* That a text may be cut anywhere is shown for the scanner alone, from    *)
(* HitTurns to PushJoins: what one push leaves behind, with more text at   *)
(* its end, goes the same way as the whole text at once.  DriveJoins is    *)
(* that by induction over the turns of the loop: a turn that finds a tag   *)
(* does not care for what comes later, and one that finds none keeps all   *)
(* that a later tag may begin with.                                        *)
(***************************************************************************)
EXTENDS Streams, SequenceTheorems, WellFoundedInduction, TLAPS

-----------------------------------------------------------------------------
(* Numbers.  A set of naturals with a member has a least one, and so what  *)
(* holds of 0 and of every successor holds of all.                         *)
LEMMA LeastOf ==
  ASSUME NEW S, S \subseteq Nat, S # {}
  PROVE  \E n \in S : \A m \in S : n <= m
<1> DEFINE Less == OpToRel(<, Nat)
<1>1. IsWellFoundedOn(Less, Nat)
  BY NatLessThanWellFounded
<1> HIDE DEF Less
<1>2. PICK n \in S : \A m \in S : ~(<<m, n>> \in Less)
  BY <1>1, WFMin
<1>3. ASSUME NEW m \in S, m < n
      PROVE  <<m, n>> \in Less
  BY <1>3 DEF Less, OpToRel
<1>4. ASSUME NEW m \in S
      PROVE  n <= m
  <2>1. ~(m < n) /\ m \in Nat /\ n \in Nat
    BY <1>2, <1>3
  <2>2. QED
    BY <2>1
<1>5. QED
  BY <1>4

LEMMA Induction ==
  ASSUME NEW S, 0 \in S, \A n \in Nat : n \in S => n + 1 \in S
  PROVE  \A n \in Nat : n \in S
<1> DEFINE missing == {n \in Nat : n \notin S}
<1>1. ASSUME missing # {}
      PROVE  FALSE
  <2>1. missing \subseteq Nat
    OBVIOUS
  <2> HIDE DEF missing
  <2>2. PICK n \in missing : \A m \in missing : n <= m
    BY <1>1, <2>1, LeastOf
  <2>3. n \in Nat /\ n # 0 /\ n \notin S
    BY <2>2 DEF missing
  <2>4. n - 1 \in Nat /\ (n - 1) + 1 = n
    BY <2>3
  <2>5. n - 1 \notin S
    BY <2>3, <2>4
  <2>6. n - 1 \in missing
    BY <2>4, <2>5 DEF missing
  <2>7. n <= n - 1
    BY <2>2, <2>6
  <2>8. QED
    BY <2>3, <2>7
<1>2. QED
  BY <1>1

LEMMA GreatestOf ==
  ASSUME NEW S, S \subseteq Nat, S # {}, NEW b \in Nat, \A n \in S : n <= b
  PROVE  Max(S) \in S /\ \A n \in S : n <= Max(S)
<1> DEFINE above == {k \in Nat : \A n \in S : n <= k}
<1>1. above \subseteq Nat /\ b \in above
  OBVIOUS
<1>2. PICK k \in above : \A l \in above : k <= l
  BY <1>1, LeastOf
<1>3. k \in Nat /\ \A n \in S : n <= k
  OBVIOUS
<1>4. k \in S
  <2>1. SUFFICES ASSUME k \notin S
                 PROVE  FALSE
    OBVIOUS
  <2>2. \A n \in S : n <= k - 1
    BY <1>3, <2>1
  <2>3. k - 1 \in Nat
    <3>1. PICK n \in S : n <= k - 1
      BY <2>2
    <3>2. n \in Nat /\ k \in Nat
      BY <1>3
    <3>3. QED
      BY <3>1, <3>2
  <2>4. k - 1 \in above
    BY <2>2, <2>3
  <2> HIDE DEF above
  <2>5. QED
    BY <1>2, <1>3, <2>4
<1>5. QED
  BY <1>3, <1>4 DEF Max

(* Sequences of values, each made from the one before it.                  *)
Walks(N, G, base, next) ==
  {f \in [0..N -> G] : f[0] = base /\ \A i \in 1..N : f[i] = next[<<i, f[i - 1]>>]}

LEMMA Recursion ==
  ASSUME NEW N \in Nat, NEW G, NEW base \in G, NEW next \in [(1..N) \X G -> G]
  PROVE  \E f : f \in Walks(N, G, base, next)
<1> DEFINE Upto(n) == \E f \in [0..n -> G] :
                        f[0] = base /\ \A i \in 1..n : f[i] = next[<<i, f[i - 1]>>]
           good == {n \in Nat : n <= N => Upto(n)}
<1>1. Upto(0)
  <2>1. [i \in 0..0 |-> base] \in [0..0 -> G]
    OBVIOUS
  <2>2. 1..0 = {} /\ [i \in 0..0 |-> base][0] = base
    OBVIOUS
  <2>3. QED
    BY <2>1, <2>2
<1>2. ASSUME NEW n \in Nat, n + 1 <= N, Upto(n)
      PROVE  Upto(n + 1)
  <2>1. PICK f \in [0..n -> G] :
          f[0] = base /\ \A i \in 1..n : f[i] = next[<<i, f[i - 1]>>]
    BY <1>2
  <2> DEFINE g == [i \in 0..(n + 1) |-> IF i = n + 1 THEN next[<<n + 1, f[n]>>] ELSE f[i]]
  <2>2. next[<<n + 1, f[n]>>] \in G
    BY <1>2
  <2>3. g \in [0..(n + 1) -> G]
    BY <2>2
  <2>4. g[0] = base
    BY <2>1
  <2>5. ASSUME NEW i \in 1..(n + 1)
        PROVE  g[i] = next[<<i, g[i - 1]>>]
    <3>1. CASE i = n + 1
      <4>1. i - 1 = n /\ n \in 0..(n + 1) /\ i \in 0..(n + 1) /\ n # n + 1
        BY <3>1
      <4>2. g[i] = next[<<n + 1, f[n]>>] /\ g[n] = f[n]
        BY <3>1, <4>1
      <4>3. QED
        BY <3>1, <4>1, <4>2
    <3>2. CASE i # n + 1
      <4>1. i \in 1..n /\ i - 1 \in 0..n
        BY <3>2
      <4>2. QED
        BY <2>1, <4>1
    <3>3. QED
      BY <3>1, <3>2
  <2>6. QED
    BY <2>3, <2>4, <2>5
<1> HIDE DEF Upto
<1>3. 0 \in good
  BY <1>1
<1>4. ASSUME NEW n \in Nat, n \in good
      PROVE  n + 1 \in good
  BY <1>2, <1>4
<1>5. \A n \in Nat : n \in good
  <2> HIDE DEF good
  <2>1. QED
    BY <1>3, <1>4, Induction
<1>6. Upto(N)
  BY <1>5
<1>7. QED
  BY <1>6 DEF Upto, Walks

-----------------------------------------------------------------------------
(* The scanner.                                                            *)
TagLists == {pairs \in Seq([open : Text, close : Text, implicit : BOOLEAN]) :
               Unambiguous(pairs)}

Scanners(pairs) ==
  {s \in [phase : {"detecting", "outside", "inside", "discarding"}, buffer : Text,
          pair : 0..Len(pairs), out : Text, busy : BOOLEAN, gaveUp : BOOLEAN,
          flushed : BOOLEAN] :
     s.phase \in {"inside", "discarding"} => s.pair \in 1..Len(pairs)}

(* Tags are words of letters.                                              *)
LEMMA PairIs ==
  ASSUME NEW pairs \in TagLists, NEW p \in 1..Len(pairs)
  PROVE  /\ pairs[p].open \in Text /\ pairs[p].close \in Text
         /\ Len(pairs[p].open) \in Nat /\ Len(pairs[p].close) \in Nat
<1>1. pairs \in Seq([open : Text, close : Text, implicit : BOOLEAN])
  BY DEF TagLists
<1>2. pairs[p] \in [open : Text, close : Text, implicit : BOOLEAN]
  BY <1>1, ElementOfSeq
<1>3. QED
  BY <1>2 DEF Text

LEMMA TagsAre ==
  ASSUME NEW pairs \in TagLists, NEW t \in TagsOf(pairs)
  PROVE  /\ t.word \in Text /\ t.word # <<>> /\ Len(t.word) \in Nat \ {0}
         /\ t.kind \in {"open", "close"} /\ t.pair \in 1..Len(pairs)
<1>1. pairs \in Seq([open : Text, close : Text, implicit : BOOLEAN]) /\ Unambiguous(pairs)
  BY DEF TagLists
<1>2. t.word \in Text /\ t.kind \in {"open", "close"} /\ t.pair \in 1..Len(pairs)
  <2>1. DOMAIN pairs = 1..Len(pairs)
    BY <1>1
  <2>2. PICK p \in 1..Len(pairs) :
          \/ t = [word |-> pairs[p].open, kind |-> "open", pair |-> p]
          \/ t = [word |-> pairs[p].close, kind |-> "close", pair |-> p]
    BY <2>1 DEF TagsOf
  <2>3. QED
    BY <2>2, PairIs
<1>3. t.word # <<>>
  BY <1>1 DEF Unambiguous
<1>4. QED
  BY <1>2, <1>3 DEF Text

LEMMA CloseTagIs ==
  ASSUME NEW pairs \in TagLists, NEW s \in Scanners(pairs),
         s.phase \in {"inside", "discarding"}
  PROVE  CloseTag(s, pairs) \in TagsOf(pairs)
<1>1. s.pair \in 1..Len(pairs) /\ DOMAIN pairs = 1..Len(pairs)
  BY DEF Scanners, TagLists
<1>2. QED
  BY <1>1 DEF CloseTag, TagsOf

(* Pieces of a text.                                                       *)
LEMMA Pieces ==
  ASSUME NEW text \in Text, NEW m \in Nat, m >= 1, NEW n \in Nat, n <= Len(text)
  PROVE  /\ SubSeq(text, m, n) \in Text
         /\ Len(SubSeq(text, m, n)) = IF m <= n THEN n - m + 1 ELSE 0
BY DEF Text

LEMMA Joined ==
  ASSUME NEW a \in Text, NEW b \in Text
  PROVE  a \o b \in Text /\ Len(a \o b) = Len(a) + Len(b)
BY DEF Text

LEMMA LastOfIs ==
  ASSUME NEW text \in Text, NEW n \in Nat
  PROVE  /\ LastOf(text, n) \in Text
         /\ Len(LastOf(text, n)) = IF n >= Len(text) THEN Len(text) ELSE n
<1>1. Len(text) \in Nat
  BY DEF Text
<1>2. CASE n >= Len(text)
  BY <1>1, <1>2 DEF LastOf
<1>3. CASE ~(n >= Len(text))
  <2>1. Len(text) - n + 1 \in Nat /\ Len(text) - n + 1 >= 1
    BY <1>1, <1>3
  <2>2. QED
    BY <1>1, <1>3, <2>1, Pieces DEF LastOf
<1>4. QED
  BY <1>2, <1>3

(* What was found lies within the text.                                    *)
LEMMA FoundIs ==
  ASSUME NEW pairs \in TagLists, NEW text \in Text, NEW tags, tags \subseteq TagsOf(pairs),
         Hits(text, tags) # {}
  PROVE  LET f == The(Hits(text, tags))
         IN /\ f.tag \in tags /\ f.at \in 1..Len(text) /\ Occurs(text, f.at, f.tag.word)
            /\ f.at + Len(f.tag.word) - 1 <= Len(text)
<1>1. The(Hits(text, tags)) \in Hits(text, tags)
  BY DEF The
<1>2. QED
  BY <1>1 DEF Hits, Found, Occurs

(* How much of it is left before and behind.                               *)
LEMMA CutIs ==
  ASSUME NEW pairs \in TagLists, NEW s \in Scanners(pairs), NEW tags,
         tags \subseteq TagsOf(pairs), Hits(s.buffer, tags) # {}
  PROVE  LET f == The(Hits(s.buffer, tags))
         IN /\ Ahead(s, f) \in Text /\ Behind(s, f) \in Text
            /\ Len(Ahead(s, f)) + Len(Behind(s, f)) < Len(s.buffer)
            /\ Len(Ahead(s, f)) \in Nat /\ Len(Behind(s, f)) \in Nat
            /\ f.tag \in tags /\ f.tag.pair \in 1..Len(pairs)
<1> DEFINE f == The(Hits(s.buffer, tags))
<1>1. s.buffer \in Text
  BY DEF Scanners
<1>2. /\ f.tag \in tags /\ f.at \in 1..Len(s.buffer)
      /\ f.at + Len(f.tag.word) - 1 <= Len(s.buffer)
  BY <1>1, FoundIs
<1>3. Len(f.tag.word) \in Nat \ {0} /\ f.tag.pair \in 1..Len(pairs)
  BY <1>2, TagsAre
<1> HIDE DEF f
<1>4. Len(s.buffer) \in Nat
  BY <1>1 DEF Text
<1>5. /\ Ahead(s, f) \in Text
      /\ Len(Ahead(s, f)) = f.at - 1
  <2>1. f.at - 1 \in Nat /\ f.at - 1 <= Len(s.buffer)
    BY <1>2, <1>4
  <2>2. QED
    BY <1>1, <2>1, Pieces DEF Ahead
<1>6. /\ Behind(s, f) \in Text
      /\ Len(Behind(s, f)) = Len(s.buffer) - (f.at + Len(f.tag.word)) + 1
  <2>1. f.at + Len(f.tag.word) \in Nat /\ f.at + Len(f.tag.word) >= 1
    BY <1>2, <1>3
  <2>2. /\ Behind(s, f) \in Text
        /\ Len(Behind(s, f)) = IF f.at + Len(f.tag.word) <= Len(s.buffer)
                               THEN Len(s.buffer) - (f.at + Len(f.tag.word)) + 1 ELSE 0
    BY <1>1, <1>4, <2>1, Pieces DEF Behind
  <2> DEFINE width == Len(f.tag.word)
             size == Len(s.buffer)
             at == f.at
  <2>3. /\ width \in Nat \ {0} /\ size \in Nat /\ at \in 1..size
        /\ at + width - 1 <= size
    BY <1>2, <1>3, <1>4
  <2> HIDE DEF width, size, at
  <2>4. (IF at + width <= size THEN size - (at + width) + 1 ELSE 0) = size - (at + width) + 1
    BY <2>3
  <2>5. QED
    BY <2>2, <2>4 DEF width, size, at
<1>7. /\ Len(Ahead(s, f)) + Len(Behind(s, f)) < Len(s.buffer)
      /\ Len(Ahead(s, f)) \in Nat /\ Len(Behind(s, f)) \in Nat
  <2> DEFINE width == Len(f.tag.word)
             size == Len(s.buffer)
             ahead == Len(Ahead(s, f))
             behind == Len(Behind(s, f))
             at == f.at
  <2>1. /\ width \in Nat \ {0} /\ size \in Nat /\ at \in 1..size
        /\ at + width - 1 <= size
        /\ ahead = at - 1 /\ behind = size - (at + width) + 1
    BY <1>2, <1>3, <1>4, <1>5, <1>6
  <2> HIDE DEF width, size, at, ahead, behind
  <2>2. ahead + behind < size /\ ahead \in Nat /\ behind \in Nat
    BY <2>1
  <2>3. QED
    BY <2>2 DEF size, ahead, behind
<1>8. QED
  BY <1>2, <1>3, <1>5, <1>6, <1>7 DEF f

(* What is held back is shorter than the longest tag.                      *)
LEMMA LongestTagIs ==
  ASSUME NEW pairs \in TagLists
  PROVE  /\ LongestTag(pairs) \in Nat \ {0}
         /\ \A t \in TagsOf(pairs) : Len(t.word) <= LongestTag(pairs)
<1> DEFINE Bounds(n, b) == \A p \in 1..n : Len(pairs[p].open) <= b /\ Len(pairs[p].close) <= b
           good == {n \in Nat : n <= Len(pairs) => \E b \in Nat : Bounds(n, b)}
<1>1. /\ pairs \in Seq([open : Text, close : Text, implicit : BOOLEAN])
      /\ Len(pairs) \in Nat /\ DOMAIN pairs = 1..Len(pairs)
  BY DEF TagLists
<1>2. 0 \in good
  OBVIOUS
<1>3. ASSUME NEW n \in Nat, n \in good
      PROVE  n + 1 \in good
  <2>1. CASE ~(n + 1 <= Len(pairs))
    BY <2>1
  <2>2. CASE n + 1 <= Len(pairs)
    <3>1. PICK b \in Nat : Bounds(n, b)
      BY <1>1, <1>3, <2>2
    <3> DEFINE o == Len(pairs[n + 1].open)
               c == Len(pairs[n + 1].close)
               d == b + o + c
    <3>2. o \in Nat /\ c \in Nat
      <4>1. n + 1 \in 1..Len(pairs)
        BY <1>1, <2>2
      <4>2. QED
        BY <4>1, PairIs
    <3> HIDE DEF o, c
    <3>3. d \in Nat /\ o <= d /\ c <= d /\ b <= d /\ b \in Nat
      BY <3>1, <3>2
    <3> HIDE DEF d
    <3>4. Bounds(n + 1, d)
      <4> SUFFICES ASSUME NEW p \in 1..(n + 1)
                   PROVE  Len(pairs[p].open) <= d /\ Len(pairs[p].close) <= d
        OBVIOUS
      <4>1. CASE p = n + 1
        BY <3>3, <4>1 DEF o, c
      <4>2. CASE p # n + 1
        <5>1. p \in 1..n
          BY <4>2
        <5>2. p \in 1..Len(pairs)
          BY <2>2, <1>1, <5>1
        <5>3. Len(pairs[p].open) \in Nat /\ Len(pairs[p].close) \in Nat
          BY <5>2, PairIs
        <5>4. Len(pairs[p].open) <= b /\ Len(pairs[p].close) <= b
          BY <3>1, <5>1
        <5>5. QED
          BY <3>3, <5>3, <5>4
      <4>3. QED
        BY <4>1, <4>2
    <3> HIDE DEF Bounds
    <3>5. QED
      BY <3>3, <3>4
  <2>3. QED
    BY <2>1, <2>2
<1>4. \A n \in Nat : n \in good
  <2> HIDE DEF good
  <2>1. QED
    BY <1>2, <1>3, Induction
<1>5. PICK b \in Nat : Bounds(Len(pairs), b)
  <2>1. Len(pairs) \in good
    BY <1>1, <1>4
  <2> HIDE DEF Bounds
  <2>2. QED
    BY <1>1, <2>1
<1> DEFINE lengths == {1} \cup {Len(t.word) : t \in TagsOf(pairs)}
<1>6. lengths \subseteq Nat /\ lengths # {}
  BY TagsAre
<1>7. ASSUME NEW n \in lengths
      PROVE  n <= b + 1
  <2>1. CASE n = 1
    BY <2>1
  <2>2. CASE n # 1
    <3>1. PICK t \in TagsOf(pairs) : n = Len(t.word)
      BY <2>2
    <3>2. PICK p \in 1..Len(pairs) : t.word = pairs[p].open \/ t.word = pairs[p].close
      BY <1>1 DEF TagsOf
    <3>3. n <= b
      BY <1>5, <3>1, <3>2
    <3>4. n \in Nat
      BY <1>6
    <3>5. QED
      BY <3>3, <3>4
  <2>3. QED
    BY <2>1, <2>2
<1>8. b + 1 \in Nat /\ 1 \in lengths
  OBVIOUS
<1> HIDE DEF lengths
<1>9. Max(lengths) \in lengths /\ \A n \in lengths : n <= Max(lengths)
  BY <1>6, <1>7, <1>8, GreatestOf
<1>10. QED
  BY <1>6, <1>8, <1>9 DEF LongestTag, lengths

LEMMA LongestCloseIs ==
  ASSUME NEW pairs \in TagLists
  PROVE  LongestClose(pairs) \in Nat \ {0} /\ LongestClose(pairs) <= LongestTag(pairs)
<1> DEFINE lengths == {1} \cup {Len(pairs[p].close) : p \in DOMAIN pairs}
<1>1. DOMAIN pairs = 1..Len(pairs)
  BY DEF TagLists
<1>2. lengths \subseteq Nat /\ lengths # {}
  BY <1>1, PairIs
<1>3. LongestTag(pairs) \in Nat \ {0}
  BY LongestTagIs
<1>4. ASSUME NEW n \in lengths
      PROVE  n <= LongestTag(pairs)
  <2>1. CASE n = 1
    BY <1>3, <2>1
  <2>2. CASE n # 1
    <3>1. PICK p \in DOMAIN pairs : n = Len(pairs[p].close)
      BY <2>2
    <3>2. [word |-> pairs[p].close, kind |-> "close", pair |-> p] \in TagsOf(pairs)
      BY DEF TagsOf
    <3>3. QED
      BY <3>1, <3>2, LongestTagIs
  <2>3. QED
    BY <2>1, <2>2
<1> HIDE DEF lengths
<1>5. Max(lengths) \in lengths /\ \A n \in lengths : n <= Max(lengths)
  BY <1>2, <1>3, <1>4, GreatestOf
<1>6. 1 \in lengths
  BY DEF lengths
<1>7. QED
  BY <1>2, <1>3, <1>4, <1>5, <1>6 DEF LongestClose, lengths

LEMMA HeldLengthIs ==
  ASSUME NEW pairs \in TagLists, NEW text \in Text
  PROVE  HeldLength(text, pairs) \in 0..Len(text) /\ HeldLength(text, pairs) < LongestTag(pairs)
<1> DEFINE held == {0} \cup {n \in 1..Len(text) :
                     \E t \in TagsOf(pairs) : n < Len(t.word) /\ LastOf(text, n) = SubSeq(t.word, 1, n)}
<1>1. Len(text) \in Nat /\ LongestTag(pairs) \in Nat \ {0}
  BY LongestTagIs DEF Text
<1>2. held \subseteq Nat /\ held # {} /\ \A n \in held : n <= Len(text)
  BY <1>1
<1>3. ASSUME NEW n \in held
      PROVE  n < LongestTag(pairs)
  <2>1. CASE n = 0
    BY <1>1, <2>1
  <2>2. CASE n # 0
    <3>1. PICK t \in TagsOf(pairs) : n < Len(t.word)
      BY <2>2
    <3>2. Len(t.word) <= LongestTag(pairs) /\ Len(t.word) \in Nat /\ n \in Nat
      BY <1>2, LongestTagIs, TagsAre
    <3>3. QED
      BY <1>1, <3>1, <3>2
  <2>3. QED
    BY <2>1, <2>2
<1> HIDE DEF held
<1>4. Max(held) \in held
  BY <1>1, <1>2, GreatestOf
<1>5. QED
  BY <1>1, <1>2, <1>3, <1>4 DEF HeldLength, held

LEMMA TailSafeIs ==
  ASSUME NEW pairs \in TagLists, NEW s \in Scanners(pairs)
  PROVE  LET t == EmitTailSafe(s, pairs)
         IN /\ t \in Scanners(pairs)
            /\ t.phase = s.phase /\ t.busy = s.busy /\ t.flushed = s.flushed
            /\ t.pair = s.pair /\ t.gaveUp = s.gaveUp
            /\ Len(t.buffer) \in Nat
            /\ Len(t.buffer) <= Len(s.buffer) /\ Len(t.buffer) <= LongestTag(pairs) - 1
<1> DEFINE n == HeldLength(s.buffer, pairs)
           b == LastOf(s.buffer, n)
           o == s.out \o SubSeq(s.buffer, 1, Len(s.buffer) - n)
<1>1. s.buffer \in Text /\ s.out \in Text /\ Len(s.buffer) \in Nat
  BY DEF Scanners, Text
<1>2. n \in 0..Len(s.buffer) /\ n < LongestTag(pairs) /\ LongestTag(pairs) \in Nat \ {0}
  BY <1>1, HeldLengthIs, LongestTagIs
<1> HIDE DEF n
<1>3. b \in Text /\ Len(b) = n
  <2>1. Len(b) = IF n >= Len(s.buffer) THEN Len(s.buffer) ELSE n
    BY <1>1, <1>2, LastOfIs
  <2>2. QED
    BY <1>1, <1>2, <2>1, LastOfIs
<1>4. o \in Text
  <2>1. Len(s.buffer) - n \in Nat /\ Len(s.buffer) - n <= Len(s.buffer)
    BY <1>1, <1>2
  <2>2. SubSeq(s.buffer, 1, Len(s.buffer) - n) \in Text
    BY <1>1, <2>1, Pieces
  <2>3. QED
    BY <1>1, <2>2, Joined
<1>5. EmitTailSafe(s, pairs) = [s EXCEPT !.buffer = b, !.out = o]
  BY DEF EmitTailSafe, n
<1> DEFINE t == [s EXCEPT !.buffer = b, !.out = o]
<1> HIDE DEF b, o
<1>6. /\ t \in Scanners(pairs) /\ t.buffer = b
      /\ t.phase = s.phase /\ t.busy = s.busy /\ t.flushed = s.flushed
      /\ t.pair = s.pair /\ t.gaveUp = s.gaveUp
  BY <1>3, <1>4 DEF Scanners
<1> HIDE DEF t
<1>7. Len(b) \in Nat /\ Len(b) <= Len(s.buffer) /\ Len(b) <= LongestTag(pairs) - 1
  <2> DEFINE size == Len(s.buffer)
             longest == LongestTag(pairs)
  <2>1. n \in 0..size /\ size \in Nat /\ n < longest /\ longest \in Nat
    BY <1>1, <1>2
  <2> HIDE DEF size, longest
  <2>2. n \in Nat /\ n <= size /\ n <= longest - 1
    BY <2>1
  <2>3. QED
    BY <1>3, <2>2 DEF size, longest
<1>8. EmitTailSafe(s, pairs) = t
  BY <1>5 DEF t
<1>9. QED
  BY <1>6, <1>7, <1>8

-----------------------------------------------------------------------------
(* The loop.  Rank is what a turn that goes on makes smaller.              *)
Rank(s) ==
  IF s.phase \in {"detecting", "inside"} THEN 2 * Len(s.buffer) + 1 ELSE 2 * Len(s.buffer)

(* What is held between two pushes.                                        *)
Limit(s, pairs) ==
  IF s.phase \in {"detecting", "inside"} THEN Cap ELSE LongestTag(pairs) - 1

Turned(s, t, pairs) ==
  /\ t \in Scanners(pairs) /\ t.flushed = s.flushed
  /\ t.busy => Rank(t) < Rank(s)
  /\ ~t.busy => Len(t.buffer) <= Limit(t, pairs)

(* A tag was found and its letters go.                                     *)
LEMMA CutTurns ==
  ASSUME NEW pairs \in TagLists, NEW s \in Scanners(pairs), s.busy, NEW b \in Text,
         NEW t \in Scanners(pairs), t.buffer = b, t.busy, t.flushed = s.flushed,
         Len(b) < Len(s.buffer)
  PROVE  Turned(s, t, pairs)
<1> DEFINE after == Len(b)
           before == Len(s.buffer)
<1>1. after \in Nat /\ before \in Nat /\ after < before
  BY DEF Scanners, Text
<1>2. Rank(t) \in {2 * after, 2 * after + 1} /\ Rank(s) \in {2 * before, 2 * before + 1}
  BY <1>1 DEF Rank
<1> HIDE DEF after, before
<1>3. Rank(t) < Rank(s)
  BY <1>1, <1>2
<1>4. QED
  BY <1>3 DEF Turned

LEMMA EnterTurns ==
  ASSUME NEW pairs \in TagLists, NEW s \in Scanners(pairs), s.busy,
         Hits(s.buffer, TagsOf(pairs)) # {}
  PROVE  Turned(s, Enter(s, The(Hits(s.buffer, TagsOf(pairs)))), pairs)
<1> DEFINE f == The(Hits(s.buffer, TagsOf(pairs)))
<1>1. /\ Ahead(s, f) \in Text /\ Behind(s, f) \in Text
      /\ Len(Ahead(s, f)) + Len(Behind(s, f)) < Len(s.buffer)
      /\ Len(Ahead(s, f)) \in Nat /\ Len(Behind(s, f)) \in Nat
      /\ f.tag.pair \in 1..Len(pairs)
  BY CutIs
<1> HIDE DEF f
<1>2. s.out \o Ahead(s, f) \in Text /\ Len(s.buffer) \in Nat
  BY <1>1, Joined DEF Scanners, Text
<1>3. Enter(s, f) \in Scanners(pairs)
  <2> DEFINE ahead == s.out \o Ahead(s, f)
             behind == Behind(s, f)
             pair == f.tag.pair
  <2>1. ahead \in Text /\ behind \in Text /\ pair \in 1..Len(pairs)
    BY <1>1, <1>2
  <2>2. Enter(s, f) = [s EXCEPT !.out = ahead, !.buffer = behind, !.phase = "inside",
                                !.pair = pair]
    BY DEF Enter
  <2> HIDE DEF ahead, behind, pair
  <2>3. pair \in 0..Len(pairs)
    BY <2>1
  <2>4. QED
    BY <2>1, <2>2, <2>3 DEF Scanners
<1>4. Enter(s, f).buffer = Behind(s, f) /\ Enter(s, f).busy /\ Enter(s, f).flushed = s.flushed
  BY DEF Enter, Scanners
<1>5. Len(Behind(s, f)) < Len(s.buffer)
  BY <1>1, <1>2
<1>6. QED
  BY <1>1, <1>3, <1>4, <1>5, CutTurns DEF f

LEMMA OutsideTurns ==
  ASSUME NEW pairs \in TagLists, NEW s \in Scanners(pairs), s.busy, s.phase = "outside"
  PROVE  Turned(s, TurnOutside(s, pairs, Hits(s.buffer, TagsOf(pairs))), pairs)
<1> DEFINE hits == Hits(s.buffer, TagsOf(pairs))
           f == The(hits)
<1>1. CASE hits = {}
  <2> DEFINE t == EmitTailSafe(s, pairs)
  <2>1. /\ t \in Scanners(pairs) /\ t.phase = "outside" /\ t.flushed = s.flushed
        /\ Len(t.buffer) <= LongestTag(pairs) - 1
    BY TailSafeIs
  <2> HIDE DEF t
  <2>2. /\ [t EXCEPT !.busy = FALSE] \in Scanners(pairs)
        /\ [t EXCEPT !.busy = FALSE].buffer = t.buffer
        /\ [t EXCEPT !.busy = FALSE].flushed = t.flushed
        /\ [t EXCEPT !.busy = FALSE].phase = t.phase
        /\ [t EXCEPT !.busy = FALSE].busy = FALSE
    BY <2>1 DEF Scanners
  <2>3. Turned(s, [t EXCEPT !.busy = FALSE], pairs)
    BY <2>1, <2>2 DEF Turned, Limit
  <2>4. QED
    BY <1>1, <2>3 DEF TurnOutside, t
<1>2. CASE hits # {} /\ f.tag.kind = "open"
  BY <1>2, EnterTurns DEF TurnOutside
<1>3. CASE hits # {} /\ f.tag.kind # "open"
  <2>1. /\ Ahead(s, f) \in Text /\ Behind(s, f) \in Text
        /\ Len(Ahead(s, f)) + Len(Behind(s, f)) < Len(s.buffer)
        /\ Len(Ahead(s, f)) \in Nat /\ Len(Behind(s, f)) \in Nat
    BY <1>3, CutIs
  <2> DEFINE t == [s EXCEPT !.out = @ \o Ahead(s, f), !.buffer = Behind(s, f)]
  <2>2. TurnOutside(s, pairs, hits) = t
    BY <1>3 DEF TurnOutside
  <2> HIDE DEF f, hits
  <2>3. s.out \o Ahead(s, f) \in Text /\ Len(s.buffer) \in Nat
    BY <2>1, Joined DEF Scanners, Text
  <2>4. t \in Scanners(pairs) /\ t.buffer = Behind(s, f) /\ t.busy /\ t.flushed = s.flushed
    BY <2>1, <2>3 DEF Scanners
  <2>5. Len(Behind(s, f)) < Len(s.buffer)
    BY <2>1, <2>3
  <2>6. Turned(s, t, pairs)
    BY <2>1, <2>4, <2>5, CutTurns
  <2>7. QED
    BY <2>2, <2>6 DEF hits
<1>4. QED
  BY <1>1, <1>2, <1>3

LEMMA DetectingTurns ==
  ASSUME NEW pairs \in TagLists, NEW s \in Scanners(pairs), s.busy, s.phase = "detecting"
  PROVE  Turned(s, TurnDetecting(s, pairs, Hits(s.buffer, TagsOf(pairs))), pairs)
<1> DEFINE hits == Hits(s.buffer, TagsOf(pairs))
           f == The(hits)
<1>1. Len(s.buffer) \in Nat /\ Cap \in Nat
  BY StreamsAssumption DEF Scanners, Text
<1>2. CASE hits = {} /\ Len(s.buffer) > Cap
  <2> DEFINE t == EmitTailSafe(s, pairs)
             u == [t EXCEPT !.phase = "outside", !.gaveUp = TRUE]
  <2>1. /\ t \in Scanners(pairs) /\ t.busy /\ t.flushed = s.flushed
        /\ Len(t.buffer) <= Len(s.buffer) /\ Len(t.buffer) \in Nat
    BY TailSafeIs
  <2>2. TurnDetecting(s, pairs, hits) = u
    BY <1>2 DEF TurnDetecting
  <2> HIDE DEF t
  <2>3. /\ u \in Scanners(pairs) /\ u.buffer = t.buffer /\ u.busy /\ u.phase = "outside"
        /\ u.flushed = s.flushed
    BY <2>1 DEF Scanners
  <2> HIDE DEF u
  <2>4. Turned(s, u, pairs)
    BY <1>1, <2>1, <2>3 DEF Turned, Rank
  <2>5. QED
    BY <2>2, <2>4
<1>3. CASE hits = {} /\ ~(Len(s.buffer) > Cap)
  <2> DEFINE u == [s EXCEPT !.busy = FALSE]
  <2>1. /\ u \in Scanners(pairs) /\ u.buffer = s.buffer /\ ~u.busy /\ u.phase = "detecting"
        /\ u.flushed = s.flushed
    BY DEF Scanners
  <2>2. TurnDetecting(s, pairs, hits) = u
    BY <1>3 DEF TurnDetecting
  <2> HIDE DEF u
  <2>3. Turned(s, u, pairs)
    BY <1>1, <1>3, <2>1 DEF Turned, Limit
  <2>4. QED
    BY <2>2, <2>3
<1>4. CASE hits # {} /\ f.tag.kind = "open"
  BY <1>4, EnterTurns DEF TurnDetecting
<1>5. CASE hits # {} /\ f.tag.kind # "open"
  <2>1. /\ Ahead(s, f) \in Text /\ Behind(s, f) \in Text
        /\ Len(Ahead(s, f)) + Len(Behind(s, f)) < Len(s.buffer)
        /\ Len(Ahead(s, f)) \in Nat /\ Len(Behind(s, f)) \in Nat
    BY <1>5, CutIs
  <2> DEFINE t == [s EXCEPT !.buffer = Behind(s, f), !.phase = "outside"]
             u == [s EXCEPT !.buffer = Ahead(s, f) \o Behind(s, f)]
  <2>2. TurnDetecting(s, pairs, hits) = t \/ TurnDetecting(s, pairs, hits) = u
    BY <1>5 DEF TurnDetecting
  <2> HIDE DEF f, hits
  <2>3. /\ Ahead(s, f) \o Behind(s, f) \in Text
        /\ Len(Ahead(s, f) \o Behind(s, f)) = Len(Ahead(s, f)) + Len(Behind(s, f))
    BY <2>1, Joined
  <2>4. t \in Scanners(pairs) /\ t.buffer = Behind(s, f) /\ t.busy /\ t.flushed = s.flushed
    BY <2>1, <2>3 DEF Scanners
  <2>5. /\ u \in Scanners(pairs) /\ u.buffer = Ahead(s, f) \o Behind(s, f)
        /\ u.busy /\ u.flushed = s.flushed
    BY <2>1, <2>3 DEF Scanners
  <2>6. Len(Behind(s, f)) < Len(s.buffer) /\ Len(Ahead(s, f) \o Behind(s, f)) < Len(s.buffer)
    BY <1>1, <2>1, <2>3
  <2>7. Turned(s, t, pairs) /\ Turned(s, u, pairs)
    BY <2>1, <2>3, <2>4, <2>5, <2>6, CutTurns
  <2>8. QED
    BY <2>2, <2>7 DEF hits
<1>6. QED
  BY <1>2, <1>3, <1>4, <1>5

(* The end of the block was found.                                         *)
LEMMA LeaveTurns ==
  ASSUME NEW pairs \in TagLists, NEW s \in Scanners(pairs), s.busy,
         s.phase \in {"inside", "discarding"}, Hits(s.buffer, {CloseTag(s, pairs)}) # {}
  PROVE  Turned(s, LeaveBlock(s, The(Hits(s.buffer, {CloseTag(s, pairs)}))), pairs)
<1> DEFINE f == The(Hits(s.buffer, {CloseTag(s, pairs)}))
<1>1. {CloseTag(s, pairs)} \subseteq TagsOf(pairs)
  BY CloseTagIs
<1>2. /\ Behind(s, f) \in Text
      /\ Len(Ahead(s, f)) + Len(Behind(s, f)) < Len(s.buffer)
      /\ Len(Ahead(s, f)) \in Nat /\ Len(Behind(s, f)) \in Nat
  BY <1>1, CutIs
<1> HIDE DEF f
<1>3. Len(s.buffer) \in Nat
  BY DEF Scanners, Text
<1>4. /\ LeaveBlock(s, f) \in Scanners(pairs) /\ LeaveBlock(s, f).buffer = Behind(s, f)
      /\ LeaveBlock(s, f).busy /\ LeaveBlock(s, f).flushed = s.flushed
  BY <1>2 DEF LeaveBlock, Scanners
<1>5. Len(Behind(s, f)) < Len(s.buffer)
  BY <1>2, <1>3
<1>6. QED
  BY <1>2, <1>4, <1>5, CutTurns DEF f

LEMMA InsideTurns ==
  ASSUME NEW pairs \in TagLists, NEW s \in Scanners(pairs), s.busy, s.phase = "inside"
  PROVE  Turned(s, TurnInside(s, pairs, Hits(s.buffer, {CloseTag(s, pairs)})), pairs)
<1> DEFINE hits == Hits(s.buffer, {CloseTag(s, pairs)})
<1>1. Len(s.buffer) \in Nat /\ Cap \in Nat /\ s.buffer \in Text
  BY StreamsAssumption DEF Scanners, Text
<1>2. CASE hits # {}
  BY <1>2, LeaveTurns DEF TurnInside
<1>3. CASE hits = {} /\ Len(s.buffer) > Cap
  <2> DEFINE b == LastOf(s.buffer, LongestClose(pairs) - 1)
             u == [s EXCEPT !.buffer = b, !.phase = "discarding"]
  <2>1. b \in Text /\ Len(b) \in Nat /\ Len(b) <= Len(s.buffer)
    <3>1. LongestClose(pairs) - 1 \in Nat
      BY LongestCloseIs
    <3>2. /\ b \in Text
          /\ Len(b) = IF LongestClose(pairs) - 1 >= Len(s.buffer) THEN Len(s.buffer)
                      ELSE LongestClose(pairs) - 1
      BY <1>1, <3>1, LastOfIs
    <3>3. QED
      BY <1>1, <3>1, <3>2
  <2>2. TurnInside(s, pairs, hits) = u
    BY <1>3 DEF TurnInside
  <2> HIDE DEF b
  <2>3. /\ u \in Scanners(pairs) /\ u.buffer = b /\ u.busy /\ u.phase = "discarding"
        /\ u.flushed = s.flushed
    BY <2>1 DEF Scanners
  <2> HIDE DEF u
  <2>4. Turned(s, u, pairs)
    BY <1>1, <2>1, <2>3 DEF Turned, Rank
  <2>5. QED
    BY <2>2, <2>4
<1>4. CASE hits = {} /\ ~(Len(s.buffer) > Cap)
  <2> DEFINE u == [s EXCEPT !.busy = FALSE]
  <2>1. /\ u \in Scanners(pairs) /\ u.buffer = s.buffer /\ ~u.busy /\ u.phase = "inside"
        /\ u.flushed = s.flushed
    BY DEF Scanners
  <2>2. TurnInside(s, pairs, hits) = u
    BY <1>4 DEF TurnInside
  <2> HIDE DEF u
  <2>3. Turned(s, u, pairs)
    BY <1>1, <1>4, <2>1 DEF Turned, Limit
  <2>4. QED
    BY <2>2, <2>3
<1>5. QED
  BY <1>2, <1>3, <1>4

LEMMA DiscardingTurns ==
  ASSUME NEW pairs \in TagLists, NEW s \in Scanners(pairs), s.busy, s.phase = "discarding"
  PROVE  Turned(s, TurnDiscarding(s, pairs, Hits(s.buffer, {CloseTag(s, pairs)})), pairs)
<1> DEFINE hits == Hits(s.buffer, {CloseTag(s, pairs)})
<1>1. CASE hits # {}
  BY <1>1, LeaveTurns DEF TurnDiscarding
<1>2. CASE hits = {}
  <2> DEFINE b == LastOf(s.buffer, LongestClose(pairs) - 1)
             u == [s EXCEPT !.buffer = b, !.busy = FALSE]
  <2>1. b \in Text /\ Len(b) <= LongestTag(pairs) - 1
    <3>1. /\ LongestClose(pairs) - 1 \in Nat /\ LongestClose(pairs) <= LongestTag(pairs)
          /\ LongestTag(pairs) \in Nat /\ LongestClose(pairs) \in Nat
      BY LongestCloseIs, LongestTagIs
    <3>2. s.buffer \in Text /\ Len(s.buffer) \in Nat
      BY DEF Scanners, Text
    <3>3. /\ b \in Text
          /\ Len(b) = IF LongestClose(pairs) - 1 >= Len(s.buffer) THEN Len(s.buffer)
                      ELSE LongestClose(pairs) - 1
      BY <3>1, <3>2, LastOfIs
    <3>4. QED
      BY <3>1, <3>2, <3>3
  <2>2. TurnDiscarding(s, pairs, hits) = u
    BY <1>2 DEF TurnDiscarding
  <2> HIDE DEF b
  <2>3. /\ u \in Scanners(pairs) /\ u.buffer = b /\ ~u.busy /\ u.phase = "discarding"
        /\ u.flushed = s.flushed
    BY <2>1 DEF Scanners
  <2> HIDE DEF u
  <2>4. Turned(s, u, pairs)
    BY <2>1, <2>3 DEF Turned, Limit
  <2>5. QED
    BY <2>2, <2>4
<1>3. QED
  BY <1>1, <1>2

LEMMA TurnTurns ==
  ASSUME NEW pairs \in TagLists, NEW s \in Scanners(pairs), s.busy
  PROVE  Turned(s, Turn(s, pairs), pairs)
<1>1. s.phase \in {"detecting", "outside", "inside", "discarding"}
  BY DEF Scanners
<1>2. QED
  BY <1>1, OutsideTurns, DetectingTurns, InsideTurns, DiscardingTurns DEF Turn

(* Out of the loop: the scanner is at rest.                                *)
Resting(pairs) == {s \in Scanners(pairs) : ~s.busy /\ Len(s.buffer) <= Limit(s, pairs)}

LEMMA DriveRests ==
  ASSUME NEW pairs \in TagLists, NEW s \in Scanners(pairs), s.busy
  PROVE  Drive(s, pairs) \in Resting(pairs) /\ Drive(s, pairs).flushed = s.flushed
<1> DEFINE N == Turns(s)
           G == Scanners(pairs)
           step(t) == IF t.busy THEN Turn(t, pairs) ELSE t
           next == [it \in (1..N) \X G |-> step(it[2])]
           Unrolls(f) == f = [n \in 0..N |-> IF n = 0 THEN s ELSE step(f[n - 1])]
<1>1. N \in Nat /\ N = 2 * Len(s.buffer) + 2 /\ Len(s.buffer) \in Nat
  BY DEF Turns, Scanners, Text
<1> HIDE DEF N
<1>2. ASSUME NEW t \in G
      PROVE  step(t) \in G /\ step(t).flushed = t.flushed
  <2>1. CASE t.busy
    BY <2>1, TurnTurns DEF Turned
  <2>2. CASE ~t.busy
    BY <2>2
  <2>3. QED
    BY <2>1, <2>2
<1>3. next \in [(1..N) \X G -> G]
  BY <1>2
<1>4. \E f : Unrolls(f)
  <2>1. PICK f : f \in Walks(N, G, s, next)
    <3> HIDE DEF next, G, Unrolls
    <3>1. s \in G /\ N \in Nat
      BY <1>1 DEF G
    <3>2. QED
      BY <1>3, <3>1, Recursion
  <2>2. ASSUME NEW i \in 0..N
        PROVE  f[i] = IF i = 0 THEN s ELSE step(f[i - 1])
    <3>1. CASE i = 0
      BY <2>1, <3>1 DEF Walks
    <3>2. CASE i # 0
      <4>1. i \in 1..N /\ i - 1 \in 0..N
        BY <1>1, <3>2
      <4>2. f[i - 1] \in G
        BY <2>1, <4>1 DEF Walks
      <4>3. next[<<i, f[i - 1]>>] = step(f[i - 1])
        BY <4>1, <4>2
      <4> HIDE DEF step, next
      <4>4. QED
        BY <2>1, <3>2, <4>1, <4>3 DEF Walks
    <3>3. QED
      BY <3>1, <3>2
  <2> HIDE DEF step
  <2>3. Unrolls(f)
    BY <2>1, <2>2 DEF Walks
  <2> HIDE DEF Unrolls
  <2>4. QED
    BY <2>3
<1> DEFINE after == CHOOSE f : Unrolls(f)
<1>5. Unrolls(after)
  <2> HIDE DEF Unrolls
  <2>1. QED
    BY <1>4
<1>6. Drive(s, pairs) = after[N]
  BY DEF Drive, N
<1> HIDE DEF after, next, step
<1>7. after[0] = s
  BY <1>1, <1>5
<1>8. ASSUME NEW n \in Nat, n + 1 <= N
      PROVE  after[n + 1] = step(after[n])
  BY <1>1, <1>5, <1>8
<1> HIDE DEF Unrolls
(* After n turns the loop is over or at most Rank(s) - n are left.         *)
<1> DEFINE Fine(n) == /\ after[n] \in G /\ after[n].flushed = s.flushed
                      /\ after[n].busy => Rank(after[n]) + n <= Rank(s)
                      /\ ~after[n].busy => after[n] \in Resting(pairs)
           good == {n \in Nat : n <= N => Fine(n)}
<1>9. ASSUME NEW t \in G
       PROVE  Rank(t) \in Nat
  <2>1. Len(t.buffer) \in Nat
    BY DEF Scanners, Text
  <2>2. QED
    BY <2>1 DEF Rank
<1>10. 0 \in good
  <2>1. Rank(s) \in Nat
    BY <1>9
  <2>2. Fine(0)
    BY <1>7, <2>1
  <2>3. QED
    BY <2>2
<1>11. ASSUME NEW n \in Nat, n \in good
       PROVE  n + 1 \in good
  <2> SUFFICES ASSUME n + 1 <= N
               PROVE  Fine(n + 1)
    OBVIOUS
  <2> DEFINE t == after[n]
             u == after[n + 1]
  <2>1. Fine(n) /\ u = step(t)
    BY <1>1, <1>8, <1>11
  <2>2. CASE ~t.busy
    <3>1. u = t
      BY <2>1, <2>2 DEF step
    <3> HIDE DEF t, u
    <3>2. QED
      BY <2>1, <2>2, <3>1 DEF t, u
  <2>3. CASE t.busy
    <3>1. u = Turn(t, pairs) /\ t \in Scanners(pairs)
      BY <2>1, <2>3 DEF step
    <3>2. Turned(t, u, pairs)
      BY <2>3, <3>1, TurnTurns
    <3>3. u.flushed = s.flushed /\ u \in G
      BY <2>1, <3>2 DEF Turned
    <3>4. ASSUME u.busy
          PROVE  Rank(u) + (n + 1) <= Rank(s)
      <4>1. Rank(u) < Rank(t) /\ Rank(t) + n <= Rank(s)
        BY <2>1, <2>3, <3>2, <3>4 DEF Turned
      <4>2. Rank(u) \in Nat /\ Rank(t) \in Nat /\ Rank(s) \in Nat
        BY <1>9, <3>1, <3>3
      <4>3. QED
        BY <4>1, <4>2
    <3>5. ~u.busy => u \in Resting(pairs)
      BY <3>2 DEF Turned, Resting
    <3>6. QED
      BY <3>3, <3>4, <3>5
  <2>4. QED
    BY <2>2, <2>3
<1>12. N \in good
  <2> HIDE DEF good
  <2>1. \A n \in Nat : n \in good
    BY <1>10, <1>11, Induction
  <2>2. QED
    BY <1>1, <2>1
<1>13. Fine(N)
  BY <1>1, <1>12
<1>14. ~after[N].busy
  <2>1. SUFFICES ASSUME after[N].busy
                 PROVE  FALSE
    OBVIOUS
  <2>2. Rank(after[N]) + N <= Rank(s) /\ Rank(after[N]) \in Nat
    BY <1>9, <1>13, <2>1
  <2>3. Rank(s) <= 2 * Len(s.buffer) + 1 /\ Rank(s) \in Nat
    <3> DEFINE size == Len(s.buffer)
    <3>1. Rank(s) \in {2 * size, 2 * size + 1}
      BY <1>1 DEF Rank
    <3> HIDE DEF size
    <3>2. QED
      BY <1>1, <3>1 DEF size
  <2>4. QED
    BY <1>1, <2>2, <2>3
<1>15. QED
  BY <1>6, <1>13, <1>14

LEMMA PushRests ==
  ASSUME NEW pairs \in TagLists, NEW s \in Scanners(pairs), NEW chunk \in Text
  PROVE  /\ Push(s, chunk, pairs) \in Resting(pairs)
         /\ Push(s, chunk, pairs).flushed = s.flushed
<1> DEFINE b == s.buffer \o chunk
           t == [s EXCEPT !.buffer = b, !.out = <<>>, !.busy = TRUE]
<1>1. b \in Text /\ <<>> \in Text
  BY Joined DEF Scanners, Text
<1> HIDE DEF b
<1>2. t \in Scanners(pairs) /\ t.busy /\ t.flushed = s.flushed
  BY <1>1 DEF Scanners
<1>3. Push(s, chunk, pairs) = Drive(t, pairs)
  BY DEF Push, b
<1> HIDE DEF t
<1>4. QED
  BY <1>2, <1>3, DriveRests

LEMMA FinishRests ==
  ASSUME NEW pairs \in TagLists, NEW s \in Resting(pairs)
  PROVE  /\ FinishScan(s) \in Resting(pairs) /\ FinishScan(s).flushed = s.flushed
         /\ FinishScan(s).out \in Text
<1> DEFINE o == IF s.phase \in {"inside", "discarding"} THEN <<>> ELSE s.buffer
           t == [s EXCEPT !.phase = "outside", !.buffer = <<>>, !.out = o]
<1>1. o \in Text /\ <<>> \in Text
  BY DEF Resting, Scanners, Text
<1> HIDE DEF o
<1>2. /\ t \in Scanners(pairs) /\ ~t.busy /\ t.buffer = <<>> /\ t.flushed = s.flushed
      /\ t.out = o /\ t.phase = "outside"
  BY <1>1 DEF Resting, Scanners
<1>3. FinishScan(s) = t
  BY DEF FinishScan, o
<1> HIDE DEF t
<1>4. LongestTag(pairs) \in Nat \ {0}
  BY LongestTagIs
<1>5. Len(t.buffer) <= Limit(t, pairs)
  BY <1>2, <1>4 DEF Limit
<1>6. QED
  BY <1>1, <1>2, <1>3, <1>5 DEF Resting

LEMMA NewRests ==
  ASSUME NEW pairs \in TagLists
  PROVE  NewScanner(pairs) \in Resting(pairs) /\ ~NewScanner(pairs).flushed
<1> DEFINE s == NewScanner(pairs)
<1>1. Len(pairs) \in Nat
  BY DEF TagLists
<1>2. s \in Scanners(pairs) /\ ~s.busy /\ s.buffer = <<>> /\ ~s.flushed
  BY <1>1 DEF NewScanner, Scanners, Text
<1> HIDE DEF s
<1>3. LongestTag(pairs) \in Nat \ {0} /\ Cap \in Nat
  BY LongestTagIs, StreamsAssumption
<1>4. Len(s.buffer) <= Limit(s, pairs)
  BY <1>2, <1>3 DEF Limit
<1>5. QED
  BY <1>2, <1>4 DEF Resting, s

-----------------------------------------------------------------------------
(* The scripts make texts of texts.                                        *)
ScriptsAre == [find : Text \ {<<>>}, subst : Text]

(* The end of a text after position i, with what is found in it replaced.  *)
TailAt(tail, text, script, i) ==
  IF i = Len(text) + 1 THEN <<>>
  ELSE IF Occurs(text, i, script.find) THEN script.subst \o tail[i + Len(script.find)]
  ELSE <<text[i]>> \o tail[i + 1]

LEMMA TailAtIs ==
  ASSUME NEW text \in Text, NEW script \in ScriptsAre, NEW i \in 1..(Len(text) + 1), NEW tail,
         \A j \in (i + 1)..(Len(text) + 1) : tail[j] \in Text
  PROVE  /\ TailAt(tail, text, script, i) \in Text
         /\ \A g : (\A j \in (i + 1)..(Len(text) + 1) : g[j] = tail[j]) =>
                     TailAt(g, text, script, i) = TailAt(tail, text, script, i)
<1> DEFINE size == Len(text)
           width == Len(script.find)
<1>1. size \in Nat /\ script.find \in Text /\ script.subst \in Text /\ script.find # <<>>
  BY DEF ScriptsAre, Text
<1>2. width \in Nat \ {0}
  BY <1>1 DEF Text
<1>3. CASE i = size + 1
  <2>1. <<>> \in Text
    BY DEF Text
  <2>2. QED
    BY <1>3, <2>1 DEF TailAt
<1>4. CASE i # size + 1 /\ Occurs(text, i, script.find)
  <2>1. i + width - 1 <= size
    BY <1>4 DEF Occurs
  <2> HIDE DEF size, width
  <2>2. i + width \in (i + 1)..(size + 1)
    BY <1>1, <1>2, <2>1
  <2>3. tail[i + width] \in Text
    BY <2>2 DEF size
  <2>4. script.subst \o tail[i + width] \in Text
    BY <1>1, <2>3, Joined
  <2>5. \A g : TailAt(g, text, script, i) = script.subst \o g[i + width]
    BY <1>4 DEF TailAt, size, width
  <2>6. QED
    BY <2>2, <2>4, <2>5 DEF size
<1>5. CASE i # size + 1 /\ ~Occurs(text, i, script.find)
  <2> HIDE DEF width
  <2>1. i \in 1..size /\ i + 1 \in (i + 1)..(size + 1)
    BY <1>1, <1>5
  <2>2. text[i] \in Letters
    BY <2>1, ElementOfSeq DEF Text
  <2>3. <<text[i]>> \in Text
    BY <2>2 DEF Text
  <2>4. tail[i + 1] \in Text
    BY <2>1
  <2>5. <<text[i]>> \o tail[i + 1] \in Text
    BY <2>3, <2>4, Joined
  <2>6. \A g : TailAt(g, text, script, i) = <<text[i]>> \o g[i + 1]
    BY <1>5 DEF TailAt
  <2>7. QED
    BY <2>1, <2>5, <2>6
<1>6. QED
  BY <1>3, <1>4, <1>5

LEMMA SubstituteIs ==
  ASSUME NEW text \in Text, NEW script \in ScriptsAre
  PROVE  /\ Substitute(text, script) \in Text
         /\ text = <<>> => Substitute(text, script) = <<>>
<1> DEFINE size == Len(text)
           Fits(g, k) == \A i \in (size + 1 - k)..(size + 1) :
                           g[i] \in Text /\ g[i] = TailAt(g, text, script, i)
           Unrolls(g) == g = [i \in 1..(size + 1) |-> TailAt(g, text, script, i)]
           good == {k \in Nat : k <= size => \E g : Fits(g, k)}
<1>1. size \in Nat
  BY DEF Text
<1>2. 0 \in good
  <2> DEFINE g == [i \in {size + 1} |-> <<>>]
  <2>1. <<>> \in Text
    BY DEF Text
  <2>2. g[size + 1] = <<>> /\ TailAt(g, text, script, size + 1) = <<>>
    BY DEF TailAt
  <2> HIDE DEF g
  <2>3. \A i \in (size + 1 - 0)..(size + 1) : i = size + 1
    BY <1>1
  <2>4. Fits(g, 0)
    BY <2>1, <2>2, <2>3
  <2>5. QED
    BY <2>4
<1>3. ASSUME NEW k \in Nat, k \in good
      PROVE  k + 1 \in good
  <2> SUFFICES ASSUME k + 1 <= size
               PROVE  \E g : Fits(g, k + 1)
    OBVIOUS
  <2> HIDE DEF size
  <2>1. PICK g : Fits(g, k)
    BY <1>1, <1>3
  <2> DEFINE at == size - k
             h == [i \in at..(size + 1) |-> IF i = at THEN TailAt(g, text, script, at) ELSE g[i]]
  <2>2. at \in Nat /\ at >= 1 /\ at <= size /\ at + 1 = size + 1 - k /\ at = size + 1 - (k + 1)
    BY <1>1
  <2> HIDE DEF at
  <2>3. at \in 1..(Len(text) + 1) /\ \A j \in (at + 1)..(Len(text) + 1) : g[j] \in Text
    BY <1>1, <2>1, <2>2 DEF size
  <2>4. TailAt(g, text, script, at) \in Text
    BY <2>3, TailAtIs
  <2>5. \A i \in (at + 1)..(size + 1) : h[i] = g[i]
    BY <1>1, <2>2
  <2>6. h[at] = TailAt(g, text, script, at)
    BY <1>1, <2>2
  <2> HIDE DEF h
  <2>7. ASSUME NEW i \in at..(size + 1)
        PROVE  h[i] \in Text /\ h[i] = TailAt(h, text, script, i)
    <3>1. /\ i \in 1..(Len(text) + 1)
          /\ \A j \in (i + 1)..(Len(text) + 1) : g[j] \in Text /\ h[j] = g[j]
      <4>1. \A j \in (i + 1)..(size + 1) : j \in (at + 1)..(size + 1)
        BY <1>1, <2>2
      <4>2. QED
        BY <1>1, <2>2, <2>3, <2>5, <4>1 DEF size
    <3>2. TailAt(h, text, script, i) = TailAt(g, text, script, i)
      BY <3>1, TailAtIs
    <3>3. CASE i = at
      BY <2>4, <2>6, <3>2, <3>3
    <3>4. CASE i # at
      <4>1. i \in (at + 1)..(size + 1)
        BY <1>1, <2>2, <3>4
      <4>2. QED
        BY <2>1, <2>2, <2>5, <3>2, <4>1
    <3>5. QED
      BY <3>3, <3>4
  <2>8. Fits(h, k + 1)
    BY <2>2, <2>7
  <2>9. QED
    BY <2>8
<1>4. \E g : Fits(g, size)
  <2>1. \A k \in Nat : k \in good
    <3> HIDE DEF good
    <3>1. QED
      BY <1>2, <1>3, Induction
  <2> HIDE DEF size, Fits
  <2>2. QED
    BY <1>1, <2>1
<1>5. \E g : Unrolls(g)
  <2>1. PICK g : Fits(g, size)
    BY <1>4
  <2> DEFINE h == [i \in 1..(size + 1) |-> g[i]]
  <2> HIDE DEF size
  <2>2. \A i \in 1..(size + 1) : h[i] = g[i] /\ h[i] \in Text /\ h[i] = TailAt(g, text, script, i)
    <3>1. size + 1 - size = 1
      BY <1>1
    <3>2. QED
      BY <2>1, <3>1
  <2>3. h = [i \in 1..(size + 1) |-> h[i]]
    BY <2>2
  <2>4. ASSUME NEW i \in 1..(size + 1)
        PROVE  h[i] = TailAt(h, text, script, i)
    <3>1. \A j \in (i + 1)..(size + 1) : h[j] = g[j] /\ g[j] \in Text
      <4>1. \A j \in (i + 1)..(size + 1) : j \in 1..(size + 1)
        BY <1>1
      <4>2. QED
        BY <2>2, <4>1
    <3> HIDE DEF h
    <3>2. TailAt(h, text, script, i) = TailAt(g, text, script, i)
      BY <3>1, TailAtIs DEF size
    <3>3. QED
      BY <2>2, <3>2
  <2> HIDE DEF h
  <2>5. Unrolls(h)
    BY <2>3, <2>4
  <2>6. QED
    BY <2>5
<1> DEFINE tail == CHOOSE g : Unrolls(g)
<1>6. Unrolls(tail)
  <2> HIDE DEF Unrolls
  <2>1. QED
    BY <1>5
<1>7. Substitute(text, script) = tail[1]
  BY DEF Substitute, TailAt
<1> HIDE DEF tail
<1>8. \A i \in 1..(size + 1) : tail[i] = TailAt(tail, text, script, i)
  BY <1>6
<1> DEFINE typed == {k \in Nat : k <= size => \A i \in (size + 1 - k)..(size + 1) : tail[i] \in Text}
<1> HIDE DEF Unrolls
<1>9. 0 \in typed
  <2>1. <<>> \in Text
    BY DEF Text
  <2>2. \A i \in (size + 1 - 0)..(size + 1) : i = size + 1 /\ i \in 1..(size + 1)
    BY <1>1
  <2>3. TailAt(tail, text, script, size + 1) = <<>>
    BY DEF TailAt
  <2> HIDE DEF size
  <2>4. QED
    BY <1>8, <2>1, <2>2, <2>3
<1>10. ASSUME NEW k \in Nat, k \in typed
       PROVE  k + 1 \in typed
  <2> SUFFICES ASSUME k + 1 <= size, NEW i \in (size + 1 - (k + 1))..(size + 1)
               PROVE  tail[i] \in Text
    OBVIOUS
  <2>1. \A j \in (i + 1)..(size + 1) : tail[j] \in Text
    <3> HIDE DEF size
    <3>1. \A j \in (i + 1)..(size + 1) : j \in (size + 1 - k)..(size + 1)
      BY <1>1
    <3>2. k <= size
      BY <1>1
    <3>3. QED
      BY <1>10, <3>1, <3>2
  <2>2. i \in 1..(size + 1)
    BY <1>1
  <2>3. TailAt(tail, text, script, i) \in Text
    BY <2>1, <2>2, TailAtIs
  <2>4. QED
    BY <1>8, <2>2, <2>3
<1>11. tail[1] \in Text
  <2>1. \A k \in Nat : k \in typed
    <3> HIDE DEF typed
    <3>1. QED
      BY <1>9, <1>10, Induction
  <2> HIDE DEF size
  <2>2. size + 1 - size = 1 /\ 1 \in 1..(size + 1)
    BY <1>1
  <2>3. QED
    BY <1>1, <2>1, <2>2
<1>12. ASSUME text = <<>>
       PROVE  tail[1] = <<>>
  <2>1. size = 0 /\ 1 \in 1..(size + 1) /\ 1 = size + 1
    BY <1>1, <1>12
  <2>2. tail[1] = TailAt(tail, text, script, 1)
    BY <1>8, <2>1
  <2>3. QED
    BY <2>1, <2>2 DEF TailAt
<1>13. QED
  BY <1>7, <1>11, <1>12

LEMMA TransformedIs ==
  ASSUME key.scripts \in Scripts, NEW text \in Text
  PROVE  /\ Transformed(text) \in Text
         /\ text = <<>> => Transformed(text) = <<>>
         /\ key.scripts = <<>> => Transformed(text) = text
<1> DEFINE N == Len(key.scripts)
           step(n, x) == Substitute(x, key.scripts[n])
           next == [it \in (1..N) \X Text |-> step(it[1], it[2])]
           Unrolls(f) == f = [n \in 0..N |-> IF n = 0 THEN text ELSE step(n, f[n - 1])]
<1>1. N \in Nat /\ \A n \in 1..N : key.scripts[n] \in ScriptsAre
  <2>1. key.scripts \in Seq(ScriptsAre)
    BY StreamsAssumption DEF ScriptsAre
  <2>2. QED
    BY <2>1, ElementOfSeq
<1>2. ASSUME NEW n \in 1..N, NEW x \in Text
      PROVE  step(n, x) \in Text /\ (x = <<>> => step(n, x) = <<>>)
  BY <1>1, SubstituteIs
<1>3. next \in [(1..N) \X Text -> Text]
  BY <1>2
<1>4. \E f : Unrolls(f)
  <2> HIDE DEF N
  <2>1. PICK f : f \in Walks(N, Text, text, next)
    <3> HIDE DEF next, Unrolls
    <3>1. N \in Nat
      BY <1>1
    <3>2. QED
      BY <1>3, <3>1, Recursion
  <2>2. ASSUME NEW i \in 0..N
        PROVE  f[i] = IF i = 0 THEN text ELSE step(i, f[i - 1])
    <3>1. CASE i = 0
      BY <2>1, <3>1 DEF Walks
    <3>2. CASE i # 0
      <4>1. i \in 1..N /\ i - 1 \in 0..N
        BY <1>1, <3>2
      <4>2. f[i - 1] \in Text
        BY <2>1, <4>1 DEF Walks
      <4>3. next[<<i, f[i - 1]>>] = step(i, f[i - 1])
        BY <4>1, <4>2
      <4> HIDE DEF step, next
      <4>4. QED
        BY <2>1, <3>2, <4>1, <4>3 DEF Walks
    <3>3. QED
      BY <3>1, <3>2
  <2> HIDE DEF step
  <2>3. Unrolls(f)
    BY <2>1, <2>2 DEF Walks
  <2> HIDE DEF Unrolls
  <2>4. QED
    BY <2>3
<1> DEFINE pass == CHOOSE f : Unrolls(f)
<1>5. Unrolls(pass)
  <2> HIDE DEF Unrolls
  <2>1. QED
    BY <1>4
<1>6. Transformed(text) = pass[N] /\ (key.scripts = <<>> => N = 0)
  BY DEF Transformed, Applied
<1> HIDE DEF pass, next, step, N
<1>7. pass[0] = text
  BY <1>1, <1>5
<1>8. ASSUME NEW n \in Nat, n + 1 <= N
      PROVE  pass[n + 1] = step(n + 1, pass[n])
  BY <1>1, <1>5, <1>8
<1> HIDE DEF Unrolls
<1> DEFINE Fine(n) == pass[n] \in Text /\ (text = <<>> => pass[n] = <<>>)
           good == {n \in Nat : n <= N => Fine(n)}
<1>9. 0 \in good
  BY <1>7
<1>10. ASSUME NEW n \in Nat, n \in good
       PROVE  n + 1 \in good
  <2> SUFFICES ASSUME n + 1 <= N
               PROVE  Fine(n + 1)
    OBVIOUS
  <2>1. Fine(n) /\ n + 1 \in 1..N
    BY <1>1, <1>10
  <2>2. QED
    BY <1>2, <1>8, <2>1
<1>11. N \in good
  <2> HIDE DEF good
  <2>1. \A n \in Nat : n \in good
    BY <1>9, <1>10, Induction
  <2>2. QED
    BY <1>1, <2>1
<1>12. QED
  BY <1>1, <1>6, <1>7, <1>11

-----------------------------------------------------------------------------
(* Beginnings and ends of texts.                                           *)
LEMMA Halves ==
  ASSUME NEW text \in Text, NEW n \in 0..Len(text)
  PROVE  /\ First(text, n) \in Text /\ Rest(text, n) \in Text
         /\ Len(First(text, n)) = n /\ First(text, n) \o Rest(text, n) = text
<1>1. text \in Seq(Letters) /\ Len(text) \in Nat /\ n \in Nat /\ n <= Len(text)
  BY DEF Text
<1>2. /\ First(text, n) \in Seq(Letters) /\ Len(First(text, n)) = n
      /\ \A i \in 1..n : First(text, n)[i] = text[i]
  BY <1>1 DEF First
<1>3. /\ Rest(text, n) \in Seq(Letters) /\ Len(Rest(text, n)) = Len(text) - n
      /\ \A i \in 1..(Len(text) - n) : Rest(text, n)[i] = text[n + i]
  BY <1>1 DEF Rest
<1> DEFINE a == First(text, n)
           b == Rest(text, n)
           size == Len(text)
<1> HIDE DEF a, b
<1>4. a \o b \in Seq(Letters) /\ Len(a \o b) = size
  <2>1. a \o b \in Seq(Letters) /\ Len(a \o b) = Len(a) + Len(b)
    <3>1. a \in Seq(Letters) /\ b \in Seq(Letters)
      BY <1>2, <1>3 DEF a, b
    <3>2. QED
      BY <3>1
  <2>2. size \in Nat /\ n \in Nat /\ Len(a) = n /\ Len(b) = size - n
    BY <1>1, <1>2, <1>3 DEF a, b
  <2> HIDE DEF size
  <2>3. n + (size - n) = size
    BY <2>2
  <2>4. QED
    BY <2>1, <2>2, <2>3
<1>5. ASSUME NEW i \in 1..size
      PROVE  (a \o b)[i] = text[i]
  <2>1. CASE i <= n
    BY <1>1, <1>2, <1>3, <2>1 DEF a, b
  <2>2. CASE ~(i <= n)
    <3> HIDE DEF size
    <3>1. i - n \in 1..(size - n) /\ n + (i - n) = i /\ i \in Nat /\ ~(i <= n)
      BY <1>1, <2>2 DEF size
    <3>2. (a \o b)[i] = b[i - n]
      BY <1>1, <1>2, <1>3, <3>1 DEF a, b, size
    <3>3. b[i - n] = text[n + (i - n)]
      BY <1>3, <3>1 DEF b, size
    <3>4. QED
      BY <3>1, <3>2, <3>3
  <2>3. size \in Nat /\ n \in Nat
    BY <1>1
  <2> HIDE DEF size
  <2>4. i \in Nat
    BY <2>3
  <2>5. QED
    BY <2>1, <2>2
<1>6. a \o b = text
  BY <1>1, <1>4, <1>5, SeqEqual
<1>7. QED
  BY <1>2, <1>3, <1>6 DEF Text, a, b

LEMMA Grown ==
  ASSUME NEW text \in Text, NEW x \in Text, NEW n \in 0..Len(text)
  PROVE  First(text \o x, n) = First(text, n) /\ Rest(text \o x, n) = Rest(text, n) \o x
<1> DEFINE size == Len(text)
           more == Len(x)
           whole == text \o x
<1>1. /\ text \in Seq(Letters) /\ x \in Seq(Letters) /\ size \in Nat /\ more \in Nat
      /\ n \in Nat /\ n <= size
  BY DEF Text
<1>2. /\ whole \in Seq(Letters) /\ Len(whole) = size + more
      /\ \A i \in 1..(size + more) : whole[i] = IF i <= size THEN text[i] ELSE x[i - size]
  BY <1>1
<1> HIDE DEF size, more, whole
<1>3. First(whole, n) = First(text, n)
  <2>1. /\ First(whole, n) \in Seq(Letters) /\ Len(First(whole, n)) = n
        /\ \A i \in 1..n : First(whole, n)[i] = whole[i]
    BY <1>1, <1>2 DEF First
  <2>2. /\ First(text, n) \in Seq(Letters) /\ Len(First(text, n)) = n
        /\ \A i \in 1..n : First(text, n)[i] = text[i]
    BY <1>1 DEF First, size
  <2>3. \A i \in 1..n : whole[i] = text[i]
    BY <1>1, <1>2
  <2>4. \A i \in 1..n : First(whole, n)[i] = First(text, n)[i]
    BY <2>1, <2>2, <2>3
  <2>5. QED
    BY <2>1, <2>2, <2>4, SeqEqual
<1>4. Rest(whole, n) = Rest(text, n) \o x
  <2>1. /\ Rest(whole, n) \in Seq(Letters) /\ Len(Rest(whole, n)) = size + more - n
        /\ \A i \in 1..(size + more - n) : Rest(whole, n)[i] = whole[n + i]
    BY <1>1, <1>2 DEF Rest
  <2>2. /\ Rest(text, n) \in Seq(Letters) /\ Len(Rest(text, n)) = size - n
        /\ \A i \in 1..(size - n) : Rest(text, n)[i] = text[n + i]
    BY <1>1 DEF Rest, size
  <2> DEFINE b == Rest(text, n)
  <2> HIDE DEF b
  <2>3. /\ b \o x \in Seq(Letters) /\ Len(b \o x) = size + more - n
        /\ \A i \in 1..(size + more - n) :
             (b \o x)[i] = IF i <= size - n THEN b[i] ELSE x[i - (size - n)]
    <3> DEFINE width == size - n
    <3>1. b \in Seq(Letters) /\ Len(b) = width /\ width \in Nat /\ width + more = size + more - n
      BY <1>1, <2>2 DEF b
    <3> HIDE DEF width
    <3>2. /\ b \o x \in Seq(Letters) /\ Len(b \o x) = width + more
          /\ \A i \in 1..(width + more) : (b \o x)[i] = IF i <= width THEN b[i] ELSE x[i - width]
      <4>1. b \in Seq(Letters) /\ x \in Seq(Letters) /\ Len(b) = width /\ Len(x) = more
        BY <1>1, <3>1 DEF more
      <4>2. QED
        BY <4>1
    <3>3. QED
      BY <3>1, <3>2 DEF width
  <2>4. ASSUME NEW i \in 1..(size + more - n)
        PROVE  Rest(whole, n)[i] = (b \o x)[i]
    <3>1. n + i \in 1..(size + more) /\ i \in Nat
      BY <1>1
    <3> DEFINE k == n + i
    <3>2. Rest(whole, n)[i] = IF k <= size THEN text[k] ELSE x[k - size]
      <4>1. Rest(whole, n)[i] = whole[n + i]
        BY <2>1
      <4>2. k \in 1..(size + more)
        BY <3>1
      <4> HIDE DEF k
      <4>3. whole[k] = IF k <= size THEN text[k] ELSE x[k - size]
        BY <1>2, <4>2
      <4>4. QED
        BY <4>1, <4>3 DEF k
    <3>3. CASE i <= size - n
      <4>1. n + i <= size /\ i \in 1..(size - n)
        BY <1>1, <3>1, <3>3
      <4>2. QED
        BY <2>2, <2>3, <3>2, <3>3, <4>1 DEF b
    <3>4. CASE ~(i <= size - n)
      <4>1. ~(k <= size) /\ k - size = i - (size - n)
        BY <1>1, <3>1, <3>4
      <4>2. QED
        <5>1. (b \o x)[i] = x[i - (size - n)]
          BY <2>3, <3>4
        <5> HIDE DEF k
        <5>2. Rest(whole, n)[i] = x[k - size]
          BY <3>2, <4>1
        <5>3. QED
          BY <4>1, <5>1, <5>2
    <3>5. QED
      BY <3>3, <3>4
  <2>5. Rest(whole, n) = b \o x
    BY <2>1, <2>3, <2>4, SeqEqual
  <2>6. QED
    BY <2>5 DEF b
<1>5. QED
  BY <1>3, <1>4 DEF whole

LEMMA Prefixed ==
  ASSUME NEW a \in Text, NEW b \in Text, IsPrefix(a, b)
  PROVE  Len(a) \in 0..Len(b) /\ Rest(b, Len(a)) \in Text /\ a \o Rest(b, Len(a)) = b
<1>1. Len(a) <= Len(b) /\ SubSeq(a, 1, Len(a)) = SubSeq(b, 1, Len(a))
  BY DEF IsPrefix
<1>2. Len(a) \in 0..Len(b)
  BY <1>1 DEF Text
<1>3. SubSeq(a, 1, Len(a)) = a
  BY DEF Text
<1>4. First(b, Len(a)) = a
  BY <1>1, <1>3 DEF First
<1>5. QED
  BY <1>2, <1>4, Halves

LEMMA Assoc ==
  ASSUME NEW a \in Text, NEW b \in Text, NEW c \in Text
  PROVE  (a \o b) \o c = a \o (b \o c) /\ a \o <<>> = a /\ <<>> \o a = a /\ <<>> \in Text
<1>1. <<>> \in Text
  BY DEF Text
<1>2. a \in Seq(Letters) /\ b \in Seq(Letters) /\ c \in Seq(Letters)
  BY DEF Text
<1>3. (a \o b) \o c = a \o (b \o c)
  BY <1>2, ConcatAssociative
<1>4. a \o <<>> = a /\ <<>> \o a = a
  BY <1>2, ConcatEmptySeq
<1>5. QED
  BY <1>1, <1>3, <1>4

(* Three texts put together are the same text either way.                  *)
Regrouped(a, b, c) == (a \o b) \o c = a \o (b \o c)

LEMMA Regroup ==
  ASSUME NEW a \in Text, NEW b \in Text, NEW c \in Text
  PROVE  Regrouped(a, b, c)
<1>1. (a \o b) \o c = a \o (b \o c)
  <2>1. a \in Seq(Letters) /\ b \in Seq(Letters) /\ c \in Seq(Letters)
    BY DEF Text
  <2>2. QED
    BY <2>1, ConcatAssociative
<1>2. QED
  BY <1>1 DEF Regrouped

-----------------------------------------------------------------------------
(* The regex stage.                                                        *)
Regexes ==
  {r \in [raw : Text, committed : Nat, done : Text, passthrough : BOOLEAN, flushed : BOOLEAN] :
     r.committed <= Len(r.raw)}

(* A beginning of what the stage got, transformed, and the rest as it was. *)
Mixed(r, n) == Transformed(First(r.raw, n)) \o Rest(r.raw, n)

(* What the client has after the stage has sent text.                      *)
Balance(r, text) ==
  /\ ~r.flushed /\ ~r.passthrough => text = r.done /\ r.done = Transformed(First(r.raw, r.committed))
  /\ ~r.flushed /\ r.passthrough => r.committed = Len(r.raw)
  /\ r.flushed \/ r.passthrough => \E n \in 0..Len(r.raw) : text = Mixed(r, n)
  /\ r.flushed /\ ~r.passthrough /\ IsPrefix(r.done, Transformed(r.raw)) =>
       text = Transformed(r.raw)

LEMMA RelayBalances ==
  ASSUME key.scripts \in Scripts, NEW r \in Regexes, NEW text \in Text, NEW x \in Text,
         Balance(r, text), ~r.flushed, r.passthrough
  PROVE  LET e == Relay([r EXCEPT !.raw = @ \o x])
         IN /\ e.st \in Regexes /\ e.text \in Text /\ ~e.st.flushed
            /\ Balance(e.st, text \o e.text)
<1> DEFINE whole == r.raw \o x
           t == [r EXCEPT !.raw = whole]
           u == [t EXCEPT !.committed = Len(whole)]
<1>1. r.raw \in Text /\ whole \in Text /\ Len(whole) \in Nat /\ Len(r.raw) \in Nat
  BY Joined DEF Regexes, Text
<1>2. Rest(whole, Len(r.raw)) = x
  <2>1. Rest(whole, Len(r.raw)) = Rest(r.raw, Len(r.raw)) \o x
    <3>1. Len(r.raw) \in 0..Len(r.raw)
      BY <1>1
    <3>2. QED
      BY <1>1, <3>1, Grown
  <2>2. Rest(r.raw, Len(r.raw)) = <<>>
    BY <1>1 DEF Rest, Text
  <2>3. QED
    BY <2>1, <2>2, Assoc
<1>3. r.committed = Len(r.raw)
  BY DEF Balance
<1>4. Relay([r EXCEPT !.raw = @ \o x]) = [st |-> u, text |-> x]
  <2>1. t.raw = whole /\ t.committed = r.committed
    BY DEF Regexes
  <2>2. Relay(t) = [st |-> [t EXCEPT !.committed = Len(t.raw)], text |-> Rest(t.raw, t.committed)]
    BY DEF Relay
  <2>3. QED
    BY <1>2, <1>3, <2>1, <2>2
<1> HIDE DEF whole
<1>5. /\ u \in Regexes /\ ~u.flushed /\ u.passthrough /\ u.raw = whole
      /\ u.committed = Len(whole)
  <2> DEFINE m == Len(whole)
  <2>1. m \in Nat /\ m <= m /\ m = Len(whole)
    BY <1>1
  <2>2. u = [r EXCEPT !.raw = whole, !.committed = m]
    BY DEF Regexes
  <2> HIDE DEF m, u
  <2>3. QED
    BY <1>1, <2>1, <2>2 DEF Regexes
<1>6. PICK n \in 0..Len(r.raw) : text = Mixed(r, n)
  BY DEF Balance
<1>7. /\ First(whole, n) = First(r.raw, n) /\ Rest(whole, n) = Rest(r.raw, n) \o x
      /\ n \in 0..Len(whole)
  <2>1. n \in 0..Len(whole)
    <3>1. Len(whole) = Len(r.raw) + Len(x) /\ Len(x) \in Nat
      BY <1>1, Joined DEF whole, Text
    <3>2. QED
      BY <1>1, <1>6, <3>1
  <2>2. QED
    BY <1>1, <1>6, <2>1, Grown DEF whole
<1> HIDE DEF u
<1>8. text \o x = Mixed(u, n)
  <2> DEFINE a == Transformed(First(r.raw, n))
             b == Rest(r.raw, n)
  <2>1. a \in Text /\ b \in Text
    BY <1>1, <1>6, Halves, TransformedIs
  <2>2. text = a \o b
    BY <1>6 DEF Mixed
  <2>3. Mixed(u, n) = a \o (b \o x)
    BY <1>5, <1>7 DEF Mixed
  <2> HIDE DEF a, b
  <2>4. (a \o b) \o x = a \o (b \o x)
    <3>1. Regrouped(a, b, x)
      BY <2>1, Regroup
    <3>2. QED
      BY <3>1 DEF Regrouped
  <2>5. QED
    BY <2>2, <2>3, <2>4
<1>9. Balance(u, text \o x)
  BY <1>5, <1>7, <1>8 DEF Balance
<1>10. QED
  BY <1>4, <1>5, <1>9

LEMMA AdvanceBalances ==
  ASSUME key.scripts \in Scripts, NEW r \in Regexes, NEW text \in Text, NEW x \in Text,
         Balance(r, text), ~r.flushed, ~r.passthrough
  PROVE  LET e == Advance([r EXCEPT !.raw = @ \o x])
         IN /\ e.st \in Regexes /\ e.text \in Text /\ ~e.st.flushed
            /\ Balance(e.st, text \o e.text)
<1> DEFINE whole == r.raw \o x
           size == Len(whole)
           t == [r EXCEPT !.raw = whole]
           n == size - Margin
           candidate == Transformed(First(whole, n))
<1>1. /\ r.raw \in Text /\ whole \in Text /\ size \in Nat /\ Len(r.raw) \in Nat
      /\ r.committed \in 0..Len(r.raw) /\ r.done \in Text
  BY Joined DEF Regexes, Text
<1>2. size = Len(r.raw) + Len(x) /\ Len(x) \in Nat /\ Margin \in Nat
  BY <1>1, Joined, StreamsAssumption DEF Text
<1>3. text = r.done /\ r.done = Transformed(First(r.raw, r.committed))
  BY DEF Balance
<1>4. /\ First(whole, r.committed) = First(r.raw, r.committed)
      /\ r.committed \in 0..size
  <2>1. r.committed \in 0..size
    BY <1>1, <1>2
  <2>2. QED
    BY <1>1, <2>1, Grown
<1>5. /\ t \in Regexes /\ t.raw = whole /\ t.committed = r.committed /\ t.done = r.done
      /\ ~t.flushed /\ ~t.passthrough
  <2> HIDE DEF whole
  <2>1. r.committed <= size
    BY <1>4
  <2>2. QED
    BY <1>1, <2>1 DEF Regexes
<1> DEFINE e == Advance(t)
<1> SUFFICES /\ e.st \in Regexes /\ e.text \in Text /\ ~e.st.flushed
             /\ Balance(e.st, text \o e.text)
  BY DEF e
<1> HIDE DEF whole, t
<1>6. CASE size <= Margin \/ n <= r.committed
  <2>1. Advance(t) = [st |-> t, text |-> <<>>]
    BY <1>5, <1>6 DEF Advance
  <2>2. Balance(t, text \o <<>>) /\ <<>> \in Text
    <3>1. Balance(t, text)
      BY <1>3, <1>4, <1>5 DEF Balance
    <3>2. text \o <<>> = text /\ <<>> \in Text
      BY Assoc
    <3>3. QED
      BY <3>1, <3>2
  <2>3. QED
    BY <1>5, <2>1, <2>2
<1>7. CASE ~(size <= Margin \/ n <= r.committed) /\ IsPrefix(r.done, candidate)
  <2> DEFINE u == [t EXCEPT !.committed = n, !.done = candidate]
             y == Rest(candidate, Len(r.done))
  <2>1. n \in 0..size /\ n \in Nat
    <3> HIDE DEF size
    <3>1. QED
      BY <1>1, <1>2, <1>7
  <2>2. First(whole, n) \in Text
    BY <1>1, <2>1, Halves
  <2>3. candidate \in Text
    BY <2>2, TransformedIs
  <2>4. y \in Text /\ r.done \o y = candidate
    BY <1>1, <1>7, <2>3, Prefixed
  <2>5. Advance(t) = [st |-> u, text |-> y]
    BY <1>5, <1>7 DEF Advance
  <2>6. /\ u \in Regexes /\ ~u.flushed /\ ~u.passthrough /\ u.raw = whole /\ u.committed = n
        /\ u.done = candidate
    <3> HIDE DEF candidate, n
    <3>1. n <= Len(whole)
      BY <2>1
    <3>2. QED
      BY <1>5, <2>1, <2>3, <3>1 DEF Regexes
  <2> HIDE DEF u, y
  <2>7. Balance(u, text \o y)
    BY <1>3, <2>4, <2>6 DEF Balance
  <2>8. QED
    BY <2>4, <2>5, <2>6, <2>7
<1>8. CASE ~(size <= Margin \/ n <= r.committed) /\ ~IsPrefix(r.done, candidate)
  <2> DEFINE u == [t EXCEPT !.committed = size, !.passthrough = TRUE]
             y == Rest(whole, r.committed)
  <2>1. Advance(t) = [st |-> u, text |-> y]
    BY <1>5, <1>8 DEF Advance
  <2>2. /\ u \in Regexes /\ ~u.flushed /\ u.passthrough /\ u.raw = whole /\ u.committed = size
    <3>1. size \in Nat /\ size <= size /\ size = Len(t.raw)
      BY <1>1, <1>5
    <3> HIDE DEF size
    <3>2. QED
      BY <1>5, <3>1 DEF Regexes
  <2>3. y \in Text
    BY <1>1, <1>4, Halves
  <2> HIDE DEF u
  <2>4. text \o y = Mixed(u, r.committed)
    BY <1>3, <1>4, <2>2 DEF Mixed
  <2>5. Balance(u, text \o y)
    BY <1>4, <2>2, <2>4 DEF Balance
  <2>6. QED
    BY <2>1, <2>2, <2>3, <2>5
<1>9. QED
  BY <1>6, <1>7, <1>8

LEMMA FlushBalances ==
  ASSUME key.scripts \in Scripts, NEW r \in Regexes, NEW text \in Text, Balance(r, text)
  PROVE  LET e == FlushRemainder(r)
         IN /\ e.st \in Regexes /\ e.text \in Text /\ e.st.flushed
            /\ Balance(e.st, text \o e.text)
<1> DEFINE e == FlushRemainder(r)
           u == [r EXCEPT !.flushed = TRUE]
           candidate == Transformed(r.raw)
<1>1. /\ r.raw \in Text /\ Len(r.raw) \in Nat /\ r.committed \in 0..Len(r.raw) /\ r.done \in Text
  BY DEF Regexes, Text
<1>2. /\ u \in Regexes /\ u.flushed /\ u.raw = r.raw /\ u.done = r.done
      /\ u.passthrough = r.passthrough
  BY DEF Regexes
<1>3. e.st = u
  BY DEF FlushRemainder
<1>4. <<>> \in Text /\ text \o <<>> = text
  BY Assoc
<1> HIDE DEF u
<1>5. CASE r.flushed
  <2>1. e.text = <<>>
    BY <1>5 DEF FlushRemainder
  <2>2. Balance(u, text)
    BY <1>2, <1>5 DEF Balance, Mixed
  <2>3. QED
    BY <1>2, <1>3, <1>4, <2>1, <2>2
<1>6. CASE ~r.flushed /\ ~r.passthrough /\ IsPrefix(r.done, candidate)
  <2> DEFINE y == Rest(candidate, Len(r.done))
  <2>1. e.text = y
    BY <1>6 DEF FlushRemainder
  <2>2. candidate \in Text
    BY <1>1, TransformedIs
  <2>3. y \in Text /\ r.done \o y = candidate
    BY <1>1, <1>6, <2>2, Prefixed
  <2>4. First(r.raw, Len(r.raw)) = r.raw /\ Rest(r.raw, Len(r.raw)) = <<>>
    BY <1>1 DEF First, Rest, Text
  <2>5. Mixed(u, Len(r.raw)) = candidate
    BY <1>2, <2>2, <2>4, Assoc DEF Mixed
  <2>6. text = r.done
    BY <1>6 DEF Balance
  <2> HIDE DEF y
  <2>7. Len(r.raw) \in 0..Len(u.raw)
    BY <1>1, <1>2
  <2>8. Balance(u, text \o y)
    BY <1>2, <2>3, <2>5, <2>6, <2>7 DEF Balance
  <2>9. QED
    BY <1>2, <1>3, <2>1, <2>3, <2>8
<1>7. CASE ~r.flushed /\ ~(~r.passthrough /\ IsPrefix(r.done, candidate))
  <2> DEFINE y == Rest(r.raw, r.committed)
  <2>1. e.text = y
    BY <1>7 DEF FlushRemainder
  <2>2. y \in Text
    BY <1>1, Halves
  <2>3. \E n \in 0..Len(u.raw) : text \o y = Mixed(u, n)
    <3>1. CASE r.passthrough
      <4>1. y = <<>>
        <5>1. r.committed = Len(r.raw)
          BY <1>7, <3>1 DEF Balance
        <5>2. QED
          BY <1>1, <5>1 DEF Rest, Text
      <4>2. \E n \in 0..Len(r.raw) : text = Mixed(r, n)
        BY <3>1 DEF Balance
      <4>3. QED
        BY <1>2, <1>4, <4>1, <4>2 DEF Mixed
    <3>2. CASE ~r.passthrough
      <4>1. text = Transformed(First(r.raw, r.committed))
        BY <1>7, <3>2 DEF Balance
      <4>2. text \o y = Mixed(u, r.committed)
        BY <1>2, <4>1 DEF Mixed
      <4>3. QED
        BY <1>1, <1>2, <4>2
    <3>3. QED
      BY <3>1, <3>2
  <2> HIDE DEF y
  <2>4. Balance(u, text \o y)
    <3>1. ~(~u.passthrough /\ IsPrefix(u.done, Transformed(u.raw)))
      BY <1>2, <1>7
    <3> HIDE DEF candidate
    <3>2. QED
      BY <1>2, <2>3, <3>1 DEF Balance
  <2>5. QED
    BY <1>2, <1>3, <2>1, <2>2, <2>4
<1>8. QED
  BY <1>5, <1>6, <1>7

-----------------------------------------------------------------------------
(* The types hold whether or not the account balances.                     *)
LEMMA AdvanceTyped ==
  ASSUME key.scripts \in Scripts, NEW r \in Regexes
  PROVE  LET e == Advance(r)
         IN /\ e.st \in Regexes /\ e.text \in Text /\ e.st.flushed = r.flushed
            /\ e.st.raw = r.raw
<1> DEFINE size == Len(r.raw)
           n == size - Margin
           candidate == Transformed(First(r.raw, n))
           e == Advance(r)
<1>1. r.raw \in Text /\ size \in Nat /\ r.committed \in 0..size /\ r.done \in Text /\ Margin \in Nat
  BY StreamsAssumption DEF Regexes, Text
<1> SUFFICES e.st \in Regexes /\ e.text \in Text /\ e.st.flushed = r.flushed /\ e.st.raw = r.raw
  BY DEF e
<1>2. CASE size <= Margin \/ n <= r.committed
  <2>1. e = [st |-> r, text |-> <<>>]
    BY <1>2 DEF Advance
  <2>2. <<>> \in Text
    BY DEF Text
  <2> HIDE DEF e
  <2>3. QED
    BY <2>1, <2>2
<1>3. CASE ~(size <= Margin \/ n <= r.committed) /\ IsPrefix(r.done, candidate)
  <2> DEFINE u == [r EXCEPT !.committed = n, !.done = candidate]
             y == Rest(candidate, Len(r.done))
  <2>1. e = [st |-> u, text |-> y]
    BY <1>3 DEF Advance
  <2> HIDE DEF e
  <2>2. n \in 0..size /\ n \in Nat /\ n <= Len(r.raw)
    <3>1. n \in 0..size /\ n \in Nat /\ n <= size
      <4> HIDE DEF size
      <4>1. QED
        BY <1>1, <1>3
    <3>2. QED
      BY <3>1
  <2>3. candidate \in Text
    BY <1>1, <2>2, Halves, TransformedIs
  <2>4. y \in Text
    BY <1>1, <1>3, <2>3, Prefixed
  <2> HIDE DEF n, candidate, y
  <2>5. u \in Regexes /\ u.flushed = r.flushed /\ u.raw = r.raw
    BY <2>2, <2>3 DEF Regexes
  <2> HIDE DEF u
  <2>6. QED
    BY <2>1, <2>4, <2>5
<1>4. CASE ~(size <= Margin \/ n <= r.committed) /\ ~IsPrefix(r.done, candidate)
  <2> DEFINE u == [r EXCEPT !.committed = size, !.passthrough = TRUE]
             y == Rest(r.raw, r.committed)
  <2>1. e = [st |-> u, text |-> y]
    BY <1>4 DEF Advance
  <2> HIDE DEF e
  <2>2. y \in Text
    BY <1>1, Halves
  <2>3. u \in Regexes /\ u.flushed = r.flushed /\ u.raw = r.raw
    <3>1. size \in Nat /\ size <= size /\ size = Len(r.raw)
      BY <1>1
    <3> HIDE DEF size
    <3>2. QED
      BY <3>1 DEF Regexes
  <2> HIDE DEF u, y
  <2>4. QED
    BY <2>1, <2>2, <2>3
<1>5. QED
  BY <1>2, <1>3, <1>4

LEMMA RelayTyped ==
  ASSUME NEW r \in Regexes
  PROVE  LET e == Relay(r)
         IN /\ e.st \in Regexes /\ e.text \in Text /\ e.st.flushed = r.flushed
            /\ e.st.raw = r.raw
<1> DEFINE size == Len(r.raw)
           y == Rest(r.raw, r.committed)
           u == [r EXCEPT !.committed = size]
<1>1. r.raw \in Text /\ size \in Nat /\ r.committed \in 0..size /\ size <= size /\ size = Len(r.raw)
  BY DEF Regexes, Text
<1>2. y \in Text
  BY <1>1, Halves
<1>3. Relay(r) = [st |-> u, text |-> y]
  BY DEF Relay
<1> HIDE DEF size, y
<1>4. u \in Regexes /\ u.flushed = r.flushed /\ u.raw = r.raw
  BY <1>1 DEF Regexes
<1> HIDE DEF u
<1>5. QED
  BY <1>2, <1>3, <1>4

LEMMA FlushTyped ==
  ASSUME key.scripts \in Scripts, NEW r \in Regexes
  PROVE  LET e == FlushRemainder(r)
         IN e.st \in Regexes /\ e.text \in Text /\ e.st.flushed /\ e.st.raw = r.raw
<1> DEFINE e == FlushRemainder(r)
           u == [r EXCEPT !.flushed = TRUE]
           candidate == Transformed(r.raw)
<1>1. r.raw \in Text /\ r.committed \in 0..Len(r.raw) /\ r.done \in Text /\ <<>> \in Text
  BY DEF Regexes, Text
<1>2. u \in Regexes /\ u.flushed /\ u.raw = r.raw
  BY DEF Regexes
<1>3. Rest(r.raw, r.committed) \in Text
  BY <1>1, Halves
<1>4. candidate \in Text
  BY <1>1, TransformedIs
<1>5. IsPrefix(r.done, candidate) => Rest(candidate, Len(r.done)) \in Text
  BY <1>1, <1>4, Prefixed
<1> HIDE DEF candidate, u
<1>6. e.st = u /\ e.text \in Text
  BY <1>1, <1>3, <1>5 DEF FlushRemainder, candidate, u
<1>7. QED
  BY <1>2, <1>6

-----------------------------------------------------------------------------
(* Frames on their way.                                                    *)
Clients ==
  [state : {"reading", "draining", "ended", "broken", "gone"}, text : Text, role : BOOLEAN,
   finishes : Nat, errors : Nat, dones : Nat, late : Nat]

Lines == [scan : Resting(key.pairs), rx : Regexes, client : Clients]

Frames ==
  {f \in [kind : {"delta", "done", "error"}, content : Text, role : BOOLEAN, finish : BOOLEAN] :
     f.kind # "delta" => f.content = <<>> /\ ~f.role /\ ~f.finish}

(* What a frame adds to what the client knows, the text apart; heard is    *)
(* FALSE where a stage may drop the frame with its finish reason.          *)
Reads(c, d, f, heard) ==
  /\ d.state = c.state
  /\ d.role = (c.role \/ f.role)
  /\ heard => d.finishes = IF f.finish THEN c.finishes + 1 ELSE c.finishes
  /\ d.finishes \in {c.finishes, c.finishes + 1}
  /\ d.errors = IF f.kind = "error" THEN c.errors + 1 ELSE c.errors

(* The selected presets and scripts.                                       *)
KeyOK == key.pairs \in TagLists /\ key.scripts \in Scripts

Balanced(p) == Balance(p.rx, p.client.text)

LEMMA LineIs ==
  ASSUME NEW p \in Lines, NEW s \in Resting(key.pairs), NEW r \in Regexes
  PROVE  /\ p.scan \in Resting(key.pairs) /\ p.rx \in Regexes /\ p.client \in Clients
         /\ p.client.text \in Text
         /\ [p EXCEPT !.scan = s] \in Lines /\ [p EXCEPT !.scan = s].scan = s
         /\ [p EXCEPT !.scan = s].rx = p.rx /\ [p EXCEPT !.scan = s].client = p.client
         /\ [p EXCEPT !.rx = r] \in Lines /\ [p EXCEPT !.rx = r].rx = r
         /\ [p EXCEPT !.rx = r].scan = p.scan /\ [p EXCEPT !.rx = r].client = p.client
BY DEF Lines, Clients

LEMMA RxIs ==
  ASSUME NEW p \in Lines, NEW r \in Regexes
  PROVE  /\ [p EXCEPT !.rx = r] \in Lines /\ [p EXCEPT !.rx = r].rx = r
         /\ [p EXCEPT !.rx = r].scan = p.scan /\ [p EXCEPT !.rx = r].client = p.client
BY DEF Lines

LEMMA FrameIs ==
  ASSUME NEW f \in Frames, NEW text \in Text, f.kind = "delta"
  PROVE  /\ [f EXCEPT !.content = text] \in Frames
         /\ [f EXCEPT !.content = text].content = text
         /\ [f EXCEPT !.content = text].role = f.role
         /\ [f EXCEPT !.content = text].finish = f.finish
         /\ [f EXCEPT !.content = text].kind = "delta"
BY DEF Frames

LEMMA DeltaIs ==
  ASSUME NEW text \in Text, NEW role \in BOOLEAN, NEW finish \in BOOLEAN
  PROVE  LET f == Delta(text, role, finish)
         IN /\ f \in Frames /\ f.kind = "delta" /\ f.content = text /\ f.role = role
            /\ f.finish = finish
BY DEF Frames, Delta

LEMMA EndsAre ==
  /\ Done \in Frames /\ Done.kind = "done" /\ Done.content = <<>> /\ ~Done.finish /\ ~Done.role
  /\ ErrorFrame \in Frames /\ ErrorFrame.kind = "error" /\ ErrorFrame.content = <<>>
  /\ ~ErrorFrame.finish /\ ~ErrorFrame.role
<1>1. <<>> \in Text
  BY DEF Text
<1>2. /\ Done \in Frames /\ Done.kind = "done" /\ Done.content = <<>> /\ ~Done.finish
      /\ ~Done.role
  BY <1>1 DEF Frames, Done
<1>3. /\ ErrorFrame \in Frames /\ ErrorFrame.kind = "error" /\ ErrorFrame.content = <<>>
      /\ ~ErrorFrame.finish /\ ~ErrorFrame.role
  BY <1>2 DEF Frames, ErrorFrame
<1>4. QED
  BY <1>2, <1>3

LEMMA DeliverPasses ==
  ASSUME NEW p \in Lines, NEW f \in Frames
  PROVE  LET q == Deliver(p, f)
         IN /\ q \in Lines /\ q.scan = p.scan /\ q.rx = p.rx
            /\ q.client.text = p.client.text \o f.content
            /\ Reads(p.client, q.client, f, TRUE)
<1> DEFINE c == p.client
           d == Arrive(c, f)
           text == c.text \o f.content
<1>1. c \in Clients /\ text \in Text
  BY Joined DEF Lines, Clients, Frames
<1>2. Deliver(p, f) = [p EXCEPT !.client = d]
  BY DEF Deliver, Lines
<1> HIDE DEF c
<1>3. d \in Clients /\ d.text = text /\ Reads(c, d, f, TRUE)
  <2> DEFINE finishes == IF f.finish THEN c.finishes + 1 ELSE c.finishes
             errors == IF f.kind = "error" THEN c.errors + 1 ELSE c.errors
             dones == IF f.kind = "done" THEN c.dones + 1 ELSE c.dones
             late == IF c.dones > 0 THEN c.late + 1 ELSE c.late
             role == c.role \/ f.role
  <2>1. finishes \in Nat /\ errors \in Nat /\ dones \in Nat /\ late \in Nat /\ role \in BOOLEAN
    BY <1>1 DEF Clients, Frames
  <2>2. d = [c EXCEPT !.text = text, !.role = role, !.finishes = finishes, !.errors = errors,
                      !.dones = dones, !.late = late]
    BY <1>1 DEF Arrive, Clients
  <2> HIDE DEF text, d
  <2>3. /\ d.state = c.state /\ d.text = text /\ d.role = role /\ d.finishes = finishes
        /\ d.errors = errors
    BY <1>1, <2>2 DEF Clients
  <2>4. Reads(c, d, f, TRUE)
    BY <2>3 DEF Reads
  <2> HIDE DEF finishes, errors, dones, late, role
  <2>5. d \in Clients
    BY <1>1, <2>1, <2>2 DEF Clients
  <2>6. QED
    BY <2>3, <2>4, <2>5
<1> HIDE DEF d, text
<1>4. /\ [p EXCEPT !.client = d] \in Lines
      /\ [p EXCEPT !.client = d].scan = p.scan /\ [p EXCEPT !.client = d].rx = p.rx
      /\ [p EXCEPT !.client = d].client = d
  BY <1>3 DEF Lines
<1>5. QED
  BY <1>2, <1>3, <1>4 DEF c, text

(* Nothing that anyone hears of, the text apart.                           *)
Quiet(c, d) ==
  d.state = c.state /\ d.role = c.role /\ d.finishes = c.finishes /\ d.errors = c.errors

LEMMA TailPasses ==
  ASSUME NEW p \in Lines, NEW text \in Text
  PROVE  LET q == SendTail(Deliver, p, text)
         IN /\ q \in Lines /\ q.scan = p.scan /\ q.rx = p.rx
            /\ q.client.text = p.client.text \o text /\ Quiet(p.client, q.client)
<1> DEFINE f == Delta(text, FALSE, FALSE)
<1>1. CASE text = <<>>
  <2>1. SendTail(Deliver, p, text) = p
    BY <1>1 DEF SendTail
  <2>2. p.client.text \in Text /\ p.client \in Clients
    BY DEF Lines, Clients
  <2>3. p.client.text \o text = p.client.text
    BY <1>1, <2>2, Assoc
  <2>4. QED
    BY <2>1, <2>3 DEF Quiet
<1>2. CASE text # <<>>
  <2>1. SendTail(Deliver, p, text) = Deliver(p, f)
    BY <1>2 DEF SendTail
  <2>2. f \in Frames /\ f.content = text /\ ~f.role /\ ~f.finish /\ f.kind = "delta"
    BY DeltaIs
  <2> DEFINE q == Deliver(p, f)
  <2> HIDE DEF f
  <2>3. /\ q \in Lines /\ q.scan = p.scan /\ q.rx = p.rx
        /\ q.client.text = p.client.text \o f.content
        /\ Reads(p.client, q.client, f, TRUE)
    BY <2>2, DeliverPasses
  <2> HIDE DEF q
  <2>4. Quiet(p.client, q.client)
    <3>1. p.client.role \in BOOLEAN
      BY DEF Lines, Clients
    <3>2. QED
      BY <2>2, <2>3, <3>1 DEF Quiet, Reads
  <2>5. QED
    BY <2>1, <2>2, <2>3, <2>4 DEF q
<1>3. QED
  BY <1>1, <1>2

LEMMA RegexTailPasses ==
  ASSUME KeyOK, NEW p \in Lines
  PROVE  LET q == RegexTail(p)
         IN /\ q \in Lines /\ q.scan = p.scan /\ Quiet(p.client, q.client)
            /\ q.rx.flushed /\ q.rx.raw = p.rx.raw
            /\ Balanced(p) => Balanced(q)
<1> DEFINE e == FlushRemainder(p.rx)
           m == [p EXCEPT !.rx = e.st]
           q == SendTail(Deliver, m, e.text)
<1>1. p.rx \in Regexes /\ p.scan \in Resting(key.pairs) /\ p.client.text \in Text
  BY DEF Lines, Clients
<1>2. e.st \in Regexes /\ e.text \in Text /\ e.st.flushed /\ e.st.raw = p.rx.raw
  BY <1>1, FlushTyped DEF KeyOK
<1>3. Balanced(p) => Balance(e.st, p.client.text \o e.text)
  BY <1>1, FlushBalances DEF KeyOK, Balanced
<1>4. RegexTail(p) = q
  BY DEF RegexTail
<1> HIDE DEF e
<1>5. m \in Lines /\ m.rx = e.st /\ m.scan = p.scan /\ m.client = p.client
  <2>1. e.st \in Regexes
    BY <1>2
  <2>2. QED
    BY <2>1, RxIs
<1> HIDE DEF m
<1>6. /\ q \in Lines /\ q.scan = m.scan /\ q.rx = m.rx
      /\ q.client.text = m.client.text \o e.text /\ Quiet(m.client, q.client)
  BY <1>2, <1>5, TailPasses
<1> HIDE DEF q
<1>7. QED
  BY <1>2, <1>3, <1>4, <1>5, <1>6 DEF Balanced

LEMMA RegexContentPasses ==
  ASSUME KeyOK, NEW p \in Lines, NEW f \in Frames, f.kind = "delta"
  PROVE  LET q == RegexContent(p, f)
         IN /\ q \in Lines /\ q.scan = p.scan /\ Reads(p.client, q.client, f, TRUE)
            /\ q.rx.flushed = (p.rx.flushed \/ f.finish) /\ q.rx.raw = p.rx.raw \o f.content
            /\ Balanced(p) /\ ~p.rx.flushed => Balanced(q)
<1> DEFINE r == p.rx
           raw == r.raw \o f.content
           t == [r EXCEPT !.raw = raw]
           e == IF t.passthrough THEN Relay(t) ELSE Advance(t)
           m == [p EXCEPT !.rx = e.st]
           g == [f EXCEPT !.content = e.text]
           sent == IF e.text # <<>> \/ f.finish \/ f.role THEN Deliver(m, g) ELSE m
           q == IF f.finish THEN RegexTail(sent) ELSE sent
<1>1. /\ p.rx \in Regexes /\ p.scan \in Resting(key.pairs) /\ p.client.text \in Text
      /\ p.client \in Clients
  BY DEF Lines, Clients
<1>2. RegexContent(p, f) = q
  <2>1. t = [p.rx EXCEPT !.raw = @ \o f.content]
    BY DEF r, t, raw
  <2>2. QED
    BY <2>1 DEF RegexContent
<1>3. f.content \in Text /\ raw \in Text /\ Len(r.raw) <= Len(raw) /\ Len(raw) \in Nat
  <2>1. f.content \in Text /\ r.raw \in Text
    BY <1>1 DEF Frames, Regexes
  <2>2. raw \in Text /\ Len(raw) = Len(r.raw) + Len(f.content)
    BY <2>1, Joined
  <2>3. Len(r.raw) \in Nat /\ Len(f.content) \in Nat
    BY <2>1 DEF Text
  <2> DEFINE a == Len(r.raw)
             b == Len(f.content)
             c == Len(raw)
  <2>4. a \in Nat /\ b \in Nat /\ c = a + b
    BY <2>2, <2>3
  <2> HIDE DEF a, b, c
  <2>5. a <= c /\ c \in Nat
    BY <2>4
  <2>6. QED
    BY <2>1, <2>2, <2>5 DEF a, c
<1>4. /\ t \in Regexes /\ t.flushed = r.flushed /\ t.passthrough = r.passthrough /\ t.raw = raw
      /\ t = [r EXCEPT !.raw = @ \o f.content]
  <2>1. r.committed \in Nat /\ r.committed <= Len(r.raw) /\ Len(r.raw) \in Nat
    BY <1>1 DEF Regexes, Text
  <2>2. r.committed <= Len(raw)
    <3> DEFINE a == Len(r.raw)
               b == Len(raw)
    <3>1. a \in Nat /\ b \in Nat /\ a <= b /\ r.committed <= a
      BY <1>3, <2>1
    <3> HIDE DEF a, b
    <3>2. r.committed <= b
      BY <2>1, <3>1
    <3>3. QED
      BY <3>2 DEF b
  <2>3. t = [r EXCEPT !.raw = @ \o f.content]
    BY DEF t, raw
  <2> HIDE DEF raw
  <2>4. QED
    BY <1>1, <1>3, <2>2, <2>3 DEF Regexes
<1> HIDE DEF t
<1>5. e.st \in Regexes /\ e.text \in Text /\ e.st.flushed = r.flushed /\ e.st.raw = raw
  BY <1>4, AdvanceTyped, RelayTyped DEF KeyOK
<1>6. Balanced(p) /\ ~p.rx.flushed => Balance(e.st, p.client.text \o e.text)
  <2>1. CASE t.passthrough
    BY <1>1, <1>3, <1>4, <2>1, RelayBalances DEF KeyOK, Balanced
  <2>2. CASE ~t.passthrough
    BY <1>1, <1>3, <1>4, <2>2, AdvanceBalances DEF KeyOK, Balanced
  <2>3. QED
    BY <2>1, <2>2
<1> HIDE DEF e, raw
<1>7. m \in Lines /\ m.rx = e.st /\ m.scan = p.scan /\ m.client = p.client
  BY <1>1, <1>5, LineIs
<1> HIDE DEF m
<1>8. /\ g \in Frames /\ g.content = e.text /\ g.role = f.role /\ g.finish = f.finish
      /\ g.kind = "delta"
  BY <1>5, FrameIs
<1> HIDE DEF g
<1>9. /\ sent \in Lines /\ sent.scan = p.scan /\ sent.rx = e.st
      /\ sent.client.text = p.client.text \o e.text
      /\ Reads(p.client, sent.client, f, TRUE)
  <2>1. CASE e.text # <<>> \/ f.finish \/ f.role
    <3> DEFINE s == Deliver(m, g)
    <3>1. /\ s \in Lines /\ s.scan = m.scan /\ s.rx = m.rx
          /\ s.client.text = m.client.text \o g.content
          /\ Reads(m.client, s.client, g, TRUE)
      BY <1>7, <1>8, DeliverPasses
    <3>2. sent = s
      BY <2>1
    <3> HIDE DEF s, sent
    <3>3. QED
      BY <1>7, <1>8, <3>1, <3>2 DEF Reads
  <2>2. CASE ~(e.text # <<>> \/ f.finish \/ f.role)
    <3>1. sent = m
      BY <2>2
    <3>2. p.client.text \o e.text = p.client.text
      BY <1>1, <2>2, Assoc
    <3>3. f.role \in BOOLEAN /\ p.client.role \in BOOLEAN
      BY <1>1 DEF Frames, Clients
    <3> HIDE DEF sent
    <3>4. Reads(p.client, p.client, f, TRUE)
      BY <2>2, <3>3 DEF Reads
    <3>5. QED
      BY <1>7, <3>1, <3>2, <3>4
  <2>3. QED
    BY <2>1, <2>2
<1> HIDE DEF sent
<1>10. CASE ~f.finish
  <2>1. q = sent
    BY <1>10
  <2> HIDE DEF q
  <2>2. q.rx.flushed = (p.rx.flushed \/ f.finish)
    <3>1. p.rx.flushed \in BOOLEAN
      BY <1>1 DEF Regexes
    <3>2. QED
      BY <1>5, <1>9, <1>10, <2>1, <3>1
  <2>3. q.rx.raw = p.rx.raw \o f.content
    BY <1>5, <1>9, <2>1 DEF raw
  <2>4. Balanced(p) /\ ~p.rx.flushed => Balanced(q)
    BY <1>6, <1>9, <2>1 DEF Balanced
  <2>5. QED
    BY <1>2, <1>9, <2>1, <2>2, <2>3, <2>4
<1>11. CASE f.finish
  <2>1. q = RegexTail(sent)
    BY <1>11
  <2> HIDE DEF q
  <2>2. /\ q \in Lines /\ q.scan = sent.scan /\ Quiet(sent.client, q.client)
        /\ q.rx.flushed /\ q.rx.raw = sent.rx.raw
        /\ Balanced(sent) => Balanced(q)
    BY <1>9, <2>1, RegexTailPasses
  <2>3. Reads(p.client, q.client, f, TRUE)
    BY <1>9, <2>2 DEF Reads, Quiet
  <2>4. Balanced(p) /\ ~p.rx.flushed => Balanced(sent)
    BY <1>6, <1>9 DEF Balanced
  <2>5. q.rx.flushed \in BOOLEAN /\ f.finish \in BOOLEAN
    BY <2>2 DEF Lines, Regexes, Frames
  <2>6. QED
    BY <1>2, <1>5, <1>9, <1>11, <2>2, <2>3, <2>4, <2>5 DEF raw
<1>12. QED
  BY <1>10, <1>11

LEMMA RegexEmptyPasses ==
  ASSUME KeyOK, NEW p \in Lines, NEW f \in Frames, f.kind = "delta", f.content = <<>>
  PROVE  LET q == RegexEmpty(p, f)
         IN /\ q \in Lines /\ q.scan = p.scan /\ Reads(p.client, q.client, f, TRUE)
            /\ q.rx.flushed = (p.rx.flushed \/ f.finish) /\ q.rx.raw = p.rx.raw
            /\ Balanced(p) => Balanced(q)
<1> DEFINE e == FlushRemainder(p.rx)
           m == [p EXCEPT !.rx = e.st]
           g == IF e.text = <<>> THEN f ELSE [f EXCEPT !.content = e.text]
<1>1. /\ p.rx \in Regexes /\ p.scan \in Resting(key.pairs) /\ p.client.text \in Text
      /\ p.rx.flushed \in BOOLEAN /\ f.finish \in BOOLEAN
  BY DEF Lines, Clients, Regexes, Frames
<1>2. CASE f.finish /\ ~p.rx.flushed
  <2>1. e.st \in Regexes /\ e.text \in Text /\ e.st.flushed /\ e.st.raw = p.rx.raw
    BY <1>1, FlushTyped DEF KeyOK
  <2>2. Balanced(p) => Balance(e.st, p.client.text \o e.text)
    BY <1>1, FlushBalances DEF KeyOK, Balanced
  <2>3. RegexEmpty(p, f) = Deliver(m, g)
    BY <1>2 DEF RegexEmpty, SendWith
  <2> HIDE DEF e
  <2>4. m \in Lines /\ m.rx = e.st /\ m.scan = p.scan /\ m.client = p.client
    <3>1. e.st \in Regexes
      BY <2>1
    <3>2. QED
      BY <3>1, RxIs
  <2> HIDE DEF m
  <2>5. /\ g \in Frames /\ g.content = e.text /\ g.role = f.role /\ g.finish = f.finish
        /\ g.kind = "delta"
    <3>1. CASE e.text = <<>>
      BY <3>1
    <3>2. CASE e.text # <<>>
      BY <2>1, <3>2, FrameIs
    <3>3. QED
      BY <3>1, <3>2
  <2> HIDE DEF g
  <2> DEFINE q == Deliver(m, g)
  <2>6. /\ q \in Lines /\ q.scan = m.scan /\ q.rx = m.rx
        /\ q.client.text = m.client.text \o g.content
        /\ Reads(m.client, q.client, g, TRUE)
    BY <2>4, <2>5, DeliverPasses
  <2> HIDE DEF q
  <2>7. Reads(p.client, q.client, f, TRUE)
    BY <2>4, <2>5, <2>6 DEF Reads
  <2>8. Balanced(p) => Balanced(q)
    BY <2>2, <2>4, <2>5, <2>6 DEF Balanced
  <2>9. q.rx.flushed \in BOOLEAN /\ q.rx.flushed
    BY <2>1, <2>4, <2>6 DEF Regexes
  <2>10. QED
    BY <1>1, <1>2, <2>1, <2>3, <2>4, <2>6, <2>7, <2>8, <2>9 DEF q
<1>3. CASE ~(f.finish /\ ~p.rx.flushed)
  <2> DEFINE q == Deliver(p, f)
  <2>1. RegexEmpty(p, f) = q
    BY <1>3 DEF RegexEmpty
  <2>2. /\ q \in Lines /\ q.scan = p.scan /\ q.rx = p.rx
        /\ q.client.text = p.client.text \o f.content
        /\ Reads(p.client, q.client, f, TRUE)
    BY DeliverPasses
  <2> HIDE DEF q
  <2>3. q.client.text = p.client.text
    BY <1>1, <2>2, Assoc
  <2>4. QED
    BY <1>1, <1>3, <2>1, <2>2, <2>3 DEF Balanced
<1>4. QED
  BY <1>2, <1>3

(* A frame through the regex stage.                                        *)
LEMMA RegexPasses ==
  ASSUME KeyOK, NEW p \in Lines, NEW f \in Frames
  PROVE  LET q == Regex(p, f)
         IN /\ q \in Lines /\ q.scan = p.scan /\ Reads(p.client, q.client, f, TRUE)
            /\ key.scripts # <<>> =>
                 /\ q.rx.flushed = (p.rx.flushed \/ f.finish \/ f.kind = "done")
                 /\ q.rx.raw = p.rx.raw \o f.content
                 /\ Balanced(p) /\ (p.rx.flushed => f.content = <<>>) => Balanced(q)
            /\ key.scripts = <<>> => q.client.text = p.client.text \o f.content
<1> DEFINE q == Regex(p, f)
<1>1. /\ p.rx.flushed \in BOOLEAN /\ f.finish \in BOOLEAN /\ f.kind \in {"delta", "done", "error"}
      /\ f.kind # "delta" => f.content = <<>> /\ ~f.role /\ ~f.finish
      /\ p.client.text \in Text /\ p.rx.raw \in Text
  BY DEF Lines, Clients, Regexes, Frames
<1>2. /\ p.client.text \o <<>> = p.client.text /\ p.rx.raw \o <<>> = p.rx.raw
  BY <1>1, Assoc
<1>3. CASE key.scripts = <<>> \/ f.kind = "error"
  <2>1. q = Deliver(p, f)
    BY <1>3 DEF Regex
  <2> HIDE DEF q
  <2>2. /\ q \in Lines /\ q.scan = p.scan /\ q.rx = p.rx
        /\ q.client.text = p.client.text \o f.content
        /\ Reads(p.client, q.client, f, TRUE)
    BY <2>1, DeliverPasses
  <2>3. CASE key.scripts = <<>>
    BY <2>2, <2>3 DEF q
  <2>4. CASE key.scripts # <<>>
    <3>1. f.kind = "error" /\ f.content = <<>> /\ ~f.finish
      BY <1>1, <1>3, <2>4
    <3>2. Balanced(p) => Balanced(q)
      BY <1>2, <2>2, <3>1 DEF Balanced
    <3>3. QED
      BY <1>1, <1>2, <2>2, <2>4, <3>1, <3>2 DEF q
  <2>5. QED
    BY <2>3, <2>4
<1>4. CASE key.scripts # <<>> /\ f.kind = "done"
  <2> DEFINE m == RegexTail(p)
  <2>1. q = Deliver(m, f)
    BY <1>4 DEF Regex
  <2>2. /\ m \in Lines /\ m.scan = p.scan /\ Quiet(p.client, m.client)
        /\ m.rx.flushed /\ m.rx.raw = p.rx.raw
        /\ Balanced(p) => Balanced(m)
    BY RegexTailPasses
  <2> HIDE DEF m, q
  <2>3. /\ q \in Lines /\ q.scan = m.scan /\ q.rx = m.rx
        /\ q.client.text = m.client.text \o f.content
        /\ Reads(m.client, q.client, f, TRUE)
    BY <2>1, <2>2, DeliverPasses
  <2>4. f.content = <<>> /\ m.client.text \in Text
    BY <1>1, <1>4, <2>2 DEF Lines, Clients
  <2>5. q.client.text = m.client.text
    BY <2>3, <2>4, Assoc
  <2>6. Balanced(p) => Balanced(q)
    BY <2>2, <2>3, <2>5 DEF Balanced
  <2>7. Reads(p.client, q.client, f, TRUE)
    BY <2>2, <2>3 DEF Reads, Quiet
  <2>8. q.rx.flushed = TRUE
    BY <2>2, <2>3 DEF Lines, Regexes
  <2>9. QED
    BY <1>1, <1>2, <1>4, <2>2, <2>3, <2>4, <2>6, <2>7, <2>8 DEF q
<1>5. CASE key.scripts # <<>> /\ f.kind = "delta" /\ f.content # <<>>
  <2>1. q = RegexContent(p, f)
    BY <1>5 DEF Regex
  <2> HIDE DEF q
  <2>2. /\ q \in Lines /\ q.scan = p.scan /\ Reads(p.client, q.client, f, TRUE)
        /\ q.rx.flushed = (p.rx.flushed \/ f.finish) /\ q.rx.raw = p.rx.raw \o f.content
        /\ Balanced(p) /\ ~p.rx.flushed => Balanced(q)
    BY <1>5, <2>1, RegexContentPasses
  <2>3. QED
    BY <1>5, <2>2 DEF q
<1>6. CASE key.scripts # <<>> /\ f.kind = "delta" /\ f.content = <<>>
  <2>1. q = RegexEmpty(p, f)
    BY <1>6 DEF Regex
  <2> HIDE DEF q
  <2>2. /\ q \in Lines /\ q.scan = p.scan /\ Reads(p.client, q.client, f, TRUE)
        /\ q.rx.flushed = (p.rx.flushed \/ f.finish) /\ q.rx.raw = p.rx.raw
        /\ Balanced(p) => Balanced(q)
    BY <1>6, <2>1, RegexEmptyPasses
  <2>3. QED
    BY <1>2, <1>6, <2>2 DEF q
<1>7. QED
  BY <1>1, <1>3, <1>4, <1>5, <1>6

-----------------------------------------------------------------------------
(* The reasoning stage.  Got is the text that has left it.                 *)
Got(p) == IF key.scripts = <<>> THEN p.client.text ELSE p.rx.raw

(* What a frame does to the scanner, and the text that it sends on.        *)
ScanStep(s, f) ==
  IF f.content # <<>>
  THEN LET t == Push(s, f.content, key.pairs)
           e == ReasonRelease(t)
       IN IF f.finish THEN [st |-> e.st, text |-> t.out \o e.text] ELSE [st |-> t, text |-> t.out]
  ELSE IF f.finish \/ f.kind = "done" THEN ReasonRelease(s)
  ELSE [st |-> s, text |-> <<>>]

(* A finish frame without text.                                            *)
Plain(f) == f.content = <<>> \/ ~f.finish

LEMMA ReleaseIs ==
  ASSUME KeyOK, NEW s \in Resting(key.pairs)
  PROVE  LET e == ReasonRelease(s)
         IN /\ e.st \in Resting(key.pairs) /\ e.text \in Text /\ e.st.flushed
            /\ s.flushed => e.st = s /\ e.text = <<>>
<1> DEFINE e == ReasonRelease(s)
           t == FinishScan(s)
           u == [t EXCEPT !.flushed = TRUE]
<1>1. CASE s.flushed
  <2>1. e = [st |-> s, text |-> <<>>]
    BY <1>1 DEF ReasonRelease
  <2>2. <<>> \in Text
    BY DEF Text
  <2> HIDE DEF e
  <2>3. e.st = s /\ e.text = <<>>
    BY <2>1
  <2>4. QED
    BY <1>1, <2>2, <2>3 DEF e
<1>2. CASE ~s.flushed
  <2>1. e = [st |-> u, text |-> t.out]
    BY <1>2 DEF ReasonRelease
  <2>2. t \in Resting(key.pairs) /\ t.out \in Text
    BY FinishRests DEF KeyOK
  <2> HIDE DEF t
  <2>3. u \in Resting(key.pairs) /\ u.flushed
    <3>1. u \in Scanners(key.pairs) /\ u.flushed /\ ~u.busy /\ u.buffer = t.buffer /\ u.phase = t.phase
      BY <2>2 DEF Resting, Scanners
    <3> HIDE DEF u
    <3>2. QED
      BY <2>2, <3>1 DEF Resting, Limit
  <2> HIDE DEF u, e
  <2>4. QED
    BY <1>2, <2>1, <2>2, <2>3 DEF e
<1>3. s.flushed \in BOOLEAN
  BY DEF Resting, Scanners
<1>4. QED
  BY <1>1, <1>2

(* A frame that has taken the line from p to q on its way through the      *)
(* regex stage, with the scanner in state s.                               *)
Onward(p, s, f, q) ==
  /\ q \in Lines /\ q.scan = s /\ Got(q) = Got(p) \o f.content
  /\ Reads(p.client, q.client, f, TRUE)
  /\ key.scripts # <<>> =>
       /\ q.rx.flushed = (p.rx.flushed \/ f.finish \/ f.kind = "done")
       /\ Balanced(p) /\ (p.rx.flushed => f.content = <<>>) => Balanced(q)

LEMMA OnwardPasses ==
  ASSUME KeyOK, NEW p \in Lines, NEW s \in Resting(key.pairs), NEW f \in Frames
  PROVE  Onward(p, s, f, Regex([p EXCEPT !.scan = s], f))
<1> DEFINE m == [p EXCEPT !.scan = s]
           q == Regex(m, f)
<1>1. m \in Lines /\ m.scan = s /\ m.rx = p.rx /\ m.client = p.client
  <2>1. p.rx \in Regexes
    BY DEF Lines
  <2>2. QED
    BY <2>1, LineIs
<1> HIDE DEF m
<1>2. /\ q \in Lines /\ q.scan = m.scan /\ Reads(m.client, q.client, f, TRUE)
      /\ key.scripts # <<>> =>
           /\ q.rx.flushed = (m.rx.flushed \/ f.finish \/ f.kind = "done")
           /\ q.rx.raw = m.rx.raw \o f.content
           /\ Balanced(m) /\ (m.rx.flushed => f.content = <<>>) => Balanced(q)
      /\ key.scripts = <<>> => q.client.text = m.client.text \o f.content
  BY <1>1, RegexPasses
<1> HIDE DEF q
<1>3. Got(q) = Got(p) \o f.content
  BY <1>1, <1>2 DEF Got
<1>4. Balanced(m) <=> Balanced(p)
  BY <1>1 DEF Balanced
<1>5. QED
  BY <1>1, <1>2, <1>3, <1>4 DEF q, m, Onward

LEMMA GotIs ==
  ASSUME NEW p \in Lines
  PROVE  Got(p) \in Text /\ Got(p) \o <<>> = Got(p)
<1>1. Got(p) \in Text
  BY DEF Got, Lines, Regexes, Clients
<1>2. QED
  BY <1>1, Assoc

LEMMA ReasonTailPasses ==
  ASSUME KeyOK, NEW p \in Lines
  PROVE  LET q == ReasonTail(p)
             e == ReasonRelease(p.scan)
         IN /\ q \in Lines /\ q.scan = e.st /\ Quiet(p.client, q.client)
            /\ Got(q) = Got(p) \o e.text
            /\ key.scripts # <<>> =>
                 /\ q.rx.flushed = p.rx.flushed
                 /\ Balanced(p) /\ (p.rx.flushed => p.scan.flushed) => Balanced(q)
<1> DEFINE e == ReasonRelease(p.scan)
           m == [p EXCEPT !.scan = e.st]
           q == SendTail(Regex, m, e.text)
           f == Delta(e.text, FALSE, FALSE)
<1>1. p.scan \in Resting(key.pairs) /\ p.rx \in Regexes /\ p.client \in Clients
  BY DEF Lines
<1>2. /\ e.st \in Resting(key.pairs) /\ e.text \in Text
      /\ p.scan.flushed => e.text = <<>>
  BY <1>1, ReleaseIs
<1>3. ReasonTail(p) = q
  BY DEF ReasonTail
<1>4. CASE e.text = <<>>
  <2>1. q = m
    BY <1>4 DEF SendTail
  <2> HIDE DEF q, e
  <2>2. m \in Lines /\ m.scan = e.st /\ m.rx = p.rx /\ m.client = p.client
    BY <1>1, <1>2, LineIs
  <2> HIDE DEF m
  <2>3. Got(q) = Got(p) \o e.text
    <3>1. Got(p) \o <<>> = Got(p)
      BY GotIs
    <3>2. Got(q) = Got(p)
      BY <2>1, <2>2 DEF Got
    <3>3. QED
      BY <1>4, <3>1, <3>2
  <2>4. Balanced(p) => Balanced(q)
    BY <2>1, <2>2 DEF Balanced
  <2>5. QED
    BY <1>3, <2>1, <2>2, <2>3, <2>4 DEF Quiet, e
<1>5. CASE e.text # <<>>
  <2>1. q = Regex(m, f)
    BY <1>5 DEF SendTail
  <2>2. f \in Frames /\ f.content = e.text /\ ~f.role /\ ~f.finish /\ f.kind = "delta"
    BY <1>2, DeltaIs
  <2> HIDE DEF f, e, q
  <2>3. Onward(p, e.st, f, q)
    BY <1>2, <2>1, <2>2, OnwardPasses
  <2>4. p.client.role \in BOOLEAN /\ p.rx.flushed \in BOOLEAN
    BY <1>1 DEF Clients, Regexes
  <2>5. Quiet(p.client, q.client)
    BY <2>2, <2>3, <2>4 DEF Quiet, Reads, Onward
  <2>6. key.scripts # <<>> =>
          /\ q.rx.flushed = p.rx.flushed
          /\ Balanced(p) /\ (p.rx.flushed => p.scan.flushed) => Balanced(q)
    BY <1>2, <2>2, <2>3, <2>4 DEF Onward
  <2>7. Got(q) = Got(p) \o e.text
    BY <2>2, <2>3 DEF Onward
  <2>8. QED
    BY <1>3, <2>3, <2>5, <2>6, <2>7 DEF e, Onward
<1>6. QED
  BY <1>4, <1>5

(* What a stage guarantees of a frame f that takes the line from p to q.   *)
ReasonPassed(p, f, q) ==
  /\ q \in Lines /\ q.scan = ScanStep(p.scan, f).st
  /\ Got(q) = Got(p) \o ScanStep(p.scan, f).text
  /\ Reads(p.client, q.client, f, Plain(f))
  /\ key.scripts # <<>> /\ Plain(f) =>
       /\ q.rx.flushed = (p.rx.flushed \/ f.finish \/ f.kind = "done")
       /\ Balanced(p) /\ (p.rx.flushed => p.scan.flushed /\ f.content = <<>>) => Balanced(q)

LEMMA ReasonContentPasses ==
  ASSUME KeyOK, NEW p \in Lines, NEW f \in Frames, f.kind = "delta", f.content # <<>>
  PROVE  ReasonPassed(p, f, ReasonContent(p, f))
<1> DEFINE s == Push(p.scan, f.content, key.pairs)
           m == [p EXCEPT !.scan = s]
           g == [f EXCEPT !.content = s.out]
           sent == ReasonSend(m, f)
           q == IF f.finish THEN ReasonTail(sent) ELSE sent
           e == ReasonRelease(s)
<1>1. /\ p.scan \in Resting(key.pairs) /\ p.rx \in Regexes /\ p.client \in Clients
      /\ f.content \in Text /\ p.rx.flushed \in BOOLEAN /\ f.role \in BOOLEAN
      /\ p.client.role \in BOOLEAN /\ f.finish \in BOOLEAN
  BY DEF Lines, Frames, Regexes, Clients
<1>2. s \in Resting(key.pairs) /\ s.out \in Text
  BY <1>1, PushRests DEF Resting, Scanners, KeyOK
<1>3. ReasonContent(p, f) = q
  BY DEF ReasonContent, Lines
<1> HIDE DEF s
<1>4. m \in Lines /\ m.scan = s /\ m.rx = p.rx /\ m.client = p.client
  BY <1>1, <1>2, LineIs
<1>5. /\ g \in Frames /\ g.content = s.out /\ g.role = f.role /\ g.finish = f.finish
      /\ g.kind = "delta"
  BY <1>2, FrameIs
<1> HIDE DEF g
<1>6. /\ sent \in Lines /\ sent.scan = s /\ Got(sent) = Got(p) \o s.out
      /\ Reads(p.client, sent.client, f, Plain(f))
      /\ key.scripts # <<>> /\ Plain(f) =>
           /\ sent.rx.flushed = p.rx.flushed
           /\ Balanced(p) /\ ~p.rx.flushed => Balanced(sent)
  <2>1. CASE s.out # <<>> \/ f.role
    <3> DEFINE n == Regex(m, g)
    <3>1. sent = n
      BY <1>4, <2>1 DEF ReasonSend, g
    <3>2. Onward(p, s, g, n)
      BY <1>2, <1>5, OnwardPasses
    <3> HIDE DEF n, sent
    <3>3. Reads(p.client, n.client, f, Plain(f))
      BY <1>5, <3>2 DEF Reads, Onward
    <3>4. key.scripts # <<>> /\ Plain(f) =>
            /\ n.rx.flushed = p.rx.flushed
            /\ Balanced(p) /\ ~p.rx.flushed => Balanced(n)
      BY <1>1, <1>5, <3>2 DEF Plain, Onward
    <3>5. QED
      BY <1>5, <3>1, <3>2, <3>3, <3>4 DEF Onward
  <2>2. CASE ~(s.out # <<>> \/ f.role)
    <3>1. sent = m
      BY <1>4, <2>2 DEF ReasonSend
    <3> HIDE DEF sent, m
    <3>2. Got(m) = Got(p) /\ Got(p) \o s.out = Got(p)
      BY <1>4, <2>2, GotIs DEF Got
    <3>3. Reads(p.client, p.client, f, Plain(f))
      BY <1>1, <2>2 DEF Reads, Plain
    <3>4. Balanced(p) => Balanced(m)
      BY <1>4 DEF Balanced
    <3>5. QED
      BY <1>4, <3>1, <3>2, <3>3, <3>4
  <2>3. QED
    BY <2>1, <2>2
<1> HIDE DEF sent
<1>7. ScanStep(p.scan, f) = IF f.finish THEN [st |-> e.st, text |-> s.out \o e.text]
                            ELSE [st |-> s, text |-> s.out]
  BY DEF ScanStep, s
<1>8. CASE ~f.finish
  <2>1. q = sent
    BY <1>8
  <2> HIDE DEF q, e
  <2>2. ScanStep(p.scan, f).st = s /\ ScanStep(p.scan, f).text = s.out
    BY <1>7, <1>8
  <2>3. QED
    BY <1>1, <1>3, <1>6, <1>8, <2>1, <2>2 DEF ReasonPassed
<1>9. CASE f.finish
  <2>1. q = ReasonTail(sent)
    BY <1>9
  <2> HIDE DEF q
  <2>2. /\ q \in Lines /\ q.scan = e.st /\ Quiet(sent.client, q.client)
        /\ Got(q) = Got(sent) \o e.text
    BY <1>6, <2>1, ReasonTailPasses
  <2>3. e.text \in Text
    BY <1>2, ReleaseIs
  <2> HIDE DEF e
  <2>4. ScanStep(p.scan, f).st = e.st /\ ScanStep(p.scan, f).text = s.out \o e.text
    <3> DEFINE y == s.out \o e.text
    <3>1. ScanStep(p.scan, f) = [st |-> e.st, text |-> y]
      BY <1>7, <1>9
    <3> HIDE DEF y
    <3>2. ScanStep(p.scan, f).st = e.st /\ ScanStep(p.scan, f).text = y
      BY <3>1
    <3>3. QED
      BY <3>2 DEF y
  <2>5. Got(q) = Got(p) \o (s.out \o e.text)
    <3>1. Got(p) \in Text
      BY GotIs
    <3>2. Got(q) = (Got(p) \o s.out) \o e.text
      BY <1>6, <2>2
    <3>3. s.out \in Text
      BY <1>2
    <3>4. Regrouped(Got(p), s.out, e.text)
      BY <2>3, <3>1, <3>3, Regroup
    <3>5. QED
      BY <3>2, <3>4 DEF Regrouped
  <2>6. ~Plain(f)
    BY <1>9 DEF Plain
  <2>7. Reads(p.client, q.client, f, Plain(f))
    BY <1>6, <2>2, <2>6 DEF Reads, Quiet
  <2>8. QED
    BY <1>3, <2>2, <2>4, <2>5, <2>6, <2>7 DEF ReasonPassed
<1>10. QED
  BY <1>8, <1>9

LEMMA ReasonEmptyPasses ==
  ASSUME KeyOK, NEW p \in Lines, NEW f \in Frames, f.kind = "delta", f.content = <<>>
  PROVE  ReasonPassed(p, f, ReasonEmpty(p, f))
<1> DEFINE e == ReasonRelease(p.scan)
           m == [p EXCEPT !.scan = e.st]
           g == IF e.text = <<>> THEN f ELSE [f EXCEPT !.content = e.text]
           q == ReasonEmpty(p, f)
<1>1. /\ p.scan \in Resting(key.pairs) /\ p.rx \in Regexes /\ p.client \in Clients
      /\ p.rx.flushed \in BOOLEAN /\ f.finish \in BOOLEAN /\ p.scan.flushed \in BOOLEAN
  BY DEF Lines, Frames, Regexes, Resting, Scanners
<1>2. /\ e.st \in Resting(key.pairs) /\ e.text \in Text /\ e.st.flushed
      /\ p.scan.flushed => e.st = p.scan /\ e.text = <<>>
  BY <1>1, ReleaseIs
<1>3. Plain(f)
  BY DEF Plain
<1>4. CASE f.finish /\ ~p.scan.flushed
  <2>1. q = Regex(m, g)
    BY <1>4 DEF ReasonEmpty, SendWith
  <2>2. ScanStep(p.scan, f) = e
    BY <1>4 DEF ScanStep
  <2>3. /\ g \in Frames /\ g.content = e.text /\ g.role = f.role /\ g.finish = f.finish
        /\ g.kind = "delta"
    <3> HIDE DEF e
    <3>1. CASE e.text = <<>>
      BY <3>1
    <3>2. CASE e.text # <<>>
      BY <1>2, <3>2, FrameIs
    <3>3. QED
      BY <3>1, <3>2
  <2> HIDE DEF g, e, q
  <2>4. Onward(p, e.st, g, q)
    BY <1>2, <2>1, <2>3, OnwardPasses
  <2>5. Reads(p.client, q.client, f, Plain(f))
    BY <1>3, <2>3, <2>4 DEF Reads, Onward
  <2>6. key.scripts # <<>> =>
          /\ q.rx.flushed = (p.rx.flushed \/ f.finish \/ f.kind = "done")
          /\ Balanced(p) /\ (p.rx.flushed => p.scan.flushed /\ f.content = <<>>) => Balanced(q)
    BY <1>1, <1>4, <2>3, <2>4 DEF Onward
  <2>7. QED
    BY <2>2, <2>3, <2>4, <2>5, <2>6 DEF ReasonPassed, q, Onward
<1>5. CASE ~(f.finish /\ ~p.scan.flushed)
  <2>1. q = Regex(p, f)
    BY <1>5 DEF ReasonEmpty
  <2>2. ScanStep(p.scan, f).st = p.scan /\ ScanStep(p.scan, f).text = <<>>
    <3> HIDE DEF e
    <3>1. CASE f.finish
      <4>1. ScanStep(p.scan, f) = e
        BY <3>1 DEF ScanStep, e
      <4>2. QED
        BY <1>1, <1>2, <1>5, <3>1, <4>1
    <3>2. CASE ~f.finish
      BY <3>2 DEF ScanStep
    <3>3. QED
      BY <3>1, <3>2
  <2>3. p = [p EXCEPT !.scan = p.scan]
    BY DEF Lines
  <2> HIDE DEF q, e
  <2>4. Onward(p, p.scan, f, q)
    BY <1>1, <2>1, <2>3, OnwardPasses
  <2>5. Reads(p.client, q.client, f, Plain(f))
    BY <1>3, <2>4 DEF Onward
  <2>6. QED
    BY <2>2, <2>4, <2>5 DEF ReasonPassed, q, Onward
<1>6. QED
  BY <1>4, <1>5

(* A frame through both stages, or past the first if it is not there.      *)
LEMMA ReasonPasses ==
  ASSUME KeyOK, NEW p \in Lines, NEW f \in Frames
  PROVE  /\ key.pairs = <<>> => Onward(p, p.scan, f, Reason(p, f))
         /\ key.pairs # <<>> => ReasonPassed(p, f, Reason(p, f))
<1> DEFINE q == Reason(p, f)
<1>1. /\ p.scan \in Resting(key.pairs) /\ f.kind \in {"delta", "done", "error"}
      /\ f.kind # "delta" => f.content = <<>> /\ ~f.role /\ ~f.finish
      /\ p.rx.flushed \in BOOLEAN
  BY DEF Lines, Frames, Regexes
<1>2. CASE key.pairs = <<>> \/ f.kind = "error"
  <2>1. q = Regex(p, f)
    BY <1>2 DEF Reason
  <2>2. p = [p EXCEPT !.scan = p.scan]
    BY DEF Lines
  <2> HIDE DEF q
  <2>3. Onward(p, p.scan, f, q)
    BY <1>1, <2>1, <2>2, OnwardPasses
  <2>4. CASE key.pairs = <<>>
    BY <2>3, <2>4 DEF q
  <2>5. CASE key.pairs # <<>>
    <3>1. f.kind = "error" /\ f.content = <<>> /\ ~f.finish /\ ~f.role
      BY <1>1, <1>2, <2>5
    <3>2. ScanStep(p.scan, f).st = p.scan /\ ScanStep(p.scan, f).text = <<>>
      BY <3>1 DEF ScanStep
    <3>3. Plain(f)
      BY <3>1 DEF Plain
    <3>4. Reads(p.client, q.client, f, Plain(f))
      BY <2>3, <3>3 DEF Onward
    <3>5. ReasonPassed(p, f, q)
      BY <2>3, <3>1, <3>2, <3>4 DEF ReasonPassed, Onward
    <3>6. QED
      BY <2>5, <3>5 DEF q
  <2>6. QED
    BY <2>4, <2>5
<1>3. CASE key.pairs # <<>> /\ f.kind = "done"
  <2> DEFINE m == ReasonTail(p)
             e == ReasonRelease(p.scan)
  <2>1. q = Regex(m, f)
    BY <1>3 DEF Reason
  <2>2. /\ m \in Lines /\ m.scan = e.st /\ Quiet(p.client, m.client)
        /\ Got(m) = Got(p) \o e.text
        /\ key.scripts # <<>> =>
             /\ m.rx.flushed = p.rx.flushed
             /\ Balanced(p) /\ (p.rx.flushed => p.scan.flushed) => Balanced(m)
    BY ReasonTailPasses
  <2>3. f.content = <<>> /\ ~f.finish /\ ~f.role /\ Plain(f)
    BY <1>1, <1>3 DEF Plain
  <2>4. ScanStep(p.scan, f) = e
    BY <1>3, <2>3 DEF ScanStep
  <2> HIDE DEF m, e, q
  <2>5. m = [m EXCEPT !.scan = m.scan] /\ m.scan \in Resting(key.pairs)
    BY <2>2 DEF Lines
  <2>6. Onward(m, m.scan, f, q)
    BY <2>1, <2>2, <2>5, OnwardPasses
  <2>7. Got(q) = Got(p) \o e.text
    BY <2>2, <2>3, <2>6, GotIs DEF Onward
  <2>8. Reads(p.client, q.client, f, Plain(f))
    BY <2>2, <2>3, <2>6 DEF Reads, Quiet, Onward
  <2>9. key.scripts # <<>> /\ Plain(f) =>
       /\ q.rx.flushed = (p.rx.flushed \/ f.finish \/ f.kind = "done")
       /\ Balanced(p) /\ (p.rx.flushed => p.scan.flushed /\ f.content = <<>>) => Balanced(q)
    BY <2>2, <2>3, <2>6 DEF Onward
  <2>10. ReasonPassed(p, f, q)
    BY <2>2, <2>4, <2>6, <2>7, <2>8, <2>9 DEF ReasonPassed, Onward
  <2>11. QED
    BY <1>3, <2>10 DEF q
<1>4. CASE key.pairs # <<>> /\ f.kind = "delta" /\ f.content # <<>>
  <2>1. q = ReasonContent(p, f)
    BY <1>4 DEF Reason
  <2>2. QED
    BY <1>4, <2>1, ReasonContentPasses
<1>5. CASE key.pairs # <<>> /\ f.kind = "delta" /\ f.content = <<>>
  <2>1. q = ReasonEmpty(p, f)
    BY <1>5 DEF Reason
  <2>2. QED
    BY <1>5, <2>1, ReasonEmptyPasses
<1>6. QED
  BY <1>1, <1>2, <1>3, <1>4, <1>5

-----------------------------------------------------------------------------
(* What a step does to the line: the text x that came in, the role or the  *)
(* finish reason with it, the errors reported and whether the text ends.   *)
Went(p, q, x, role, finish, errors, ends, state) ==
  /\ q \in Lines /\ q.client.state = state
  /\ q.client.role = (p.client.role \/ role)
  /\ x = <<>> \/ ~finish \/ key.pairs = <<>> =>
       q.client.finishes = IF finish THEN p.client.finishes + 1 ELSE p.client.finishes
  /\ q.client.finishes \in {p.client.finishes, p.client.finishes + 1}
  /\ q.client.errors = p.client.errors + errors
  /\ key.pairs = <<>> => q.scan = p.scan /\ Got(q) = Got(p) \o x
  /\ key.pairs # <<>> =>
       /\ q.scan = ScanStep(p.scan, Delta(x, role, finish \/ ends)).st
       /\ Got(q) = Got(p) \o ScanStep(p.scan, Delta(x, role, finish \/ ends)).text
  /\ key.scripts # <<>> /\ (x = <<>> \/ ~finish \/ key.pairs = <<>>) =>
       /\ q.rx.flushed = (p.rx.flushed \/ finish \/ ends)
       /\ Balanced(p) /\ (p.rx.flushed => x = <<>> /\ (key.pairs # <<>> => p.scan.flushed)) =>
            Balanced(q)

LEMMA LineTypes ==
  ASSUME NEW p \in Lines
  PROVE  /\ p.scan \in Resting(key.pairs) /\ p.scan.flushed \in BOOLEAN
         /\ p.rx \in Regexes /\ p.rx.flushed \in BOOLEAN
         /\ p.client.role \in BOOLEAN /\ p.client.errors \in Nat /\ p.client.finishes \in Nat
BY DEF Lines, Regexes, Clients, Resting, Scanners

LEMMA FrameWent ==
  ASSUME KeyOK, NEW p \in Lines, NEW f \in Frames
  PROVE  Went(p, Reason(p, f), f.content, f.role, f.finish,
              IF f.kind = "error" THEN 1 ELSE 0, f.kind = "done", p.client.state)
<1> DEFINE q == Reason(p, f)
           ends == f.kind = "done"
           g == Delta(f.content, f.role, f.finish \/ ends)
<1>1. /\ f.content \in Text /\ f.role \in BOOLEAN /\ f.finish \in BOOLEAN
      /\ f.kind \in {"delta", "done", "error"}
      /\ f.kind # "delta" => f.content = <<>> /\ ~f.role /\ ~f.finish
  BY DEF Frames
<1>2. /\ key.pairs = <<>> => Onward(p, p.scan, f, q)
      /\ key.pairs # <<>> => ReasonPassed(p, f, q)
  BY ReasonPasses
<1>3. ScanStep(p.scan, g) = ScanStep(p.scan, f)
  <2>1. g.content = f.content /\ g.finish = (f.finish \/ ends) /\ g.kind = "delta"
    BY DEF Delta
  <2> HIDE DEF g
  <2>2. CASE f.content = <<>>
    BY <1>1, <2>1, <2>2 DEF ScanStep
  <2>3. CASE f.content # <<>>
    <3>1. g.finish = f.finish
      BY <1>1, <2>1, <2>3
    <3>2. QED
      BY <2>1, <2>3, <3>1 DEF ScanStep
  <2>4. QED
    BY <2>2, <2>3
<1> HIDE DEF g, q, ends
<1>4. p.client.errors \in Nat /\ p.rx.flushed \in BOOLEAN
  BY LineTypes
<1>5. /\ Reads(p.client, q.client, f, Plain(f))
      /\ key.pairs = <<>> => Reads(p.client, q.client, f, TRUE)
  BY <1>2 DEF Onward, ReasonPassed, Reads
<1>6. /\ q \in Lines /\ q.client.state = p.client.state
      /\ q.client.role = (p.client.role \/ f.role)
      /\ f.content = <<>> \/ ~f.finish \/ key.pairs = <<>> =>
           q.client.finishes = IF f.finish THEN p.client.finishes + 1 ELSE p.client.finishes
      /\ q.client.finishes \in {p.client.finishes, p.client.finishes + 1}
      /\ q.client.errors = p.client.errors + (IF f.kind = "error" THEN 1 ELSE 0)
  <2>1. q \in Lines
    BY <1>2 DEF Onward, ReasonPassed
  <2>2. q.client.errors = p.client.errors + (IF f.kind = "error" THEN 1 ELSE 0)
    BY <1>4, <1>5 DEF Reads
  <2>3. QED
    BY <1>5, <2>1, <2>2 DEF Reads, Plain
<1>7. key.pairs # <<>> =>
       /\ q.scan = ScanStep(p.scan, g).st
       /\ Got(q) = Got(p) \o ScanStep(p.scan, g).text
  BY <1>2, <1>3 DEF ReasonPassed
<1>8. key.pairs = <<>> => q.scan = p.scan /\ Got(q) = Got(p) \o f.content
  BY <1>2 DEF Onward
<1>9. ASSUME key.scripts # <<>>, f.content = <<>> \/ ~f.finish \/ key.pairs = <<>>
      PROVE  /\ q.rx.flushed = (p.rx.flushed \/ f.finish \/ ends)
             /\ Balanced(p)
                  /\ (p.rx.flushed => f.content = <<>> /\ (key.pairs # <<>> => p.scan.flushed)) =>
                  Balanced(q)
  <2>1. CASE key.pairs = <<>>
    BY <1>2, <1>9, <2>1 DEF Onward, ends
  <2>2. CASE key.pairs # <<>>
    BY <1>2, <1>9, <2>2 DEF ReasonPassed, Plain, ends
  <2>3. QED
    BY <2>1, <2>2
<1>10. QED
  BY <1>6, <1>7, <1>8, <1>9 DEF Went, g, q, ends

(* Both stages flush.                                                      *)
LEMMA CloseWent ==
  ASSUME KeyOK, NEW p \in Lines
  PROVE  Went(p, Close(p), <<>>, FALSE, FALSE, 0, TRUE, "draining")
<1> DEFINE m == IF key.pairs = <<>> THEN p ELSE ReasonTail(p)
           n == IF key.scripts = <<>> THEN m ELSE RegexTail(m)
           e == ReasonRelease(p.scan)
           q == Close(p)
           g == Delta(<<>>, FALSE, TRUE)
<1>1. q = [n EXCEPT !.client.state = "draining"]
  BY DEF Close
<1>2. ScanStep(p.scan, g) = e
  BY DEF ScanStep, Delta
<1>3. /\ m \in Lines /\ Quiet(p.client, m.client)
      /\ key.pairs = <<>> => m.scan = p.scan /\ Got(m) = Got(p)
      /\ key.pairs # <<>> => m.scan = e.st /\ Got(m) = Got(p) \o e.text
      /\ key.scripts # <<>> =>
           (Balanced(p) /\ (p.rx.flushed => (key.pairs # <<>> => p.scan.flushed)) => Balanced(m))
  <2>1. CASE key.pairs = <<>>
    <3>1. m = p
      BY <2>1
    <3> HIDE DEF m
    <3>2. QED
      BY <2>1, <3>1 DEF Quiet
  <2>2. CASE key.pairs # <<>>
    <3>1. m = ReasonTail(p)
      BY <2>2
    <3> HIDE DEF m
    <3>2. /\ m \in Lines /\ m.scan = e.st /\ Quiet(p.client, m.client)
          /\ Got(m) = Got(p) \o e.text
          /\ key.scripts # <<>> =>
               (Balanced(p) /\ (p.rx.flushed => p.scan.flushed) => Balanced(m))
      BY <3>1, ReasonTailPasses
    <3>3. QED
      BY <2>2, <3>2
  <2>3. QED
    BY <2>1, <2>2
<1> HIDE DEF m, e, g
<1>4. /\ n \in Lines /\ Quiet(m.client, n.client) /\ n.scan = m.scan /\ Got(n) = Got(m)
      /\ key.scripts # <<>> => n.rx.flushed /\ (Balanced(m) => Balanced(n))
  <2>1. CASE key.scripts = <<>>
    <3>1. n = m
      BY <2>1
    <3> HIDE DEF n
    <3>2. QED
      BY <1>3, <2>1, <3>1 DEF Quiet
  <2>2. CASE key.scripts # <<>>
    <3>1. n = RegexTail(m)
      BY <2>2
    <3> HIDE DEF n
    <3>2. /\ n \in Lines /\ n.scan = m.scan /\ Quiet(m.client, n.client)
          /\ n.rx.flushed /\ n.rx.raw = m.rx.raw
          /\ Balanced(m) => Balanced(n)
      BY <1>3, <3>1, RegexTailPasses
    <3>3. Got(n) = Got(m)
      BY <2>2, <3>2 DEF Got
    <3>4. QED
      BY <2>2, <3>2, <3>3
  <2>3. QED
    BY <2>1, <2>2
<1> HIDE DEF n
<1>5. /\ q \in Lines /\ q.scan = n.scan /\ q.rx = n.rx /\ q.client.state = "draining"
      /\ q.client.text = n.client.text /\ q.client.role = n.client.role
      /\ q.client.finishes = n.client.finishes /\ q.client.errors = n.client.errors
  <2> DEFINE c == n.client
             d == [c EXCEPT !.state = "draining"]
  <2>1. c \in Clients
    BY <1>4 DEF Lines
  <2>2. q = [n EXCEPT !.client = d]
    BY <1>1, <1>4 DEF Lines
  <2> HIDE DEF c, q
  <2>3. /\ d \in Clients /\ d.state = "draining" /\ d.text = c.text /\ d.role = c.role
        /\ d.finishes = c.finishes /\ d.errors = c.errors
    BY <2>1 DEF Clients
  <2> HIDE DEF d
  <2>4. q \in Lines /\ q.scan = n.scan /\ q.rx = n.rx /\ q.client = d
    BY <1>4, <2>2, <2>3 DEF Lines
  <2>5. QED
    BY <2>3, <2>4 DEF c
<1> HIDE DEF q
<1>6. Got(q) = Got(n) /\ (Balanced(n) => Balanced(q))
  BY <1>5 DEF Got, Balanced
<1>7. p.client.errors \in Nat /\ p.rx.flushed \in BOOLEAN /\ p.client.role \in BOOLEAN
  BY LineTypes
<1>8. Got(p) \o <<>> = Got(p)
  BY GotIs
<1>9. /\ q.client.role = p.client.role /\ q.client.finishes = p.client.finishes
      /\ q.client.errors = p.client.errors
  BY <1>3, <1>4, <1>5 DEF Quiet
<1>10. key.pairs = <<>> => q.scan = p.scan /\ Got(q) = Got(p) \o <<>>
  BY <1>3, <1>4, <1>5, <1>6, <1>8
<1>11. key.pairs # <<>> =>
        q.scan = ScanStep(p.scan, g).st /\ Got(q) = Got(p) \o ScanStep(p.scan, g).text
  BY <1>2, <1>3, <1>4, <1>5, <1>6
<1>12. key.scripts # <<>> =>
         /\ q.rx.flushed = TRUE
         /\ Balanced(p) /\ (p.rx.flushed => (key.pairs # <<>> => p.scan.flushed)) => Balanced(q)
  <2>1. q.rx.flushed \in BOOLEAN
    BY <1>5, LineTypes
  <2>2. QED
    BY <1>3, <1>4, <1>5, <1>6, <2>1
<1>13. q.client.errors = p.client.errors + 0
  BY <1>7, <1>9
<1>14. Delta(<<>>, FALSE, FALSE \/ TRUE) = g
  BY DEF g
<1>15. QED
  BY <1>5, <1>7, <1>9, <1>10, <1>11, <1>12, <1>13, <1>14 DEF Went, q

(* One after the other, without text.                                      *)
LEMMA ThenWent ==
  ASSUME KeyOK, NEW p \in Lines, NEW q \in Lines, NEW s \in Lines,
         NEW finish \in BOOLEAN, NEW e \in Nat, NEW ends \in BOOLEAN, NEW d \in Nat,
         NEW final \in BOOLEAN, NEW a, NEW b,
         Went(p, q, <<>>, FALSE, finish, e, ends, a),
         Went(q, s, <<>>, FALSE, FALSE, d, final, b)
  PROVE  Went(p, s, <<>>, FALSE, finish, e + d, ends \/ final, b)
<1> DEFINE first == ScanStep(p.scan, Delta(<<>>, FALSE, finish \/ ends))
           second == ScanStep(q.scan, Delta(<<>>, FALSE, FALSE \/ final))
           both == ScanStep(p.scan, Delta(<<>>, FALSE, finish \/ (ends \/ final)))
<1>1. /\ p.scan \in Resting(key.pairs) /\ p.scan.flushed \in BOOLEAN
      /\ p.client.role \in BOOLEAN /\ p.client.errors \in Nat /\ p.rx.flushed \in BOOLEAN
      /\ q.client.role \in BOOLEAN /\ q.client.errors \in Nat /\ q.rx.flushed \in BOOLEAN
  BY LineTypes
<1>2. Got(p) \in Text /\ Got(p) \o <<>> = Got(p) /\ Got(q) \o <<>> = Got(q)
  BY GotIs
<1>3. \A z : \A x \in BOOLEAN :
        ScanStep(z, Delta(<<>>, FALSE, x)) =
          IF x THEN ReasonRelease(z) ELSE [st |-> z, text |-> <<>>]
  BY DEF ScanStep, Delta
<1>4. ASSUME key.pairs # <<>>
      PROVE  /\ q.scan = first.st /\ Got(q) = Got(p) \o first.text
             /\ s.scan = second.st /\ Got(s) = Got(q) \o second.text
  BY <1>4 DEF Went
<1>5. ASSUME key.pairs # <<>>
      PROVE  s.scan = both.st /\ Got(s) = Got(p) \o both.text
  <2>1. CASE finish \/ ends
    <3>1. first = ReasonRelease(p.scan) /\ both = first
      BY <1>3, <2>1
    <3>2. first.st.flushed /\ first.st \in Resting(key.pairs)
      BY <1>1, <3>1, ReleaseIs
    <3> HIDE DEF first, both
    <3>3. second.st = q.scan /\ second.text = <<>>
      <4>1. CASE final
        <5>1. second = ReasonRelease(q.scan)
          BY <1>3, <4>1
        <5>2. q.scan \in Resting(key.pairs) /\ q.scan.flushed
          BY <1>4, <1>5, <3>2
        <5> HIDE DEF second
        <5>3. QED
          BY <5>1, <5>2, ReleaseIs
      <4>2. CASE ~final
        <5>1. second = [st |-> q.scan, text |-> <<>>]
          BY <1>3, <4>2
        <5> HIDE DEF second
        <5>2. QED
          BY <5>1
      <4>3. QED
        BY <4>1, <4>2
    <3> HIDE DEF second
    <3>4. QED
      BY <1>2, <1>4, <1>5, <3>1, <3>3
  <2>2. CASE ~(finish \/ ends)
    <3>1. first = [st |-> p.scan, text |-> <<>>]
      BY <1>3, <2>2
    <3> HIDE DEF first
    <3>2. first.st = p.scan /\ first.text = <<>>
      BY <3>1
    <3>3. q.scan = p.scan /\ Got(q) = Got(p)
      BY <1>2, <1>4, <1>5, <3>2
    <3>4. both = second
      BY <1>3, <2>2, <3>3
    <3> HIDE DEF both, second
    <3>5. QED
      BY <1>4, <1>5, <3>3, <3>4
  <2>3. QED
    BY <2>1, <2>2
<1> HIDE DEF first, second
<1>6. key.pairs = <<>> => s.scan = p.scan /\ Got(s) = Got(p) \o <<>>
  BY <1>2 DEF Went
<1>7. ASSUME key.scripts # <<>>, Balanced(p),
             p.rx.flushed => (key.pairs # <<>> => p.scan.flushed)
      PROVE  Balanced(s)
  <2>1. Balanced(q) /\ q.rx.flushed = (p.rx.flushed \/ finish \/ ends)
    BY <1>7 DEF Went
  <2>2. ASSUME q.rx.flushed, key.pairs # <<>>
        PROVE  q.scan.flushed
    <3>1. CASE finish \/ ends
      <4>1. first = ReasonRelease(p.scan)
        BY <1>3, <3>1 DEF first
      <4>2. first.st.flushed
        BY <1>1, <4>1, ReleaseIs
      <4>3. QED
        BY <1>4, <2>2, <4>2
    <3>2. CASE ~(finish \/ ends)
      <4>1. first = [st |-> p.scan, text |-> <<>>]
        BY <1>3, <3>2 DEF first
      <4>2. first.st = p.scan
        BY <4>1
      <4>3. p.rx.flushed
        BY <1>1, <2>1, <2>2, <3>2
      <4>4. QED
        BY <1>4, <1>7, <2>2, <4>2, <4>3
    <3>3. QED
      BY <3>1, <3>2
  <2>3. QED
    BY <1>7, <2>1, <2>2 DEF Went
<1>8. key.scripts # <<>> => s.rx.flushed = (p.rx.flushed \/ finish \/ (ends \/ final))
  BY <1>1 DEF Went
<1>9. s.client.errors = p.client.errors + (e + d)
  <2>1. q.client.errors = p.client.errors + e /\ s.client.errors = q.client.errors + d
    BY DEF Went
  <2>2. QED
    BY <1>1, <2>1
<1>10. s.client.role = (p.client.role \/ FALSE)
  BY <1>1 DEF Went
<1>11. /\ s.client.state = b
       /\ s.client.finishes = IF finish THEN p.client.finishes + 1 ELSE p.client.finishes
  BY DEF Went
<1>12. QED
  BY <1>5, <1>6, <1>7, <1>8, <1>9, <1>10, <1>11 DEF Went, both

-----------------------------------------------------------------------------
(* The steps, seen from the line.                                          *)
Ups ==
  {u \in [open : BOOLEAN, sent : Text, role : BOOLEAN, finished : BOOLEAN, bundled : BOOLEAN] :
     u.bundled => u.finished}

Reasons == {"completed", "upstream-closed", "client-hangup"}

Convs ==
  {c \in [terminated : BOOLEAN, completions : {<<>>} \cup {<<reason>> : reason \in Reasons}] :
     c.terminated <=> c.completions # <<>>}

(* Everything has its type, and what a stage holds is within its limit.    *)
Typed ==
  /\ key \in [wire : Wires, pairs : Presets, scripts : Scripts]
  /\ up \in Ups
  /\ conv \in Convs
  /\ Line \in Lines

(* A frame of the answer comes in.                                         *)
Fed(x, role, finish) ==
  /\ up.open /\ ~up.finished
  /\ up' \in Ups /\ up'.open /\ up'.sent = up.sent \o x /\ up'.role = (up.role \/ role)
  /\ up'.finished = finish
  /\ conv' = conv
  /\ up'.bundled = (finish /\ x # <<>>)
  /\ key.wire = "gemini" => ~finish
  /\ Went(Line, Line', x, role, finish, 0, FALSE, client.state)

(* The upstream comes to its end, or is taken to have.                     *)
Closed(finish, errors, reason) ==
  /\ up.open
  /\ up' \in Ups /\ ~up'.open /\ up'.sent = up.sent /\ up'.role = up.role
  /\ up'.finished = (up.finished \/ finish) /\ up'.bundled = up.bundled
  /\ finish => key.wire = "gemini"
  /\ reason = "completed" => (finish \/ up.finished) /\ errors = 0
  /\ reason \in {"completed", "upstream-closed"}
  /\ errors = IF Converted /\ reason = "upstream-closed" THEN 1 ELSE 0
  /\ Complete(reason)
  /\ Went(Line, Line', <<>>, FALSE, finish, errors, TRUE, "draining")

(* The client has all of it, or will get no more.                          *)
Left(state) ==
  /\ up' \in Ups /\ up'.sent = up.sent /\ up'.role = up.role
  /\ up'.finished = up.finished /\ up'.bundled = up.bundled
  /\ scan' = scan /\ rx' = rx /\ client' = [client EXCEPT !.state = state]
  /\ \/ state = "ended" /\ client.state = "draining" /\ up' = up /\ conv' = conv
     \/ state \in {"broken", "gone"} /\ ~up'.open /\ Complete("client-hangup")

LEMMA TypedKey ==
  ASSUME Typed
  PROVE  KeyOK
BY StreamsAssumption DEF Typed, KeyOK, TagLists

LEMMA LineParts ==
  /\ Line.scan = scan /\ Line.rx = rx /\ Line.client = client
  /\ Line'.scan = scan' /\ Line'.rx = rx' /\ Line'.client = client'
BY DEF Line

LEMMA BecomesIs ==
  ASSUME NEW p \in Lines, Becomes(p)
  PROVE  Line' = p
BY DEF Becomes, Line, Lines

LEMMA UpIs ==
  ASSUME Typed
  PROVE  /\ up.open \in BOOLEAN /\ up.sent \in Text /\ up.role \in BOOLEAN
         /\ up.finished \in BOOLEAN /\ up.sent \o <<>> = up.sent
         /\ up.bundled \in BOOLEAN /\ (up.bundled => up.finished)
<1>1. /\ up.open \in BOOLEAN /\ up.sent \in Text /\ up.role \in BOOLEAN
      /\ up.finished \in BOOLEAN /\ up.bundled \in BOOLEAN /\ (up.bundled => up.finished)
  BY DEF Typed, Ups
<1>2. QED
  BY <1>1, Assoc

(* What comes of one frame.                                                *)
LEMMA DeltaWent ==
  ASSUME Typed, NEW x \in Text, NEW role \in BOOLEAN, NEW finish \in BOOLEAN,
         Becomes(Reason(Line, Delta(x, role, finish)))
  PROVE  Went(Line, Line', x, role, finish, 0, FALSE, client.state)
<1> DEFINE f == Delta(x, role, finish)
           q == Reason(Line, f)
<1>1. KeyOK /\ Line \in Lines
  BY TypedKey DEF Typed
<1>2. /\ f \in Frames /\ f.kind = "delta" /\ f.content = x /\ f.role = role
      /\ f.finish = finish
  BY DeltaIs
<1> HIDE DEF f
<1>3. Went(Line, q, f.content, f.role, f.finish, IF f.kind = "error" THEN 1 ELSE 0,
           f.kind = "done", Line.client.state)
  BY <1>1, <1>2, FrameWent
<1>4. (IF f.kind = "error" THEN 1 ELSE 0) = 0 /\ (f.kind = "done") = FALSE
      /\ Line.client.state = client.state
  BY <1>2, LineParts
<1>5. Went(Line, q, x, role, finish, 0, FALSE, client.state)
  BY <1>2, <1>3, <1>4
<1>6. q \in Lines
  BY <1>5 DEF Went
<1>7. Line' = q
  BY <1>6, BecomesIs DEF f
<1>8. QED
  BY <1>5, <1>7

LEMMA DoneWent ==
  ASSUME KeyOK, NEW p \in Lines
  PROVE  Went(p, Reason(p, Done), <<>>, FALSE, FALSE, 0, TRUE, p.client.state)
<1>1. Done \in Frames /\ Done.kind = "done" /\ Done.content = <<>>
  BY EndsAre
<1>2. Done.role = FALSE /\ Done.finish = FALSE
  BY DEF Done
<1>3. Went(p, Reason(p, Done), Done.content, Done.role, Done.finish,
           IF Done.kind = "error" THEN 1 ELSE 0, Done.kind = "done", p.client.state)
  BY <1>1, FrameWent
<1>4. (IF Done.kind = "error" THEN 1 ELSE 0) = 0 /\ (Done.kind = "done") = TRUE
  BY <1>1
<1>5. QED
  BY <1>1, <1>2, <1>3, <1>4

LEMMA ErrorWent ==
  ASSUME KeyOK, NEW p \in Lines
  PROVE  Went(p, Reason(p, ErrorFrame), <<>>, FALSE, FALSE, 1, FALSE, p.client.state)
<1>1. ErrorFrame \in Frames /\ ErrorFrame.kind = "error" /\ ErrorFrame.content = <<>>
  BY EndsAre
<1>2. ErrorFrame.role = FALSE /\ ErrorFrame.finish = FALSE
  BY DEF Done, ErrorFrame
<1>3. Went(p, Reason(p, ErrorFrame), ErrorFrame.content, ErrorFrame.role, ErrorFrame.finish,
           IF ErrorFrame.kind = "error" THEN 1 ELSE 0, ErrorFrame.kind = "done",
           p.client.state)
  BY <1>1, FrameWent
<1>4. (IF ErrorFrame.kind = "error" THEN 1 ELSE 0) = 1 /\ (ErrorFrame.kind = "done") = FALSE
  BY <1>1
<1>5. QED
  BY <1>1, <1>2, <1>3, <1>4

(* What comes of [DONE] and the end of the stream, after p.                *)
LEMMA EndWent ==
  ASSUME KeyOK, NEW p \in Lines, NEW q \in Lines, NEW finish \in BOOLEAN, NEW e \in Nat, NEW a,
         Went(p, q, <<>>, FALSE, finish, e, FALSE, a)
  PROVE  /\ Close(Reason(q, Done)) \in Lines
         /\ Went(p, Close(Reason(q, Done)), <<>>, FALSE, finish, e, TRUE, "draining")
<1> DEFINE r == Reason(q, Done)
           s == Close(r)
<1>1. Went(q, r, <<>>, FALSE, FALSE, 0, TRUE, q.client.state)
  BY DoneWent
<1>2. r \in Lines
  BY <1>1 DEF Went
<1> HIDE DEF r
<1>3. Went(r, s, <<>>, FALSE, FALSE, 0, TRUE, "draining")
  BY <1>2, CloseWent
<1>4. s \in Lines
  BY <1>3 DEF Went
<1> HIDE DEF s
<1>5. Went(p, r, <<>>, FALSE, finish, e + 0, FALSE \/ TRUE, q.client.state)
  <2>1. FALSE \in BOOLEAN /\ TRUE \in BOOLEAN /\ 0 \in Nat
    OBVIOUS
  <2>2. QED
    BY <1>1, <1>2, <2>1, ThenWent, ZenonT(30)
<1>6. e + 0 = e /\ (FALSE \/ TRUE) = TRUE /\ (TRUE \/ TRUE) = TRUE
  OBVIOUS
<1>7. Went(p, r, <<>>, FALSE, finish, e, TRUE, q.client.state)
  BY <1>5, <1>6
<1>8. Went(p, s, <<>>, FALSE, finish, e + 0, TRUE \/ TRUE, "draining")
  <2>1. TRUE \in BOOLEAN /\ 0 \in Nat
    OBVIOUS
  <2>2. QED
    BY <1>2, <1>3, <1>4, <1>7, <2>1, ThenWent, ZenonT(30)
<1>9. Went(p, s, <<>>, FALSE, finish, e, TRUE, "draining")
  BY <1>6, <1>8
<1>10. QED
  BY <1>4, <1>9 DEF r, s

LEMMA StartWent ==
  ASSUME KeyOK, NEW p \in Lines
  PROVE  Went(p, p, <<>>, FALSE, FALSE, 0, FALSE, p.client.state)
<1> DEFINE d == Delta(<<>>, FALSE, FALSE \/ FALSE)
           e == ScanStep(p.scan, d)
<1>1. e = [st |-> p.scan, text |-> <<>>]
  BY DEF ScanStep, Delta
<1> HIDE DEF e
<1>2. e.st = p.scan /\ e.text = <<>>
  BY <1>1
<1>3. ScanStep(p.scan, d).st = p.scan /\ ScanStep(p.scan, d).text = <<>>
  BY <1>2 DEF e
<1> HIDE DEF d
<1>4. Got(p) \o <<>> = Got(p)
  BY GotIs
<1>5. p.client.role \in BOOLEAN /\ p.client.errors \in Nat /\ p.rx.flushed \in BOOLEAN
  BY LineTypes
<1>6. p.client.errors + 0 = p.client.errors
  BY <1>5
<1>7. QED
  BY <1>3, <1>4, <1>5, <1>6 DEF Went, d

-----------------------------------------------------------------------------
(* The actions.                                                            *)
LEMMA FrameSteps ==
  ASSUME Typed, SendRole \/ SendDelta \/ SendFinish
  PROVE  /\ key' = key
         /\ \E x \in Text, role \in BOOLEAN, finish \in BOOLEAN : Fed(x, role, finish)
<1>1. <<>> \in Text
  BY DEF Text
<1>2. CASE SendRole
  <2>1. /\ up.open /\ ~up.finished /\ up' = [up EXCEPT !.role = TRUE] /\ conv' = conv /\ key' = key
        /\ Becomes(Reason(Line, Delta(<<>>, TRUE, FALSE)))
    BY <1>2 DEF SendRole
  <2>2. Went(Line, Line', <<>>, TRUE, FALSE, 0, FALSE, client.state)
    BY <1>1, <2>1, DeltaWent
  <2>3. /\ up' \in Ups /\ up'.open /\ up'.sent = up.sent /\ up'.role = TRUE
        /\ up'.finished = FALSE /\ up'.bundled = FALSE
    <3>1. /\ up' \in Ups /\ up'.open /\ up'.sent = up.sent /\ up'.role = TRUE
          /\ up'.finished = up.finished /\ up'.bundled = up.bundled
      BY <2>1 DEF Typed, Ups
    <3>2. QED
      BY <2>1, <3>1, UpIs
  <2>4. Fed(<<>>, TRUE, FALSE)
    BY <2>1, <2>2, <2>3, UpIs DEF Fed
  <2>5. QED
    BY <1>1, <2>1, <2>4
<1>3. CASE SendDelta
  <2>1. PICK x \in Texts(MaxDelta) \ {<<>>}, role \in RoleWithText, finish \in FinishWithText :
          /\ up' = [up EXCEPT !.sent = @ \o x, !.role = @ \/ role,
                              !.finished = finish, !.bundled = finish]
          /\ Becomes(Reason(Line, Delta(x, role, finish)))
    BY <1>3 DEF SendDelta
  <2>2. up.open /\ ~up.finished /\ conv' = conv /\ key' = key
    BY <1>3 DEF SendDelta
  <2>3. x \in Text /\ role \in BOOLEAN /\ finish \in BOOLEAN
    <3>1. PICK k \in 0..MaxDelta : x \in [1..k -> Letters]
      BY <2>1 DEF Texts
    <3>2. x \in Text
      <4>1. k \in Nat
        BY <3>1, StreamsAssumption
      <4>2. QED
        BY <3>1, <4>1 DEF Text
    <3>3. role \in BOOLEAN
      BY <2>1, UpIs DEF RoleWithText
    <3>4. finish \in BOOLEAN
      BY <2>1 DEF FinishWithText
    <3>5. QED
      BY <3>2, <3>3, <3>4
  <2>4. Went(Line, Line', x, role, finish, 0, FALSE, client.state)
    BY <2>1, <2>3, DeltaWent
  <2>5. /\ up' \in Ups /\ up'.open /\ up'.sent = up.sent \o x
        /\ up'.role = (up.role \/ role) /\ up'.finished = finish /\ up'.bundled = finish
    <3> DEFINE y == up.sent \o x
               z == up.role \/ role
    <3>1. y \in Text /\ z \in BOOLEAN
      BY <2>3, UpIs, Joined
    <3>2. up' = [up EXCEPT !.sent = y, !.role = z, !.finished = finish, !.bundled = finish]
      BY <2>1
    <3> HIDE DEF y, z
    <3>3. /\ up' \in Ups /\ up'.open /\ up'.sent = y /\ up'.role = z /\ up'.finished = finish
          /\ up'.bundled = finish
      BY <2>2, <2>3, <3>1, <3>2 DEF Typed, Ups
    <3>4. QED
      BY <3>3 DEF y, z
  <2>6. x # <<>> /\ (key.wire = "gemini" => ~finish)
    BY <2>1 DEF FinishWithText
  <2>7. Fed(x, role, finish)
    <3>1. up'.bundled = (finish /\ x # <<>>)
      BY <2>3, <2>5, <2>6
    <3>2. QED
      BY <2>2, <2>4, <2>5, <2>6, <3>1 DEF Fed
  <2>8. QED
    BY <2>2, <2>3, <2>7
<1>4. CASE SendFinish
  <2>1. /\ up.open /\ ~up.finished /\ up' = [up EXCEPT !.finished = TRUE] /\ conv' = conv
        /\ key' = key /\ key.wire # "gemini"
        /\ Becomes(Reason(Line, Delta(<<>>, FALSE, TRUE)))
    BY <1>4 DEF SendFinish
  <2>2. Went(Line, Line', <<>>, FALSE, TRUE, 0, FALSE, client.state)
    BY <1>1, <2>1, DeltaWent
  <2>3. /\ up' \in Ups /\ up'.open /\ up'.sent = up.sent /\ up'.role = up.role
        /\ up'.finished = TRUE /\ up'.bundled = FALSE
    <3>1. /\ up' \in Ups /\ up'.open /\ up'.sent = up.sent /\ up'.role = up.role
          /\ up'.finished = TRUE /\ up'.bundled = up.bundled
      BY <2>1 DEF Typed, Ups
    <3>2. QED
      BY <2>1, <3>1, UpIs
  <2>4. Fed(<<>>, FALSE, TRUE)
    BY <2>1, <2>2, <2>3, UpIs DEF Fed
  <2>5. QED
    BY <1>1, <2>1, <2>4
<1>5. QED
  BY <1>2, <1>3, <1>4

LEMMA CloseSteps ==
  ASSUME Typed, SendDone \/ SendGeminiFinish \/ BreakOff
  PROVE  /\ key' = key
         /\ \E finish \in BOOLEAN, errors \in Nat, reason \in Reasons :
              Closed(finish, errors, reason)
<1>1. KeyOK /\ Line \in Lines /\ <<>> \in Text
  BY TypedKey DEF Typed, Text
<1>2. Went(Line, Line, <<>>, FALSE, FALSE, 0, FALSE, Line.client.state)
  BY <1>1, StartWent
<1>3. CASE SendDone
  <2> DEFINE q == Close(Reason(Line, Done))
  <2>1. q \in Lines /\ Went(Line, q, <<>>, FALSE, FALSE, 0, TRUE, "draining")
    BY <1>1, <1>2, EndWent
  <2>2. /\ up.open /\ up.finished /\ up' = [up EXCEPT !.open = FALSE] /\ Complete("completed")
        /\ key' = key /\ Becomes(q)
    BY <1>3 DEF SendDone
  <2> HIDE DEF q
  <2>3. Line' = q
    BY <2>1, <2>2, BecomesIs
  <2>4. /\ up' \in Ups /\ ~up'.open /\ up'.sent = up.sent /\ up'.role = up.role
        /\ up'.finished = up.finished /\ up'.bundled = up.bundled
    BY <2>2 DEF Typed, Ups
  <2>5. Closed(FALSE, 0, "completed")
    BY <2>1, <2>2, <2>3, <2>4, UpIs DEF Closed
  <2>6. QED
    BY <2>2, <2>5 DEF Reasons
<1>4. CASE SendGeminiFinish
  <2> DEFINE f == Delta(<<>>, FALSE, TRUE)
             m == Reason(Line, f)
             q == Close(Reason(m, Done))
  <2>1. Went(Line, m, <<>>, FALSE, TRUE, 0, FALSE, Line.client.state)
    <3>1. /\ f \in Frames /\ f.kind = "delta" /\ f.content = <<>> /\ f.role = FALSE
          /\ f.finish = TRUE
      BY <1>1, DeltaIs
    <3> HIDE DEF f
    <3>2. Went(Line, m, f.content, f.role, f.finish, IF f.kind = "error" THEN 1 ELSE 0,
               f.kind = "done", Line.client.state)
      BY <1>1, <3>1, FrameWent
    <3>3. (IF f.kind = "error" THEN 1 ELSE 0) = 0 /\ (f.kind = "done") = FALSE
      BY <3>1
    <3>4. QED
      BY <3>1, <3>2, <3>3
  <2>2. m \in Lines
    BY <2>1 DEF Went
  <2>3. /\ up.open /\ key.wire = "gemini" /\ up' = [up EXCEPT !.finished = TRUE, !.open = FALSE]
        /\ Complete("completed") /\ key' = key /\ Becomes(q)
    BY <1>4 DEF SendGeminiFinish
  <2> HIDE DEF m
  <2>4. q \in Lines /\ Went(Line, q, <<>>, FALSE, TRUE, 0, TRUE, "draining")
    BY <1>1, <2>1, <2>2, EndWent
  <2> HIDE DEF q
  <2>5. Line' = q
    BY <2>3, <2>4, BecomesIs
  <2>6. /\ up' \in Ups /\ ~up'.open /\ up'.sent = up.sent /\ up'.role = up.role
        /\ up'.finished = TRUE /\ up'.bundled = up.bundled
    BY <2>3 DEF Typed, Ups
  <2>7. Closed(TRUE, 0, "completed")
    BY <2>3, <2>4, <2>5, <2>6 DEF Closed
  <2>8. QED
    BY <2>3, <2>7 DEF Reasons
<1>5. CASE BreakOff /\ Converted
  <2> DEFINE m == Reason(Line, ErrorFrame)
             q == Close(Reason(m, Done))
  <2>1. Went(Line, m, <<>>, FALSE, FALSE, 1, FALSE, Line.client.state)
    BY <1>1, ErrorWent
  <2>2. m \in Lines
    BY <2>1 DEF Went
  <2>3. /\ up.open /\ up' = [up EXCEPT !.open = FALSE]
        /\ Complete("upstream-closed") /\ key' = key /\ Becomes(q)
    BY <1>5 DEF BreakOff
  <2> HIDE DEF m
  <2>4. q \in Lines /\ Went(Line, q, <<>>, FALSE, FALSE, 1, TRUE, "draining")
    BY <1>1, <2>1, <2>2, EndWent
  <2> HIDE DEF q
  <2>5. Line' = q
    BY <2>3, <2>4, BecomesIs
  <2>6. /\ up' \in Ups /\ ~up'.open /\ up'.sent = up.sent /\ up'.role = up.role
        /\ up'.finished = up.finished /\ up'.bundled = up.bundled
    BY <2>3 DEF Typed, Ups
  <2>7. Closed(FALSE, 1, "upstream-closed")
    BY <1>5, <2>3, <2>4, <2>5, <2>6, UpIs DEF Closed
  <2>8. QED
    BY <2>3, <2>7 DEF Reasons
<1>6. CASE BreakOff /\ ~Converted
  <2> DEFINE q == Close(Line)
  <2>1. Went(Line, q, <<>>, FALSE, FALSE, 0, TRUE, "draining")
    BY <1>1, CloseWent
  <2>2. q \in Lines
    BY <2>1 DEF Went
  <2>3. /\ up.open /\ up' = [up EXCEPT !.open = FALSE]
        /\ Complete("upstream-closed") /\ key' = key /\ Becomes(q)
    BY <1>6 DEF BreakOff
  <2> HIDE DEF q
  <2>4. Line' = q
    BY <2>2, <2>3, BecomesIs
  <2>5. /\ up' \in Ups /\ ~up'.open /\ up'.sent = up.sent /\ up'.role = up.role
        /\ up'.finished = up.finished /\ up'.bundled = up.bundled
    BY <2>3 DEF Typed, Ups
  <2>6. Closed(FALSE, 0, "upstream-closed")
    BY <1>6, <2>1, <2>3, <2>4, <2>5, UpIs DEF Closed
  <2>7. QED
    BY <2>3, <2>6 DEF Reasons
<1>7. QED
  BY <1>3, <1>4, <1>5, <1>6

LEMMA LeaveSteps ==
  ASSUME Typed, Reset \/ Drain \/ Hangup
  PROVE  key' = key /\ \E state \in {"ended", "broken", "gone"} : Left(state)
<1>1. CASE Reset
  <2>1. /\ up' = [up EXCEPT !.open = FALSE] /\ Complete("client-hangup")
        /\ client' = [client EXCEPT !.state = "broken"] /\ key' = key /\ scan' = scan /\ rx' = rx
    BY <1>1 DEF Reset
  <2>2. /\ up' \in Ups /\ ~up'.open /\ up'.sent = up.sent /\ up'.role = up.role
        /\ up'.finished = up.finished /\ up'.bundled = up.bundled
    BY <2>1 DEF Typed, Ups
  <2>3. Left("broken")
    BY <2>1, <2>2 DEF Left
  <2>4. QED
    BY <2>1, <2>3
<1>2. CASE Drain
  <2>1. /\ client.state = "draining" /\ client' = [client EXCEPT !.state = "ended"]
        /\ key' = key /\ scan' = scan /\ rx' = rx /\ up' = up /\ conv' = conv
    BY <1>2 DEF Drain
  <2>2. up' \in Ups
    BY <2>1 DEF Typed
  <2>3. Left("ended")
    BY <2>1, <2>2 DEF Left
  <2>4. QED
    BY <2>1, <2>3
<1>3. CASE Hangup
  <2>1. /\ up' = [up EXCEPT !.open = FALSE] /\ Complete("client-hangup")
        /\ client' = [client EXCEPT !.state = "gone"] /\ key' = key /\ scan' = scan /\ rx' = rx
    BY <1>3 DEF Hangup
  <2>2. /\ up' \in Ups /\ ~up'.open /\ up'.sent = up.sent /\ up'.role = up.role
        /\ up'.finished = up.finished /\ up'.bundled = up.bundled
    BY <2>1 DEF Typed, Ups
  <2>3. Left("gone")
    BY <2>1, <2>2 DEF Left
  <2>4. QED
    BY <2>1, <2>3
<1>4. QED
  BY <1>1, <1>2, <1>3

(* What is left of a step of the specification.                            *)
LEMMA Steps ==
  ASSUME Typed, [Next]_vars
  PROVE  /\ key' = key
         /\ \/ \E x \in Text, role \in BOOLEAN, finish \in BOOLEAN : Fed(x, role, finish)
            \/ \E finish \in BOOLEAN, errors \in Nat, reason \in Reasons :
                 Closed(finish, errors, reason)
            \/ \E state \in {"ended", "broken", "gone"} : Left(state)
            \/ UNCHANGED vars
<1>1. \/ SendRole \/ SendDelta \/ SendFinish
      \/ SendDone \/ SendGeminiFinish \/ BreakOff
      \/ Reset \/ Drain \/ Hangup
      \/ UNCHANGED vars
  BY DEF Next, Over
<1>2. UNCHANGED vars => key' = key
  BY DEF vars
<1>3. QED
  BY <1>1, <1>2, FrameSteps, CloseSteps, LeaveSteps

-----------------------------------------------------------------------------
(* Where a word is in a text.                                              *)
LEMMA OccursIs ==
  ASSUME NEW text \in Text, NEW word \in Text, NEW i \in Nat \ {0}
  PROVE  Occurs(text, i, word) <=>
           /\ i + Len(word) - 1 <= Len(text)
           /\ \A k \in 1..Len(word) : text[i + k - 1] = word[k]
<1> DEFINE width == Len(word)
           n == i + width - 1
           piece == SubSeq(text, i, n)
<1>1. width \in Nat /\ Len(text) \in Nat /\ word \in Seq(Letters) /\ text \in Seq(Letters)
  BY DEF Text
<1>2. n \in Nat /\ n - i + 1 = width
  <2> HIDE DEF width
  <2>1. QED
    BY <1>1
<1>3. ASSUME n <= Len(text)
      PROVE  /\ piece \in Seq(Letters) /\ Len(piece) = width
             /\ \A k \in 1..width : piece[k] = text[i + k - 1]
  <2> HIDE DEF n, width
  <2>1. /\ piece \in Seq(Letters) /\ Len(piece) = (IF i <= n THEN n - i + 1 ELSE 0)
        /\ \A k \in 1..(n - i + 1) : piece[k] = text[i + k - 1]
    BY <1>1, <1>2, <1>3
  <2>2. (IF i <= n THEN n - i + 1 ELSE 0) = width
    BY <1>1, <1>2
  <2>3. QED
    BY <1>2, <2>1, <2>2
<1>4. Occurs(text, i, word) <=> n <= Len(text) /\ piece = word
  BY DEF Occurs
<1> HIDE DEF n, piece, width
<1>5. ASSUME n <= Len(text)
      PROVE  piece = word <=> \A k \in 1..width : text[i + k - 1] = word[k]
  <2>1. /\ piece \in Seq(Letters) /\ Len(piece) = width
        /\ \A k \in 1..width : piece[k] = text[i + k - 1]
    BY <1>3, <1>5
  <2>2. ASSUME \A k \in 1..width : text[i + k - 1] = word[k]
        PROVE  piece = word
    <3>1. \A k \in 1..width : piece[k] = word[k]
      BY <2>1, <2>2
    <3>2. Len(word) = width
      BY DEF width
    <3>3. QED
      BY <1>1, <2>1, <3>1, <3>2, SeqEqual
  <2>3. QED
    BY <2>1, <2>2
<1>6. QED
  BY <1>4, <1>5 DEF n, width

(* What follows a text, or comes before it, changes nothing inside it.     *)
LEMMA OccursBefore ==
  ASSUME NEW text \in Text, NEW c \in Text, NEW word \in Text, NEW i \in Nat \ {0},
         i + Len(word) - 1 <= Len(text)
  PROVE  Occurs(text \o c, i, word) <=> Occurs(text, i, word)
<1> DEFINE size == Len(text)
           width == Len(word)
           more == Len(c)
           whole == text \o c
<1>1. /\ width \in Nat /\ size \in Nat /\ more \in Nat
      /\ text \in Seq(Letters) /\ c \in Seq(Letters)
  BY DEF Text
<1>2. /\ whole \in Text /\ Len(whole) = size + more
      /\ \A k \in 1..size : whole[k] = text[k]
  BY <1>1 DEF Text
<1>3. i + width - 1 <= size
  OBVIOUS
<1> HIDE DEF size, width, more, whole
<1>4. i + width - 1 <= size + more /\ \A k \in 1..width : i + k - 1 \in 1..size
  BY <1>1, <1>3
<1>5. \A k \in 1..width : whole[i + k - 1] = text[i + k - 1]
  BY <1>2, <1>4
<1>6. Occurs(whole, i, word) <=> \A k \in 1..width : whole[i + k - 1] = word[k]
  BY <1>2, <1>4, OccursIs DEF width
<1>7. Occurs(text, i, word) <=> \A k \in 1..width : text[i + k - 1] = word[k]
  BY <1>3, OccursIs DEF width, size
<1>8. QED
  BY <1>5, <1>6, <1>7 DEF whole

LEMMA OccursBehind ==
  ASSUME NEW pre \in Text, NEW x \in Text, NEW word \in Text, NEW i \in Nat \ {0}
  PROVE  Occurs(pre \o x, Len(pre) + i, word) <=> Occurs(x, i, word)
<1> DEFINE size == Len(pre)
           width == Len(word)
           more == Len(x)
           whole == pre \o x
           j == size + i
<1>1. /\ width \in Nat /\ size \in Nat /\ more \in Nat
      /\ pre \in Seq(Letters) /\ x \in Seq(Letters)
  BY DEF Text
<1>2. /\ whole \in Text /\ Len(whole) = size + more
      /\ \A k \in 1..(size + more) : k > size => whole[k] = x[k - size]
  BY <1>1 DEF Text
<1> HIDE DEF size, width, more, whole
<1>3. /\ j \in Nat \ {0}
      /\ j + width - 1 <= size + more <=> i + width - 1 <= more
      /\ \A k \in Nat : (j + k - 1) - size = i + k - 1
      /\ \A k \in 1..width : j + k - 1 > size
      /\ i + width - 1 <= more => \A k \in 1..width : j + k - 1 \in 1..(size + more)
  BY <1>1
<1> HIDE DEF j
<1>4. Occurs(whole, j, word) <=>
        j + width - 1 <= size + more /\ \A k \in 1..width : whole[j + k - 1] = word[k]
  <2>1. j \in Nat \ {0} /\ whole \in Text /\ Len(whole) = size + more
    BY <1>2, <1>3
  <2>2. Occurs(whole, j, word) <=>
          /\ j + Len(word) - 1 <= Len(whole)
          /\ \A k \in 1..Len(word) : whole[j + k - 1] = word[k]
    BY <2>1, OccursIs
  <2>3. QED
    BY <2>1, <2>2 DEF width
<1>5. Occurs(x, i, word) <=>
        i + width - 1 <= more /\ \A k \in 1..width : x[i + k - 1] = word[k]
  BY OccursIs DEF width, more
<1>6. ASSUME i + width - 1 <= more, NEW k \in 1..width
      PROVE  whole[j + k - 1] = x[i + k - 1]
  <2>1. k \in Nat /\ j + k - 1 \in 1..(size + more) /\ j + k - 1 > size
    BY <1>1, <1>3, <1>6
  <2>2. whole[j + k - 1] = x[(j + k - 1) - size]
    BY <1>2, <2>1
  <2>3. QED
    BY <1>3, <2>1, <2>2
<1>7. QED
  BY <1>3, <1>4, <1>5, <1>6 DEF j, size, whole

(* A word that is inside another one in a text is inside it.               *)
LEMMA OccursInside ==
  ASSUME NEW text \in Text, NEW w \in Text, NEW v \in Text, NEW i \in Nat \ {0},
         NEW j \in Nat \ {0}, Occurs(text, i, w), Occurs(text, j, v),
         i <= j, j + Len(v) <= i + Len(w), v # <<>>
  PROVE  j - i + 1 \in 1..Len(w) /\ Occurs(w, j - i + 1, v)
<1> DEFINE a == Len(v)
           b == Len(w)
           d == j - i + 1
<1>1. a \in Nat \ {0} /\ b \in Nat
  BY DEF Text
<1>2. j + a <= i + b
  OBVIOUS
<1> HIDE DEF a, b
<1>3. /\ d \in Nat \ {0} /\ d \in 1..b /\ d + a - 1 <= b
      /\ \A k \in 1..a : d + k - 1 \in 1..b /\ i + (d + k - 1) - 1 = j + k - 1
  BY <1>1, <1>2
<1> HIDE DEF d
<1>4. \A k \in 1..b : text[i + k - 1] = w[k]
  BY OccursIs DEF b
<1>5. \A k \in 1..a : text[j + k - 1] = v[k]
  BY OccursIs DEF a
<1>6. \A k \in 1..a : w[d + k - 1] = v[k]
  BY <1>3, <1>4, <1>5
<1>7. Occurs(w, d, v)
  BY <1>3, <1>6, OccursIs DEF a, b
<1>8. QED
  BY <1>3, <1>7 DEF d, b

-----------------------------------------------------------------------------
(* Tags found in a text.  No tag is inside another one, so the first one   *)
(* is unique, and stays the first one whatever comes behind it.            *)
LEMMA FoundAt ==
  ASSUME NEW pairs \in TagLists, NEW text \in Text, NEW tags, tags \subseteq TagsOf(pairs),
         NEW f \in Found(text, tags)
  PROVE  /\ f.at \in Nat \ {0} /\ f.at <= Len(text) /\ f.tag \in tags
         /\ f = [at |-> f.at, tag |-> f.tag]
         /\ f.tag.word \in Text /\ f.tag.word # <<>> /\ Len(f.tag.word) \in Nat \ {0}
         /\ Occurs(text, f.at, f.tag.word)
         /\ f.at + Len(f.tag.word) - 1 <= Len(text) /\ Len(text) \in Nat
<1>1. Len(text) \in Nat
  BY DEF Text
<1>2. f \in [at : 1..Len(text), tag : tags] /\ Occurs(text, f.at, f.tag.word)
  BY DEF Found
<1>3. f.tag \in tags /\ f.at \in 1..Len(text) /\ f = [at |-> f.at, tag |-> f.tag]
  BY <1>2
<1>4. f.tag.word \in Text /\ f.tag.word # <<>> /\ Len(f.tag.word) \in Nat \ {0}
  BY <1>3, TagsAre
<1>5. QED
  BY <1>1, <1>2, <1>3, <1>4 DEF Occurs

LEMMA FindIs ==
  ASSUME NEW pairs \in TagLists, NEW text \in Text, NEW tags, tags \subseteq TagsOf(pairs),
         NEW i \in Nat \ {0}, NEW t \in tags, Occurs(text, i, t.word)
  PROVE  [at |-> i, tag |-> t] \in Found(text, tags)
<1>1. Len(t.word) \in Nat \ {0} /\ Len(text) \in Nat
  BY TagsAre DEF Text
<1>2. i + Len(t.word) - 1 <= Len(text)
  BY DEF Occurs
<1>3. i \in 1..Len(text)
  <2> DEFINE a == Len(t.word)
             b == Len(text)
  <2>1. a \in Nat \ {0} /\ b \in Nat /\ i + a - 1 <= b
    BY <1>1, <1>2
  <2> HIDE DEF a, b
  <2>2. i \in 1..b
    BY <2>1
  <2>3. QED
    BY <2>2 DEF b
<1>4. QED
  BY <1>3 DEF Found

LEMMA NestedTags ==
  ASSUME NEW pairs \in TagLists, NEW text \in Text, NEW tags, tags \subseteq TagsOf(pairs),
         NEW f \in Found(text, tags), NEW g \in Found(text, tags),
         f.at <= g.at, g.at + Len(g.tag.word) <= f.at + Len(f.tag.word)
  PROVE  f = g
<1>1. /\ f.at \in Nat \ {0} /\ f.tag \in tags /\ f = [at |-> f.at, tag |-> f.tag]
      /\ f.tag.word \in Text /\ Occurs(text, f.at, f.tag.word) /\ Len(f.tag.word) \in Nat
  BY FoundAt
<1>2. /\ g.at \in Nat \ {0} /\ g.tag \in tags /\ g = [at |-> g.at, tag |-> g.tag]
      /\ g.tag.word \in Text /\ g.tag.word # <<>> /\ Occurs(text, g.at, g.tag.word)
      /\ Len(g.tag.word) \in Nat
  BY FoundAt
<1>3. /\ g.at - f.at + 1 \in 1..Len(f.tag.word)
      /\ Occurs(f.tag.word, g.at - f.at + 1, g.tag.word)
  BY <1>1, <1>2, OccursInside
<1>4. f.tag = g.tag
  <2>1. Unambiguous(pairs) /\ f.tag \in TagsOf(pairs) /\ g.tag \in TagsOf(pairs)
    BY <1>1, <1>2 DEF TagLists
  <2>2. QED
    BY <1>3, <2>1 DEF Unambiguous
<1>5. f.at = g.at
  <2> DEFINE a == Len(f.tag.word)
             i == f.at
             j == g.at
  <2>1. a \in Nat /\ i \in Nat /\ j \in Nat /\ i <= j /\ j + a <= i + a
    BY <1>1, <1>2, <1>4
  <2> HIDE DEF a, i, j
  <2>2. i = j
    BY <2>1
  <2>3. QED
    BY <2>2 DEF i, j
<1>6. QED
  BY <1>1, <1>2, <1>4, <1>5

LEMMA OnlyHit ==
  ASSUME NEW pairs \in TagLists, NEW text \in Text, NEW tags, tags \subseteq TagsOf(pairs),
         NEW f \in Found(text, tags), \A g \in Found(text, tags) : f.at <= g.at
  PROVE  Hits(text, tags) # {} /\ The(Hits(text, tags)) = f
<1> DEFINE hits == Hits(text, tags)
<1>1. f \in hits
  BY DEF Hits
<1>2. ASSUME NEW g \in hits
      PROVE  g = f
  <2>1. g \in Found(text, tags) /\ g.at <= f.at /\ f.at <= g.at
    BY <1>2 DEF Hits
  <2>2. /\ f.at \in Nat /\ g.at \in Nat
        /\ Len(f.tag.word) \in Nat /\ Len(g.tag.word) \in Nat
    BY <2>1, FoundAt
  <2>3. f.at = g.at
    BY <2>1, <2>2
  <2>4. CASE Len(g.tag.word) <= Len(f.tag.word)
    <3>1. f.at <= g.at /\ g.at + Len(g.tag.word) <= f.at + Len(f.tag.word)
      BY <2>2, <2>3, <2>4
    <3>2. QED
      BY <2>1, <3>1, NestedTags
  <2>5. CASE Len(f.tag.word) <= Len(g.tag.word)
    <3>1. g.at <= f.at /\ f.at + Len(f.tag.word) <= g.at + Len(g.tag.word)
      BY <2>2, <2>3, <2>5
    <3>2. QED
      BY <2>1, <3>1, NestedTags
  <2>6. QED
    BY <2>2, <2>4, <2>5
<1>3. The(hits) \in hits
  BY <1>1 DEF The
<1>4. QED
  BY <1>1, <1>2, <1>3

LEMMA FirstHit ==
  ASSUME NEW pairs \in TagLists, NEW text \in Text, NEW tags, tags \subseteq TagsOf(pairs)
  PROVE  /\ Hits(text, tags) = {} <=> Found(text, tags) = {}
         /\ Hits(text, tags) # {} =>
              /\ The(Hits(text, tags)) \in Found(text, tags)
              /\ \A g \in Found(text, tags) : The(Hits(text, tags)).at <= g.at
<1> DEFINE places == {f.at : f \in Found(text, tags)}
<1>1. ASSUME Found(text, tags) # {}
      PROVE  Hits(text, tags) # {}
  <2>1. places \subseteq Nat /\ places # {}
    BY <1>1, FoundAt
  <2> HIDE DEF places
  <2>2. PICK n \in places : \A m \in places : n <= m
    BY <2>1, LeastOf
  <2>3. PICK f \in Found(text, tags) : n = f.at
    BY DEF places
  <2>4. \A g \in Found(text, tags) : f.at <= g.at
    BY <2>2, <2>3 DEF places
  <2>5. QED
    BY <2>4, OnlyHit
<1>2. Hits(text, tags) \subseteq Found(text, tags)
  BY DEF Hits
<1>3. ASSUME Hits(text, tags) # {}
      PROVE  /\ The(Hits(text, tags)) \in Found(text, tags)
             /\ \A g \in Found(text, tags) : The(Hits(text, tags)).at <= g.at
  <2>1. The(Hits(text, tags)) \in Hits(text, tags)
    BY <1>3 DEF The
  <2>2. QED
    BY <2>1 DEF Hits
<1>4. QED
  BY <1>1, <1>2, <1>3

LEMMA HitStays ==
  ASSUME NEW pairs \in TagLists, NEW text \in Text, NEW c \in Text, NEW tags,
         tags \subseteq TagsOf(pairs), Hits(text, tags) # {}
  PROVE  /\ Hits(text \o c, tags) # {}
         /\ The(Hits(text \o c, tags)) = The(Hits(text, tags))
<1> DEFINE f == The(Hits(text, tags))
           whole == text \o c
<1>1. f \in Found(text, tags) /\ \A g \in Found(text, tags) : f.at <= g.at
  BY FirstHit
<1>2. whole \in Text
  BY Joined
<1> HIDE DEF f
<1>3. /\ f.at \in Nat \ {0} /\ f.tag \in tags /\ f = [at |-> f.at, tag |-> f.tag]
      /\ f.tag.word \in Text /\ Occurs(text, f.at, f.tag.word)
      /\ f.at + Len(f.tag.word) - 1 <= Len(text)
      /\ Len(f.tag.word) \in Nat /\ Len(text) \in Nat
  BY <1>1, FoundAt
<1>4. Occurs(whole, f.at, f.tag.word)
  BY <1>3, OccursBefore
<1> HIDE DEF whole
<1>5. f \in Found(whole, tags)
  BY <1>2, <1>3, <1>4, FindIs
<1>6. ASSUME NEW g \in Found(whole, tags)
      PROVE  f.at <= g.at
  <2>1. /\ g.at \in Nat \ {0} /\ g.tag \in tags /\ g = [at |-> g.at, tag |-> g.tag]
        /\ g.tag.word \in Text /\ Occurs(whole, g.at, g.tag.word) /\ Len(g.tag.word) \in Nat
    BY <1>2, FoundAt
  <2>2. CASE g.at + Len(g.tag.word) - 1 <= Len(text)
    <3>1. Occurs(text, g.at, g.tag.word)
      BY <2>1, <2>2, OccursBefore DEF whole
    <3>2. g \in Found(text, tags)
      BY <2>1, <3>1, FindIs
    <3>3. QED
      BY <1>1, <3>2
  <2>3. CASE ~(g.at + Len(g.tag.word) - 1 <= Len(text)) /\ ~(f.at <= g.at)
    <3> DEFINE a == Len(f.tag.word)
               b == Len(g.tag.word)
               size == Len(text)
               i == f.at
               j == g.at
    <3>1. /\ a \in Nat /\ b \in Nat /\ size \in Nat /\ i \in Nat /\ j \in Nat
          /\ i + a - 1 <= size /\ ~(j + b - 1 <= size) /\ ~(i <= j)
      BY <1>3, <2>1, <2>3
    <3> HIDE DEF a, b, size, i, j
    <3>2. j <= i /\ i + a <= j + b
      BY <3>1
    <3>3. f = g
      BY <1>2, <1>5, <3>2, NestedTags DEF a, b, i, j
    <3>4. QED
      BY <3>1, <3>3 DEF i, j
  <2>4. QED
    BY <2>2, <2>3
<1>7. QED
  BY <1>2, <1>5, <1>6, OnlyHit DEF f, whole

(* Where no tag begins in the beginning of a text, it can be left off.     *)
LEMMA HitShifts ==
  ASSUME NEW pairs \in TagLists, NEW pre \in Text, NEW x \in Text, NEW tags,
         tags \subseteq TagsOf(pairs), \A f \in Found(pre \o x, tags) : f.at > Len(pre)
  PROVE  /\ Hits(pre \o x, tags) = {} <=> Hits(x, tags) = {}
         /\ Hits(x, tags) # {} =>
              The(Hits(pre \o x, tags)) = [at |-> Len(pre) + The(Hits(x, tags)).at,
                                           tag |-> The(Hits(x, tags)).tag]
<1> DEFINE whole == pre \o x
           k == Len(pre)
           Moved(f) == [at |-> k + f.at, tag |-> f.tag]
<1>1. whole \in Text /\ k \in Nat
  BY Joined DEF Text
<1>2. ASSUME NEW f \in Found(x, tags)
      PROVE  Moved(f) \in Found(whole, tags)
  <2>1. /\ f.at \in Nat \ {0} /\ f.tag \in tags /\ f.tag.word \in Text
        /\ Occurs(x, f.at, f.tag.word)
    BY FoundAt
  <2>2. Occurs(whole, k + f.at, f.tag.word)
    BY <2>1, OccursBehind
  <2>3. k + f.at \in Nat \ {0}
    BY <1>1, <2>1
  <2> HIDE DEF whole, k
  <2>4. QED
    BY <1>1, <2>1, <2>2, <2>3, FindIs
<1>3. ASSUME NEW g \in Found(whole, tags)
      PROVE  \E f \in Found(x, tags) : g = Moved(f)
  <2>1. /\ g.at \in Nat \ {0} /\ g.tag \in tags /\ g.tag.word \in Text
        /\ Occurs(whole, g.at, g.tag.word) /\ g = [at |-> g.at, tag |-> g.tag]
    BY <1>1, FoundAt
  <2>2. g.at > k
    OBVIOUS
  <2> DEFINE i == g.at - k
             f == [at |-> i, tag |-> g.tag]
  <2>3. i \in Nat \ {0} /\ k + i = g.at
    BY <1>1, <2>1, <2>2
  <2> HIDE DEF i
  <2>4. Occurs(x, i, g.tag.word)
    <3>1. Occurs(pre \o x, Len(pre) + i, g.tag.word)
      BY <2>1, <2>3
    <3>2. QED
      BY <2>1, <2>3, <3>1, OccursBehind
  <2>5. f \in Found(x, tags)
    BY <2>1, <2>3, <2>4, FindIs
  <2>6. g = Moved(f)
    BY <2>1, <2>3
  <2>7. QED
    BY <2>5, <2>6
<1> HIDE DEF whole, k
<1>4. Found(whole, tags) = {} <=> Found(x, tags) = {}
  BY <1>2, <1>3
<1>5. Hits(whole, tags) = {} <=> Hits(x, tags) = {}
  BY <1>1, <1>4, FirstHit
<1>6. ASSUME Hits(x, tags) # {}
      PROVE  The(Hits(whole, tags)) = Moved(The(Hits(x, tags)))
  <2> DEFINE f == The(Hits(x, tags))
  <2>1. f \in Found(x, tags) /\ \A g \in Found(x, tags) : f.at <= g.at
    BY <1>6, FirstHit
  <2> HIDE DEF f
  <2>2. Moved(f) \in Found(whole, tags)
    BY <1>2, <2>1
  <2>3. ASSUME NEW g \in Found(whole, tags)
        PROVE  Moved(f).at <= g.at
    <3>1. PICK h \in Found(x, tags) : g = Moved(h)
      BY <1>3
    <3>2. f.at \in Nat /\ h.at \in Nat /\ f.at <= h.at
      BY <2>1, FoundAt
    <3>3. k + f.at <= k + h.at
      BY <1>1, <3>2
    <3>4. QED
      BY <3>1, <3>3
  <2> HIDE DEF Moved
  <2>4. The(Hits(whole, tags)) = Moved(f)
    BY <1>1, <2>2, <2>3, OnlyHit
  <2>5. QED
    BY <2>4 DEF f
<1>7. QED
  BY <1>5, <1>6 DEF whole, k


-----------------------------------------------------------------------------
(* The loop as a walk.                                                     *)
Step(t, pairs) == IF t.busy THEN Turn(t, pairs) ELSE t

Unrolled(a, N, s, pairs) ==
  /\ a \in [0..N -> Scanners(pairs)] /\ a[0] = s
  /\ \A i \in 1..N : a[i] = Step(a[i - 1], pairs)

LEMMA StepIs ==
  ASSUME NEW pairs \in TagLists, NEW t \in Scanners(pairs)
  PROVE  Step(t, pairs) \in Scanners(pairs) /\ Step(t, pairs).flushed = t.flushed
<1>1. CASE t.busy
  BY <1>1, TurnTurns DEF Turned, Step
<1>2. CASE ~t.busy
  BY <1>2 DEF Step
<1>3. QED
  BY <1>1, <1>2

LEMMA DriveUnrolls ==
  ASSUME NEW pairs \in TagLists, NEW s \in Scanners(pairs)
  PROVE  \E a : Unrolled(a, Turns(s), s, pairs) /\ Drive(s, pairs) = a[Turns(s)]
<1> DEFINE N == Turns(s)
           G == Scanners(pairs)
           next == [it \in (1..N) \X G |-> Step(it[2], pairs)]
           Unrolls(f) == f = [n \in 0..N |-> IF n = 0 THEN s ELSE Step(f[n - 1], pairs)]
<1>1. N \in Nat
  BY DEF Turns, Scanners, Text
<1> HIDE DEF N
<1>2. next \in [(1..N) \X G -> G]
  BY StepIs
<1>3. \E f : Unrolls(f)
  <2>1. PICK f : f \in Walks(N, G, s, next)
    <3> HIDE DEF next, G, Unrolls
    <3>1. s \in G /\ N \in Nat
      BY <1>1 DEF G
    <3>2. QED
      BY <1>2, <3>1, Recursion
  <2>2. ASSUME NEW i \in 0..N
        PROVE  f[i] = IF i = 0 THEN s ELSE Step(f[i - 1], pairs)
    <3>1. CASE i = 0
      BY <2>1, <3>1 DEF Walks
    <3>2. CASE i # 0
      <4>1. i \in 1..N /\ i - 1 \in 0..N
        BY <1>1, <3>2
      <4>2. f[i - 1] \in G
        BY <2>1, <4>1 DEF Walks
      <4>3. next[<<i, f[i - 1]>>] = Step(f[i - 1], pairs)
        BY <4>1, <4>2
      <4> HIDE DEF next
      <4>4. QED
        BY <2>1, <3>2, <4>1, <4>3 DEF Walks
    <3>3. QED
      BY <3>1, <3>2
  <2>3. Unrolls(f)
    BY <2>1, <2>2 DEF Walks
  <2> HIDE DEF Unrolls
  <2>4. QED
    BY <2>3
<1> DEFINE after == CHOOSE f : Unrolls(f)
<1>4. Unrolls(after)
  <2> HIDE DEF Unrolls
  <2>1. QED
    BY <1>3
<1>5. Drive(s, pairs) = after[N]
  BY DEF Drive, Step, N
<1> HIDE DEF after, next
<1>6. after[0] = s
  BY <1>1, <1>4
<1>7. ASSUME NEW i \in 1..N
      PROVE  after[i] = Step(after[i - 1], pairs)
  <2>1. i \in 0..N /\ i # 0
    BY <1>1
  <2>2. QED
    BY <1>4, <2>1
<1>8. \A i \in 0..N : after[i] \in G
  <2> DEFINE good == {n \in Nat : n <= N => after[n] \in G}
  <2>1. 0 \in good
    BY <1>6
  <2>2. ASSUME NEW n \in Nat, n \in good
        PROVE  n + 1 \in good
    <3> SUFFICES ASSUME n + 1 <= N
                 PROVE  after[n + 1] \in G
      OBVIOUS
    <3>1. n <= N /\ n + 1 \in 1..N /\ (n + 1) - 1 = n
      BY <1>1
    <3>2. after[n] \in G
      BY <2>2, <3>1
    <3>3. after[n + 1] = Step(after[n], pairs)
      BY <1>7, <3>1
    <3>4. QED
      BY <3>2, <3>3, StepIs
  <2> HIDE DEF good
  <2>3. \A n \in Nat : n \in good
    BY <2>1, <2>2, Induction
  <2>4. QED
    BY <1>1, <2>3 DEF good
<1>9. DOMAIN after = 0..N /\ after = [n \in 0..N |-> after[n]]
  BY <1>4
<1>10. after \in [0..N -> G]
  <2> HIDE DEF G
  <2>1. QED
    BY <1>8, <1>9
<1>11. Unrolled(after, N, s, pairs)
  BY <1>6, <1>7, <1>10 DEF Unrolled
<1>12. QED
  BY <1>5, <1>11 DEF N

(* Once out of the loop nothing changes, and so two walks from the same    *)
(* state that both get out of the loop end in the same state.              *)
LEMMA SameRest ==
  ASSUME NEW pairs, NEW s, NEW N \in Nat, NEW M \in Nat, NEW a, NEW b,
         Unrolled(a, N, s, pairs), Unrolled(b, M, s, pairs), ~a[N].busy, ~b[M].busy
  PROVE  a[N] = b[M]
<1>1. ASSUME NEW c, NEW K \in Nat, Unrolled(c, K, s, pairs), NEW i \in 0..K, ~c[i].busy
      PROVE  c[K] = c[i]
  <2> DEFINE good == {n \in Nat : i + n <= K => c[i + n] = c[i]}
  <2>1. i \in Nat /\ i <= K /\ i + 0 = i
    OBVIOUS
  <2>2. 0 \in good
    BY <2>1
  <2>3. ASSUME NEW n \in Nat, n \in good
        PROVE  n + 1 \in good
    <3> SUFFICES ASSUME i + (n + 1) <= K
                 PROVE  c[i + (n + 1)] = c[i]
      OBVIOUS
    <3>1. i + n <= K /\ i + (n + 1) \in 1..K /\ (i + (n + 1)) - 1 = i + n
      BY <2>1
    <3>2. c[i + n] = c[i]
      BY <2>3, <3>1
    <3>3. c[i + (n + 1)] = Step(c[i + n], pairs)
      BY <1>1, <3>1 DEF Unrolled
    <3>4. QED
      BY <1>1, <3>2, <3>3 DEF Step
  <2> HIDE DEF good
  <2>4. \A n \in Nat : n \in good
    BY <2>2, <2>3, Induction
  <2>5. K - i \in Nat /\ i + (K - i) = K
    BY <2>1
  <2>6. QED
    BY <2>4, <2>5 DEF good
<1> DEFINE good == {n \in Nat : n <= N /\ n <= M => a[n] = b[n]}
<1>2. 0 \in good
  BY DEF Unrolled
<1>3. ASSUME NEW n \in Nat, n \in good
      PROVE  n + 1 \in good
  <2> SUFFICES ASSUME n + 1 <= N, n + 1 <= M
               PROVE  a[n + 1] = b[n + 1]
    OBVIOUS
  <2>1. n <= N /\ n <= M /\ n + 1 \in 1..N /\ n + 1 \in 1..M /\ (n + 1) - 1 = n
    OBVIOUS
  <2>2. a[n] = b[n]
    BY <1>3, <2>1
  <2>3. a[n + 1] = Step(a[n], pairs) /\ b[n + 1] = Step(b[n], pairs)
    BY <2>1 DEF Unrolled
  <2>4. QED
    BY <2>2, <2>3
<1> HIDE DEF good
<1>4. \A n \in Nat : n \in good
  BY <1>2, <1>3, Induction
<1>5. CASE N <= M
  <2>1. a[N] = b[N] /\ N \in 0..M
    BY <1>4, <1>5 DEF good
  <2>2. QED
    BY <1>1, <2>1
<1>6. CASE M <= N
  <2>1. a[M] = b[M] /\ M \in 0..N
    BY <1>4, <1>6 DEF good
  <2>2. QED
    BY <1>1, <2>1
<1>7. QED
  BY <1>5, <1>6

LEMMA DriveEnds ==
  ASSUME NEW pairs \in TagLists, NEW s \in Scanners(pairs), s.busy, NEW N \in Nat, NEW a,
         Unrolled(a, N, s, pairs), ~a[N].busy
  PROVE  Drive(s, pairs) = a[N]
<1>1. PICK b : Unrolled(b, Turns(s), s, pairs) /\ Drive(s, pairs) = b[Turns(s)]
  BY DriveUnrolls
<1>2. ~b[Turns(s)].busy
  BY <1>1, DriveRests DEF Resting
<1>3. Turns(s) \in Nat
  BY DEF Turns, Scanners, Text
<1>4. QED
  BY <1>1, <1>2, <1>3, SameRest

(* The loop is its first turn and then the loop.                           *)
LEMMA DriveTurns ==
  ASSUME NEW pairs \in TagLists, NEW s \in Scanners(pairs), s.busy
  PROVE  Drive(s, pairs) = IF Turn(s, pairs).busy THEN Drive(Turn(s, pairs), pairs)
                           ELSE Turn(s, pairs)
<1> DEFINE t == Turn(s, pairs)
           G == Scanners(pairs)
<1>1. t \in G /\ t = Step(s, pairs)
  BY TurnTurns DEF Turned, Step
<1> HIDE DEF t
<1>2. CASE ~t.busy
  <2> DEFINE a == [i \in 0..1 |-> IF i = 0 THEN s ELSE t]
  <2>1. a \in [0..1 -> G] /\ a[0] = s /\ a[1] = t
    BY <1>1
  <2>2. \A i \in 1..1 : i = 1 /\ i - 1 = 0
    OBVIOUS
  <2> HIDE DEF a
  <2>3. Unrolled(a, 1, s, pairs)
    BY <1>1, <2>1, <2>2 DEF Unrolled
  <2>4. Drive(s, pairs) = a[1]
    BY <1>2, <2>1, <2>3, DriveEnds
  <2>5. QED
    BY <1>2, <2>1, <2>4 DEF t
<1>3. CASE t.busy
  <2> DEFINE N == Turns(t)
  <2>1. PICK b : Unrolled(b, N, t, pairs) /\ Drive(t, pairs) = b[N]
    BY <1>1, DriveUnrolls
  <2>2. ~b[N].busy
    BY <1>1, <1>3, <2>1, DriveRests DEF Resting
  <2>3. N \in Nat
    BY <1>1 DEF Turns, Scanners, Text
  <2> HIDE DEF N
  <2> DEFINE a == [i \in 0..(N + 1) |-> IF i = 0 THEN s ELSE b[i - 1]]
  <2>4. /\ a \in [0..(N + 1) -> G] /\ a[0] = s
        /\ \A i \in 1..(N + 1) : a[i] = b[i - 1]
    <3>1. \A i \in 0..(N + 1) : i # 0 => i - 1 \in 0..N
      BY <2>3
    <3>2. b \in [0..N -> G]
      BY <2>1 DEF Unrolled
    <3>3. \A i \in 0..(N + 1) : (IF i = 0 THEN s ELSE b[i - 1]) \in G
      <4> HIDE DEF G, a
      <4>1. s \in G
        BY DEF G
      <4>2. QED
        BY <3>1, <3>2, <4>1
    <3>4. a \in [0..(N + 1) -> G]
      BY <3>3
    <3>5. QED
      BY <2>3, <3>4
  <2> HIDE DEF a
  <2>5. ASSUME NEW i \in 1..(N + 1)
        PROVE  a[i] = Step(a[i - 1], pairs)
    <3>1. CASE i = 1
      <4>1. i - 1 = 0
        BY <3>1
      <4>2. a[i] = b[0] /\ b[0] = t /\ a[i - 1] = s
        BY <2>1, <2>4, <4>1 DEF Unrolled
      <4>3. QED
        BY <1>1, <4>2
    <3>2. CASE i # 1
      <4>1. i - 1 \in 1..N /\ i - 1 \in 1..(N + 1)
        BY <2>3, <3>2
      <4>2. a[i] = b[i - 1] /\ a[i - 1] = b[(i - 1) - 1]
        BY <2>4, <4>1
      <4>3. b[i - 1] = Step(b[(i - 1) - 1], pairs)
        BY <2>1, <4>1 DEF Unrolled
      <4>4. QED
        BY <4>2, <4>3
    <3>3. QED
      BY <3>1, <3>2
  <2>6. Unrolled(a, N + 1, s, pairs)
    BY <2>4, <2>5 DEF Unrolled
  <2>7. a[N + 1] = b[N]
    <3>1. N + 1 \in 1..(N + 1) /\ (N + 1) - 1 = N
      BY <2>3
    <3>2. QED
      BY <2>4, <3>1
  <2>8. N + 1 \in Nat
    BY <2>3
  <2>9. Drive(s, pairs) = a[N + 1]
    BY <2>2, <2>6, <2>7, <2>8, DriveEnds
  <2>10. QED
    BY <1>3, <2>1, <2>7, <2>9 DEF t
<1>4. QED
  BY <1>2, <1>3 DEF t


-----------------------------------------------------------------------------
(* More text at the end of the buffer.                                     *)
Plus(s, c) == [s EXCEPT !.buffer = @ \o c]

Awake(s) == [s EXCEPT !.busy = TRUE]

Wanted(s, pairs) ==
  IF s.phase \in {"outside", "detecting"} THEN TagsOf(pairs) ELSE {CloseTag(s, pairs)}

LEMMA WantedIs ==
  ASSUME NEW pairs \in TagLists, NEW s \in Scanners(pairs)
  PROVE  Wanted(s, pairs) \subseteq TagsOf(pairs)
<1>1. s.phase \in {"detecting", "outside", "inside", "discarding"}
  BY DEF Scanners
<1>2. QED
  BY <1>1, CloseTagIs DEF Wanted

LEMMA PlusIs ==
  ASSUME NEW pairs \in TagLists, NEW s \in Scanners(pairs), NEW c \in Text
  PROVE  /\ Plus(s, c) \in Scanners(pairs)
         /\ Plus(s, c).buffer = s.buffer \o c /\ Plus(s, c).phase = s.phase
         /\ Plus(s, c).pair = s.pair /\ Plus(s, c).out = s.out /\ Plus(s, c).busy = s.busy
         /\ Plus(s, c).gaveUp = s.gaveUp /\ Plus(s, c).flushed = s.flushed
         /\ Wanted(Plus(s, c), pairs) = Wanted(s, pairs)
<1> DEFINE b == s.buffer \o c
<1>1. b \in Text
  BY Joined DEF Scanners
<1>2. Plus(s, c) = [s EXCEPT !.buffer = b]
  BY DEF Plus
<1> HIDE DEF b
<1>3. /\ Plus(s, c) \in Scanners(pairs)
      /\ Plus(s, c).buffer = b /\ Plus(s, c).phase = s.phase
      /\ Plus(s, c).pair = s.pair /\ Plus(s, c).out = s.out /\ Plus(s, c).busy = s.busy
      /\ Plus(s, c).gaveUp = s.gaveUp /\ Plus(s, c).flushed = s.flushed
  BY <1>1, <1>2 DEF Scanners
<1>4. Wanted(Plus(s, c), pairs) = Wanted(s, pairs)
  BY <1>3 DEF Wanted, CloseTag
<1>5. QED
  BY <1>3, <1>4 DEF b

(* A state of the scanner, spelled out.                                    *)
State(phase, buffer, pair, out, busy, gaveUp, flushed) ==
  [phase |-> phase, buffer |-> buffer, pair |-> pair, out |-> out, busy |-> busy,
   gaveUp |-> gaveUp, flushed |-> flushed]

LEMMA StateIs ==
  ASSUME NEW phase, NEW buffer, NEW pair, NEW out, NEW busy, NEW gaveUp, NEW flushed
  PROVE  LET s == State(phase, buffer, pair, out, busy, gaveUp, flushed)
         IN /\ s.phase = phase /\ s.buffer = buffer /\ s.pair = pair /\ s.out = out
            /\ s.busy = busy /\ s.gaveUp = gaveUp /\ s.flushed = flushed
BY DEF State

LEMMA PlusOf ==
  ASSUME NEW phase, NEW buffer, NEW pair, NEW out, NEW busy, NEW gaveUp, NEW flushed, NEW c
  PROVE  Plus(State(phase, buffer, pair, out, busy, gaveUp, flushed), c) =
           State(phase, buffer \o c, pair, out, busy, gaveUp, flushed)
<1> DEFINE z == buffer \o c
<1>1. Plus(State(phase, buffer, pair, out, busy, gaveUp, flushed), c) =
        [State(phase, buffer, pair, out, busy, gaveUp, flushed) EXCEPT !.buffer = z]
  BY DEF Plus, State
<1> HIDE DEF z
<1>2. QED
  BY <1>1 DEF z, State

LEMMA CutStays ==
  ASSUME NEW pairs \in TagLists, NEW s \in Scanners(pairs), NEW c \in Text, NEW tags,
         tags \subseteq TagsOf(pairs), NEW f \in Found(s.buffer, tags)
  PROVE  /\ Ahead(Plus(s, c), f) = Ahead(s, f)
         /\ Behind(Plus(s, c), f) = Behind(s, f) \o c
<1>1. s.buffer \in Text /\ Plus(s, c).buffer = s.buffer \o c
  <2>1. s.buffer \in Text
    BY DEF Scanners
  <2>2. QED
    BY <2>1, PlusIs
<1>2. /\ f.at \in Nat \ {0} /\ Len(f.tag.word) \in Nat \ {0} /\ Len(s.buffer) \in Nat
      /\ f.at + Len(f.tag.word) - 1 <= Len(s.buffer)
  BY <1>1, FoundAt
<1> DEFINE i == f.at
           a == Len(f.tag.word)
           size == Len(s.buffer)
           b == s.buffer
<1>3. /\ i - 1 \in 0..size /\ i + a - 1 \in 0..size /\ (i + a - 1) + 1 = i + a
  <2>1. i \in Nat \ {0} /\ a \in Nat \ {0} /\ size \in Nat /\ i + a - 1 <= size
    BY <1>2
  <2> HIDE DEF i, a, size
  <2>2. QED
    BY <2>1
<1>4. Ahead(s, f) = First(b, i - 1) /\ Ahead(Plus(s, c), f) = First(b \o c, i - 1)
  BY <1>1 DEF Ahead, First
<1>5. Behind(s, f) = Rest(b, i + a - 1) /\ Behind(Plus(s, c), f) = Rest(b \o c, i + a - 1)
  BY <1>1, <1>3 DEF Behind, Rest
<1> HIDE DEF i, a, b
<1>6. QED
  BY <1>1, <1>3, <1>4, <1>5, Grown DEF b

(* A turn that finds a tag is the same turn with more text behind it.      *)
LEMMA HitTurns ==
  ASSUME NEW pairs \in TagLists, NEW s \in Scanners(pairs), s.busy, NEW c \in Text,
         Hits(s.buffer, Wanted(s, pairs)) # {}
  PROVE  /\ Turn(s, pairs).busy
         /\ Turn(Plus(s, c), pairs) = Plus(Turn(s, pairs), c)
<1> DEFINE tags == Wanted(s, pairs)
           hits == Hits(s.buffer, tags)
           f == The(hits)
           p == Plus(s, c)
<1>1. /\ p \in Scanners(pairs) /\ p.phase = s.phase /\ p.buffer = s.buffer \o c
      /\ p.busy = s.busy /\ p.out = s.out /\ p.pair = s.pair
      /\ p.gaveUp = s.gaveUp /\ p.flushed = s.flushed /\ Wanted(p, pairs) = tags
  BY PlusIs
<1>2. s.buffer \in Text /\ tags \subseteq TagsOf(pairs)
  BY WantedIs DEF Scanners
<1> HIDE DEF tags
<1>3. /\ Hits(p.buffer, tags) # {} /\ The(Hits(p.buffer, tags)) = f
      /\ f \in Found(s.buffer, tags)
  <2>1. hits # {}
    BY DEF tags
  <2>2. QED
    BY <1>1, <1>2, <2>1, HitStays, FirstHit
<1> DEFINE more == Hits(p.buffer, tags)
<1>4. more # {} /\ hits # {} /\ The(more) = f
  BY <1>3 DEF tags
<1>5. /\ Ahead(p, f) = Ahead(s, f) /\ Behind(p, f) = Behind(s, f) \o c
      /\ Ahead(s, f) \in Text /\ Behind(s, f) \in Text
  BY <1>2, <1>3, <1>4, CutStays, CutIs
<1> DEFINE x == Ahead(s, f)
           y == Behind(s, f)
           kind == f.tag.kind
           pair == f.tag.pair
           bz == s.busy
           gu == s.gaveUp
           fl == s.flushed
<1>6. Ahead(p, f) = x /\ Behind(p, f) = y \o c /\ x \in Text /\ y \in Text
  BY <1>5
<1>7. s.phase \in {"detecting", "outside", "inside", "discarding"}
  BY DEF Scanners
<1>8. /\ s = State(s.phase, s.buffer, s.pair, s.out, bz, gu, fl)
      /\ p = State(s.phase, s.buffer \o c, s.pair, s.out, bz, gu, fl)
  BY <1>1 DEF Scanners, State
<1> HIDE DEF bz, gu, fl
<1>9. ASSUME kind = "open"
      PROVE  Enter(s, f).busy /\ Enter(p, f) = Plus(Enter(s, f), c)
  <2>1. /\ Enter(s, f) = [s EXCEPT !.out = s.out \o x, !.buffer = y, !.phase = "inside",
                                   !.pair = pair]
        /\ Enter(p, f) = [p EXCEPT !.out = s.out \o x, !.buffer = y \o c, !.phase = "inside",
                                   !.pair = pair]
    BY <1>1, <1>6 DEF Enter
  <2> DEFINE o == s.out \o x
             z == y \o c
             b == s.buffer \o c
  <2> HIDE DEF p, f, x, y, o, z, b, pair, hits
  <2>2. Enter(s, f) = State("inside", y, pair, o, bz, gu, fl)
    BY <1>8, <2>1 DEF o, State, bz, gu, fl
  <2>3. Enter(p, f) = State("inside", z, pair, o, bz, gu, fl)
    BY <1>8, <2>1 DEF o, z, State
  <2>4. Plus(State("inside", y, pair, o, bz, gu, fl), c) =
          State("inside", y \o c, pair, o, bz, gu, fl)
    BY PlusOf
  <2>5. Enter(p, f) = Plus(Enter(s, f), c)
    BY <2>2, <2>3, <2>4 DEF z
  <2>6. Enter(s, f).busy = bz
    BY <2>2, StateIs
  <2>7. QED
    BY <2>5, <2>6 DEF p, bz
<1>10. CASE s.phase = "outside"
  <2>1. tags = TagsOf(pairs)
    BY <1>10 DEF tags, Wanted
  <2>2. Turn(s, pairs) = TurnOutside(s, pairs, hits) /\ Turn(p, pairs) = TurnOutside(p, pairs, more)
    BY <1>1, <1>10, <2>1 DEF Turn
  <2>3. CASE kind = "open"
    <3>1. Turn(s, pairs) = Enter(s, f) /\ Turn(p, pairs) = Enter(p, f)
      BY <1>4, <2>2, <2>3 DEF TurnOutside
    <3>2. QED
      BY <1>9, <2>3, <3>1
  <2>4. CASE kind # "open"
    <3>1. /\ Turn(s, pairs) = [s EXCEPT !.out = s.out \o x, !.buffer = y]
          /\ Turn(p, pairs) = [p EXCEPT !.out = s.out \o x, !.buffer = y \o c]
      BY <1>1, <1>4, <1>6, <2>2, <2>4 DEF TurnOutside
    <3> DEFINE o == s.out \o x
               z == y \o c
    <3> HIDE DEF p, f, x, y, o, z, hits, more
    <3>2. Turn(s, pairs) = State(s.phase, y, s.pair, o, bz, gu, fl)
      BY <1>8, <3>1 DEF o, State, bz, gu, fl
    <3>3. Turn(p, pairs) = State(s.phase, z, s.pair, o, bz, gu, fl)
      BY <1>8, <3>1 DEF o, z, State
    <3>4. Plus(State(s.phase, y, s.pair, o, bz, gu, fl), c) =
            State(s.phase, y \o c, s.pair, o, bz, gu, fl)
      BY PlusOf
    <3>5. Turn(p, pairs) = Plus(Turn(s, pairs), c)
      BY <3>2, <3>3, <3>4 DEF z
    <3>6. Turn(s, pairs).busy = bz
      BY <3>2, StateIs
    <3>7. QED
      BY <3>5, <3>6 DEF p, bz
  <2>5. QED
    BY <2>3, <2>4
<1>11. CASE s.phase = "detecting"
  <2>1. tags = TagsOf(pairs)
    BY <1>11 DEF tags, Wanted
  <2>2. /\ Turn(s, pairs) = TurnDetecting(s, pairs, hits)
        /\ Turn(p, pairs) = TurnDetecting(p, pairs, more)
    BY <1>1, <1>11, <2>1 DEF Turn
  <2>3. CASE kind = "open"
    <3>1. Turn(s, pairs) = Enter(s, f) /\ Turn(p, pairs) = Enter(p, f)
      BY <1>4, <2>2, <2>3 DEF TurnDetecting
    <3>2. QED
      BY <1>9, <2>3, <3>1
  <2>4. CASE kind # "open" /\ pairs[pair].implicit
    <3>1. /\ Turn(s, pairs) = [s EXCEPT !.buffer = y, !.phase = "outside"]
          /\ Turn(p, pairs) = [p EXCEPT !.buffer = y \o c, !.phase = "outside"]
      BY <1>1, <1>4, <1>6, <2>2, <2>4 DEF TurnDetecting
    <3> DEFINE z == y \o c
    <3> HIDE DEF p, f, x, y, z, hits, more
    <3>2. Turn(s, pairs) = State("outside", y, s.pair, s.out, bz, gu, fl)
      BY <1>8, <3>1 DEF State, bz, gu, fl
    <3>3. Turn(p, pairs) = State("outside", z, s.pair, s.out, bz, gu, fl)
      BY <1>8, <3>1 DEF z, State
    <3>4. Plus(State("outside", y, s.pair, s.out, bz, gu, fl), c) =
            State("outside", y \o c, s.pair, s.out, bz, gu, fl)
      BY PlusOf
    <3>5. Turn(p, pairs) = Plus(Turn(s, pairs), c)
      BY <3>2, <3>3, <3>4 DEF z
    <3>6. Turn(s, pairs).busy = bz
      BY <3>2, StateIs
    <3>7. QED
      BY <3>5, <3>6 DEF p, bz
  <2>5. CASE kind # "open" /\ ~pairs[pair].implicit
    <3>1. /\ Turn(s, pairs) = [s EXCEPT !.buffer = x \o y]
          /\ Turn(p, pairs) = [p EXCEPT !.buffer = x \o (y \o c)]
      BY <1>1, <1>4, <1>6, <2>2, <2>5 DEF TurnDetecting
    <3>2. x \o (y \o c) = (x \o y) \o c
      <4>1. x \in Text /\ y \in Text /\ c \in Text
        BY <1>6
      <4> HIDE DEF x, y
      <4>2. Regrouped(x, y, c)
        BY <4>1, Regroup
      <4>3. QED
        BY <4>2 DEF Regrouped
    <3> DEFINE w == x \o y
               z == x \o (y \o c)
    <3> HIDE DEF p, f, x, y, w, z, hits, more
    <3>3. Turn(s, pairs) = State(s.phase, w, s.pair, s.out, bz, gu, fl)
      BY <1>8, <3>1 DEF w, State, bz, gu, fl
    <3>4. Turn(p, pairs) = State(s.phase, z, s.pair, s.out, bz, gu, fl)
      BY <1>8, <3>1 DEF z, State
    <3>5. z = w \o c
      BY <3>2 DEF z, w
    <3>6. Plus(State(s.phase, w, s.pair, s.out, bz, gu, fl), c) =
            State(s.phase, w \o c, s.pair, s.out, bz, gu, fl)
      BY PlusOf
    <3>7. Turn(p, pairs) = Plus(Turn(s, pairs), c)
      BY <3>3, <3>4, <3>5, <3>6
    <3>8. Turn(s, pairs).busy = bz
      BY <3>3, StateIs
    <3>9. QED
      BY <3>7, <3>8 DEF p, bz
  <2>6. QED
    BY <2>3, <2>4, <2>5
<1>12. CASE s.phase \in {"inside", "discarding"}
  <2>1. tags = {CloseTag(s, pairs)} /\ tags = {CloseTag(p, pairs)}
    BY <1>1, <1>12 DEF tags, Wanted, CloseTag
  <2>2. Turn(s, pairs) = LeaveBlock(s, f) /\ Turn(p, pairs) = LeaveBlock(p, f)
    BY <1>1, <1>4, <1>12, <2>1 DEF Turn, TurnInside, TurnDiscarding
  <2>3. /\ Turn(s, pairs) = [s EXCEPT !.buffer = y, !.phase = "outside"]
        /\ Turn(p, pairs) = [p EXCEPT !.buffer = y \o c, !.phase = "outside"]
    BY <1>6, <2>2 DEF LeaveBlock
  <2> DEFINE z == y \o c
  <2> HIDE DEF p, f, x, y, z, hits, more
  <2>4. Turn(s, pairs) = State("outside", y, s.pair, s.out, bz, gu, fl)
    BY <1>8, <2>3 DEF State, bz, gu, fl
  <2>5. Turn(p, pairs) = State("outside", z, s.pair, s.out, bz, gu, fl)
    BY <1>8, <2>3 DEF z, State
  <2>6. Plus(State("outside", y, s.pair, s.out, bz, gu, fl), c) =
          State("outside", y \o c, s.pair, s.out, bz, gu, fl)
    BY PlusOf
  <2>7. Turn(p, pairs) = Plus(Turn(s, pairs), c)
    BY <2>4, <2>5, <2>6 DEF z
  <2>8. Turn(s, pairs).busy = bz
    BY <2>4, StateIs
  <2>9. QED
    BY <2>7, <2>8 DEF p, bz
<1>13. QED
  BY <1>7, <1>10, <1>11, <1>12


-----------------------------------------------------------------------------
(* What is left off, and what is kept, of the text before.                 *)
LEMMA Letterwise ==
  ASSUME NEW a \in Text, NEW b \in Text, NEW n \in Nat, Len(a) = n, Len(b) = n,
         \A i \in 1..n : a[i] = b[i]
  PROVE  a = b
BY SeqEqual DEF Text

LEMMA Letter ==
  ASSUME NEW a \in Text, NEW b \in Text
  PROVE  /\ a \o b \in Text /\ Len(a) \in Nat /\ Len(b) \in Nat
         /\ Len(a \o b) = Len(a) + Len(b)
         /\ \A i \in 1..Len(a) : (a \o b)[i] = a[i]
         /\ \A i \in 1..Len(b) : (a \o b)[Len(a) + i] = b[i]
<1>1. a \in Seq(Letters) /\ b \in Seq(Letters)
  BY DEF Text
<1>2. a \o b \in Text /\ Len(a) \in Nat /\ Len(b) \in Nat /\ Len(a \o b) = Len(a) + Len(b)
  BY <1>1 DEF Text
<1>3. \A i \in 1..(Len(a) + Len(b)) :
        (a \o b)[i] = IF i <= Len(a) THEN a[i] ELSE b[i - Len(a)]
  BY <1>1
<1> DEFINE m == Len(a)
           n == Len(b)
           w == a \o b
<1>4. m \in Nat /\ n \in Nat /\ \A i \in 1..(m + n) : w[i] = IF i <= m THEN a[i] ELSE b[i - m]
  BY <1>2, <1>3
<1> HIDE DEF m, n, w
<1>5. ASSUME NEW i \in 1..m
      PROVE  w[i] = a[i]
  BY <1>4
<1>6. ASSUME NEW i \in 1..n
      PROVE  w[m + i] = b[i]
  <2>1. m + i \in 1..(m + n) /\ ~(m + i <= m) /\ (m + i) - m = i
    BY <1>4
  <2>2. QED
    BY <1>4, <2>1
<1>7. QED
  BY <1>2, <1>5, <1>6 DEF m, n, w

LEMMA LastOfRest ==
  ASSUME NEW text \in Text, NEW n \in 0..Len(text)
  PROVE  /\ LastOf(text, n) = Rest(text, Len(text) - n)
         /\ Len(text) \in Nat /\ Len(text) - n \in 0..Len(text)
         /\ LastOf(text, n) \in Text /\ Len(LastOf(text, n)) = n
         /\ \A k \in 1..n : LastOf(text, n)[k] = text[Len(text) - n + k]
<1> DEFINE size == Len(text)
           m == size - n
<1>1. text \in Seq(Letters) /\ size \in Nat /\ n \in Nat /\ n <= size
  BY DEF Text
<1>2. LastOf(text, n) = Rest(text, m)
  <2>1. CASE n = size
    <3>1. m = 0 /\ Rest(text, 0) = SubSeq(text, 1, size)
      BY <1>1, <2>1 DEF Rest
    <3>2. Rest(text, 0) \in Text /\ Len(Rest(text, 0)) = size
          /\ \A i \in 1..size : Rest(text, 0)[i] = text[i]
      BY <1>1, <3>1 DEF Text
    <3>3. Rest(text, 0) = text
      BY <1>1, <3>2, Letterwise
    <3>4. LastOf(text, n) = text
      BY <1>1, <2>1 DEF LastOf
    <3>5. QED
      BY <3>1, <3>3, <3>4
  <2>2. CASE n # size
    <3>1. ~(n >= size)
      BY <1>1, <2>2
    <3>2. LastOf(text, n) = SubSeq(text, size - n + 1, size)
      BY <3>1 DEF LastOf
    <3>3. QED
      BY <3>2 DEF Rest
  <2>3. QED
    BY <2>1, <2>2
<1>3. m \in 0..size /\ m \in Nat /\ size - m = n
  BY <1>1
<1>4. /\ Rest(text, m) \in Text /\ Len(Rest(text, m)) = n
      /\ \A k \in 1..n : Rest(text, m)[k] = text[m + k]
  <2> HIDE DEF m
  <2>1. /\ Rest(text, m) \in Seq(Letters) /\ Len(Rest(text, m)) = size - m
        /\ \A k \in 1..(size - m) : Rest(text, m)[k] = text[m + k]
    BY <1>1, <1>3 DEF Rest
  <2>2. QED
    BY <1>3, <2>1 DEF Text
<1>5. QED
  BY <1>1, <1>2, <1>3, <1>4

LEMMA Dropped ==
  ASSUME NEW pre \in Text, NEW x \in Text, NEW k \in 0..Len(x)
  PROVE  /\ Len(pre) + k \in 0..Len(pre \o x)
         /\ First(pre \o x, Len(pre) + k) = pre \o First(x, k)
         /\ Rest(pre \o x, Len(pre) + k) = Rest(x, k)
<1> DEFINE whole == pre \o x
           size == Len(pre)
           more == Len(x)
           n == size + k
           f == First(x, k)
<1>1. /\ whole \in Text /\ size \in Nat /\ more \in Nat /\ Len(whole) = size + more
      /\ \A i \in 1..size : whole[i] = pre[i]
      /\ \A i \in 1..more : whole[size + i] = x[i]
  BY Letter
<1>2. x \in Seq(Letters) /\ pre \in Seq(Letters) /\ whole \in Seq(Letters) /\ Len(x) = more
  BY <1>1 DEF Text
<1> HIDE DEF whole, size, more
<1>3. k \in 0..more /\ n \in Nat /\ n <= size + more /\ more - k \in Nat
  BY <1>1 DEF more
<1>4. /\ f \in Text /\ Len(f) = k /\ \A i \in 1..k : f[i] = x[i]
  <2>1. f \in Seq(Letters) /\ Len(f) = k /\ \A i \in 1..k : f[i] = x[i]
    BY <1>1, <1>2, <1>3 DEF First
  <2>2. QED
    BY <2>1 DEF Text
<1> HIDE DEF f
<1>5. First(whole, n) = pre \o f
  <2>1. /\ pre \o f \in Text /\ Len(pre \o f) = n
        /\ \A i \in 1..size : (pre \o f)[i] = pre[i]
        /\ \A i \in 1..k : (pre \o f)[size + i] = f[i]
    BY <1>4, Letter DEF size
  <2>2. /\ First(whole, n) \in Text /\ Len(First(whole, n)) = n
        /\ \A i \in 1..n : First(whole, n)[i] = whole[i]
    <3> HIDE DEF n
    <3>1. /\ First(whole, n) \in Seq(Letters) /\ Len(First(whole, n)) = n
          /\ \A i \in 1..n : First(whole, n)[i] = whole[i]
      BY <1>1, <1>2, <1>3 DEF First
    <3>2. QED
      BY <3>1 DEF Text
  <2>3. ASSUME NEW i \in 1..n
        PROVE  First(whole, n)[i] = (pre \o f)[i]
    <3>1. CASE i <= size
      BY <1>1, <1>3, <2>1, <2>2, <3>1
    <3>2. CASE ~(i <= size)
      <4> DEFINE j == i - size
      <4>1. j \in 1..k /\ j \in 1..more /\ size + j = i
        BY <1>1, <1>3, <3>2
      <4> HIDE DEF j
      <4>2. QED
        BY <1>1, <1>4, <2>1, <2>2, <4>1
    <3>3. QED
      BY <3>1, <3>2
  <2> HIDE DEF n
  <2>4. QED
    BY <1>3, <2>1, <2>2, <2>3, Letterwise
<1>6. Rest(whole, n) = Rest(x, k)
  <2> DEFINE m == more - k
  <2>1. m \in Nat /\ size + more - n = m
    BY <1>1, <1>3
  <2>2. /\ Rest(x, k) \in Seq(Letters) /\ Len(Rest(x, k)) = m
        /\ \A i \in 1..m : Rest(x, k)[i] = x[k + i]
    BY <1>1, <1>2, <1>3 DEF Rest
  <2>3. /\ Rest(whole, n) \in Seq(Letters) /\ Len(Rest(whole, n)) = m
        /\ \A i \in 1..m : Rest(whole, n)[i] = whole[n + i]
    <3> DEFINE l == Len(whole)
    <3>1. l = size + more /\ l \in Nat /\ n \in Nat /\ n <= l /\ l - n = m
      BY <1>1, <1>3, <2>1
    <3> HIDE DEF n, m
    <3>2. /\ Rest(whole, n) \in Seq(Letters) /\ Len(Rest(whole, n)) = l - n
          /\ \A i \in 1..(l - n) : Rest(whole, n)[i] = whole[n + i]
      BY <1>2, <3>1 DEF Rest
    <3>3. QED
      BY <3>1, <3>2
  <2>4. ASSUME NEW i \in 1..m
        PROVE  Rest(whole, n)[i] = Rest(x, k)[i]
    <3>1. k + i \in 1..more /\ n + i = size + (k + i)
      BY <1>1, <1>3
    <3>2. QED
      BY <1>1, <2>2, <2>3, <3>1
  <2> HIDE DEF m, n
  <2>5. QED
    BY <2>1, <2>2, <2>3, <2>4, Letterwise DEF Text
<1>7. n \in 0..Len(whole)
  BY <1>1, <1>3
<1>8. QED
  BY <1>5, <1>6, <1>7 DEF whole, size, f

(* The last letters do not depend on what stands before them.              *)
LEMMA LastOfSame ==
  ASSUME NEW pre \in Text, NEW x \in Text, NEW n \in 0..Len(x)
  PROVE  /\ LastOf(pre \o x, n) = LastOf(x, n)
         /\ First(pre \o x, Len(pre \o x) - n) = pre \o First(x, Len(x) - n)
<1> DEFINE size == Len(pre)
           more == Len(x)
           k == more - n
           whole == pre \o x
<1>1. size \in Nat /\ more \in Nat /\ n \in 0..more /\ whole \in Text /\ Len(whole) = size + more
  BY Letter
<1>2. k \in 0..more /\ size + k = (size + more) - n /\ n \in 0..(size + more)
  <2> HIDE DEF size, more, whole
  <2>1. QED
    BY <1>1
<1>3. LastOf(whole, n) = Rest(whole, (size + more) - n) /\ LastOf(x, n) = Rest(x, k)
  <2>1. n \in 0..Len(whole) /\ n \in 0..Len(x)
    BY <1>1, <1>2
  <2>2. LastOf(whole, n) = Rest(whole, Len(whole) - n) /\ LastOf(x, n) = Rest(x, Len(x) - n)
    BY <1>1, <2>1, LastOfRest
  <2>3. QED
    BY <1>1, <2>2
<1>4. First(whole, size + k) = pre \o First(x, k) /\ Rest(whole, size + k) = Rest(x, k)
  BY <1>2, Dropped
<1>5. QED
  BY <1>1, <1>2, <1>3, <1>4


-----------------------------------------------------------------------------
(* A word that begins in a text and ends beyond it.                        *)
Begins(text, word, n) == n < Len(word) /\ LastOf(text, n) = SubSeq(word, 1, n)

LEMMA BeginsIs ==
  ASSUME NEW text \in Text, NEW word \in Text, NEW n \in 0..Len(text)
  PROVE  Begins(text, word, n) <=>
           n < Len(word) /\ \A k \in 1..n : text[Len(text) - n + k] = word[k]
<1> DEFINE width == Len(word)
           a == LastOf(text, n)
           b == SubSeq(word, 1, n)
<1>1. /\ a \in Text /\ Len(a) = n /\ \A k \in 1..n : a[k] = text[Len(text) - n + k]
      /\ n \in Nat /\ width \in Nat /\ word \in Seq(Letters)
  <2>1. a \in Text /\ Len(a) = n /\ \A k \in 1..n : a[k] = text[Len(text) - n + k]
    BY LastOfRest
  <2>2. n \in Nat /\ width \in Nat /\ word \in Seq(Letters)
    BY DEF Text
  <2>3. QED
    BY <2>1, <2>2
<1>2. ASSUME n < width
      PROVE  b \in Text /\ Len(b) = n /\ \A k \in 1..n : b[k] = word[k]
  BY <1>1, <1>2 DEF Text
<1>3. Begins(text, word, n) <=> n < width /\ a = b
  BY DEF Begins
<1> HIDE DEF width, a, b
<1>4. ASSUME n < width
      PROVE  a = b <=> \A k \in 1..n : text[Len(text) - n + k] = word[k]
  <2>1. ASSUME a = b
        PROVE  \A k \in 1..n : text[Len(text) - n + k] = word[k]
    BY <1>1, <1>2, <1>4, <2>1
  <2>2. ASSUME \A k \in 1..n : text[Len(text) - n + k] = word[k]
        PROVE  a = b
    <3>1. \A k \in 1..n : a[k] = b[k]
      BY <1>1, <1>2, <1>4, <2>2
    <3>2. QED
      BY <1>1, <1>2, <1>4, <3>1, Letterwise
  <2>3. QED
    BY <2>1, <2>2
<1>5. QED
  BY <1>3, <1>4 DEF width

(* If a word begins so early in a text that it reaches back beyond what    *)
(* came last, it began before that came.                                   *)
LEMMA BeganBefore ==
  ASSUME NEW text \in Text, NEW c \in Text, NEW word \in Text, NEW n \in Nat,
         n <= Len(text), Begins(text \o c, word, n + Len(c))
  PROVE  Begins(text, word, n)
<1> DEFINE size == Len(text)
           more == Len(c)
           whole == text \o c
           m == n + more
           width == Len(word)
<1>1. /\ whole \in Text /\ size \in Nat /\ more \in Nat /\ Len(whole) = size + more
      /\ \A i \in 1..size : whole[i] = text[i]
  BY Letter
<1>2. width \in Nat /\ n <= size
  BY DEF Text
<1> HIDE DEF size, more, whole, width
<1>3. m \in 0..Len(whole) /\ Len(whole) - m = size - n /\ n \in 0..size
  BY <1>1, <1>2
<1>4. Begins(whole, word, m)
  BY DEF whole, more
<1>5. m < width /\ \A k \in 1..m : whole[(size - n) + k] = word[k]
  <2> HIDE DEF m
  <2>1. Begins(whole, word, m) <=>
           m < Len(word) /\ \A k \in 1..m : whole[Len(whole) - m + k] = word[k]
    BY <1>1, <1>3, BeginsIs
  <2>2. QED
    BY <1>3, <1>4, <2>1 DEF width
<1>6. n < width
  BY <1>1, <1>2, <1>5
<1>7. ASSUME NEW k \in 1..n
      PROVE  text[size - n + k] = word[k]
  <2>1. k \in 1..m /\ (size - n) + k \in 1..size
    BY <1>1, <1>2
  <2>2. QED
    BY <1>1, <1>5, <2>1
<1>8. QED
  BY <1>3, <1>6, <1>7, BeginsIs DEF size, width

(* An occurrence that begins in a text and is not all in it.               *)
LEMMA Straddles ==
  ASSUME NEW text \in Text, NEW c \in Text, NEW word \in Text, NEW i \in 1..Len(text),
         Occurs(text \o c, i, word), ~(i + Len(word) - 1 <= Len(text))
  PROVE  Len(text) - i + 1 \in 1..Len(text) /\ Begins(text, word, Len(text) - i + 1)
<1> DEFINE size == Len(text)
           more == Len(c)
           whole == text \o c
           width == Len(word)
           n == size - i + 1
<1>1. /\ whole \in Text /\ size \in Nat /\ more \in Nat /\ Len(whole) = size + more
      /\ \A k \in 1..size : whole[k] = text[k]
  BY Letter
<1>2. width \in Nat /\ i \in 1..size /\ i \in Nat \ {0} /\ i + width - 1 > size
  <2>1. width \in Nat /\ size \in Nat /\ i \in 1..size /\ ~(i + width - 1 <= size)
    BY <1>1 DEF Text
  <2> HIDE DEF width, size
  <2>2. QED
    BY <2>1
<1>3. \A k \in 1..width : whole[i + k - 1] = word[k]
  BY <1>1, <1>2, OccursIs
<1> HIDE DEF size, more, whole, width
<1>4. n \in 1..size /\ n \in 0..size /\ n < width /\ size - n = i - 1
  BY <1>1, <1>2
<1>5. ASSUME NEW k \in 1..n
      PROVE  text[size - n + k] = word[k]
  <2>1. k \in 1..width /\ i + k - 1 \in 1..size /\ size - n + k = i + k - 1
    BY <1>1, <1>2, <1>4
  <2>2. QED
    BY <1>1, <1>3, <2>1
<1> HIDE DEF n
<1>6. Begins(text, word, n)
  BY <1>4, <1>5, BeginsIs DEF size, width
<1>7. QED
  BY <1>4, <1>6 DEF n, size

(* No tag is in a text, and no more than its last n letters are the        *)
(* beginning of one: then whatever follows, a tag begins in those letters  *)
(* or later.                                                               *)
LEMMA NoneBefore ==
  ASSUME NEW pairs \in TagLists, NEW text \in Text, NEW c \in Text, NEW tags,
         tags \subseteq TagsOf(pairs), Hits(text, tags) = {}, NEW n \in 0..Len(text),
         \A t \in tags, k \in 1..Len(text) : Begins(text, t.word, k) => k <= n,
         NEW f \in Found(text \o c, tags)
  PROVE  f.at > Len(text) - n
<1> DEFINE size == Len(text)
           w == f.tag.word
           i == f.at
           width == Len(w)
<1>1. text \o c \in Text /\ size \in Nat
  BY Letter
<1>2. /\ i \in Nat \ {0} /\ f.tag \in tags /\ w \in Text /\ Occurs(text \o c, i, w)
      /\ width \in Nat \ {0}
  BY <1>1, FoundAt
<1>3. Found(text, tags) = {}
  BY FirstHit
<1>4. ~(i + width - 1 <= size)
  <2> SUFFICES ASSUME i + width - 1 <= size PROVE FALSE
    OBVIOUS
  <2>1. Occurs(text, i, w)
    BY <1>2, OccursBefore
  <2>2. [at |-> i, tag |-> f.tag] \in Found(text, tags)
    BY <1>2, <2>1, FindIs
  <2>3. QED
    BY <1>3, <2>2
<1>5. CASE i \in 1..size
  <2>1. size - i + 1 \in 1..size /\ Begins(text, w, size - i + 1)
    BY <1>2, <1>4, <1>5, Straddles
  <2>2. size - i + 1 <= n
    BY <1>2, <2>1
  <2> HIDE DEF size, i
  <2>3. i > size - n
    BY <1>1, <1>2, <2>2
  <2>4. QED
    BY <2>3 DEF size, i
<1>6. CASE i \notin 1..size
  <2> DEFINE z == size
  <2>1. z \in Nat /\ n \in 0..z /\ i \in Nat \ {0} /\ i \notin 1..z
    BY <1>1, <1>2, <1>6
  <2> HIDE DEF z, i
  <2>2. i > z - n
    BY <2>1
  <2>3. QED
    BY <2>2 DEF z, i
<1>7. QED
  BY <1>5, <1>6

(* What the scanner holds back is the longest beginning of a tag.          *)
LEMMA HeldMost ==
  ASSUME NEW pairs \in TagLists, NEW text \in Text
  PROVE  /\ HeldLength(text, pairs) \in 0..Len(text)
         /\ \A t \in TagsOf(pairs), k \in 1..Len(text) :
              Begins(text, t.word, k) => k <= HeldLength(text, pairs)
         /\ HeldLength(text, pairs) # 0 =>
              \E t \in TagsOf(pairs) : Begins(text, t.word, HeldLength(text, pairs))
<1> DEFINE held == {0} \cup {n \in 1..Len(text) :
                     \E t \in TagsOf(pairs) : n < Len(t.word) /\ LastOf(text, n) = SubSeq(t.word, 1, n)}
<1>1. Len(text) \in Nat
  BY DEF Text
<1>2. held \subseteq Nat /\ held # {} /\ \A n \in held : n <= Len(text)
  BY <1>1
<1>3. ASSUME NEW n
      PROVE  n \in held <=> n = 0 \/ (n \in 1..Len(text) /\ \E t \in TagsOf(pairs) : Begins(text, t.word, n))
  BY DEF Begins
<1> HIDE DEF held
<1>4. Max(held) \in held /\ \A n \in held : n <= Max(held)
  BY <1>1, <1>2, GreatestOf
<1>5. HeldLength(text, pairs) = Max(held)
  BY DEF HeldLength, held
<1>6. QED
  BY <1>3, <1>4, <1>5, HeldLengthIs

(* And what follows cannot make a longer one begin earlier.                *)
LEMMA HeldSame ==
  ASSUME NEW pairs \in TagLists, NEW text \in Text, NEW c \in Text, NEW n,
         n = HeldLength(text, pairs)
  PROVE  HeldLength(text \o c, pairs) = HeldLength(LastOf(text, n) \o c, pairs)
<1> DEFINE h == LastOf(text, n)
           size == Len(text)
           more == Len(c)
           pre == First(text, size - n)
           whole == text \o c
           rest == h \o c
           a == HeldLength(whole, pairs)
           b == HeldLength(rest, pairs)
<1>1. n \in 0..size /\ size \in Nat /\ more \in Nat /\ n \in Nat
  BY HeldMost, Letter
<1>2. h \in Text /\ Len(h) = n /\ size - n \in 0..size /\ h = Rest(text, size - n)
  BY <1>1, LastOfRest
<1>3. pre \in Text /\ Len(pre) = size - n /\ pre \o h = text
  BY <1>2, Halves
<1>4. /\ whole \in Text /\ Len(whole) = size + more
      /\ rest \in Text /\ Len(rest) = n + more
  BY <1>2, Joined
<1>5. whole = pre \o rest
  <2> HIDE DEF pre, h
  <2>1. pre \in Text /\ h \in Text
    BY <1>2, <1>3
  <2>2. Regrouped(pre, h, c)
    BY <2>1, Regroup
  <2>3. QED
    BY <1>3, <2>2 DEF Regrouped
<1>6. /\ a \in 0..Len(whole) /\ b \in 0..Len(rest)
      /\ \A t \in TagsOf(pairs), k \in 1..Len(whole) : Begins(whole, t.word, k) => k <= a
      /\ \A t \in TagsOf(pairs), k \in 1..Len(rest) : Begins(rest, t.word, k) => k <= b
      /\ a # 0 => \E t \in TagsOf(pairs) : Begins(whole, t.word, a)
      /\ b # 0 => \E t \in TagsOf(pairs) : Begins(rest, t.word, b)
  BY <1>4, HeldMost
<1>7. \A t \in TagsOf(pairs), k \in 1..size : Begins(text, t.word, k) => k <= n
  BY HeldMost
<1>8. \A k \in 0..Len(rest) : \A word : Begins(whole, word, k) <=> Begins(rest, word, k)
  <2> HIDE DEF pre, rest, whole
  <2>1. \A k \in 0..Len(rest) : LastOf(whole, k) = LastOf(rest, k)
    BY <1>3, <1>4, <1>5, LastOfSame
  <2>2. QED
    BY <2>1 DEF Begins
<1> HIDE DEF h, whole, rest, pre, a, b, size, more
<1>9. a <= n + more
  <2> SUFFICES ASSUME ~(a <= n + more) PROVE FALSE
    OBVIOUS
  <2> DEFINE k == a - more
  <2>1. a \in Nat /\ a # 0 /\ k \in Nat /\ k \in 1..size /\ k + more = a /\ ~(k <= n) /\ k <= size
    BY <1>1, <1>4, <1>6
  <2>2. PICK t \in TagsOf(pairs) : Begins(whole, t.word, a)
    BY <1>6, <2>1
  <2>3. t.word \in Text
    BY TagsAre
  <2> HIDE DEF k
  <2>4. Begins(text, t.word, k)
    BY <2>1, <2>2, <2>3, BeganBefore DEF whole, more, size
  <2>5. QED
    BY <1>7, <2>1, <2>4
<1>10. a <= b
  <2>1. CASE a = 0
    BY <1>4, <1>6, <2>1, <1>1
  <2>2. CASE a # 0
    <3>1. PICK t \in TagsOf(pairs) : Begins(whole, t.word, a)
      BY <1>6, <2>2
    <3>2. a \in 1..Len(rest) /\ a \in 0..Len(rest)
      BY <1>1, <1>4, <1>6, <1>9, <2>2
    <3>3. QED
      BY <1>6, <1>8, <3>1, <3>2
  <2>3. QED
    BY <2>1, <2>2
<1>11. b <= a
  <2>1. CASE b = 0
    BY <1>4, <1>6, <2>1, <1>1
  <2>2. CASE b # 0
    <3>1. PICK t \in TagsOf(pairs) : Begins(rest, t.word, b)
      BY <1>6, <2>2
    <3>2. b \in 1..Len(whole) /\ b \in 0..Len(rest)
      BY <1>1, <1>4, <1>6, <2>2
    <3>3. QED
      BY <1>6, <1>8, <3>1, <3>2
  <2>3. QED
    BY <2>1, <2>2
<1>12. a = b
  <2>1. a \in Nat /\ b \in Nat
    BY <1>1, <1>4, <1>6
  <2>2. QED
    BY <1>10, <1>11, <2>1
<1>13. QED
  BY <1>12 DEF a, b, whole, rest, h


-----------------------------------------------------------------------------
(* A turn on what was kept of the text is a turn on the whole text.        *)
NoneIn(pre, x, tags) == \A f \in Found(pre \o x, tags) : f.at > Len(pre)

SameCut(p, g, q, f, pre) ==
  /\ g.tag = f.tag /\ Ahead(p, g) = pre \o Ahead(q, f) /\ Behind(p, g) = Behind(q, f)
  /\ Ahead(q, f) \in Text /\ Behind(q, f) \in Text

LEMMA CutMoves ==
  ASSUME NEW pairs \in TagLists, NEW p, NEW q, NEW pre \in Text, NEW r \in Text,
         p.buffer = pre \o r, q.buffer = r, NEW tags, tags \subseteq TagsOf(pairs),
         NoneIn(pre, r, tags), Hits(r, tags) # {}
  PROVE  SameCut(p, The(Hits(pre \o r, tags)), q, The(Hits(r, tags)), pre)
<1> DEFINE f == The(Hits(r, tags))
           g == The(Hits(pre \o r, tags))
           i == f.at
           a == Len(f.tag.word)
           size == Len(r)
           k == Len(pre)
<1>1. g = [at |-> k + i, tag |-> f.tag]
  BY HitShifts DEF NoneIn
<1>2. f \in Found(r, tags)
  BY FirstHit
<1>3. /\ i \in Nat \ {0} /\ a \in Nat \ {0} /\ size \in Nat /\ i + a - 1 <= size
  BY <1>2, FoundAt
<1>4. k \in Nat
  BY DEF Text
<1> HIDE DEF f, g
<1>5. g.at = k + i /\ g.tag = f.tag
  BY <1>1
<1> DEFINE m == i - 1
           n == i + a - 1
           j == g.at
<1>6. j = k + i
  BY <1>5
<1> HIDE DEF i, a, size, k, j
<1>7. /\ m \in 0..size /\ n \in 0..size /\ j - 1 = k + m /\ j + a = (k + n) + 1 /\ n + 1 = i + a
  BY <1>3, <1>4, <1>6
<1>8. Ahead(p, g) = First(pre \o r, k + m) /\ Ahead(q, f) = First(r, m)
  BY <1>7 DEF Ahead, First, j, i
<1>9. Behind(p, g) = Rest(pre \o r, k + n) /\ Behind(q, f) = Rest(r, n)
  <2>1. g.at + Len(g.tag.word) = (k + n) + 1 /\ f.at + Len(f.tag.word) = n + 1
    BY <1>5, <1>7 DEF j, i, a
  <2>2. QED
    BY <2>1 DEF Behind, Rest
<1> HIDE DEF m, n
<1>10. First(pre \o r, k + m) = pre \o First(r, m) /\ Rest(pre \o r, k + n) = Rest(r, n)
  BY <1>7, Dropped DEF k, size
<1>11. First(r, m) \in Text /\ Rest(r, n) \in Text
  BY <1>7, Halves DEF size
<1>12. QED
  BY <1>5, <1>8, <1>9, <1>10, <1>11 DEF SameCut, f, g

(* What an outside turn keeps, and what a discarding one keeps.            *)
Parts(u, c, pre, h) == pre \in Text /\ h \in Text /\ u \o c = pre \o (h \o c)

LEMMA HeldMoves ==
  ASSUME NEW pairs \in TagLists, NEW u \in Text, NEW c \in Text, NEW n,
         n = HeldLength(u, pairs), Hits(u, TagsOf(pairs)) = {},
         NEW pre, pre = First(u, Len(u) - n), NEW h, h = LastOf(u, n)
  PROVE  /\ Parts(u, c, pre, h)
         /\ NoneIn(pre, h \o c, TagsOf(pairs))
         /\ HeldLength(u \o c, pairs) = HeldLength(h \o c, pairs)
<1>1. /\ n \in 0..Len(u)
      /\ \A t \in TagsOf(pairs), k \in 1..Len(u) : Begins(u, t.word, k) => k <= n
  BY HeldMost
<1>2. h \in Text /\ Len(u) - n \in 0..Len(u) /\ h = Rest(u, Len(u) - n)
  BY <1>1, LastOfRest
<1>3. pre \in Text /\ Len(pre) = Len(u) - n /\ pre \o h = u
  BY <1>2, Halves
<1>4. \A f \in Found(u \o c, TagsOf(pairs)) : f.at > Len(u) - n
  BY <1>1, NoneBefore
<1>5. HeldLength(u \o c, pairs) = HeldLength(h \o c, pairs)
  BY HeldSame
<1>6. pre \in Text /\ h \in Text
  BY <1>2, <1>3
<1>7. Regrouped(pre, h, c)
  BY <1>6, Regroup
<1>8. u \o c = pre \o (h \o c)
  BY <1>3, <1>7 DEF Regrouped
<1>9. QED
  BY <1>3, <1>4, <1>5, <1>6, <1>8 DEF NoneIn, Parts

LastKept(u, c, n, t, pre) ==
  /\ pre \in Text /\ LastOf(u, n) \o c \in Text /\ u \o c = pre \o (LastOf(u, n) \o c)
  /\ NoneIn(pre, LastOf(u, n) \o c, {t})
  /\ LastOf(u \o c, n) = LastOf(LastOf(u, n) \o c, n)

LEMMA CloseMoves ==
  ASSUME NEW pairs \in TagLists, NEW u \in Text, NEW c \in Text, NEW t \in TagsOf(pairs),
         Len(t.word) <= LongestClose(pairs), NEW n, n = LongestClose(pairs) - 1,
         Hits(u, {t}) = {}
  PROVE  \E pre : LastKept(u, c, n, t, pre)
<1> DEFINE size == Len(u)
           m == IF n >= size THEN size ELSE n
           h == LastOf(u, n)
           pre == First(u, size - m)
<1>1. size \in Nat /\ n \in Nat /\ n + 1 = LongestClose(pairs)
  BY LongestCloseIs DEF Text
<1>2. m \in 0..size /\ m <= n /\ m \in Nat
  <2> HIDE DEF size
  <2>1. QED
    BY <1>1
<1>3. h = LastOf(u, m)
  <2>1. CASE n >= size
    <3>1. m = size /\ LastOf(u, n) = u
      BY <2>1 DEF LastOf
    <3>2. size >= size
      BY <1>1
    <3>3. LastOf(u, size) = u
      BY <3>2 DEF LastOf
    <3>4. QED
      BY <3>1, <3>3
  <2>2. CASE ~(n >= size)
    BY <2>2
  <2>3. QED
    BY <2>1, <2>2
<1>4. ASSUME NEW k \in 1..size, Begins(u, t.word, k)
      PROVE  k <= m
  <2>1. k < Len(t.word) /\ Len(t.word) \in Nat
    BY <1>4, TagsAre DEF Begins
  <2> DEFINE z == size
  <2>2. k <= n /\ k <= z /\ z \in Nat /\ k \in Nat
    BY <1>1, <2>1
  <2>3. QED
    BY <2>2
<1> HIDE DEF m
<1>5. h \in Text /\ size - m \in 0..size /\ h = Rest(u, size - m) /\ Len(h) = m
  BY <1>2, <1>3, LastOfRest
<1>6. pre \in Text /\ Len(pre) = size - m /\ pre \o h = u
  BY <1>5, Halves
<1>7. \A f \in Found(u \o c, {t}) : f.at > size - m
  <2>1. \A v \in {t}, k \in 1..Len(u) : Begins(u, v.word, k) => k <= m
    BY <1>4
  <2>2. {t} \subseteq TagsOf(pairs)
    OBVIOUS
  <2>3. QED
    BY <1>2, <2>1, <2>2, NoneBefore
<1>8. LastOf(u \o c, n) = LastOf(h \o c, n)
  <2> HIDE DEF pre, h
  <2>1. CASE n >= size
    <3>1. h = u
      BY <2>1 DEF LastOf, h
    <3>2. QED
      BY <3>1
  <2>2. CASE ~(n >= size)
    <3> DEFINE r == h \o c
               more == Len(c)
    <3>1. m = n
      BY <2>2 DEF m
    <3>2. r \in Text /\ Len(r) = m + more /\ more \in Nat
      BY <1>5, Letter
    <3>3. n \in 0..Len(r)
      BY <1>1, <3>1, <3>2
    <3>4. h \in Text /\ pre \in Text
      BY <1>5, <1>6
    <3>5. (pre \o h) \o c = pre \o r
      <4>1. Regrouped(pre, h, c)
        BY <3>4, Regroup
      <4>2. QED
        BY <4>1 DEF Regrouped
    <3> HIDE DEF r
    <3>6. LastOf(pre \o r, n) = LastOf(r, n)
      BY <3>2, <3>3, <3>4, LastOfSame
    <3>7. QED
      BY <1>6, <3>5, <3>6 DEF r
  <2>3. QED
    BY <2>1, <2>2
<1> HIDE DEF pre, h
<1>9. pre \in Text /\ h \in Text
  BY <1>5, <1>6
<1>10. Regrouped(pre, h, c)
  BY <1>9, Regroup
<1>11. u \o c = pre \o (h \o c)
  BY <1>6, <1>10 DEF Regrouped
<1>12. h \o c \in Text
  BY <1>9, Joined
<1>13. LastKept(u, c, n, t, pre)
  BY <1>6, <1>7, <1>8, <1>9, <1>11, <1>12 DEF NoneIn, LastKept, h
<1>14. QED
  BY <1>13


-----------------------------------------------------------------------------
(* A turn that finds no tag.                                               *)
LEMMA OutsideJoins ==
  ASSUME NEW pairs \in TagLists, NEW s \in Scanners(pairs), s.busy, s.phase = "outside",
         Hits(s.buffer, TagsOf(pairs)) = {}, NEW c \in Text
  PROVE  /\ ~Turn(s, pairs).busy /\ Turn(s, pairs).gaveUp = s.gaveUp
         /\ Turn(Plus(s, c), pairs) = Turn(Plus(Awake(Turn(s, pairs)), c), pairs)
<1> DEFINE u == s.buffer
           tags == TagsOf(pairs)
           n == HeldLength(u, pairs)
           pre == First(u, Len(u) - n)
           h == LastOf(u, n)
           r == h \o c
           o == s.out \o pre
           t == Turn(s, pairs)
           p == Plus(s, c)
           q == Plus(Awake(t), c)
<1>1. u \in Text /\ s.out \in Text
  BY DEF Scanners
<1>2. /\ pre \in Text /\ h \in Text /\ u \o c = pre \o r
      /\ NoneIn(pre, r, tags)
      /\ HeldLength(u \o c, pairs) = HeldLength(r, pairs)
  <2>1. /\ n = HeldLength(u, pairs) /\ Hits(u, TagsOf(pairs)) = {}
        /\ pre = First(u, Len(u) - n) /\ h = LastOf(u, n)
    OBVIOUS
  <2> HIDE DEF n, u, pre, h
  <2>2. Parts(u, c, pre, h)
    BY <1>1, <2>1, HeldMoves
  <2>3. NoneIn(pre, h \o c, TagsOf(pairs))
    BY <1>1, <2>1, HeldMoves
  <2>4. HeldLength(u \o c, pairs) = HeldLength(h \o c, pairs)
    BY <1>1, <2>1, HeldMoves
  <2>5. QED
    BY <2>2, <2>3, <2>4 DEF Parts
<1>3. t = [s EXCEPT !.buffer = h, !.out = o, !.busy = FALSE]
  <2>1. t = TurnOutside(s, pairs, Hits(u, tags))
    BY DEF Turn
  <2>2. t = [EmitTailSafe(s, pairs) EXCEPT !.busy = FALSE]
    BY <2>1 DEF TurnOutside
  <2>3. EmitTailSafe(s, pairs) = [s EXCEPT !.buffer = h, !.out = o]
    BY DEF EmitTailSafe, First
  <2> HIDE DEF h, o, t
  <2>4. QED
    BY <2>2, <2>3 DEF Scanners
<1> HIDE DEF n, pre, h, t, o
<1>4. r \in Text /\ o \in Text /\ pre \o r \in Text
  <2>1. r \in Text
    BY <1>2, Joined
  <2>2. QED
    BY <1>1, <1>2, <2>1, Joined DEF o
<1>5. /\ q = [s EXCEPT !.buffer = r, !.out = o]
      /\ ~t.busy /\ t.gaveUp = s.gaveUp
  <2>1. t.buffer = h /\ ~t.busy /\ t.gaveUp = s.gaveUp
    BY <1>3 DEF Scanners
  <2>2. Awake(t) = [s EXCEPT !.buffer = h, !.out = o]
    BY <1>3 DEF Awake, Scanners
  <2>3. q = [Awake(t) EXCEPT !.buffer = r]
    <3>1. Awake(t).buffer = h
      BY <2>2 DEF Scanners
    <3>2. QED
      BY <3>1 DEF Plus
  <2> HIDE DEF q, r
  <2>4. QED
    BY <2>1, <2>2, <2>3 DEF Scanners
<1> DEFINE w == pre \o r
<1>6. p = [s EXCEPT !.buffer = w]
  BY <1>2 DEF Plus
<1> HIDE DEF p, q, r, w
<1>7. /\ p.buffer = w /\ p.out = s.out /\ p.phase = "outside"
      /\ q.buffer = r /\ q.out = o /\ q.phase = "outside"
  BY <1>5, <1>6 DEF Scanners
<1> DEFINE hits == Hits(r, tags)
           more == Hits(w, tags)
<1>8. more = {} <=> hits = {}
  BY <1>2, <1>4, HitShifts DEF w, NoneIn
<1>9. Turn(p, pairs) = TurnOutside(p, pairs, more) /\ Turn(q, pairs) = TurnOutside(q, pairs, hits)
  BY <1>7 DEF Turn
<1>10. CASE hits = {}
  <2> DEFINE m == HeldLength(r, pairs)
             a == First(w, Len(w) - m)
             b == First(r, Len(r) - m)
             z == LastOf(r, m)
  <2>1. HeldLength(w, pairs) = m /\ m \in 0..Len(r)
    BY <1>2, <1>4, HeldLengthIs DEF w
  <2>2. LastOf(w, m) = z /\ a = pre \o b /\ b \in Text
    <3> HIDE DEF m
    <3>1. LastOf(w, m) = z /\ a = pre \o b
      BY <1>2, <1>4, <2>1, LastOfSame DEF w
    <3>2. Len(r) - m \in 0..Len(r)
      BY <1>4, <2>1, LastOfRest
    <3>3. b \in Text
      BY <1>4, <3>2, Halves
    <3>4. QED
      BY <3>1, <3>3
  <2>3. /\ EmitTailSafe(p, pairs) = [p EXCEPT !.buffer = z, !.out = s.out \o a]
        /\ EmitTailSafe(q, pairs) = [q EXCEPT !.buffer = z, !.out = o \o b]
    BY <1>7, <2>1, <2>2 DEF EmitTailSafe, First
  <2> HIDE DEF m, a, b, z
  <2>4. s.out \o a = o \o b
    <3>1. s.out \in Text /\ pre \in Text /\ b \in Text
      BY <1>1, <1>2, <2>2
    <3>2. Regrouped(s.out, pre, b)
      BY <3>1, Regroup
    <3>3. QED
      BY <2>2, <3>2 DEF o, Regrouped
  <2>5. /\ Turn(p, pairs) = [EmitTailSafe(p, pairs) EXCEPT !.busy = FALSE]
        /\ Turn(q, pairs) = [EmitTailSafe(q, pairs) EXCEPT !.busy = FALSE]
    BY <1>8, <1>9, <1>10 DEF TurnOutside
  <2> DEFINE v == o \o b
  <2>6. /\ EmitTailSafe(p, pairs) = [p EXCEPT !.buffer = z, !.out = v]
        /\ EmitTailSafe(q, pairs) = [q EXCEPT !.buffer = z, !.out = v]
    BY <2>3, <2>4
  <2> HIDE DEF v
  <2>7. EmitTailSafe(p, pairs) = EmitTailSafe(q, pairs)
    BY <1>5, <1>6, <2>6
  <2>8. QED
    BY <1>5, <2>5, <2>7 DEF p, q, t
<1>11. CASE hits # {}
  <2> DEFINE f == The(hits)
             g == The(more)
             x == Ahead(q, f)
             y == Behind(q, f)
             v == o \o x
  <2>1. /\ g.tag = f.tag /\ Ahead(p, g) = pre \o x /\ Behind(p, g) = y
        /\ x \in Text /\ y \in Text
    <3>1. p.buffer = pre \o r /\ q.buffer = r /\ Hits(r, tags) # {} /\ tags \subseteq TagsOf(pairs)
      BY <1>7, <1>11 DEF w
    <3>2. NoneIn(pre, r, tags) /\ pre \in Text /\ r \in Text
      BY <1>2, <1>4
    <3>3. f = The(Hits(r, tags)) /\ g = The(Hits(pre \o r, tags))
      BY DEF w
    <3> HIDE DEF tags, f, g, hits, more
    <3>4. SameCut(p, g, q, f, pre)
      BY <3>1, <3>2, <3>3, CutMoves
    <3>5. QED
      BY <3>4 DEF SameCut
  <2>2. more # {}
    BY <1>8, <1>11
  <2> HIDE DEF f, g, x, y, hits, more
  <2>3. s.out \o (pre \o x) = v
    <3>1. s.out \in Text /\ pre \in Text /\ x \in Text
      BY <1>1, <1>2, <2>1
    <3>2. Regrouped(s.out, pre, x)
      BY <3>1, Regroup
    <3>3. QED
      BY <3>2 DEF o, Regrouped
  <2> HIDE DEF v
  <2>4. CASE f.tag.kind = "open"
    <3>1. Turn(p, pairs) = Enter(p, g) /\ Turn(q, pairs) = Enter(q, f)
      BY <1>9, <1>11, <2>1, <2>2, <2>4 DEF TurnOutside, f, g
    <3>2. /\ Enter(p, g) = [p EXCEPT !.out = v, !.buffer = y, !.phase = "inside",
                                     !.pair = f.tag.pair]
          /\ Enter(q, f) = [q EXCEPT !.out = v, !.buffer = y, !.phase = "inside",
                                     !.pair = f.tag.pair]
      BY <1>7, <2>1, <2>3 DEF Enter, v, x, y
    <3>3. Enter(p, g) = Enter(q, f)
      BY <1>5, <1>6, <3>2
    <3>4. QED
      BY <1>5, <3>1, <3>3 DEF p, q, t
  <2>5. CASE f.tag.kind # "open"
    <3>1. /\ Turn(p, pairs) = [p EXCEPT !.out = v, !.buffer = y]
          /\ Turn(q, pairs) = [q EXCEPT !.out = v, !.buffer = y]
      BY <1>7, <1>9, <1>11, <2>1, <2>2, <2>3, <2>5 DEF TurnOutside, f, g, v, x, y
    <3>2. Turn(p, pairs) = Turn(q, pairs)
      BY <1>5, <1>6, <3>1
    <3>3. QED
      BY <1>5, <3>2 DEF p, q, t
  <2>6. QED
    BY <2>4, <2>5
<1>12. QED
  BY <1>10, <1>11


LEMMA CloseLength ==
  ASSUME NEW pairs \in TagLists, NEW s \in Scanners(pairs),
         s.phase \in {"inside", "discarding"}
  PROVE  Len(CloseTag(s, pairs).word) <= LongestClose(pairs)
<1> DEFINE lengths == {1} \cup {Len(pairs[p].close) : p \in DOMAIN pairs}
<1>1. DOMAIN pairs = 1..Len(pairs)
  BY DEF TagLists
<1>2. lengths \subseteq Nat /\ lengths # {}
  BY <1>1, PairIs
<1>3. LongestTag(pairs) \in Nat \ {0}
  BY LongestTagIs
<1>4. ASSUME NEW n \in lengths
      PROVE  n <= LongestTag(pairs)
  <2>1. CASE n = 1
    BY <1>3, <2>1
  <2>2. CASE n # 1
    <3>1. PICK p \in DOMAIN pairs : n = Len(pairs[p].close)
      BY <2>2
    <3>2. [word |-> pairs[p].close, kind |-> "close", pair |-> p] \in TagsOf(pairs)
      BY DEF TagsOf
    <3>3. QED
      BY <3>1, <3>2, LongestTagIs
  <2>3. QED
    BY <2>1, <2>2
<1>5. s.pair \in DOMAIN pairs
  BY <1>1 DEF Scanners
<1>6. Len(CloseTag(s, pairs).word) \in lengths
  BY <1>5 DEF CloseTag
<1> HIDE DEF lengths
<1>7. \A n \in lengths : n <= Max(lengths)
  BY <1>2, <1>3, <1>4, GreatestOf
<1>8. QED
  BY <1>6, <1>7 DEF LongestClose, lengths

(* What is dropped of a block that is given up does not matter.            *)
LEMMA BlockMoves ==
  ASSUME NEW pairs \in TagLists, NEW s \in Scanners(pairs),
         s.phase \in {"inside", "discarding"}, NEW c \in Text,
         Hits(s.buffer, {CloseTag(s, pairs)}) = {}
  PROVE  \E pre : LastKept(s.buffer, c, LongestClose(pairs) - 1, CloseTag(s, pairs), pre)
<1> DEFINE u == s.buffer
           n == LongestClose(pairs) - 1
           t == CloseTag(s, pairs)
<1>1. u \in Text /\ t \in TagsOf(pairs) /\ Len(t.word) <= LongestClose(pairs) /\ Hits(u, {t}) = {}
  BY CloseTagIs, CloseLength DEF Scanners
<1>2. n = LongestClose(pairs) - 1
  OBVIOUS
<1> HIDE DEF u, n, t
<1>3. PICK pre : LastKept(u, c, n, t, pre)
  BY <1>1, <1>2, CloseMoves
<1>4. QED
  BY <1>3 DEF u, n, t

SameOutside(p, q) ==
  \A y : [p EXCEPT !.buffer = y, !.phase = "outside"] = [q EXCEPT !.buffer = y, !.phase = "outside"]

LeaveAlike(p, q, t) ==
  /\ Hits(p.buffer, {t}) = {} <=> Hits(q.buffer, {t}) = {}
  /\ Hits(q.buffer, {t}) # {} =>
       LeaveBlock(p, The(Hits(p.buffer, {t}))) = LeaveBlock(q, The(Hits(q.buffer, {t})))

LEMMA LeavesAlike ==
  ASSUME NEW pairs \in TagLists, NEW t \in TagsOf(pairs), NEW pre \in Text, NEW r \in Text,
         NEW p, NEW q, p.buffer = pre \o r, q.buffer = r, NoneIn(pre, r, {t}), SameOutside(p, q)
  PROVE  LeaveAlike(p, q, t)
<1>1. Hits(p.buffer, {t}) = {} <=> Hits(q.buffer, {t}) = {}
  <2>1. \A f \in Found(pre \o r, {t}) : f.at > Len(pre)
    BY DEF NoneIn
  <2>2. {t} \subseteq TagsOf(pairs)
    OBVIOUS
  <2>3. Hits(pre \o r, {t}) = {} <=> Hits(r, {t}) = {}
    BY <2>1, <2>2, HitShifts
  <2>4. QED
    BY <2>3
<1>2. ASSUME Hits(q.buffer, {t}) # {}
      PROVE  LeaveBlock(p, The(Hits(p.buffer, {t}))) = LeaveBlock(q, The(Hits(q.buffer, {t})))
  <2> DEFINE tags == {t}
             f == The(Hits(r, tags))
             g == The(Hits(pre \o r, tags))
             y == Behind(q, f)
  <2>1. tags \subseteq TagsOf(pairs) /\ Hits(r, tags) # {} /\ NoneIn(pre, r, tags)
    BY <1>2
  <2> HIDE DEF tags
  <2>2. SameCut(p, g, q, f, pre)
    BY <2>1, CutMoves
  <2>3. Behind(p, g) = y
    BY <2>2 DEF SameCut
  <2>4. f = The(Hits(q.buffer, {t})) /\ g = The(Hits(p.buffer, {t}))
    BY DEF tags
  <2> HIDE DEF f, g
  <2>5. /\ LeaveBlock(p, g) = [p EXCEPT !.buffer = y, !.phase = "outside"]
        /\ LeaveBlock(q, f) = [q EXCEPT !.buffer = y, !.phase = "outside"]
    BY <2>3 DEF LeaveBlock
  <2> HIDE DEF y
  <2>6. LeaveBlock(p, g) = LeaveBlock(q, f)
    BY <2>5 DEF SameOutside
  <2>7. QED
    BY <2>4, <2>6
<1>3. QED
  BY <1>1, <1>2 DEF LeaveAlike

LEMMA DiscardingJoins ==
  ASSUME NEW pairs \in TagLists, NEW s \in Scanners(pairs), s.busy, s.phase = "discarding",
         Hits(s.buffer, {CloseTag(s, pairs)}) = {}, NEW c \in Text
  PROVE  /\ ~Turn(s, pairs).busy /\ Turn(s, pairs).gaveUp = s.gaveUp
         /\ Turn(Plus(s, c), pairs) = Turn(Plus(Awake(Turn(s, pairs)), c), pairs)
<1> DEFINE u == s.buffer
           tag == CloseTag(s, pairs)
           n == LongestClose(pairs) - 1
           h == LastOf(u, n)
           r == h \o c
           w == u \o c
           t == Turn(s, pairs)
           p == Plus(s, c)
           q == Plus(Awake(t), c)
<1>1. tag \in TagsOf(pairs)
  BY CloseTagIs
<1>2. PICK pre : LastKept(u, c, n, tag, pre)
  BY BlockMoves
<1>3. /\ pre \in Text /\ r \in Text /\ w = pre \o r /\ NoneIn(pre, r, {tag})
      /\ LastOf(w, n) = LastOf(r, n)
  BY <1>2 DEF LastKept
<1>4. t = [s EXCEPT !.buffer = h, !.busy = FALSE]
  BY DEF Turn, TurnDiscarding
<1> HIDE DEF h, r, w, t, n, tag
<1>5. ~t.busy /\ t.gaveUp = s.gaveUp /\ t.buffer = h
  BY <1>4 DEF Scanners
<1>6. q = [s EXCEPT !.buffer = r] /\ p = [s EXCEPT !.buffer = w]
  <2>1. Awake(t) = [s EXCEPT !.buffer = h]
    BY <1>4 DEF Awake, Scanners
  <2>2. q = [Awake(t) EXCEPT !.buffer = r]
    <3>1. Awake(t).buffer = h
      BY <2>1 DEF Scanners
    <3>2. QED
      BY <3>1 DEF Plus, r
  <2> HIDE DEF q
  <2>3. q = [s EXCEPT !.buffer = r]
    BY <2>1, <2>2 DEF Scanners
  <2>4. QED
    BY <2>3 DEF Plus, w
<1> HIDE DEF p, q
<1>7. /\ p.buffer = w /\ p.phase = "discarding" /\ p.pair = s.pair
      /\ q.buffer = r /\ q.phase = "discarding" /\ q.pair = s.pair
  BY <1>6 DEF Scanners
<1>8. CloseTag(p, pairs) = tag /\ CloseTag(q, pairs) = tag
  BY <1>7 DEF CloseTag, tag
<1>9. /\ Turn(p, pairs) = TurnDiscarding(p, pairs, Hits(p.buffer, {tag}))
      /\ Turn(q, pairs) = TurnDiscarding(q, pairs, Hits(q.buffer, {tag}))
  BY <1>7, <1>8 DEF Turn
<1>10. LeaveAlike(p, q, tag)
  <2>1. p.buffer = pre \o r /\ q.buffer = r
    BY <1>3, <1>7
  <2>2. SameOutside(p, q)
    BY <1>6 DEF SameOutside
  <2>3. QED
    BY <1>1, <1>3, <2>1, <2>2, LeavesAlike
<1>11. Turn(p, pairs) = Turn(q, pairs)
  <2>1. CASE Hits(q.buffer, {tag}) # {}
    BY <1>9, <1>10, <2>1 DEF TurnDiscarding, LeaveAlike
  <2>2. CASE Hits(q.buffer, {tag}) = {}
    <3> DEFINE z == LastOf(r, n)
    <3>1. /\ Turn(p, pairs) = [p EXCEPT !.buffer = z, !.busy = FALSE]
          /\ Turn(q, pairs) = [q EXCEPT !.buffer = z, !.busy = FALSE]
      BY <1>3, <1>7, <1>9, <1>10, <2>2 DEF TurnDiscarding, LeaveAlike, n
    <3> HIDE DEF z
    <3>2. QED
      BY <1>6, <3>1
  <2>3. QED
    BY <2>1, <2>2
<1>12. QED
  BY <1>5, <1>11 DEF t, p, q


LEMMA NoneLast ==
  ASSUME NEW pairs \in TagLists, NEW w \in Text, NEW t \in TagsOf(pairs), NEW n \in Nat,
         Hits(w, {t}) = {}
  PROVE  /\ Hits(LastOf(w, n), {t}) = {}
         /\ LastOf(LastOf(w, n), n) = LastOf(w, n)
<1> DEFINE z == LastOf(w, n)
           tags == {t}
           size == Len(w)
<1>1. z \in Text /\ Len(z) = (IF n >= size THEN size ELSE n) /\ size \in Nat
  BY LastOfIs DEF Text
<1>2. LastOf(z, n) = z
  <2>1. n >= Len(z)
    <3> DEFINE a == Len(z)
    <3>1. a = (IF n >= size THEN size ELSE n) /\ size \in Nat
      BY <1>1
    <3> HIDE DEF a, size
    <3>2. n >= a
      BY <3>1
    <3>3. QED
      BY <3>2 DEF a
  <2> HIDE DEF z
  <2>2. QED
    BY <2>1 DEF LastOf
<1>3. tags \subseteq TagsOf(pairs)
  OBVIOUS
<1>4. Hits(z, tags) = {}
  <2>1. CASE n >= size
    BY <2>1 DEF LastOf
  <2>2. CASE ~(n >= size)
    <3> DEFINE pre == First(w, size - n)
    <3>1. n \in 0..size /\ size - n \in 0..size
      <4> HIDE DEF size
      <4>1. QED
        BY <1>1, <2>2
    <3>2. z = Rest(w, size - n)
      BY <3>1, LastOfRest
    <3>3. pre \in Text /\ pre \o z = w
      BY <3>1, <3>2, Halves
    <3>4. Found(w, tags) = {}
      BY <1>3, FirstHit
    <3> HIDE DEF z, pre, tags
    <3>5. ASSUME NEW f \in Found(z, tags)
          PROVE  FALSE
      <4>1. f.at \in Nat \ {0} /\ f.tag \in tags /\ f.tag.word \in Text /\ Occurs(z, f.at, f.tag.word)
        BY <1>1, <1>3, FoundAt
      <4>2. Occurs(pre \o z, Len(pre) + f.at, f.tag.word)
        BY <1>1, <3>3, <4>1, OccursBehind
      <4>3. Len(pre) \in Nat
        BY <3>3 DEF Text
      <4> DEFINE i == Len(pre) + f.at
      <4>4. i \in Nat \ {0} /\ Occurs(w, i, f.tag.word)
        BY <3>3, <4>1, <4>2, <4>3
      <4> HIDE DEF i
      <4>5. [at |-> i, tag |-> f.tag] \in Found(w, tags)
        BY <1>3, <4>1, <4>4, FindIs
      <4>6. QED
        BY <3>4, <4>5
    <3>6. Found(z, tags) = {}
      BY <3>5
    <3>7. QED
      BY <1>1, <1>3, <3>6, FirstHit
  <2>3. QED
    BY <2>1, <2>2
<1>5. QED
  BY <1>2, <1>4

(* A block that has grown beyond the cap.                                  *)
LEMMA InsideJoins ==
  ASSUME NEW pairs \in TagLists, NEW s \in Scanners(pairs), s.busy, s.phase = "inside",
         Hits(s.buffer, {CloseTag(s, pairs)}) = {}, Len(s.buffer) > Cap, NEW c \in Text
  PROVE  /\ Turn(s, pairs).busy /\ Turn(s, pairs).gaveUp = s.gaveUp
         /\ Drive(Plus(s, c), pairs) = Drive(Plus(Turn(s, pairs), c), pairs)
<1> DEFINE u == s.buffer
           tag == CloseTag(s, pairs)
           n == LongestClose(pairs) - 1
           h == LastOf(u, n)
           r == h \o c
           w == u \o c
           t == Turn(s, pairs)
           p == Plus(s, c)
           q == Plus(t, c)
<1>1. tag \in TagsOf(pairs) /\ n \in Nat
  BY CloseTagIs, LongestCloseIs
<1>2. PICK pre : LastKept(u, c, n, tag, pre)
  BY BlockMoves
<1>3. /\ pre \in Text /\ r \in Text /\ w = pre \o r /\ NoneIn(pre, r, {tag})
      /\ LastOf(w, n) = LastOf(r, n)
  BY <1>2 DEF LastKept
<1>4. t = [s EXCEPT !.buffer = h, !.phase = "discarding"]
  BY DEF Turn, TurnInside
<1>5. w \in Text /\ Len(w) > Cap
  <2>1. Len(w) = Len(u) + Len(c) /\ Len(u) \in Nat /\ Len(c) \in Nat /\ w \in Text
    BY Letter DEF Scanners
  <2> DEFINE a == Len(u)
             b == Len(c)
             d == Len(w)
  <2>2. a \in Nat /\ b \in Nat /\ d = a + b /\ a > Cap /\ Cap \in Nat
    BY <2>1, StreamsAssumption
  <2> HIDE DEF a, b, d
  <2>3. d > Cap
    BY <2>2
  <2>4. QED
    BY <2>1, <2>3 DEF d
<1>6. t \in Scanners(pairs)
  BY TurnTurns DEF Turned
<1>7. p \in Scanners(pairs) /\ q \in Scanners(pairs)
  <2> HIDE DEF t
  <2>1. QED
    BY <1>6, PlusIs
<1> HIDE DEF h, r, w, t, n, tag
<1>8. t.busy /\ t.gaveUp = s.gaveUp /\ t.buffer = h /\ t.phase = "discarding"
  BY <1>4 DEF Scanners
<1>9. q = [s EXCEPT !.buffer = r, !.phase = "discarding"] /\ p = [s EXCEPT !.buffer = w]
  <2>1. q = [t EXCEPT !.buffer = r]
    BY <1>8 DEF Plus, r
  <2> HIDE DEF q
  <2>2. q = [s EXCEPT !.buffer = r, !.phase = "discarding"]
    BY <1>4, <2>1 DEF Scanners
  <2>3. QED
    BY <2>2 DEF Plus, w
<1> HIDE DEF p, q
<1>10. /\ p.buffer = w /\ p.phase = "inside" /\ p.pair = s.pair /\ p.busy
       /\ q.buffer = r /\ q.phase = "discarding" /\ q.pair = s.pair /\ q.busy
  BY <1>9 DEF Scanners
<1>11. CloseTag(p, pairs) = tag /\ CloseTag(q, pairs) = tag
  BY <1>10 DEF CloseTag, tag
<1>12. /\ Turn(p, pairs) = TurnInside(p, pairs, Hits(p.buffer, {tag}))
       /\ Turn(q, pairs) = TurnDiscarding(q, pairs, Hits(q.buffer, {tag}))
  BY <1>10, <1>11 DEF Turn
<1>13. LeaveAlike(p, q, tag)
  <2>1. p.buffer = pre \o r /\ q.buffer = r
    BY <1>3, <1>10
  <2>2. SameOutside(p, q)
    BY <1>9 DEF SameOutside
  <2>3. QED
    BY <1>1, <1>3, <2>1, <2>2, LeavesAlike
<1>14. CASE Hits(q.buffer, {tag}) # {}
  <2>1. Turn(p, pairs) = Turn(q, pairs)
    BY <1>12, <1>13, <1>14 DEF TurnInside, TurnDiscarding, LeaveAlike
  <2>2. Drive(p, pairs) = Drive(q, pairs)
    BY <1>7, <1>10, <2>1, DriveTurns
  <2>3. QED
    BY <1>8, <2>2 DEF p, q, t
<1>15. CASE Hits(q.buffer, {tag}) = {}
  <2> DEFINE z == LastOf(r, n)
             e == Turn(p, pairs)
  <2>1. Hits(w, {tag}) = {}
    BY <1>10, <1>13, <1>15 DEF LeaveAlike
  <2>2. e = [p EXCEPT !.buffer = z, !.phase = "discarding"]
    BY <1>3, <1>5, <1>10, <1>12, <2>1 DEF TurnInside, n
  <2>3. Hits(z, {tag}) = {} /\ LastOf(z, n) = z
    <3>1. Hits(LastOf(w, n), {tag}) = {} /\ LastOf(LastOf(w, n), n) = LastOf(w, n)
      BY <1>1, <1>5, <2>1, NoneLast
    <3>2. z = LastOf(w, n)
      BY <1>3
    <3>3. QED
      BY <3>1, <3>2
  <2>4. Turn(q, pairs) = [q EXCEPT !.buffer = z, !.busy = FALSE]
    BY <1>10, <1>12, <1>15 DEF TurnDiscarding, n
  <2>5. e \in Scanners(pairs)
    BY <1>7, <1>10, TurnTurns DEF Turned
  <2> HIDE DEF z, e
  <2>6. e.busy /\ e.phase = "discarding" /\ e.buffer = z /\ e.pair = s.pair
    BY <1>9, <2>2 DEF Scanners
  <2>7. CloseTag(e, pairs) = tag
    BY <2>6 DEF CloseTag, tag
  <2>8. Turn(e, pairs) = [e EXCEPT !.buffer = z, !.busy = FALSE]
    <3>1. Turn(e, pairs) = TurnDiscarding(e, pairs, Hits(z, {tag}))
      BY <2>6, <2>7 DEF Turn
    <3>2. QED
      BY <2>3, <2>6, <3>1 DEF TurnDiscarding, n
  <2>9. Turn(e, pairs) = Turn(q, pairs) /\ ~Turn(q, pairs).busy
    <3>1. ~Turn(q, pairs).busy
      BY <1>7, <2>4 DEF Scanners
    <3>2. [e EXCEPT !.buffer = z, !.busy = FALSE] = [q EXCEPT !.buffer = z, !.busy = FALSE]
      BY <1>9, <2>2
    <3>3. QED
      BY <2>4, <2>8, <3>1, <3>2
  <2>10. Drive(p, pairs) = Drive(e, pairs)
    BY <1>7, <1>10, <2>6, DriveTurns DEF e
  <2>11. Drive(e, pairs) = Turn(e, pairs) /\ Drive(q, pairs) = Turn(q, pairs)
    BY <1>7, <1>10, <2>5, <2>6, <2>9, DriveTurns
  <2>12. QED
    BY <1>8, <2>9, <2>10, <2>11 DEF p, q, t
<1>16. QED
  BY <1>14, <1>15


-----------------------------------------------------------------------------
(* What has been sent before is no concern of the scanner.                 *)
After(o, s) == [s EXCEPT !.out = o \o @]

LEMMA AfterIs ==
  ASSUME NEW pairs \in TagLists, NEW s \in Scanners(pairs), NEW o \in Text
  PROVE  /\ After(o, s) \in Scanners(pairs) /\ After(o, s) = [s EXCEPT !.out = o \o s.out]
         /\ After(o, s).buffer = s.buffer /\ After(o, s).phase = s.phase
         /\ After(o, s).pair = s.pair /\ After(o, s).busy = s.busy
         /\ After(o, s).out = o \o s.out
         /\ CloseTag(After(o, s), pairs) = CloseTag(s, pairs)
<1> DEFINE v == o \o s.out
           q == After(o, s)
<1>1. v \in Text
  BY Joined DEF Scanners
<1>2. q = [s EXCEPT !.out = v]
  BY DEF After
<1> HIDE DEF v, q
<1>3. /\ q \in Scanners(pairs) /\ q.buffer = s.buffer /\ q.phase = s.phase
      /\ q.pair = s.pair /\ q.busy = s.busy /\ q.out = v
  BY <1>1, <1>2 DEF Scanners
<1>4. CloseTag(q, pairs) = CloseTag(s, pairs)
  BY <1>3 DEF CloseTag
<1>5. QED
  BY <1>2, <1>3, <1>4 DEF q, v

LEMMA AfterOf ==
  ASSUME NEW phase, NEW buffer, NEW pair, NEW out, NEW busy, NEW gaveUp, NEW flushed, NEW o,
         NEW v, o \o out = v
  PROVE  State(phase, buffer, pair, v, busy, gaveUp, flushed) =
           After(o, State(phase, buffer, pair, out, busy, gaveUp, flushed))
<1>1. After(o, State(phase, buffer, pair, out, busy, gaveUp, flushed)) =
        [State(phase, buffer, pair, out, busy, gaveUp, flushed) EXCEPT !.out = v]
  BY DEF After, State
<1>2. QED
  BY <1>1 DEF State

LEMMA AfterTurns ==
  ASSUME NEW pairs \in TagLists, NEW s \in Scanners(pairs), s.busy, NEW o \in Text
  PROVE  Turn(After(o, s), pairs) = After(o, Turn(s, pairs))
<1> DEFINE q == After(o, s)
           v == o \o s.out
           b == s.buffer
           t == Turn(s, pairs)
<1>1. /\ q = [s EXCEPT !.out = v] /\ q.buffer = b /\ q.phase = s.phase /\ q.out = v
      /\ CloseTag(q, pairs) = CloseTag(s, pairs)
  BY AfterIs
<1>2. s.out \in Text /\ b \in Text
  BY DEF Scanners
<1>3. s.phase \in {"detecting", "outside", "inside", "discarding"}
  BY DEF Scanners
<1> HIDE DEF q, v, b
<1>4. ASSUME NEW x \in Text
      PROVE  o \o (s.out \o x) = v \o x
  <2>1. Regrouped(o, s.out, x)
    BY <1>2, <1>4, Regroup
  <2>2. QED
    BY <2>1 DEF v, Regrouped
<1> DEFINE ph == s.phase
           pr == s.pair
           ou == s.out
           bz == s.busy
           gu == s.gaveUp
           fl == s.flushed
<1>5. s = State(ph, b, pr, ou, bz, gu, fl)
  BY DEF Scanners, State, b
<1>6. q = State(ph, b, pr, v, bz, gu, fl)
  BY <1>1, <1>5 DEF State
<1>7. o \o ou = v
  BY DEF v
<1> HIDE DEF ph, pr, ou, bz, gu, fl
<1> DEFINE m == HeldLength(b, pairs)
           x == First(b, Len(b) - m)
           z == LastOf(b, m)
           k == ou \o x
           l == v \o x
<1>8. o \o k = l
  <2>1. x \in Text
    BY <1>2, HeldLengthIs, LastOfRest, Halves
  <2> HIDE DEF x
  <2>2. QED
    BY <1>4, <2>1 DEF ou
<1>9. /\ EmitTailSafe(q, pairs) = [q EXCEPT !.buffer = z, !.out = l]
      /\ EmitTailSafe(s, pairs) = [s EXCEPT !.buffer = z, !.out = k]
  BY <1>1 DEF EmitTailSafe, First, b, ou
<1> HIDE DEF m, x, z, k, l
<1>10. /\ EmitTailSafe(q, pairs) = State(ph, z, pr, l, bz, gu, fl)
       /\ EmitTailSafe(s, pairs) = State(ph, z, pr, k, bz, gu, fl)
  BY <1>5, <1>6, <1>9 DEF State
<1> DEFINE tags == TagsOf(pairs)
           hits == Hits(b, tags)
           f == The(hits)
           a == Ahead(s, f)
           y == Behind(s, f)
           pair == f.tag.pair
           c == ou \o a
           d == v \o a
<1>11. Ahead(q, f) = a /\ Behind(q, f) = y
  BY <1>1 DEF Ahead, Behind, b
<1>12. ASSUME hits # {}
       PROVE  o \o c = d
  <2>1. a \in Text
    BY <1>12, CutIs DEF b
  <2> HIDE DEF a
  <2>2. QED
    BY <1>4, <2>1 DEF ou
<1>13. ASSUME hits # {}
       PROVE  Enter(q, f) = After(o, Enter(s, f))
  <2>1. /\ Enter(q, f) = [q EXCEPT !.out = d, !.buffer = y, !.phase = "inside", !.pair = pair]
        /\ Enter(s, f) = [s EXCEPT !.out = c, !.buffer = y, !.phase = "inside", !.pair = pair]
    BY <1>1, <1>11 DEF Enter, ou
  <2>2. o \o c = d
    BY <1>12, <1>13
  <2> HIDE DEF f, a, y, pair, c, d
  <2>3. Enter(s, f) = State("inside", y, pair, c, bz, gu, fl)
    BY <1>5, <2>1 DEF State
  <2>4. Enter(q, f) = State("inside", y, pair, d, bz, gu, fl)
    BY <1>6, <2>1 DEF State
  <2>5. State("inside", y, pair, d, bz, gu, fl) = After(o, State("inside", y, pair, c, bz, gu, fl))
    BY <2>2, AfterOf
  <2>6. QED
    BY <2>3, <2>4, <2>5
<1>14. CASE s.phase = "outside"
  <2>1. Turn(q, pairs) = TurnOutside(q, pairs, hits) /\ t = TurnOutside(s, pairs, hits)
    BY <1>1, <1>14 DEF Turn, b
  <2>2. CASE hits = {}
    <3> DEFINE no == FALSE
    <3>1. /\ Turn(q, pairs) = [EmitTailSafe(q, pairs) EXCEPT !.busy = no]
          /\ t = [EmitTailSafe(s, pairs) EXCEPT !.busy = no]
      BY <2>1, <2>2 DEF TurnOutside
    <3> HIDE DEF no, q, t, f, hits
    <3>2. t = State(ph, z, pr, k, no, gu, fl)
      BY <1>10, <3>1 DEF State
    <3>3. Turn(q, pairs) = State(ph, z, pr, l, no, gu, fl)
      BY <1>10, <3>1 DEF State
    <3>4. State(ph, z, pr, l, no, gu, fl) =
             After(o, State(ph, z, pr, k, no, gu, fl))
      BY <1>8, AfterOf
    <3>5. QED
      BY <3>2, <3>3, <3>4 DEF q, t
  <2>3. CASE hits # {} /\ f.tag.kind = "open"
    <3>1. Turn(q, pairs) = Enter(q, f) /\ t = Enter(s, f)
      BY <2>1, <2>3 DEF TurnOutside
    <3> HIDE DEF f
    <3>2. QED
      BY <1>13, <2>3, <3>1 DEF q, t
  <2>4. CASE hits # {} /\ f.tag.kind # "open"
    <3>1. /\ Turn(q, pairs) = [q EXCEPT !.out = d, !.buffer = y]
          /\ t = [s EXCEPT !.out = c, !.buffer = y]
      BY <1>1, <1>11, <2>1, <2>4 DEF TurnOutside, ou
    <3>2. o \o c = d
      BY <1>12, <2>4
    <3> HIDE DEF f, a, y, pair, c, d, hits, q, t
    <3>3. t = State(ph, y, pr, c, bz, gu, fl)
      BY <1>5, <3>1 DEF State
    <3>4. Turn(q, pairs) = State(ph, y, pr, d, bz, gu, fl)
      BY <1>6, <3>1 DEF State
    <3>5. State(ph, y, pr, d, bz, gu, fl) =
             After(o, State(ph, y, pr, c, bz, gu, fl))
      BY <3>2, AfterOf
    <3>6. QED
      BY <3>3, <3>4, <3>5 DEF q, t
  <2>5. QED
    BY <2>2, <2>3, <2>4
<1>15. CASE s.phase = "detecting"
  <2>1. Turn(q, pairs) = TurnDetecting(q, pairs, hits) /\ t = TurnDetecting(s, pairs, hits)
    BY <1>1, <1>15 DEF Turn, b
  <2>2. CASE hits = {} /\ Len(b) > Cap
    <3> DEFINE yes == TRUE
    <3>1. /\ Turn(q, pairs) = [EmitTailSafe(q, pairs) EXCEPT !.phase = "outside", !.gaveUp = yes]
          /\ t = [EmitTailSafe(s, pairs) EXCEPT !.phase = "outside", !.gaveUp = yes]
      BY <1>1, <2>1, <2>2 DEF TurnDetecting, b
    <3> HIDE DEF yes, q, t, f, hits
    <3> DEFINE ends == "outside"
    <3>0. /\ Turn(q, pairs) = [EmitTailSafe(q, pairs) EXCEPT !.phase = ends, !.gaveUp = yes]
          /\ t = [EmitTailSafe(s, pairs) EXCEPT !.phase = ends, !.gaveUp = yes]
      BY <3>1
    <3> HIDE DEF ends
    <3>2. t = State(ends, z, pr, k, bz, yes, fl)
      <4>1. t = [State(ph, z, pr, k, bz, gu, fl) EXCEPT !.phase = ends, !.gaveUp = yes]
        BY <1>10, <3>0
      <4>2. QED
        BY <4>1 DEF State
    <3>3. Turn(q, pairs) = State(ends, z, pr, l, bz, yes, fl)
      <4>1. Turn(q, pairs) = [State(ph, z, pr, l, bz, gu, fl) EXCEPT !.phase = ends, !.gaveUp = yes]
        BY <1>10, <3>0
      <4>2. QED
        BY <4>1 DEF State
    <3>4. State(ends, z, pr, l, bz, yes, fl) =
             After(o, State(ends, z, pr, k, bz, yes, fl))
      BY <1>8, AfterOf
    <3>5. QED
      BY <3>2, <3>3, <3>4 DEF q, t
  <2>3. CASE hits = {} /\ ~(Len(b) > Cap)
    <3> DEFINE no == FALSE
    <3>1. /\ Turn(q, pairs) = [q EXCEPT !.busy = no] /\ t = [s EXCEPT !.busy = no]
      BY <1>1, <2>1, <2>3 DEF TurnDetecting, b
    <3> HIDE DEF no, q, t, f, hits
    <3>2. t = State(ph, b, pr, ou, no, gu, fl)
      BY <1>5, <3>1 DEF State
    <3>3. Turn(q, pairs) = State(ph, b, pr, v, no, gu, fl)
      BY <1>6, <3>1 DEF State
    <3>4. State(ph, b, pr, v, no, gu, fl) =
             After(o, State(ph, b, pr, ou, no, gu, fl))
      BY <1>7, AfterOf
    <3>5. QED
      BY <3>2, <3>3, <3>4 DEF q, t
  <2>4. CASE hits # {} /\ f.tag.kind = "open"
    <3>1. Turn(q, pairs) = Enter(q, f) /\ t = Enter(s, f)
      BY <2>1, <2>4 DEF TurnDetecting
    <3> HIDE DEF f
    <3>2. QED
      BY <1>13, <2>4, <3>1 DEF q, t
  <2>5. CASE hits # {} /\ f.tag.kind # "open" /\ pairs[f.tag.pair].implicit
    <3>1. /\ Turn(q, pairs) = [q EXCEPT !.buffer = y, !.phase = "outside"]
          /\ t = [s EXCEPT !.buffer = y, !.phase = "outside"]
      BY <1>11, <2>1, <2>5 DEF TurnDetecting
    <3> HIDE DEF f, a, y, pair, c, d, hits, q, t
    <3>2. t = State("outside", y, pr, ou, bz, gu, fl)
      BY <1>5, <3>1 DEF State
    <3>3. Turn(q, pairs) = State("outside", y, pr, v, bz, gu, fl)
      BY <1>6, <3>1 DEF State
    <3>4. State("outside", y, pr, v, bz, gu, fl) =
             After(o, State("outside", y, pr, ou, bz, gu, fl))
      BY <1>7, AfterOf
    <3>5. QED
      BY <3>2, <3>3, <3>4 DEF q, t
  <2>6. CASE hits # {} /\ f.tag.kind # "open" /\ ~pairs[f.tag.pair].implicit
    <3> DEFINE w == a \o y
    <3>1. Turn(q, pairs) = [q EXCEPT !.buffer = w] /\ t = [s EXCEPT !.buffer = w]
      BY <1>11, <2>1, <2>6 DEF TurnDetecting
    <3> HIDE DEF f, a, y, pair, c, d, hits, q, t, w
    <3>2. t = State(ph, w, pr, ou, bz, gu, fl)
      BY <1>5, <3>1 DEF State
    <3>3. Turn(q, pairs) = State(ph, w, pr, v, bz, gu, fl)
      BY <1>6, <3>1 DEF State
    <3>4. State(ph, w, pr, v, bz, gu, fl) =
             After(o, State(ph, w, pr, ou, bz, gu, fl))
      BY <1>7, AfterOf
    <3>5. QED
      BY <3>2, <3>3, <3>4 DEF q, t
  <2>7. QED
    BY <2>2, <2>3, <2>4, <2>5, <2>6
<1>16. CASE s.phase \in {"inside", "discarding"}
  <2> DEFINE tag == CloseTag(s, pairs)
             ends == Hits(b, {tag})
             g == The(ends)
             n == LongestClose(pairs) - 1
             w == LastOf(b, n)
  <2>1. CASE ends # {}
    <3> DEFINE u == Behind(s, g)
    <3>1. Turn(q, pairs) = LeaveBlock(q, g) /\ t = LeaveBlock(s, g)
      BY <1>1, <1>16, <2>1 DEF Turn, TurnInside, TurnDiscarding, b
    <3>2. Behind(q, g) = u
      BY <1>1 DEF Behind, b
    <3>3. /\ Turn(q, pairs) = [q EXCEPT !.buffer = u, !.phase = "outside"]
          /\ t = [s EXCEPT !.buffer = u, !.phase = "outside"]
      BY <3>1, <3>2 DEF LeaveBlock
    <3> HIDE DEF u, g, q, t
    <3>4. t = State("outside", u, pr, ou, bz, gu, fl)
      BY <1>5, <3>3 DEF State
    <3>5. Turn(q, pairs) = State("outside", u, pr, v, bz, gu, fl)
      BY <1>6, <3>3 DEF State
    <3>6. State("outside", u, pr, v, bz, gu, fl) =
             After(o, State("outside", u, pr, ou, bz, gu, fl))
      BY <1>7, AfterOf
    <3>7. QED
      BY <3>4, <3>5, <3>6 DEF q, t
  <2>2. CASE ends = {} /\ s.phase = "inside" /\ Len(b) > Cap
    <3>1. /\ Turn(q, pairs) = [q EXCEPT !.buffer = w, !.phase = "discarding"]
          /\ t = [s EXCEPT !.buffer = w, !.phase = "discarding"]
      BY <1>1, <2>2 DEF Turn, TurnInside, b
    <3> HIDE DEF w, ends, q, t
    <3>2. t = State("discarding", w, pr, ou, bz, gu, fl)
      BY <1>5, <3>1 DEF State
    <3>3. Turn(q, pairs) = State("discarding", w, pr, v, bz, gu, fl)
      BY <1>6, <3>1 DEF State
    <3>4. State("discarding", w, pr, v, bz, gu, fl) =
             After(o, State("discarding", w, pr, ou, bz, gu, fl))
      BY <1>7, AfterOf
    <3>5. QED
      BY <3>2, <3>3, <3>4 DEF q, t
  <2>3. CASE ends = {} /\ s.phase = "inside" /\ ~(Len(b) > Cap)
    <3> DEFINE no == FALSE
    <3>1. /\ Turn(q, pairs) = [q EXCEPT !.busy = no] /\ t = [s EXCEPT !.busy = no]
      BY <1>1, <2>3 DEF Turn, TurnInside, b
    <3> HIDE DEF no, ends, q, t
    <3>2. t = State(ph, b, pr, ou, no, gu, fl)
      BY <1>5, <3>1 DEF State
    <3>3. Turn(q, pairs) = State(ph, b, pr, v, no, gu, fl)
      BY <1>6, <3>1 DEF State
    <3>4. State(ph, b, pr, v, no, gu, fl) =
             After(o, State(ph, b, pr, ou, no, gu, fl))
      BY <1>7, AfterOf
    <3>5. QED
      BY <3>2, <3>3, <3>4 DEF q, t
  <2>4. CASE ends = {} /\ s.phase = "discarding"
    <3> DEFINE no == FALSE
    <3>1. Turn(q, pairs) = [q EXCEPT !.buffer = w, !.busy = no] /\ t = [s EXCEPT !.buffer = w, !.busy = no]
      BY <1>1, <2>4 DEF Turn, TurnDiscarding, b
    <3> HIDE DEF w, no, ends, q, t
    <3>2. t = State(ph, w, pr, ou, no, gu, fl)
      BY <1>5, <3>1 DEF State
    <3>3. Turn(q, pairs) = State(ph, w, pr, v, no, gu, fl)
      BY <1>6, <3>1 DEF State
    <3>4. State(ph, w, pr, v, no, gu, fl) =
             After(o, State(ph, w, pr, ou, no, gu, fl))
      BY <1>7, AfterOf
    <3>5. QED
      BY <3>2, <3>3, <3>4 DEF q, t
  <2>5. QED
    BY <1>16, <2>1, <2>2, <2>3, <2>4
<1>17. QED
  BY <1>3, <1>14, <1>15, <1>16 DEF q, t


-----------------------------------------------------------------------------
(* The whole loop, by induction over its turns.                            *)
LEMMA RankInduction ==
  ASSUME NEW pairs \in TagLists, NEW G,
         \A s \in Scanners(pairs) :
           s.busy /\ (Turn(s, pairs).busy => Turn(s, pairs) \in G) => s \in G
  PROVE  \A s \in Scanners(pairs) : s.busy => s \in G
<1>1. \A s \in Scanners(pairs) : Rank(s) \in Nat
  <2> TAKE s \in Scanners(pairs)
  <2>1. Len(s.buffer) \in Nat
    BY DEF Scanners, Text
  <2>2. QED
    BY <2>1 DEF Rank
<1> DEFINE S == {n \in Nat : \A s \in Scanners(pairs) : s.busy /\ Rank(s) < n => s \in G}
<1>2. 0 \in S
  BY <1>1
<1>3. ASSUME NEW n \in Nat, n \in S
      PROVE  n + 1 \in S
  <2> SUFFICES ASSUME NEW s \in Scanners(pairs), s.busy, Rank(s) < n + 1
               PROVE  s \in G
    OBVIOUS
  <2>1. ASSUME Turn(s, pairs).busy
        PROVE  Turn(s, pairs) \in G
    <3> DEFINE t == Turn(s, pairs)
    <3>1. t \in Scanners(pairs) /\ Rank(t) < Rank(s)
      BY <2>1, TurnTurns DEF Turned
    <3>2. t.busy
      BY <2>1
    <3> HIDE DEF t
    <3>3. Rank(t) \in Nat /\ Rank(s) \in Nat
      BY <1>1, <3>1
    <3> DEFINE a == Rank(t)
               b == Rank(s)
    <3>4. a \in Nat /\ b \in Nat /\ a < b /\ b < n + 1
      BY <3>1, <3>3
    <3> HIDE DEF a, b
    <3>5. a < n
      BY <3>4
    <3>6. QED
      BY <1>3, <3>1, <3>2, <3>5 DEF a, t
  <2>2. QED
    BY <2>1
<1> HIDE DEF S
<1>4. \A n \in Nat : n \in S
  BY <1>2, <1>3, Induction
<1>5. ASSUME NEW s \in Scanners(pairs), s.busy
      PROVE  s \in G
  <2> DEFINE n == Rank(s) + 1
  <2>1. n \in Nat /\ Rank(s) < n
    BY <1>1
  <2> HIDE DEF n
  <2>2. n \in S
    BY <1>4, <2>1
  <2>3. QED
    BY <1>5, <2>1, <2>2 DEF S
<1>6. QED
  BY <1>5

LEMMA GaveUpTurns ==
  ASSUME NEW pairs \in TagLists, NEW s \in Scanners(pairs), s.busy, s.gaveUp
  PROVE  Turn(s, pairs).gaveUp
<1> DEFINE t == Turn(s, pairs)
           e == EmitTailSafe(s, pairs)
           hits == Hits(s.buffer, TagsOf(pairs))
           ends == Hits(s.buffer, {CloseTag(s, pairs)})
<1>1. s.phase \in {"detecting", "outside", "inside", "discarding"}
  BY DEF Scanners
<1>2. e \in Scanners(pairs) /\ e.gaveUp
  BY TailSafeIs
<1>3. \A f : Enter(s, f).gaveUp
  BY DEF Enter, Scanners
<1>4. \A f : LeaveBlock(s, f).gaveUp
  BY DEF LeaveBlock, Scanners
<1> HIDE DEF e, hits, ends
<1>5. CASE s.phase = "outside"
  <2>1. t = TurnOutside(s, pairs, hits)
    BY <1>5 DEF Turn, hits
  <2> HIDE DEF t
  <2>2. CASE hits = {}
    <3>1. t = [e EXCEPT !.busy = FALSE]
      BY <2>1, <2>2 DEF TurnOutside, e
    <3>2. t.gaveUp
      BY <1>2, <3>1 DEF Scanners
    <3>3. QED
      BY <3>2 DEF t
  <2>3. CASE hits # {} /\ The(hits).tag.kind = "open"
    BY <1>3, <2>1, <2>3 DEF TurnOutside, t
  <2>4. CASE hits # {} /\ The(hits).tag.kind # "open"
    <3>1. t.gaveUp
      BY <2>1, <2>4 DEF TurnOutside, Scanners
    <3>2. QED
      BY <3>1 DEF t
  <2>5. QED
    BY <2>2, <2>3, <2>4
<1>6. CASE s.phase = "detecting"
  <2>1. t = TurnDetecting(s, pairs, hits)
    BY <1>6 DEF Turn, hits
  <2> HIDE DEF t
  <2>2. CASE hits = {} /\ Len(s.buffer) > Cap
    <3>1. t = [e EXCEPT !.phase = "outside", !.gaveUp = TRUE]
      BY <2>1, <2>2 DEF TurnDetecting, e
    <3>2. t.gaveUp
      BY <1>2, <3>1 DEF Scanners
    <3>3. QED
      BY <3>2 DEF t
  <2>3. CASE hits # {} /\ The(hits).tag.kind = "open"
    BY <1>3, <2>1, <2>3 DEF TurnDetecting, t
  <2>4. CASE (hits = {} /\ ~(Len(s.buffer) > Cap)) \/ (hits # {} /\ The(hits).tag.kind # "open")
    <3>1. t.gaveUp
      BY <2>1, <2>4 DEF TurnDetecting, Scanners
    <3>2. QED
      BY <3>1 DEF t
  <2>5. QED
    BY <2>2, <2>3, <2>4
<1>7. CASE s.phase \in {"inside", "discarding"}
  <2>1. t = (IF s.phase = "inside" THEN TurnInside(s, pairs, ends) ELSE TurnDiscarding(s, pairs, ends))
    BY <1>7 DEF Turn, ends
  <2> HIDE DEF t
  <2>2. CASE ends # {}
    <3>1. t = LeaveBlock(s, The(ends))
      BY <2>1, <2>2 DEF TurnInside, TurnDiscarding
    <3>2. QED
      BY <1>4, <3>1 DEF t
  <2>3. CASE ends = {}
    <3>1. t.gaveUp
      BY <2>1, <2>3 DEF TurnInside, TurnDiscarding, Scanners
    <3>2. QED
      BY <3>1 DEF t
  <2>4. QED
    BY <2>2, <2>3
<1>8. QED
  BY <1>1, <1>5, <1>6, <1>7

LEMMA GaveUpStays ==
  ASSUME NEW pairs \in TagLists, NEW s \in Scanners(pairs), s.busy, s.gaveUp
  PROVE  Drive(s, pairs).gaveUp
<1> DEFINE G == {r \in Scanners(pairs) : r.gaveUp => Drive(r, pairs).gaveUp}
<1>1. ASSUME NEW r \in Scanners(pairs), r.busy, Turn(r, pairs).busy => Turn(r, pairs) \in G
      PROVE  r \in G
  <2> SUFFICES ASSUME r.gaveUp PROVE Drive(r, pairs).gaveUp
    OBVIOUS
  <2>1. Turn(r, pairs).gaveUp
    BY <1>1, GaveUpTurns
  <2>2. QED
    BY <1>1, <2>1, DriveTurns
<1> HIDE DEF G
<1>2. s \in G
  BY <1>1, RankInduction
<1>3. QED
  BY <1>2 DEF G

LEMMA AfterDrives ==
  ASSUME NEW pairs \in TagLists, NEW s \in Scanners(pairs), s.busy, NEW o \in Text
  PROVE  Drive(After(o, s), pairs) = After(o, Drive(s, pairs))
<1> DEFINE G == {r \in Scanners(pairs) : Drive(After(o, r), pairs) = After(o, Drive(r, pairs))}
<1>1. ASSUME NEW r \in Scanners(pairs), r.busy, Turn(r, pairs).busy => Turn(r, pairs) \in G
      PROVE  r \in G
  <2> DEFINE t == Turn(r, pairs)
             a == After(o, r)
  <2>1. t \in Scanners(pairs)
    BY <1>1, TurnTurns DEF Turned
  <2>2. a \in Scanners(pairs) /\ a.busy
    BY <1>1, AfterIs
  <2>3. Turn(a, pairs) = After(o, t)
    BY <1>1, AfterTurns
  <2>4. t.busy => t \in G
    BY <1>1
  <2>5. Drive(r, pairs) = IF t.busy THEN Drive(t, pairs) ELSE t
    BY <1>1, DriveTurns
  <2> HIDE DEF t, a
  <2>6. After(o, t).busy = t.busy
    BY <2>1, AfterIs
  <2>7. Drive(a, pairs) = IF t.busy THEN Drive(After(o, t), pairs) ELSE After(o, t)
    BY <2>2, <2>3, <2>6, DriveTurns
  <2>8. Drive(a, pairs) = After(o, Drive(r, pairs))
    BY <2>4, <2>5, <2>7
  <2>9. QED
    BY <2>8 DEF a
<1> HIDE DEF G
<1>2. s \in G
  BY <1>1, RankInduction
<1>3. QED
  BY <1>2 DEF G


(* Feeding a text in two pieces is feeding it whole, unless the search for *)
(* an implicit block was given up in between.                              *)
Joins(s, c, pairs) ==
  ~Drive(s, pairs).gaveUp =>
    Drive(Plus(s, c), pairs) = Drive(Plus(Awake(Drive(s, pairs)), c), pairs)

LEMMA AwakeIs ==
  ASSUME NEW pairs \in TagLists, NEW s \in Scanners(pairs)
  PROVE  Awake(s) \in Scanners(pairs) /\ Awake(s).busy /\ Awake(s).gaveUp = s.gaveUp
BY DEF Awake, Scanners

LEMMA DriveTypes ==
  ASSUME NEW pairs \in TagLists, NEW s \in Scanners(pairs), s.busy
  PROVE  Drive(s, pairs) \in Scanners(pairs) /\ ~Drive(s, pairs).busy
BY DriveRests DEF Resting

LEMMA TurnJoins ==
  ASSUME NEW pairs \in TagLists, NEW s \in Scanners(pairs), s.busy, NEW c \in Text,
         ~Turn(s, pairs).busy,
         Turn(Plus(s, c), pairs) = Turn(Plus(Awake(Turn(s, pairs)), c), pairs)
  PROVE  Joins(s, c, pairs)
<1> DEFINE t == Turn(s, pairs)
           p == Plus(s, c)
           q == Plus(Awake(t), c)
<1>1. t \in Scanners(pairs)
  BY TurnTurns DEF Turned
<1>2. Drive(s, pairs) = t
  BY DriveTurns
<1> HIDE DEF t
<1>3. p \in Scanners(pairs) /\ p.busy
  BY PlusIs
<1>4. q \in Scanners(pairs) /\ q.busy
  <2>1. Awake(t) \in Scanners(pairs) /\ Awake(t).busy
    BY <1>1, AwakeIs
  <2>2. QED
    BY <2>1, PlusIs
<1>5. Turn(p, pairs) = Turn(q, pairs)
  BY DEF t
<1> HIDE DEF p, q
<1>6. Drive(p, pairs) = Drive(q, pairs)
  BY <1>3, <1>4, <1>5, DriveTurns
<1>7. QED
  BY <1>2, <1>6 DEF Joins, p, q

LEMMA NextJoins ==
  ASSUME NEW pairs \in TagLists, NEW s \in Scanners(pairs), s.busy, NEW c \in Text,
         Turn(s, pairs).busy, Joins(Turn(s, pairs), c, pairs),
         ~Drive(s, pairs).gaveUp =>
           Drive(Plus(s, c), pairs) = Drive(Plus(Turn(s, pairs), c), pairs)
  PROVE  Joins(s, c, pairs)
<1>1. Drive(s, pairs) = Drive(Turn(s, pairs), pairs)
  BY DriveTurns
<1>2. QED
  BY <1>1 DEF Joins

LEMMA SleepJoins ==
  ASSUME NEW pairs \in TagLists, NEW s \in Scanners(pairs), s.busy, NEW c \in Text,
         Turn(s, pairs) = [s EXCEPT !.busy = FALSE]
  PROVE  Joins(s, c, pairs)
<1> DEFINE t == Turn(s, pairs)
<1>1. ~t.busy /\ Awake(t) = s
  BY DEF Scanners, Awake
<1>2. Drive(s, pairs) = t
  BY <1>1, DriveTurns
<1> HIDE DEF t
<1>3. QED
  BY <1>1, <1>2 DEF Joins

LEMMA DriveJoins ==
  ASSUME NEW pairs \in TagLists, NEW s \in Scanners(pairs), s.busy, NEW c \in Text
  PROVE  Joins(s, c, pairs)
<1> DEFINE G == {r \in Scanners(pairs) : Joins(r, c, pairs)}
<1>1. ASSUME NEW r \in Scanners(pairs), r.busy, Turn(r, pairs).busy => Turn(r, pairs) \in G
      PROVE  Joins(r, c, pairs)
  <2> DEFINE t == Turn(r, pairs)
             p == Plus(r, c)
             tags == TagsOf(pairs)
             hits == Hits(r.buffer, tags)
             ends == Hits(r.buffer, {CloseTag(r, pairs)})
  <2>1. /\ t \in Scanners(pairs) /\ Drive(r, pairs) = IF t.busy THEN Drive(t, pairs) ELSE t
        /\ r.phase \in {"detecting", "outside", "inside", "discarding"}
    BY <1>1, TurnTurns, DriveTurns DEF Turned, Scanners
  <2>2. p \in Scanners(pairs) /\ p.busy
    BY <1>1, PlusIs
  <2>3. ASSUME t.busy
        PROVE  Joins(t, c, pairs)
    BY <1>1, <2>3
  <2>4. CASE Hits(r.buffer, Wanted(r, pairs)) # {}
    <3>1. t.busy /\ Turn(p, pairs) = Plus(t, c)
      BY <1>1, <2>4, HitTurns
    <3>2. Plus(t, c).busy
      BY <2>1, <3>1, PlusIs
    <3>3. Drive(p, pairs) = Drive(Plus(t, c), pairs)
      BY <2>2, <3>1, <3>2, DriveTurns
    <3>4. QED
      BY <1>1, <2>3, <3>1, <3>3, NextJoins
  <2>5. CASE Hits(r.buffer, Wanted(r, pairs)) = {}
    <3>1. CASE r.phase = "outside"
      <4>1. hits = {}
        BY <2>5, <3>1 DEF Wanted
      <4>2. ~t.busy /\ Turn(p, pairs) = Turn(Plus(Awake(t), c), pairs)
        BY <1>1, <3>1, <4>1, OutsideJoins
      <4>3. QED
        BY <1>1, <4>2, TurnJoins
    <3>2. CASE r.phase = "discarding"
      <4>1. ends = {}
        BY <2>5, <3>2 DEF Wanted
      <4>2. ~t.busy /\ Turn(p, pairs) = Turn(Plus(Awake(t), c), pairs)
        BY <1>1, <3>2, <4>1, DiscardingJoins
      <4>3. QED
        BY <1>1, <4>2, TurnJoins
    <3>3. CASE r.phase = "inside"
      <4>1. ends = {}
        BY <2>5, <3>3 DEF Wanted
      <4>2. CASE Len(r.buffer) > Cap
        <5>1. t.busy /\ Drive(p, pairs) = Drive(Plus(t, c), pairs)
          BY <1>1, <3>3, <4>1, <4>2, InsideJoins
        <5>2. QED
          BY <1>1, <2>3, <5>1, NextJoins
      <4>3. CASE ~(Len(r.buffer) > Cap)
        <5>1. t = [r EXCEPT !.busy = FALSE]
          BY <3>3, <4>1, <4>3 DEF Turn, TurnInside
        <5>2. QED
          BY <1>1, <5>1, SleepJoins
      <4>4. QED
        BY <4>2, <4>3
    <3>4. CASE r.phase = "detecting"
      <4>1. hits = {}
        BY <2>5, <3>4 DEF Wanted
      <4>2. CASE Len(r.buffer) > Cap
        <5>1. t = [EmitTailSafe(r, pairs) EXCEPT !.phase = "outside", !.gaveUp = TRUE]
          BY <3>4, <4>1, <4>2 DEF Turn, TurnDetecting
        <5>2. EmitTailSafe(r, pairs) \in Scanners(pairs) /\ EmitTailSafe(r, pairs).busy
          BY <1>1, TailSafeIs
        <5>3. t.busy /\ t.gaveUp
          BY <5>1, <5>2 DEF Scanners
        <5>4. Drive(r, pairs).gaveUp
          BY <2>1, <5>3, GaveUpStays
        <5>5. QED
          BY <5>4 DEF Joins
      <4>3. CASE ~(Len(r.buffer) > Cap)
        <5>1. t = [r EXCEPT !.busy = FALSE]
          BY <3>4, <4>1, <4>3 DEF Turn, TurnDetecting
        <5>2. QED
          BY <1>1, <5>1, SleepJoins
      <4>4. QED
        BY <4>2, <4>3
    <3>5. QED
      BY <2>1, <3>1, <3>2, <3>3, <3>4
  <2>6. QED
    BY <2>4, <2>5
<1>2. \A r \in Scanners(pairs) : r.busy /\ (Turn(r, pairs).busy => Turn(r, pairs) \in G) => r \in G
  BY <1>1
<1> HIDE DEF G
<1>3. s \in G
  BY <1>2, RankInduction
<1>4. QED
  BY <1>3 DEF G


-----------------------------------------------------------------------------
(* Deltas.                                                                 *)
Fresh(s, chunk) == [s EXCEPT !.buffer = @ \o chunk, !.out = <<>>, !.busy = TRUE]

LEMMA FreshIs ==
  ASSUME NEW pairs \in TagLists, NEW s \in Scanners(pairs), NEW chunk \in Text
  PROVE  /\ Fresh(s, chunk) \in Scanners(pairs) /\ Fresh(s, chunk).busy
         /\ Fresh(s, chunk).gaveUp = s.gaveUp /\ Fresh(s, chunk).flushed = s.flushed
         /\ Fresh(s, chunk).out = <<>>
         /\ Push(s, chunk, pairs) = Drive(Fresh(s, chunk), pairs)
<1> DEFINE b == s.buffer \o chunk
           f == Fresh(s, chunk)
<1>1. b \in Text /\ <<>> \in Text
  BY Joined DEF Scanners, Text
<1>2. f = [s EXCEPT !.buffer = b, !.out = <<>>, !.busy = TRUE]
  BY DEF Fresh
<1>3. Push(s, chunk, pairs) = Drive(f, pairs)
  BY DEF Push, Fresh
<1> HIDE DEF b, f
<1>4. f \in Scanners(pairs) /\ f.busy /\ f.gaveUp = s.gaveUp /\ f.flushed = s.flushed /\ f.out = <<>>
  BY <1>1, <1>2 DEF Scanners
<1>5. QED
  BY <1>3, <1>4 DEF f

LEMMA FreshPlus ==
  ASSUME NEW pairs \in TagLists, NEW s \in Scanners(pairs), NEW text \in Text, NEW x \in Text
  PROVE  Plus(Fresh(s, text), x) = Fresh(s, text \o x)
<1> DEFINE f == Fresh(s, text)
           a == s.buffer \o text
           b == s.buffer \o (text \o x)
           e == <<>>
           y == TRUE
<1>1. f = [s EXCEPT !.buffer = a, !.out = e, !.busy = y]
  BY DEF Fresh
<1>2. Fresh(s, text \o x) = [s EXCEPT !.buffer = b, !.out = e, !.busy = y]
  BY DEF Fresh
<1>3. a \o x = b
  <2>1. s.buffer \in Text
    BY DEF Scanners
  <2>2. Regrouped(s.buffer, text, x)
    BY <2>1, Regroup
  <2>3. QED
    BY <2>2 DEF Regrouped
<1> HIDE DEF f, a, b, e, y
<1>4. f.buffer = a
  BY <1>1 DEF Scanners
<1>5. Plus(f, x) = [f EXCEPT !.buffer = b]
  BY <1>3, <1>4 DEF Plus
<1>6. Plus(f, x) = [s EXCEPT !.buffer = b, !.out = e, !.busy = y]
  BY <1>1, <1>5
<1>7. QED
  BY <1>2, <1>6 DEF f

Sent(s, got) == [s EXCEPT !.out = got]

LEMMA SentIs ==
  ASSUME NEW pairs \in TagLists, NEW s \in Scanners(pairs), NEW got \in Text
  PROVE  /\ Sent(s, got) \in Scanners(pairs) /\ Sent(s, got).gaveUp = s.gaveUp
         /\ Sent(s, got).buffer = s.buffer /\ Sent(s, got).phase = s.phase
         /\ Sent(s, got).out = got /\ Sent(s, got).flushed = s.flushed
BY DEF Sent, Scanners

LEMMA SentPlus ==
  ASSUME NEW pairs \in TagLists, NEW s \in Scanners(pairs), NEW got \in Text, NEW x \in Text
  PROVE  Plus(Awake(Sent(s, got)), x) = After(got, Fresh(s, x))
<1> DEFINE b == s.buffer \o x
           e == <<>>
           y == TRUE
           g == Awake(Sent(s, got))
           f == Fresh(s, x)
<1>1. g = [s EXCEPT !.out = got, !.busy = y]
  BY DEF Awake, Sent
<1>2. f = [s EXCEPT !.buffer = b, !.out = e, !.busy = y]
  BY DEF Fresh
<1>3. got \o e = got
  BY Assoc
<1> HIDE DEF e, y, g, f
<1>4. g.buffer = s.buffer /\ f.out = e
  BY <1>1, <1>2 DEF Scanners
<1>5. Plus(g, x) = [g EXCEPT !.buffer = b]
  BY <1>4 DEF Plus
<1>6. After(got, f) = [f EXCEPT !.out = got]
  BY <1>3, <1>4 DEF After
<1> HIDE DEF b
<1>7. [g EXCEPT !.buffer = b] = [f EXCEPT !.out = got]
  BY <1>1, <1>2
<1>8. QED
  BY <1>5, <1>6, <1>7 DEF g, f

LEMMA NewIs ==
  ASSUME NEW pairs \in TagLists
  PROVE  NewScanner(pairs) \in Scanners(pairs)
BY NewRests DEF Resting

LEMMA PushJoins ==
  ASSUME NEW pairs \in TagLists, NEW s \in Scanners(pairs), NEW got \in Text, NEW text \in Text,
         NEW x \in Text, Sent(s, got) = Push(NewScanner(pairs), text, pairs),
         NEW t, t = Push(s, x, pairs), ~t.gaveUp
  PROVE  Sent(t, got \o t.out) = Push(NewScanner(pairs), text \o x, pairs)
<1> DEFINE n == NewScanner(pairs)
           a == Fresh(n, text)
           f == Fresh(s, x)
           g == Sent(s, got)
<1>1. n \in Scanners(pairs)
  BY NewIs
<1> HIDE DEF n
<1>2. /\ a \in Scanners(pairs) /\ a.busy /\ Push(n, text, pairs) = Drive(a, pairs)
      /\ f \in Scanners(pairs) /\ f.busy /\ f.gaveUp = s.gaveUp /\ t = Drive(f, pairs)
  BY <1>1, FreshIs
<1>3. text \o x \in Text
  BY Joined
<1>4. Push(n, text \o x, pairs) = Drive(Plus(a, x), pairs)
  <2>1. Push(n, text \o x, pairs) = Drive(Fresh(n, text \o x), pairs)
    BY <1>1, <1>3, FreshIs
  <2>2. Plus(a, x) = Fresh(n, text \o x)
    BY <1>1, FreshPlus
  <2>3. QED
    BY <2>1, <2>2
<1>5. Drive(a, pairs) = g
  BY <1>2 DEF n
<1>6. Plus(Awake(g), x) = After(got, f)
  BY SentPlus
<1>7. g.gaveUp = s.gaveUp
  BY SentIs
<1> HIDE DEF a, f, g
<1>8. ~s.gaveUp
  BY <1>2, GaveUpStays
<1>9. Joins(a, x, pairs)
  BY <1>2, DriveJoins
<1>10. Drive(Plus(a, x), pairs) = Drive(After(got, f), pairs)
  BY <1>5, <1>6, <1>7, <1>8, <1>9 DEF Joins
<1>11. Drive(After(got, f), pairs) = After(got, t)
  BY <1>2, AfterDrives
<1>12. After(got, t) = Sent(t, got \o t.out)
  BY DEF After, Sent
<1>13. QED
  BY <1>4, <1>10, <1>11, <1>12 DEF n

LEMMA NoText ==
  ASSUME NEW pairs \in TagLists
  PROVE  Sent(NewScanner(pairs), <<>>) = Push(NewScanner(pairs), <<>>, pairs)
<1> DEFINE n == NewScanner(pairs)
           e == <<>>
           a == Fresh(n, e)
           t == Turn(a, pairs)
           tags == TagsOf(pairs)
<1>1. n \in Scanners(pairs) /\ e \in Text /\ e \o e = e /\ Len(e) = 0
  <2>1. e \in Text
    BY DEF Text
  <2>2. e \o e = e /\ Len(e) = 0
    OBVIOUS
  <2>3. QED
    BY <2>1, <2>2, NewIs
<1>2. /\ n.phase \in {"outside", "detecting"} /\ n.buffer = e /\ n.out = e /\ n.busy = FALSE
  BY DEF NewScanner
<1>3. a \in Scanners(pairs) /\ a.busy /\ Push(n, e, pairs) = Drive(a, pairs)
  BY <1>1, FreshIs
<1>4. a = [n EXCEPT !.buffer = e, !.out = e, !.busy = TRUE]
  BY <1>1, <1>2 DEF Fresh
<1> HIDE DEF n, e, a
<1>5. a.phase = n.phase /\ a.buffer = e /\ a.out = e
  BY <1>1, <1>4 DEF Scanners
<1>6. Hits(e, tags) = {}
  <2>1. Found(e, tags) = {}
    <3>1. 1..Len(e) = {}
      BY <1>1
    <3>2. QED
      BY <3>1 DEF Found
  <2>2. QED
    BY <1>1, <2>1, FirstHit
<1>7. t = [a EXCEPT !.busy = FALSE]
  <2>1. CASE n.phase = "detecting"
    <3>1. ~(Len(e) > Cap)
      BY <1>1, StreamsAssumption
    <3>2. QED
      BY <1>5, <1>6, <2>1, <3>1 DEF Turn, TurnDetecting
  <2>2. CASE n.phase = "outside"
    <3>1. t = [EmitTailSafe(a, pairs) EXCEPT !.busy = FALSE]
      BY <1>5, <1>6, <2>2 DEF Turn, TurnOutside
    <3>2. HeldLength(e, pairs) = 0
      <4>1. HeldLength(e, pairs) \in 0..Len(e)
        BY <1>1, HeldLengthIs
      <4>2. QED
        BY <1>1, <4>1
    <3>3. LastOf(e, 0) = e /\ e \o SubSeq(e, 1, Len(e) - 0) = e
      <4>1. LastOf(e, 0) = e
        BY <1>1 DEF LastOf
      <4>2. SubSeq(e, 1, 0) = e
        BY DEF e
      <4>3. QED
        BY <1>1, <4>1, <4>2
    <3>4. EmitTailSafe(a, pairs) = [a EXCEPT !.buffer = e, !.out = e]
      BY <1>5, <3>2, <3>3 DEF EmitTailSafe
    <3> DEFINE m == EmitTailSafe(a, pairs)
    <3>5. m = a
      <4>1. m = [a EXCEPT !.buffer = e, !.out = e]
        BY <3>4
      <4> HIDE DEF m
      <4>2. QED
        BY <1>3, <1>5, <4>1 DEF Scanners
    <3>6. QED
      BY <3>1, <3>5
  <2>3. QED
    BY <1>2, <2>1, <2>2
<1>8. ~t.busy
  BY <1>3, <1>7 DEF Scanners
<1>9. Drive(a, pairs) = t
  BY <1>3, <1>8, DriveTurns
<1>10. t = n
  <2> DEFINE no == FALSE
  <2>1. t = [n EXCEPT !.buffer = e, !.out = e, !.busy = no] /\ n.busy = no
    BY <1>2, <1>4, <1>7
  <2> HIDE DEF no, t
  <2>2. t = n
    BY <1>1, <1>2, <2>1 DEF Scanners
  <2>3. QED
    BY <2>2 DEF t
<1>11. Sent(n, e) = n
  BY <1>1, <1>2 DEF Sent, Scanners
<1>12. QED
  BY <1>3, <1>9, <1>10, <1>11 DEF n, e

-----------------------------------------------------------------------------
(* Types.                                                                  *)
LEMMA CompleteIs ==
  ASSUME Typed, NEW reason \in Reasons, Complete(reason)
  PROVE  /\ conv' \in Convs
         /\ IF Converted /\ ~conv.terminated
            THEN conv'.terminated /\ conv'.completions = <<reason>>
            ELSE conv' = conv
<1>1. conv \in Convs
  BY DEF Typed
<1>2. CASE Converted /\ ~conv.terminated
  <2>1. conv.completions = <<>>
    BY <1>1, <1>2 DEF Convs
  <2>2. Append(<<>>, reason) = <<reason>>
    OBVIOUS
  <2>3. conv' = [terminated |-> TRUE, completions |-> <<reason>>]
    BY <1>2, <2>1, <2>2 DEF Complete
  <2>4. <<reason>> # <<>>
    OBVIOUS
  <2> DEFINE r == <<reason>>
  <2>5. r \in {<<reasons>> : reasons \in Reasons} /\ r # <<>>
    BY <2>4
  <2> HIDE DEF r
  <2>6. [terminated |-> TRUE, completions |-> r] \in Convs
    BY <2>5 DEF Convs
  <2>7. conv' = [terminated |-> TRUE, completions |-> r]
    BY <2>3 DEF r
  <2>8. conv' \in Convs /\ conv'.terminated /\ conv'.completions = r
    BY <2>6, <2>7
  <2>9. QED
    BY <1>2, <2>8 DEF r
<1>3. CASE ~(Converted /\ ~conv.terminated)
  BY <1>1, <1>3 DEF Complete
<1>4. QED
  BY <1>2, <1>3

LEMMA TypedInit ==
  ASSUME Init
  PROVE  Typed
<1>1. key \in [wire : Wires, pairs : Presets, scripts : Scripts]
  BY DEF Init
<1>2. key.pairs \in TagLists /\ key.scripts \in Scripts
  BY <1>1, StreamsAssumption DEF TagLists
<1>3. scan \in Resting(key.pairs)
  BY <1>2, NewRests DEF Init
<1>4. <<>> \in Text /\ Len(<<>>) = 0
  BY DEF Text
<1>5. rx \in Regexes
  BY <1>4 DEF Init, Regexes
<1>6. client \in Clients
  BY <1>4 DEF Init, Clients
<1>7. Line \in Lines
  BY <1>3, <1>5, <1>6 DEF Line, Lines
<1>8. up \in Ups
  BY <1>4 DEF Init, Ups
<1>9. conv \in Convs
  BY DEF Init, Convs
<1>10. QED
  BY <1>1, <1>7, <1>8, <1>9 DEF Typed

LEMMA TypedStep ==
  ASSUME Typed, [Next]_vars
  PROVE  Typed'
<1>1. key' = key /\ key \in [wire : Wires, pairs : Presets, scripts : Scripts]
  BY Steps DEF Typed
<1>2. ASSUME up' \in Ups, conv' \in Convs, Line' \in Lines
      PROVE  Typed'
  BY <1>1, <1>2 DEF Typed, Lines
<1>3. ASSUME NEW x \in Text, NEW role \in BOOLEAN, NEW finish \in BOOLEAN, Fed(x, role, finish)
      PROVE  Typed'
  <2>1. up' \in Ups /\ conv' = conv /\ Line' \in Lines
    BY <1>3 DEF Fed, Went
  <2>2. conv' \in Convs
    BY <2>1 DEF Typed
  <2>3. QED
    BY <1>2, <2>1, <2>2
<1>4. ASSUME NEW finish \in BOOLEAN, NEW errors \in Nat, NEW reason \in Reasons,
             Closed(finish, errors, reason)
      PROVE  Typed'
  <2>1. up' \in Ups /\ Line' \in Lines /\ Complete(reason)
    BY <1>4 DEF Closed, Went
  <2>2. QED
    BY <1>2, <2>1, CompleteIs
<1>5. ASSUME NEW state \in {"ended", "broken", "gone"}, Left(state)
      PROVE  Typed'
  <2>1. up' \in Ups
    BY <1>5 DEF Left
  <2>2. conv' \in Convs
    <3>1. conv' = conv \/ Complete("client-hangup")
      BY <1>5 DEF Left
    <3>2. "client-hangup" \in Reasons /\ conv \in Convs
      BY DEF Reasons, Typed
    <3>3. QED
      BY <3>1, <3>2, CompleteIs
  <2>3. Line' \in Lines
    <3>1. scan' \in Resting(key.pairs) /\ rx' \in Regexes
      BY <1>5, LineParts DEF Left, Typed, Lines
    <3>2. client \in Clients
      BY LineParts DEF Typed, Lines
    <3>3. client' \in Clients
      BY <1>5, <3>2 DEF Left, Clients
    <3>4. QED
      BY <3>1, <3>3 DEF Line, Lines
  <2>4. QED
    BY <1>2, <2>1, <2>2, <2>3
<1>6. CASE UNCHANGED vars
  BY <1>1, <1>6 DEF Typed, Lines, Line, vars
<1>7. QED
  BY <1>3, <1>4, <1>5, <1>6, Steps

(* The stages and the client always have the types they were made with,    *)
(* and each stage is at rest between two frames.                           *)
THEOREM StreamTypes == Spec => []Typed
<1>1. Init => Typed
  BY TypedInit
<1>2. Typed /\ [Next]_vars => Typed'
  BY TypedStep
<1>3. QED
  BY <1>1, <1>2, PTL DEF Spec

(* reasoningTagScanner.ts keeps no more than it must: up to the cap while  *)
(* it looks for the end of a block, less than a tag otherwise, however the *)
(* answer is cut into deltas and however long it is.                       *)
THEOREM ScannerIsBounded == Spec => []HoldsBounded
<1>1. Typed => HoldsBounded
  <2> SUFFICES ASSUME Typed
               PROVE  HoldsBounded
    OBVIOUS
  <2>1. scan \in Resting(key.pairs)
    BY LineParts, LineTypes DEF Typed
  <2>2. QED
    BY <2>1 DEF Resting, Limit, HoldsBounded
<1>2. QED
  BY <1>1, StreamTypes, PTL

-----------------------------------------------------------------------------
(* How the stream ends.                                                    *)
Ending ==
  /\ up.open => client.state = "reading" /\ client.errors = 0 /\ ~conv.terminated
  /\ Converted /\ ~up.open => conv.terminated
  /\ Converted /\ client.state \in {"draining", "ended"} =>
       (conv.completions = <<"completed">> <=> client.errors = 0)

LEMMA EndingStep ==
  ASSUME Typed, Ending, [Next]_vars
  PROVE  Ending'
<1>1. key' = key /\ client.errors \in Nat
  BY Steps, LineTypes, LineParts DEF Typed
<1>2. ASSUME NEW x \in Text, NEW role \in BOOLEAN, NEW finish \in BOOLEAN, Fed(x, role, finish)
      PROVE  Ending'
  <2>1. /\ up.open /\ up'.open /\ conv' = conv
        /\ client'.state = client.state /\ client'.errors = client.errors + 0
    BY <1>2, LineParts DEF Fed, Went
  <2>2. client.state = "reading" /\ client.errors = 0 /\ ~conv.terminated
    BY <2>1 DEF Ending
  <2>3. client'.errors = 0
    BY <2>1, <2>2
  <2>4. QED
    BY <2>1, <2>2, <2>3 DEF Ending
<1>3. ASSUME NEW finish \in BOOLEAN, NEW errors \in Nat, NEW reason \in Reasons,
             Closed(finish, errors, reason)
      PROVE  Ending'
  <2>1. /\ up.open /\ ~up'.open /\ Complete(reason)
        /\ errors = (IF Converted /\ reason = "upstream-closed" THEN 1 ELSE 0)
        /\ reason \in {"completed", "upstream-closed"}
    BY <1>3 DEF Closed
  <2>2. client'.state = "draining" /\ client'.errors = client.errors + errors
    BY <1>3, LineParts DEF Closed, Went
  <2>3. client.errors = 0 /\ ~conv.terminated
    BY <2>1 DEF Ending
  <2>4. client'.errors = errors
    BY <2>2, <2>3
  <2>5. Converted => conv'.terminated /\ conv'.completions = <<reason>>
    BY <2>1, <2>3, CompleteIs
  <2>6. Converted' <=> Converted
    BY <1>1 DEF Converted
  <2>7. Converted => (conv'.completions = <<"completed">> <=> client'.errors = 0)
    <3>1. (<<reason>> = <<"completed">>) <=> (reason = "completed")
      OBVIOUS
    <3>2. Converted => (errors = 0 <=> reason = "completed")
      BY <2>1
    <3>3. QED
      BY <2>4, <2>5, <3>1, <3>2
  <2>8. QED
    BY <2>1, <2>2, <2>5, <2>6, <2>7 DEF Ending
<1>4. ASSUME NEW state \in {"ended", "broken", "gone"}, Left(state)
      PROVE  Ending'
  <2>1. client \in Clients
    BY LineParts DEF Typed, Lines
  <2>2. client'.state = state /\ client'.errors = client.errors
    BY <1>4, <2>1 DEF Left, Clients
  <2>3. Converted' <=> Converted
    BY <1>1 DEF Converted
  <2>4. CASE state = "ended" /\ client.state = "draining" /\ up' = up /\ conv' = conv
    BY <2>2, <2>3, <2>4 DEF Ending
  <2>5. CASE state \in {"broken", "gone"} /\ ~up'.open /\ Complete("client-hangup")
    <3>1. "client-hangup" \in Reasons
      BY DEF Reasons
    <3>2. Converted => conv'.terminated
      BY <2>5, <3>1, CompleteIs
    <3>3. QED
      BY <2>2, <2>3, <2>5, <3>2 DEF Ending
  <2>6. QED
    BY <1>4, <2>4, <2>5 DEF Left
<1>5. CASE UNCHANGED vars
  BY <1>5 DEF Ending, Converted, vars
<1>6. QED
  BY <1>2, <1>3, <1>4, <1>5, Steps

(* onComplete, and with it the usage row, fires exactly once for a         *)
(* converted stream, and says "completed" exactly if no error was sent.    *)
THEOREM CompletesOnce == Spec => []CompletionOnce
<1>1. Init => Typed /\ Ending
  <2> SUFFICES ASSUME Init
               PROVE  Typed /\ Ending
    OBVIOUS
  <2>1. Ending
    BY DEF Init, Ending
  <2>2. QED
    BY <2>1, TypedInit
<1>2. Typed /\ Ending /\ [Next]_vars => (Typed /\ Ending)'
  BY TypedStep, EndingStep
<1>3. Typed /\ Ending => CompletionOnce
  <2> SUFFICES ASSUME Typed, Ending
               PROVE  CompletionOnce
    OBVIOUS
  <2>1. conv.completions \in {<<>>} \cup {<<reason>> : reason \in Reasons}
    BY DEF Typed, Convs
  <2>2. conv.terminated <=> conv.completions # <<>>
    BY DEF Typed, Convs
  <2>3. \A reason : Len(<<reason>>) = 1
    OBVIOUS
  <2>4. IF conv.completions = <<>> THEN Len(conv.completions) = 0 ELSE Len(conv.completions) = 1
    BY <2>1, <2>3
  <2>5. up.open \in BOOLEAN
    BY UpIs
  <2>6. Len(conv.completions) <= 1
    <3> DEFINE n == Len(conv.completions)
    <3>1. n = 0 \/ n = 1
      BY <2>4
    <3> HIDE DEF n
    <3>2. n <= 1
      BY <3>1
    <3>3. QED
      BY <3>2 DEF n
  <2>7. Converted /\ client.state \in {"ended", "gone", "broken"} => Len(conv.completions) = 1
    <3>1. client.state \in {"ended", "gone", "broken"} => ~up.open
      BY DEF Ending
    <3>2. QED
      BY <2>2, <2>4, <2>5, <3>1 DEF Ending
  <2>8. Converted /\ client.state = "ended" =>
          (conv.completions = <<"completed">> <=> client.errors = 0)
    BY DEF Ending
  <2>9. QED
    BY <2>6, <2>7, <2>8 DEF CompletionOnce
<1>4. QED
  BY <1>1, <1>2, <1>3, PTL DEF Spec

-----------------------------------------------------------------------------
(* What came with the text.                                                *)
Announced ==
  /\ client.role = up.role
  /\ client.finishes \in {0, 1}
  /\ ~up.finished => client.finishes = 0
  /\ up.finished /\ ~(up.bundled /\ key.pairs # <<>>) => client.finishes = 1
  /\ key.wire = "gemini" /\ up.open => ~up.finished

LEMMA AnnouncedStep ==
  ASSUME Typed, Announced, [Next]_vars
  PROVE  Announced'
<1>1. key' = key
  BY Steps
<1>2. ASSUME NEW x \in Text, NEW role \in BOOLEAN, NEW finish \in BOOLEAN, Fed(x, role, finish)
      PROVE  Announced'
  <2>1. /\ ~up.finished /\ up'.finished = finish /\ up'.role = (up.role \/ role)
        /\ key.wire = "gemini" => ~finish
        /\ up'.bundled = (finish /\ x # <<>>)
    BY <1>2 DEF Fed
  <2>2. /\ client'.role = (client.role \/ role)
        /\ client'.finishes \in {client.finishes, client.finishes + 1}
        /\ x = <<>> \/ ~finish \/ key.pairs = <<>> =>
             client'.finishes = IF finish THEN client.finishes + 1 ELSE client.finishes
    BY <1>2, LineParts DEF Fed, Went
  <2>3. client.finishes = 0 /\ client.role = up.role
    BY <2>1 DEF Announced
  <2>4. /\ client'.finishes \in {0, 1}
        /\ x = <<>> \/ ~finish \/ key.pairs = <<>> =>
             client'.finishes = IF finish THEN 1 ELSE 0
    BY <2>2, <2>3
  <2>5. QED
    BY <1>1, <2>1, <2>2, <2>3, <2>4 DEF Announced
<1>3. ASSUME NEW finish \in BOOLEAN, NEW errors \in Nat, NEW reason \in Reasons,
             Closed(finish, errors, reason)
      PROVE  Announced'
  <2>1. /\ up.open /\ ~up'.open /\ up'.role = up.role
        /\ up'.finished = (up.finished \/ finish) /\ up'.bundled = up.bundled
        /\ (finish => key.wire = "gemini")
    BY <1>3 DEF Closed
  <2>2. /\ client'.role = (client.role \/ FALSE)
        /\ client'.finishes = IF finish THEN client.finishes + 1 ELSE client.finishes
    BY <1>3, LineParts DEF Closed, Went
  <2>3. finish => ~up.finished
    BY <2>1 DEF Announced
  <2>4. /\ client'.finishes \in {0, 1}
        /\ ~up'.finished => client'.finishes = 0
        /\ up'.finished /\ ~(up'.bundled /\ key.pairs # <<>>) => client'.finishes = 1
    <3>1. up'.finished \in BOOLEAN /\ up.finished \in BOOLEAN
      BY <2>1, UpIs
    <3>2. CASE finish
      <4>1. client.finishes = 0 /\ up'.finished
        BY <2>1, <2>3, <3>2 DEF Announced
      <4>2. QED
        BY <2>2, <3>2, <4>1
    <3>3. CASE ~finish
      <4>1. up'.finished = up.finished
        BY <2>1, <3>1, <3>3
      <4>2. QED
        BY <2>1, <2>2, <3>3, <4>1 DEF Announced
    <3>4. QED
      BY <3>2, <3>3
  <2>5. client'.role = up'.role
    <3>1. client.role = up.role /\ up.role \in BOOLEAN
      BY UpIs DEF Announced
    <3>2. QED
      BY <2>1, <2>2, <3>1
  <2>6. QED
    BY <1>1, <2>1, <2>4, <2>5 DEF Announced
<1>4. ASSUME NEW state \in {"ended", "broken", "gone"}, Left(state)
      PROVE  Announced'
  <2>1. client \in Clients
    BY LineParts DEF Typed, Lines
  <2>2. client'.role = client.role /\ client'.finishes = client.finishes
    BY <1>4, <2>1 DEF Left, Clients
  <2>3. up'.role = up.role /\ up'.finished = up.finished /\ (up'.open => up.open)
        /\ up'.bundled = up.bundled
    BY <1>4 DEF Left
  <2>4. QED
    BY <1>1, <2>2, <2>3 DEF Announced
<1>5. CASE UNCHANGED vars
  BY <1>5 DEF Announced, vars
<1>6. QED
  BY <1>2, <1>3, <1>4, <1>5, Steps

(* Whatever the stages hold back, the role reaches the client with the     *)
(* frame that carried it and the finish reason exactly once, also one that *)
(* comes with text - unless the reasoning stage is on, which may drop a    *)
(* frame with text and with it the finish reason.                          *)
THEOREM HoldingBackIsSafe == Spec => []AnnouncementsArrive
<1>1. Init => Typed /\ Announced
  <2> SUFFICES ASSUME Init
               PROVE  Typed /\ Announced
    OBVIOUS
  <2>1. Announced
    BY DEF Init, Announced
  <2>2. QED
    BY <2>1, TypedInit
<1>2. Typed /\ Announced /\ [Next]_vars => (Typed /\ Announced)'
  BY TypedStep, AnnouncedStep
<1>3. Announced => AnnouncementsArrive
  <2>1. \A n \in {0, 1} : n <= 1
    OBVIOUS
  <2>2. QED
    BY <2>1 DEF Announced, AnnouncementsArrive
<1>4. QED
  BY <1>1, <1>2, <1>3, PTL DEF Spec

-----------------------------------------------------------------------------
(* The text.                                                               *)
LEMMA ScanFlushes ==
  ASSUME KeyOK, NEW p \in Lines, NEW q, NEW x \in Text, NEW role \in BOOLEAN,
         NEW finish \in BOOLEAN, NEW e, NEW ends \in BOOLEAN, NEW a,
         Went(p, q, x, role, finish, e, ends, a), key.pairs # <<>>
  PROVE  q.scan.flushed = (p.scan.flushed \/ finish \/ ends)
<1> DEFINE f == Delta(x, role, finish \/ ends)
           s == Push(p.scan, x, key.pairs)
           d == ReasonRelease(s)
           e0 == ReasonRelease(p.scan)
<1>1. q.scan = ScanStep(p.scan, f).st
  BY DEF Went
<1>2. f.content = x /\ f.finish = (finish \/ ends) /\ f.kind = "delta"
  BY DEF Delta
<1>3. p.scan \in Resting(key.pairs) /\ p.scan.flushed \in BOOLEAN
  BY LineTypes
<1>4. s \in Resting(key.pairs) /\ s.flushed = p.scan.flushed
  BY <1>3, PushRests DEF KeyOK, Resting
<1>5. d.st.flushed /\ d.st \in Resting(key.pairs) /\ e0.st.flushed /\ e0.st \in Resting(key.pairs)
  BY <1>3, <1>4, ReleaseIs
<1>6. d.st.flushed \in BOOLEAN /\ e0.st.flushed \in BOOLEAN
  BY <1>5 DEF Resting, Scanners
<1>7. ScanStep(p.scan, f) =
        IF x # <<>>
        THEN IF finish \/ ends THEN [st |-> d.st, text |-> s.out \o d.text]
             ELSE [st |-> s, text |-> s.out]
        ELSE IF finish \/ ends THEN e0 ELSE [st |-> p.scan, text |-> <<>>]
  BY <1>2 DEF ScanStep
<1> HIDE DEF f, s, d, e0
<1>8. CASE x # <<>> /\ (finish \/ ends)
  <2> DEFINE y == s.out \o d.text
  <2>1. ScanStep(p.scan, f) = [st |-> d.st, text |-> y]
    BY <1>7, <1>8
  <2> HIDE DEF y
  <2>2. q.scan = d.st
    BY <1>1, <2>1
  <2>3. QED
    BY <1>3, <1>5, <1>6, <1>8, <2>2
<1>9. CASE x # <<>> /\ ~(finish \/ ends)
  <2>1. ScanStep(p.scan, f) = [st |-> s, text |-> s.out]
    BY <1>7, <1>9
  <2>2. q.scan = s
    BY <1>1, <2>1
  <2>3. QED
    BY <1>3, <1>4, <1>9, <2>2
<1>10. CASE x = <<>> /\ (finish \/ ends)
  <2>1. q.scan = e0.st
    BY <1>1, <1>7, <1>10
  <2>2. QED
    BY <1>3, <1>5, <1>6, <1>10, <2>1
<1>11. CASE x = <<>> /\ ~(finish \/ ends)
  <2>1. ScanStep(p.scan, f) = [st |-> p.scan, text |-> <<>>]
    BY <1>7, <1>11
  <2>2. q.scan = p.scan
    BY <1>1, <2>1
  <2>3. QED
    BY <1>3, <1>11, <2>2
<1>12. QED
  BY <1>8, <1>9, <1>10, <1>11

LEMMA SameBalance ==
  ASSUME key' = key, Balanced(Line')
  PROVE  Balanced(Line)'
BY DEF Balanced, Balance, Mixed, Transformed

(* With scripts, the client has what the regex stage accounts for; the     *)
(* stages flush in order and only when no more text can come.              *)
Kept ==
  key.scripts # <<>> /\ ~Stranded =>
    /\ Balanced(Line)
    /\ key.pairs # <<>> /\ rx.flushed => scan.flushed
    /\ up.open /\ ~up.finished => ~rx.flushed
    /\ client.state \in {"draining", "ended"} => rx.flushed

LEMMA KeptStep ==
  ASSUME Typed, Kept, [Next]_vars
  PROVE  Kept'
<1>1. key' = key /\ KeyOK /\ Line \in Lines
  BY Steps, TypedKey DEF Typed
<1>2. SUFFICES ASSUME key.scripts # <<>>, ~Stranded'
               PROVE  Kept'
  BY <1>1 DEF Kept
<1>8. ~Stranded
  <2>1. (up.finished => up'.bundled = up.bundled) => (Stranded => Stranded')
    BY <1>1, UpIs DEF Stranded
  <2>2. up.finished => up'.bundled = up.bundled
    BY Steps DEF Fed, Closed, Left, vars
  <2>3. QED
    BY <1>2, <2>1, <2>2
<1>3. /\ Balanced(Line)
      /\ key.pairs # <<>> /\ rx.flushed => scan.flushed
      /\ up.open /\ ~up.finished => ~rx.flushed
      /\ client.state \in {"draining", "ended"} => rx.flushed
  BY <1>2, <1>8 DEF Kept
<1>4. rx.flushed \in BOOLEAN /\ scan.flushed \in BOOLEAN
  BY <1>1, LineTypes, LineParts
<1>0. Line.scan = scan /\ Line'.scan = scan'
  BY DEF Line
<1>5. ASSUME NEW x \in Text, NEW role \in BOOLEAN, NEW finish \in BOOLEAN, Fed(x, role, finish)
      PROVE  Kept'
  <2>1. /\ up.open /\ ~up.finished /\ up'.finished = finish
        /\ x = <<>> \/ ~finish \/ key.pairs = <<>>
        /\ Went(Line, Line', x, role, finish, 0, FALSE, client.state)
    BY <1>1, <1>2, <1>5 DEF Fed, Stranded
  <2>2. ~rx.flushed
    BY <1>3, <2>1
  <2>3. rx'.flushed = (rx.flushed \/ finish \/ FALSE) /\ Balanced(Line')
    BY <1>2, <1>3, <2>1, <2>2, LineParts DEF Went
  <2>4. key.pairs # <<>> => scan'.flushed = (scan.flushed \/ finish)
    <3> SUFFICES ASSUME key.pairs # <<>>
                 PROVE  scan'.flushed = (scan.flushed \/ finish)
      OBVIOUS
    <3> DEFINE q == Line'
               p == Line
               a == client.state
               b == FALSE
               c == 0
    <3>0. Went(p, q, x, role, finish, c, b, a) /\ p \in Lines /\ KeyOK
      BY <1>1, <2>1
    <3>4. b \in BOOLEAN
      OBVIOUS
    <3> HIDE DEF p, q, a, b, c
    <3>1. q.scan.flushed = (p.scan.flushed \/ finish \/ b)
      BY <3>0, <3>4, ScanFlushes
    <3>2. QED
      BY <1>0, <3>1 DEF p, q, b
  <2>5. client'.state = client.state /\ ~(client.state \in {"draining", "ended"})
    BY <1>3, <2>1, <2>2, LineParts DEF Went
  <2>6. Balanced(Line)'
    BY <1>1, <2>3, SameBalance
  <2>7. QED
    BY <1>1, <1>4, <2>1, <2>2, <2>3, <2>4, <2>5, <2>6 DEF Kept
<1>6. ASSUME NEW finish \in BOOLEAN, NEW errors \in Nat, NEW reason \in Reasons,
             Closed(finish, errors, reason)
      PROVE  Kept'
  <2>0. <<>> \in Text
    BY DEF Text
  <2>1. /\ ~up'.open
        /\ Went(Line, Line', <<>>, FALSE, finish, errors, TRUE, "draining")
    BY <1>6 DEF Closed
  <2>2. rx'.flushed = (rx.flushed \/ finish \/ TRUE) /\ Balanced(Line')
    BY <1>2, <1>3, <2>1, LineParts DEF Went
  <2>3. key.pairs # <<>> => scan'.flushed
    <3> SUFFICES ASSUME key.pairs # <<>>
                 PROVE  scan'.flushed
      OBVIOUS
    <3> DEFINE q == Line'
               p == Line
               a == "draining"
               b == TRUE
               c == errors
               x == <<>>
               role == FALSE
    <3>0. Went(p, q, x, role, finish, c, b, a) /\ p \in Lines /\ KeyOK
      BY <1>1, <2>1
    <3>5. x \in Text /\ role \in BOOLEAN
      BY <2>0
    <3>4. b \in BOOLEAN
      OBVIOUS
    <3> HIDE DEF p, q, a, b, c, x, role
    <3>1. q.scan.flushed = (p.scan.flushed \/ finish \/ b)
      BY <3>0, <3>4, <3>5, ScanFlushes
    <3>2. QED
      BY <1>0, <3>1 DEF p, q, b
  <2>4. Balanced(Line)'
    BY <1>1, <2>2, SameBalance
  <2>5. QED
    BY <1>1, <1>4, <2>1, <2>2, <2>3, <2>4 DEF Kept
<1>7. ASSUME NEW state \in {"ended", "broken", "gone"}, Left(state)
      PROVE  Kept'
  <2>1. client \in Clients
    BY <1>1, LineParts DEF Lines
  <2>2. /\ client'.state = state /\ client'.text = client.text /\ scan' = scan /\ rx' = rx
    BY <1>7, <2>1 DEF Left, Clients
  <2>3. Balanced(Line')
    BY <1>3, <2>2, LineParts DEF Balanced
  <2>4. Balanced(Line)'
    BY <1>1, <2>3, SameBalance
  <2>5. /\ up'.open => up.open /\ up'.finished = up.finished
        /\ state \in {"draining", "ended"} => client.state = "draining"
    BY <1>7 DEF Left
  <2>6. QED
    BY <1>1, <1>3, <2>2, <2>4, <2>5 DEF Kept
<1>9. CASE UNCHANGED vars
  <2>1. Line' = Line
    BY <1>9 DEF Line, vars
  <2>2. Balanced(Line)'
    BY <1>1, <1>3, <2>1, SameBalance
  <2>3. QED
    BY <1>1, <1>3, <1>9, <2>2 DEF Kept, vars
<1>10. QED
  BY <1>5, <1>6, <1>7, <1>9, Steps

LEMMA KeptInit ==
  ASSUME Init
  PROVE  Kept
<1>1. Typed
  BY TypedInit
<1>2. KeyOK
  BY <1>1, TypedKey
<1>3. /\ rx.raw = <<>> /\ rx.committed = 0 /\ rx.done = <<>> /\ ~rx.passthrough /\ ~rx.flushed
      /\ client.text = <<>> /\ client.state = "reading"
  BY DEF Init
<1>4. <<>> \in Text /\ First(<<>>, 0) = <<>>
  BY DEF Text, First
<1>5. Transformed(<<>>) = <<>>
  BY <1>2, <1>4, TransformedIs DEF KeyOK
<1>6. Balance(rx, client.text)
  BY <1>3, <1>4, <1>5 DEF Balance
<1>7. Balanced(Line)
  BY <1>6, LineParts DEF Balanced
<1>8. QED
  BY <1>3, <1>7 DEF Kept

(* regexStreamTransform.ts:45-48: whatever a script does, and wherever the *)
(* deltas are cut, a client that reads to the end gets every letter that   *)
(* the stage got exactly once: a beginning transformed, the rest as it was *)
(* - unless the finish reason came with text and the reasoning stage is on *)
(* too, which then sends the last of the text behind the end.              *)
THEOREM EveryLetterOnce == Spec => []NothingLostOrDoubled
<1>1. Init => Typed /\ Kept
  BY TypedInit, KeptInit
<1>2. Typed /\ Kept /\ [Next]_vars => (Typed /\ Kept)'
  BY TypedStep, KeptStep
<1>3. Kept => NothingLostOrDoubled
  <2> SUFFICES ASSUME Kept, client.state = "ended", key.scripts # <<>>, ~Stranded
               PROVE  \E n \in 0..Len(rx.raw) :
                        client.text = Transformed(First(rx.raw, n)) \o Rest(rx.raw, n)
    BY DEF NothingLostOrDoubled, NeverDropsText
  <2>1. rx.flushed /\ Balance(rx, client.text)
    BY LineParts DEF Kept, Balanced
  <2>2. QED
    BY <2>1 DEF Balance, Mixed
<1>4. QED
  BY <1>1, <1>2, <1>3, PTL DEF Spec

-----------------------------------------------------------------------------
(* The text as a whole.                                                    *)

(* What has left the reasoning stage is what the scanner would have let    *)
(* through of the text in one piece.                                       *)
Scanned(p, text) ==
  ~p.scan.gaveUp =>
    /\ ~p.scan.flushed =>
         Sent(p.scan, Got(p)) = Push(NewScanner(key.pairs), text, key.pairs)
    /\ p.scan.flushed => Got(p) = Strip(text, key.pairs)

LEMMA ReleaseKeeps ==
  ASSUME NEW s \in Scanners(key.pairs)
  PROVE  ReasonRelease(s).st.gaveUp = s.gaveUp
<1> DEFINE o == IF s.phase \in {"inside", "discarding"} THEN <<>> ELSE s.buffer
           t == FinishScan(s)
           u == [t EXCEPT !.flushed = TRUE]
<1>1. t = [s EXCEPT !.phase = "outside", !.buffer = <<>>, !.out = o]
  BY DEF FinishScan
<1> HIDE DEF t, o
<1>2. t.gaveUp = s.gaveUp /\ DOMAIN t = DOMAIN s
  BY <1>1 DEF Scanners
<1>3. u.gaveUp = s.gaveUp
  BY <1>2 DEF Scanners
<1>4. ReasonRelease(s).st = IF s.flushed THEN s ELSE u
  BY DEF ReasonRelease, t
<1> HIDE DEF u
<1>5. QED
  BY <1>3, <1>4

LEMMA ReleaseStrips ==
  ASSUME KeyOK, key.pairs # <<>>, NEW s \in Resting(key.pairs), ~s.flushed, NEW got \in Text,
         NEW text \in Text,
         Sent(s, got) = Push(NewScanner(key.pairs), text, key.pairs)
  PROVE  got \o ReasonRelease(s).text = Strip(text, key.pairs)
<1> DEFINE t == FinishScan(s)
           g == Sent(s, got)
           u == FinishScan(g)
           w == [t EXCEPT !.flushed = TRUE]
           o == IF s.phase \in {"inside", "discarding"} THEN <<>> ELSE s.buffer
<1>1. s \in Scanners(key.pairs)
  BY DEF Resting
<1>2. g.out = got /\ g.buffer = s.buffer /\ g.phase = s.phase /\ g \in Scanners(key.pairs)
  BY <1>1, SentIs DEF KeyOK
<1>3. Strip(text, key.pairs) = Finished(g)
  BY DEF Strip
<1>4. Finished(g) = g.out \o u.out
  BY DEF Finished
<1>5. t = [s EXCEPT !.phase = "outside", !.buffer = <<>>, !.out = o]
  BY DEF FinishScan
<1> HIDE DEF g
<1>6. u = [g EXCEPT !.phase = "outside", !.buffer = <<>>, !.out = o]
  BY <1>2 DEF FinishScan
<1>7. ReasonRelease(s) = [st |-> w, text |-> t.out]
  BY DEF ReasonRelease
<1> HIDE DEF t, u, o
<1>8. t.out = o /\ u.out = o
  BY <1>1, <1>2, <1>5, <1>6 DEF Scanners
<1> HIDE DEF w
<1>9. ReasonRelease(s).text = o
  BY <1>7, <1>8
<1>10. QED
  BY <1>2, <1>3, <1>4, <1>8, <1>9

LEMMA PushKeeps ==
  ASSUME NEW pairs \in TagLists, NEW s \in Scanners(pairs), NEW x \in Text, s.gaveUp
  PROVE  Push(s, x, pairs).gaveUp
<1> DEFINE f == Fresh(s, x)
<1>1. f \in Scanners(pairs) /\ f.busy /\ f.gaveUp = s.gaveUp /\ Push(s, x, pairs) = Drive(f, pairs)
  BY FreshIs
<1> HIDE DEF f
<1>2. QED
  BY <1>1, GaveUpStays

LEMMA ScannedStep ==
  ASSUME KeyOK, NEW p \in Lines, NEW q \in Lines, NEW x \in Text, NEW role \in BOOLEAN,
         NEW finish \in BOOLEAN, NEW e, NEW ends \in BOOLEAN, NEW a,
         Went(p, q, x, role, finish, e, ends, a), key.pairs # <<>>,
         NEW text \in Text, Scanned(p, text),
         x = <<>> \/ ~ends, x # <<>> => ~p.scan.flushed
  PROVE  Scanned(q, text \o x)
<1> DEFINE f == Delta(x, role, finish \/ ends)
           s == Push(p.scan, x, key.pairs)
           d == ReasonRelease(s)
           e0 == ReasonRelease(p.scan)
<1>1. /\ q.scan = ScanStep(p.scan, f).st
      /\ Got(q) = Got(p) \o ScanStep(p.scan, f).text
  BY DEF Went
<1>2. f.content = x /\ f.finish = (finish \/ ends) /\ f.kind = "delta"
  BY DEF Delta
<1>3. p.scan \in Resting(key.pairs) /\ p.scan \in Scanners(key.pairs) /\ p.scan.flushed \in BOOLEAN
      /\ p.scan.gaveUp \in BOOLEAN
  BY LineTypes DEF Resting, Scanners
<1>4. s \in Resting(key.pairs) /\ s.flushed = p.scan.flushed /\ s \in Scanners(key.pairs)
  BY <1>3, PushRests DEF KeyOK, Resting
<1>5. ScanStep(p.scan, f) =
        IF x # <<>>
        THEN IF finish \/ ends THEN [st |-> d.st, text |-> s.out \o d.text]
             ELSE [st |-> s, text |-> s.out]
        ELSE IF finish \/ ends THEN e0 ELSE [st |-> p.scan, text |-> <<>>]
  BY <1>2 DEF ScanStep
<1>6. Got(p) \in Text /\ Got(p) \o <<>> = Got(p) /\ text \o <<>> = text
  BY GotIs, Assoc
<1>7. CASE x # <<>>
  <2> DEFINE g == Got(p) \o s.out
  <2>3. ~p.scan.flushed /\ ~s.flushed
    BY <1>4, <1>7
  <2>4. ASSUME ~s.gaveUp
        PROVE  Sent(s, g) = Push(NewScanner(key.pairs), text \o x, key.pairs)
    <3>1. ~p.scan.gaveUp
      <4>1. p.scan.gaveUp => Push(p.scan, x, key.pairs).gaveUp
        BY <1>3, PushKeeps DEF KeyOK
      <4>2. QED
        BY <2>4, <4>1
    <3>2. Sent(p.scan, Got(p)) = Push(NewScanner(key.pairs), text, key.pairs)
      BY <2>3, <3>1 DEF Scanned
    <3>3. key.pairs \in TagLists
      BY DEF KeyOK
    <3>4. s = Push(p.scan, x, key.pairs)
      OBVIOUS
    <3> HIDE DEF s
    <3>5. Sent(s, Got(p) \o s.out) = Push(NewScanner(key.pairs), text \o x, key.pairs)
      BY <1>3, <1>6, <2>4, <3>2, <3>3, <3>4, PushJoins
    <3>6. QED
      BY <3>5
  <2>5. CASE ~finish
    <3>1. ScanStep(p.scan, f) = [st |-> s, text |-> s.out]
      BY <1>5, <1>7, <2>5
    <3> HIDE DEF f, d, e0
    <3>2. q.scan = s /\ Got(q) = g
      BY <1>1, <3>1
    <3> HIDE DEF s, g
    <3>3. QED
      BY <2>3, <2>4, <3>2 DEF Scanned
  <2>6. CASE finish
    <3> DEFINE y == s.out \o d.text
    <3>1. ScanStep(p.scan, f) = [st |-> d.st, text |-> y]
      BY <1>5, <1>7, <2>6
    <3>2. d.st.flushed /\ d.text \in Text
      BY <1>4, ReleaseIs
    <3>3. s.out \in Text /\ text \o x \in Text
      BY <1>4, Joined DEF Scanners
    <3>4. g \in Text
      BY <1>6, <3>3, Joined
    <3>5. Regrouped(Got(p), s.out, d.text)
      BY <1>6, <3>2, <3>3, Regroup
    <3>6. d.st.gaveUp = s.gaveUp
      BY <1>4, ReleaseKeeps
    <3>7. ~s.gaveUp => g \o d.text = Strip(text \o x, key.pairs)
      <4> HIDE DEF s, g
      <4>1. QED
        BY <1>4, <2>3, <2>4, <3>3, <3>4, ReleaseStrips
    <3> HIDE DEF f, y
    <3>8. q.scan = d.st /\ Got(q) = Got(p) \o y
      BY <1>1, <3>1
    <3>9. Got(q) = g \o d.text
      BY <3>5, <3>8 DEF Regrouped, y
    <3> HIDE DEF s, g, d
    <3>10. QED
      BY <3>2, <3>6, <3>7, <3>8, <3>9 DEF Scanned
  <2>7. QED
    BY <2>5, <2>6
<1>8. CASE x = <<>> /\ (finish \/ ends)
  <2>1. q.scan = e0.st /\ Got(q) = Got(p) \o e0.text
    BY <1>1, <1>5, <1>8
  <2>2. e0.st.flushed /\ (p.scan.flushed => e0.st = p.scan /\ e0.text = <<>>)
    BY <1>3, ReleaseIs
  <2>3. text \o x = text
    BY <1>6, <1>8
  <2>4. CASE p.scan.flushed
    <3>1. q.scan = p.scan /\ Got(q) = Got(p)
      BY <1>6, <2>1, <2>2, <2>4
    <3>2. QED
      BY <2>3, <3>1 DEF Scanned
  <2>5. CASE ~p.scan.flushed
    <3> SUFFICES ASSUME ~q.scan.gaveUp
                 PROVE  Got(q) = Strip(text, key.pairs)
      <4>1. q.scan.flushed
        BY <2>1, <2>2
      <4>2. QED
        BY <2>3, <4>1 DEF Scanned
    <3>1. CASE p.scan.gaveUp
      <4>1. QED
        BY <1>3, <2>1, <2>5, <3>1, ReleaseKeeps DEF e0
    <3>2. CASE ~p.scan.gaveUp
      <4>1. Sent(p.scan, Got(p)) = Push(NewScanner(key.pairs), text, key.pairs)
        BY <2>5, <3>2 DEF Scanned
      <4>2. Got(p) \o e0.text = Strip(text, key.pairs)
        BY <1>3, <1>6, <2>5, <4>1, ReleaseStrips
      <4>3. QED
        BY <2>1, <4>2
    <3>3. QED
      BY <1>3, <3>1, <3>2
  <2>6. QED
    BY <1>3, <2>4, <2>5
<1>9. CASE x = <<>> /\ ~(finish \/ ends)
  <2>1. ScanStep(p.scan, f) = [st |-> p.scan, text |-> <<>>]
    BY <1>5, <1>9
  <2> HIDE DEF f
  <2>2. q.scan = p.scan /\ Got(q) = Got(p)
    BY <1>1, <1>6, <2>1
  <2>3. QED
    BY <1>6, <1>9, <2>2 DEF Scanned
<1>10. QED
  BY <1>7, <1>8, <1>9

(* What the client gets of the text, wherever it was cut, is what it would *)
(* get of the text in one piece; the last of it has left the reasoning     *)
(* stage when the stream has closed.                                       *)
Faithful ==
  /\ key.pairs = <<>> => Got(Line) = up.sent
  /\ key.pairs # <<>> =>
       /\ Scanned(Line, up.sent)
       /\ up.open /\ ~up.finished => ~scan.flushed
       /\ client.state \in {"draining", "ended"} => scan.flushed

LEMMA SameScanned ==
  ASSUME key' = key
  PROVE  /\ Got(Line)' = Got(Line')
         /\ key.pairs # <<>> /\ Scanned(Line', up'.sent) => Scanned(Line, up.sent)'
BY DEF Got, Scanned

(* A step that takes the text x in.                                        *)
LEMMA WentFaithful ==
  ASSUME Typed, Faithful, key' = key, NEW x \in Text, NEW role \in BOOLEAN,
         NEW finish \in BOOLEAN, NEW e, NEW ends \in BOOLEAN, NEW a,
         Went(Line, Line', x, role, finish, e, ends, a), up'.sent = up.sent \o x,
         x = <<>> \/ ~ends, x # <<>> => up.open /\ ~up.finished,
         up'.open /\ ~up'.finished => up.open /\ ~up.finished /\ ~finish /\ ~ends,
         a \in {"draining", "ended"} => ends \/ client.state \in {"draining", "ended"}
  PROVE  Faithful'
<1>1. KeyOK /\ Line \in Lines /\ up.sent \in Text
  BY TypedKey, UpIs DEF Typed
<1>2. Line' \in Lines /\ client'.state = a
  BY LineParts DEF Went
<1>3. ASSUME key.pairs = <<>>
      PROVE  Got(Line)' = up'.sent
  <2>1. Got(Line') = Got(Line) \o x
    BY <1>3 DEF Went
  <2>2. QED
    BY <1>3, <2>1, SameScanned DEF Faithful
<1>4. ASSUME key.pairs # <<>>
      PROVE  /\ Scanned(Line, up.sent)'
             /\ up'.open /\ ~up'.finished => ~scan'.flushed
             /\ client'.state \in {"draining", "ended"} => scan'.flushed
  <2> DEFINE p == Line
             q == Line'
             text == up.sent
  <2>1. /\ p \in Lines /\ q \in Lines /\ p.scan = scan /\ q.scan = scan'
        /\ Went(p, q, x, role, finish, e, ends, a)
        /\ text \in Text /\ Scanned(p, text) /\ (x # <<>> => ~p.scan.flushed)
    BY <1>1, <1>2, <1>4, LineParts DEF Faithful
  <2> HIDE DEF p, q, text
  <2>2. Scanned(q, text \o x)
    BY <1>1, <1>4, <2>1, ScannedStep
  <2>3. q.scan.flushed = (p.scan.flushed \/ finish \/ ends)
    <3>1. Went(p, q, x, role, finish, e, ends, a) /\ p \in Lines
      BY <2>1
    <3>2. KeyOK /\ key.pairs # <<>>
      BY <1>1, <1>4
    <3>3. QED
      BY <3>1, <3>2, ScanFlushes
  <2>4. Scanned(Line, up.sent)'
    BY <1>4, <2>2, SameScanned DEF q, text
  <2>5. p.scan.flushed \in BOOLEAN
    BY <2>1, LineTypes
  <2>6. QED
    BY <1>2, <1>4, <2>1, <2>3, <2>4, <2>5 DEF Faithful
<1>5. QED
  BY <1>3, <1>4 DEF Faithful

LEMMA FaithfulStep ==
  ASSUME Typed, Faithful, [Next]_vars
  PROVE  Faithful'
<1>1. key' = key /\ KeyOK /\ Line \in Lines
  BY Steps, TypedKey DEF Typed
<1>2. ASSUME NEW x \in Text, NEW role \in BOOLEAN, NEW finish \in BOOLEAN, Fed(x, role, finish)
      PROVE  Faithful'
  <2> DEFINE no == FALSE
             e == 0
             a == client.state
  <2>1. /\ up.open /\ ~up.finished /\ up'.finished = finish
        /\ up'.sent = up.sent \o x /\ Went(Line, Line', x, role, finish, e, no, a)
    BY <1>2 DEF Fed
  <2>2. no \in BOOLEAN /\ ~no
    OBVIOUS
  <2>3. a \in {"draining", "ended"} => no \/ client.state \in {"draining", "ended"}
    OBVIOUS
  <2> HIDE DEF no, e, a
  <2>4. QED
    BY <1>1, <2>1, <2>2, <2>3, WentFaithful
<1>3. ASSUME NEW finish \in BOOLEAN, NEW errors \in Nat, NEW reason \in Reasons,
             Closed(finish, errors, reason)
      PROVE  Faithful'
  <2> DEFINE x == <<>>
             role == FALSE
             yes == TRUE
             a == "draining"
  <2>1. /\ ~up'.open /\ up'.sent = up.sent /\ Went(Line, Line', x, role, finish, errors, yes, a)
    BY <1>3 DEF Closed
  <2>2. x \in Text /\ role \in BOOLEAN /\ yes \in BOOLEAN /\ yes /\ x = <<>>
    BY DEF Text
  <2> HIDE DEF x, role, yes, a
  <2>3. up'.sent = up.sent \o x
    BY <2>1, <2>2, UpIs
  <2>4. QED
    BY <1>1, <2>1, <2>2, <2>3, WentFaithful
<1>4. ASSUME NEW state \in {"ended", "broken", "gone"}, Left(state)
      PROVE  Faithful'
  <2>1. client \in Clients
    BY <1>1, LineParts DEF Lines
  <2>2. /\ client'.state = state /\ client'.text = client.text /\ scan' = scan /\ rx' = rx
    BY <1>4, <2>1 DEF Left, Clients
  <2>3. Got(Line') = Got(Line) /\ Line'.scan = Line.scan
    BY <2>2, LineParts DEF Got
  <2>4. up'.sent = up.sent /\ (up'.open => up.open) /\ up'.finished = up.finished
        /\ (state \in {"draining", "ended"} => client.state = "draining")
    BY <1>4 DEF Left
  <2>5. key.pairs # <<>> => Scanned(Line, up.sent)'
    <3>1. Scanned(Line, up.sent) => Scanned(Line', up'.sent)
      BY <2>3, <2>4 DEF Scanned
    <3>2. QED
      BY <1>1, <3>1, SameScanned DEF Faithful
  <2>6. Got(Line)' = Got(Line)
    BY <1>1, <2>3, SameScanned
  <2>7. QED
    BY <1>1, <2>2, <2>4, <2>5, <2>6 DEF Faithful
<1>5. CASE UNCHANGED vars
  <2>1. Line' = Line /\ up' = up
    BY <1>5 DEF Line, vars
  <2>2. Got(Line)' = Got(Line) /\ (key.pairs # <<>> => Scanned(Line, up.sent)')
    BY <1>1, <2>1, SameScanned DEF Faithful
  <2>3. QED
    BY <1>1, <1>5, <2>1, <2>2 DEF Faithful, vars
<1>6. QED
  BY <1>2, <1>3, <1>4, <1>5, Steps

LEMMA FaithfulInit ==
  ASSUME Init
  PROVE  Faithful
<1>1. KeyOK
  BY TypedInit, TypedKey
<1>2. /\ scan = NewScanner(key.pairs) /\ ~scan.flushed /\ rx.raw = <<>>
      /\ client.text = <<>> /\ client.state = "reading" /\ up.sent = <<>>
  BY DEF Init, NewScanner
<1>3. Got(Line) = <<>> /\ Line.scan = scan
  BY <1>2, LineParts DEF Got
<1>4. Sent(NewScanner(key.pairs), <<>>) = Push(NewScanner(key.pairs), <<>>, key.pairs)
  BY <1>1, NoText DEF KeyOK
<1>5. Scanned(Line, up.sent)
  BY <1>2, <1>3, <1>4 DEF Scanned
<1>6. QED
  BY <1>2, <1>3, <1>5 DEF Faithful

(* Streaming changes nothing (reasoningTagScanner.ts, handleChat.ts:541):  *)
(* a client that reads a stream to its end has the text that it would have *)
(* got as one JSON answer, stripped of the reasoning and transformed as a  *)
(* whole, wherever the upstream cut it, whatever the tags, the scripts,    *)
(* the margin and the cap are - unless the cap ended the search for a      *)
(* block, a script was outrun, or the last of the text was stranded        *)
(* between the stages.                                                     *)
THEOREM StreamsLikeJson == Spec => []SameTextAsJson
<1>1. Init => Typed /\ Kept /\ Faithful
  BY TypedInit, KeptInit, FaithfulInit
<1>2. Typed /\ Kept /\ Faithful /\ [Next]_vars => (Typed /\ Kept /\ Faithful)'
  BY TypedStep, KeptStep, FaithfulStep
<1>3. Typed /\ Kept /\ Faithful => SameTextAsJson
  <2> SUFFICES ASSUME Typed, Kept, Faithful, client.state = "ended", ~scan.gaveUp, ~Outrun,
                      ~Stranded
               PROVE  client.text = Transformed(Strip(up.sent, key.pairs))
    BY DEF SameTextAsJson
  <2>1. KeyOK /\ Line.scan = scan /\ Line.rx = rx /\ Line.client = client
    BY TypedKey, LineParts
  <2>2. Got(Line) = Strip(up.sent, key.pairs)
    <3>1. CASE key.pairs = <<>>
      BY <3>1 DEF Faithful, Strip
    <3>2. CASE key.pairs # <<>>
      BY <2>1, <3>2 DEF Faithful, Scanned
    <3>3. QED
      BY <3>1, <3>2
  <2>3. CASE key.scripts = <<>>
    <3>1. Got(Line) = client.text
      BY <2>1, <2>3 DEF Got
    <3>2. Got(Line) \in Text
      BY GotIs DEF Typed
    <3>3. Transformed(Got(Line)) = Got(Line)
      BY <2>1, <2>3, <3>2, TransformedIs DEF KeyOK
    <3>4. QED
      BY <2>2, <3>1, <3>3
  <2>4. CASE key.scripts # <<>>
    <3>1. Got(Line) = rx.raw
      BY <2>1, <2>4 DEF Got
    <3>2. rx.flushed /\ Balance(rx, client.text)
      BY <2>1, <2>4 DEF Kept, Balanced
    <3>3. ~rx.passthrough /\ IsPrefix(rx.done, Transformed(rx.raw))
      BY DEF Outrun
    <3>4. client.text = Transformed(rx.raw)
      BY <3>2, <3>3 DEF Balance
    <3>5. QED
      BY <2>2, <3>1, <3>4
  <2>5. QED
    BY <2>3, <2>4
<1>4. QED
  BY <1>1, <1>2, <1>3, PTL DEF Spec
=============================================================================
