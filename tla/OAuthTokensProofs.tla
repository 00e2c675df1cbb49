------------------------- MODULE OAuthTokensProofs -------------------------
(***************************************************************************)
(* Proofs about OAuthTokens, for any number of connections, concurrent     *)
(* refreshes and issued pairs.                                             *)
(*                                                                         *)
(* SessionSurvives is not inductive.  Why a stored token is honoured, or   *)
(* its successor under way, is that of a connection's pairs only the       *)
(* newest counts: a call can be granted only with that one, which nobody   *)
(* else can have been granted with before, so there is at most one answer  *)
(* under way and it carries the newest pair (NewestUnderWay).  At a        *)
(* provider that goes on honouring older tokens this needs that no two     *)
(* calls overlap (Ordered).                                                *)
(***************************************************************************)
EXTENDS OAuthTokens, TLAPS

InFlight(r, c) == call[r].pc # "idle" /\ call[r].conn = c

(* Nothing is known of a connection id that was never given out, or whose  *)
(* login a crash has cut in two.                                           *)
Untouched(c) ==
  c \notin used \/ c \in torn =>
    /\ row[c] = NoRow /\ live[c] = {} /\ issued[c] = 0
    /\ c \in torn => c \in used
    /\ \A r \in Refreshes : ~InFlight(r, c)
    /\ \A m \in adrift : m.conn # c

(* No token is newer than the last one issued, and only a provider that    *)
(* honours older tokens for a while honours any other.                     *)
Bounded(c) ==
  /\ row[c] <= issued[c]
  /\ \A t \in live[c] : 1 <= t /\ t <= issued[c]
  /\ policy[c] # "overlaps" => live[c] \subseteq {issued[c]}
  /\ \A r \in Refreshes : InFlight(r, c) => call[r].sent >= 1 /\ call[r].sent <= issued[c]
  /\ \A m \in adrift : m.conn = c => m.sent >= 1 /\ m.sent <= issued[c]

(* Only a provider that revokes forgets the newest token.                  *)
Honoured(c) ==
  /\ policy[c] = "keeps" => issued[c] <= 1
  /\ policy[c] # "revokes" /\ issued[c] # 0 => issued[c] \in live[c]

(* The answers of a connection's calls come in the order of their pairs.   *)
Ordered(c) == policy[c] = "overlaps" => c \notin overlap

NewestUnderWay(c) ==
  \A r \in Refreshes :
    InFlight(r, c) /\ call[r].pc = "granted" =>
      /\ call[r].got >= 1 /\ call[r].got <= issued[c]
      /\ Ordered(c) =>
           /\ call[r].got = issued[c]
           /\ policy[c] # "keeps" =>
                /\ row[c] < issued[c]
                /\ \A s \in Refreshes :
                     InFlight(s, c) =>
                       call[s].sent < issued[c] /\ (call[s].pc = "granted" => s = r)
                /\ \A m \in adrift : m.conn = c => m.sent < issued[c]

(* Without an overlap there is one request at most, sent with the token    *)
(* that is stored.                                                         *)
Alone(c) ==
  c \notin overlap =>
    /\ \A r, s \in Refreshes : InFlight(r, c) /\ InFlight(s, c) => r = s
    /\ \A m, n \in adrift : m.conn = c /\ n.conn = c => m = n
    /\ \A r \in Refreshes, m \in adrift : ~(InFlight(r, c) /\ m.conn = c)
    /\ row[c] # NoRow =>
         /\ \A r \in Refreshes : InFlight(r, c) => call[r].sent = row[c]
         /\ \A m \in adrift : m.conn = c => m.sent = row[c]

Matched(c) ==
  /\ row[c] # NoRow => c \in exists
  /\ c \in exists /\ row[c] = NoRow => c \in torn

Survives(c) ==
  (/\ row[c] # NoRow
   /\ c \notin lost
   /\ policy[c] \in {"revokes", "overlaps"} => c \notin overlap)
     => row[c] \in live[c] \/ \E r \in Refreshes : Carries(r, c)

(* When the older tokens retire, the newest is stored or under way.        *)
Latest(c) ==
  (/\ policy[c] = "overlaps" /\ c \notin overlap
   /\ row[c] # NoRow /\ c \notin lost)
     => row[c] = issued[c] \/ \E r \in Refreshes : Carries(r, c)

ConnInv(c) ==
  /\ Untouched(c) /\ Bounded(c) /\ Honoured(c) /\ NewestUnderWay(c)
  /\ Alone(c) /\ Matched(c) /\ Survives(c) /\ Latest(c)

TokenInv == TokenTypeOK /\ \A c \in Conns : ConnInv(c)

-----------------------------------------------------------------------------
(* The types hold initially, and every step keeps them.                    *)
LEMMA TypesInit == TokenInit => TokenTypeOK
BY OAuthTokensAssumption DEF TokenInit, TokenTypeOK, IdleCall, Calls, NoRow

LEMMA TypesKept == TokenTypeOK /\ [Next]_tokenVars => TokenTypeOK'
<1> SUFFICES ASSUME TokenTypeOK, [Next]_tokenVars PROVE TokenTypeOK'
  OBVIOUS
<1> USE OAuthTokensAssumption
<1>1. ASSUME NEW c \in Conns, Login(c) PROVE TokenTypeOK'
  BY <1>1 DEF TokenTypeOK, Login, Upsert, NoRow
<1>2. ASSUME NEW c \in Conns, Delete(c) PROVE TokenTypeOK'
  BY <1>2 DEF TokenTypeOK, Delete, NoRow
<1>3. ASSUME NEW r \in Refreshes, NEW c \in Conns, Ask(r, c) PROVE TokenTypeOK'
  BY <1>3 DEF TokenTypeOK, Ask, NoRow, Calls
<1>4. ASSUME NEW r \in Refreshes, Grant(r) PROVE TokenTypeOK'
  <2>1. call' \in [Refreshes -> Calls]
    <3>1. Successor(call[r].conn, call[r].sent) \in Nat
      BY <1>4 DEF TokenTypeOK, Grant, Calls, Successor
    <3>2. PICK n \in Nat : call' = [call EXCEPT ![r].pc = "granted", ![r].got = n]
      BY <1>4, <3>1 DEF Grant
    <3>3. [call[r] EXCEPT !.pc = "granted", !.got = n] \in Calls
      BY <3>2 DEF TokenTypeOK, Calls
    <3>4. call' = [call EXCEPT ![r] = [call[r] EXCEPT !.pc = "granted", !.got = n]]
      BY <3>2 DEF TokenTypeOK
    <3>5. QED
      BY <3>3, <3>4 DEF TokenTypeOK
  <2>2. QED
    BY <1>4, <2>1 DEF TokenTypeOK, Grant, Honour, NoRow, Calls
<1>5. ASSUME NEW r \in Refreshes, Deny(r) PROVE TokenTypeOK'
  BY <1>5 DEF TokenTypeOK, Deny, Reject, NoRow, Calls
<1>6. ASSUME NEW r \in Refreshes, GiveUp(r) PROVE TokenTypeOK'
  BY <1>6 DEF TokenTypeOK, GiveUp, IdleCall, NoRow, Calls
<1>7. ASSUME NEW r \in Refreshes, Store(r) PROVE TokenTypeOK'
  BY <1>7 DEF TokenTypeOK, Store, Upsert, IdleCall, NoRow, Calls
<1>8. ASSUME NEW r \in Refreshes, StoreFails(r) PROVE TokenTypeOK'
  BY <1>8 DEF TokenTypeOK, StoreFails, IdleCall, NoRow, Calls
<1>9. ASSUME NEW r \in Refreshes, Timeout(r) PROVE TokenTypeOK'
  <2>1. adrift' \subseteq [conn : Conns, sent : Nat] /\ lost' \subseteq Conns
    BY <1>9 DEF TokenTypeOK, Timeout, Forsaken, Unstored, Calls
  <2>2. QED
    BY <1>9, <2>1 DEF TokenTypeOK, Timeout, IdleCall, NoRow, Calls
<1>10. ASSUME NEW m \in adrift, HandleAdrift(m) PROVE TokenTypeOK'
  BY <1>10 DEF TokenTypeOK, HandleAdrift, Honour, Reject, NoRow
<1>11. ASSUME DropCalls PROVE /\ adrift' \subseteq [conn : Conns, sent : Nat]
                              /\ lost' \subseteq Conns
                              /\ call' \in [Refreshes -> Calls]
                              /\ \A r \in Refreshes : call'[r].pc = "idle"
  <2>1. \A r \in Refreshes : /\ Forsaken(call[r]) \subseteq [conn : Conns, sent : Nat]
                             /\ Unstored(call[r]) \subseteq Conns
    BY DEF TokenTypeOK, Forsaken, Unstored, Calls
  <2>2. QED
    BY <1>11, <2>1 DEF TokenTypeOK, DropCalls, IdleCall, NoRow, Calls
<1>12. CASE Crash
  BY <1>11, <1>12 DEF TokenTypeOK, Crash
<1>13. ASSUME NEW c \in Conns, CrashInLogin(c) PROVE TokenTypeOK'
  BY <1>11, <1>13 DEF TokenTypeOK, CrashInLogin
<1>14. ASSUME NEW c \in Conns, Retire(c) PROVE TokenTypeOK'
  BY <1>14 DEF TokenTypeOK, Retire
<1>15. CASE UNCHANGED tokenVars
  BY <1>15 DEF TokenTypeOK, tokenVars
<1>16. QED
  BY <1>1, <1>2, <1>3, <1>4, <1>5, <1>6, <1>7, <1>8, <1>9, <1>10, <1>12, <1>13, <1>14,
     <1>15
  DEF Next, RefreshNext, Return

(* Type correctness of the token table, its calls and the provider.        *)
THEOREM TokensTyped == TokenSpec => []TokenTypeOK
BY TypesInit, TypesKept, PTL DEF TokenSpec

-----------------------------------------------------------------------------
(* A login takes a fresh id and its first pair is the newest.              *)
LEMMA LoginKeeps ==
  ASSUME TokenInv, TokenTypeOK', NEW d \in Conns, Login(d),
         NEW c \in Conns
  PROVE  ConnInv(c)'
<1> USE OAuthTokensAssumption DEF NoRow
<1>0. TokenTypeOK /\ ConnInv(c)
  BY DEF TokenInv
<1>1. Untouched(c)'
  BY <1>0 DEF TokenTypeOK, ConnInv, Untouched, InFlight, Login, Upsert
<1>2. Bounded(c)'
  BY <1>0 DEF TokenTypeOK, Calls, ConnInv, Untouched, Bounded, InFlight,
     Login, Upsert
<1>3. Honoured(c)'
  BY <1>0 DEF TokenTypeOK, ConnInv, Honoured, Login, Upsert
<1>4. NewestUnderWay(c)'
  BY <1>0 DEF TokenTypeOK, Calls, ConnInv, Untouched, Bounded, InFlight,
     NewestUnderWay, Ordered, Login, Upsert
<1>5. Alone(c)'
  BY <1>0 DEF TokenTypeOK, Calls, ConnInv, Untouched, Bounded, InFlight,
     Alone, Login, Upsert
<1>6. Matched(c)'
  BY <1>0 DEF TokenTypeOK, ConnInv, Matched, Login, Upsert
<1>7. Survives(c)'
  BY <1>0 DEF TokenTypeOK, ConnInv, Survives, Login, Upsert, Carries
<1>8. Latest(c)'
  BY <1>0 DEF TokenTypeOK, ConnInv, Latest, Carries, Login, Upsert
<1>9. QED
  BY <1>1, <1>2, <1>3, <1>4, <1>5, <1>6, <1>7, <1>8 DEF ConnInv

(* A deletion takes the token row along, so nothing is promised of it.     *)
LEMMA DeleteKeeps ==
  ASSUME TokenInv, TokenTypeOK', NEW d \in Conns, Delete(d),
         NEW c \in Conns
  PROVE  ConnInv(c)'
<1> USE OAuthTokensAssumption DEF NoRow
<1>0. TokenTypeOK /\ ConnInv(c)
  BY DEF TokenInv
<1>1. Untouched(c)'
  BY <1>0 DEF TokenTypeOK, ConnInv, Untouched, InFlight, Delete
<1>2. Bounded(c)'
  BY <1>0 DEF TokenTypeOK, ConnInv, Bounded, InFlight, Delete
<1>3. Honoured(c)'
  BY <1>0 DEF TokenTypeOK, ConnInv, Honoured, Delete
<1>4. NewestUnderWay(c)'
  BY <1>0 DEF TokenTypeOK, ConnInv, NewestUnderWay, Ordered, InFlight, Delete
<1>5. Alone(c)'
  BY <1>0 DEF TokenTypeOK, ConnInv, Alone, InFlight, Delete
<1>6. Matched(c)'
  BY <1>0 DEF TokenTypeOK, ConnInv, Matched, Delete
<1>7. Survives(c)'
  BY <1>0 DEF TokenTypeOK, ConnInv, Survives, Delete, Carries
<1>8. Latest(c)'
  BY <1>0 DEF TokenTypeOK, ConnInv, Latest, Carries, Delete
<1>9. QED
  BY <1>1, <1>2, <1>3, <1>4, <1>5, <1>6, <1>7, <1>8 DEF ConnInv

(* A request sends the stored token; a second one is an overlap.           *)
LEMMA AskKeeps ==
  ASSUME TokenInv, TokenTypeOK', NEW q \in Refreshes, NEW d \in Conns, Ask(q, d),
         NEW c \in Conns
  PROVE  ConnInv(c)'
<1> USE OAuthTokensAssumption DEF NoRow
<1>0. TokenTypeOK /\ ConnInv(c)
  BY DEF TokenInv
<1>1. Untouched(c)'
  BY <1>0 DEF TokenTypeOK, ConnInv, Untouched, InFlight, Ask
<1>2. Bounded(c)'
  BY <1>0 DEF TokenTypeOK, ConnInv, Bounded, InFlight, Ask
<1>3. Honoured(c)'
  BY <1>0 DEF TokenTypeOK, ConnInv, Honoured, Ask
<1>4. NewestUnderWay(c)'
  BY <1>0 DEF TokenTypeOK, ConnInv, NewestUnderWay, Ordered, InFlight, Ask
<1>5. Alone(c)'
  BY <1>0 DEF TokenTypeOK, ConnInv, Alone, InFlight, Ask
<1>6. Matched(c)'
  BY <1>0 DEF TokenTypeOK, ConnInv, Matched, Ask
<1>7. Survives(c)'
  BY <1>0 DEF TokenTypeOK, ConnInv, Survives, Ask, Carries
<1>8. Latest(c)'
  BY <1>0 DEF TokenTypeOK, Calls, ConnInv, Untouched, Bounded, Honoured,
     NewestUnderWay, Ordered, Alone, Matched, Latest, InFlight, Carries,
     Ask
<1>9. QED
  BY <1>1, <1>2, <1>3, <1>4, <1>5, <1>6, <1>7, <1>8 DEF ConnInv

(* Only the newest token is honoured, so no other answer is under way.     *)
LEMMA GrantKeeps ==
  ASSUME TokenInv, TokenTypeOK', NEW q \in Refreshes, Grant(q),
         NEW c \in Conns
  PROVE  ConnInv(c)'
<1> USE OAuthTokensAssumption DEF NoRow
<1>0. TokenTypeOK /\ ConnInv(c)
  BY DEF TokenInv
<1>1. Untouched(c)'
  BY <1>0 DEF TokenTypeOK, ConnInv, Untouched, InFlight, Grant, Honours,
     Honour, Successor
<1>2. Bounded(c)'
  BY <1>0 DEF TokenTypeOK, Calls, ConnInv, Untouched, Bounded, InFlight,
     Grant, Honours, Honour, Successor
<1>3. Honoured(c)'
  BY <1>0 DEF TokenTypeOK, ConnInv, Honoured, Grant, Honours, Honour,
     Successor
<1>4. NewestUnderWay(c)'
  <2>1. CASE call[q].conn # c
    BY <1>0, <2>1 DEF TokenTypeOK, Calls, ConnInv, NewestUnderWay, Ordered, InFlight,
       Grant, Honour
  <2>2. CASE call[q].conn = c /\ policy[c] # "overlaps"
    BY <1>0, <2>2 DEF TokenTypeOK, Calls, ConnInv, Untouched, Bounded, InFlight,
       NewestUnderWay, Ordered, Grant, Honours, Honour, Successor
  <2>3. CASE call[q].conn = c /\ policy[c] = "overlaps"
    <3>1. /\ issued'[c] = issued[c] + 1 /\ issued[c] \in Nat
          /\ UNCHANGED <<row, policy, adrift, overlap>>
          /\ call'[q].got = issued[c] + 1 /\ call'[q].conn = c
          /\ call'[q].sent = call[q].sent
          /\ \A s \in Refreshes : s # q => call'[s] = call[s]
      BY <1>0, <2>3 DEF TokenTypeOK, Grant, Honour, Successor
    <3>2. /\ row[c] <= issued[c] /\ row[c] \in Nat
          /\ call[q].sent <= issued[c] /\ call[q].sent \in Nat
      BY <1>0, <2>3 DEF TokenTypeOK, Calls, ConnInv, Bounded, InFlight, Grant
    <3>3. ASSUME NEW r \in Refreshes, InFlight(r, c)', call'[r].pc = "granted"
          PROVE  call'[r].got >= 1 /\ call'[r].got <= issued'[c]
      <4>1. CASE r = q
        BY <3>1, <4>1
      <4>2. CASE r # q
        <5>1. call[r].got >= 1 /\ call[r].got <= issued[c] /\ call[r].got \in Nat
          BY <1>0, <3>1, <3>3, <4>2 DEF TokenTypeOK, Calls, ConnInv, NewestUnderWay, InFlight
        <5>2. QED
          BY <3>1, <4>2, <5>1
      <4>3. QED
        BY <4>1, <4>2
    <3>4. ASSUME Ordered(c)'
          PROVE  /\ \A r \in Refreshes : InFlight(r, c)' => r = q
                 /\ \A m \in adrift' : m.conn # c
      BY <1>0, <2>3, <3>1, <3>4 DEF ConnInv, Alone, Ordered, InFlight, Grant
    <3>5. row'[c] < issued'[c] /\ call'[q].sent < issued'[c]
      BY <3>1, <3>2
    <3>6. QED
      BY <3>1, <3>3, <3>4, <3>5 DEF NewestUnderWay
  <2>4. QED
    BY <2>1, <2>2, <2>3
<1>5. Alone(c)'
  BY <1>0 DEF TokenTypeOK, ConnInv, Alone, InFlight, Grant, Honours, Honour,
     Successor
<1>6. Matched(c)'
  BY <1>0 DEF TokenTypeOK, ConnInv, Matched, Grant, Honours, Honour,
     Successor
<1>7. Survives(c)'
  BY <1>0 DEF TokenTypeOK, ConnInv, Survives, Grant, Honours, Honour,
     Successor, Carries
<1>8. Latest(c)'
  BY <1>0 DEF TokenTypeOK, Calls, ConnInv, Untouched, Bounded, Honoured,
     NewestUnderWay, Ordered, Alone, Matched, Latest, InFlight, Carries,
     Grant, Honours, Honour, Successor
<1>9. QED
  BY <1>1, <1>2, <1>3, <1>4, <1>5, <1>6, <1>7, <1>8 DEF ConnInv

(* A refusal costs the login only at a provider that revokes.              *)
LEMMA DenyKeeps ==
  ASSUME TokenInv, TokenTypeOK', NEW q \in Refreshes, Deny(q),
         NEW c \in Conns
  PROVE  ConnInv(c)'
<1> USE OAuthTokensAssumption DEF NoRow
<1>0. TokenTypeOK /\ ConnInv(c)
  BY DEF TokenInv
<1>1. Untouched(c)'
  BY <1>0 DEF TokenTypeOK, ConnInv, Untouched, InFlight, Deny, Honours,
     Reject
<1>2. Bounded(c)'
  BY <1>0 DEF TokenTypeOK, ConnInv, Bounded, InFlight, Deny, Honours, Reject
<1>3. Honoured(c)'
  BY <1>0 DEF TokenTypeOK, ConnInv, Honoured, Deny, Honours, Reject
<1>4. NewestUnderWay(c)'
  BY <1>0 DEF TokenTypeOK, ConnInv, NewestUnderWay, Ordered, InFlight, Deny, Honours,
     Reject
<1>5. Alone(c)'
  BY <1>0 DEF TokenTypeOK, ConnInv, Alone, InFlight, Deny, Honours, Reject
<1>6. Matched(c)'
  BY <1>0 DEF TokenTypeOK, ConnInv, Matched, Deny, Honours, Reject
<1>7. Survives(c)'
  BY <1>0 DEF TokenTypeOK, Calls, AllPolicies, ConnInv, Untouched, Bounded,
     Honoured, NewestUnderWay, Ordered, Alone, Matched, Survives, InFlight, Carries,
     Deny, Honours, Reject
<1>8. Latest(c)'
  BY <1>0 DEF TokenTypeOK, Calls, ConnInv, Untouched, Bounded, Honoured,
     NewestUnderWay, Ordered, Alone, Matched, Latest, InFlight, Carries,
     Deny, Honours, Reject
<1>9. QED
  BY <1>1, <1>2, <1>3, <1>4, <1>5, <1>6, <1>7, <1>8 DEF ConnInv

(* A refused call ends and has changed nothing.                            *)
LEMMA GiveUpKeeps ==
  ASSUME TokenInv, TokenTypeOK', NEW q \in Refreshes, GiveUp(q),
         NEW c \in Conns
  PROVE  ConnInv(c)'
<1> USE OAuthTokensAssumption DEF NoRow
<1>0. TokenTypeOK /\ ConnInv(c)
  BY DEF TokenInv
<1>1. Untouched(c)'
  BY <1>0 DEF TokenTypeOK, ConnInv, Untouched, InFlight, GiveUp, IdleCall
<1>2. Bounded(c)'
  BY <1>0 DEF TokenTypeOK, ConnInv, Bounded, InFlight, GiveUp, IdleCall
<1>3. Honoured(c)'
  BY <1>0 DEF TokenTypeOK, ConnInv, Honoured, GiveUp, IdleCall
<1>4. NewestUnderWay(c)'
  BY <1>0 DEF TokenTypeOK, ConnInv, NewestUnderWay, Ordered, InFlight, GiveUp,
     IdleCall
<1>5. Alone(c)'
  BY <1>0 DEF TokenTypeOK, ConnInv, Alone, InFlight, GiveUp, IdleCall
<1>6. Matched(c)'
  BY <1>0 DEF TokenTypeOK, ConnInv, Matched, GiveUp, IdleCall
<1>7. Survives(c)'
  BY <1>0 DEF TokenTypeOK, ConnInv, Survives, GiveUp, IdleCall, Carries
<1>8. Latest(c)'
  BY <1>0 DEF TokenTypeOK, ConnInv, Latest, Carries, GiveUp, IdleCall
<1>9. QED
  BY <1>1, <1>2, <1>3, <1>4, <1>5, <1>6, <1>7, <1>8 DEF ConnInv

(* What is stored is the newest pair, so it is what the provider honours.  *)
LEMMA StoreKeeps ==
  ASSUME TokenInv, TokenTypeOK', NEW q \in Refreshes, Store(q),
         NEW c \in Conns
  PROVE  ConnInv(c)'
<1> USE OAuthTokensAssumption DEF NoRow
<1>0. TokenTypeOK /\ ConnInv(c)
  BY DEF TokenInv
<1>1. Untouched(c)'
  BY <1>0 DEF TokenTypeOK, ConnInv, Untouched, InFlight, Store, Upsert,
     IdleCall
<1>2. Bounded(c)'
  BY <1>0 DEF TokenTypeOK, Calls, AllPolicies, ConnInv, Untouched, Bounded,
     Honoured, NewestUnderWay, Ordered, Matched, Survives, InFlight, Carries, Store,
     Upsert, IdleCall
<1>3. Honoured(c)'
  BY <1>0 DEF TokenTypeOK, ConnInv, Honoured, Store, Upsert, IdleCall
<1>4. NewestUnderWay(c)'
  BY <1>0 DEF TokenTypeOK, ConnInv, NewestUnderWay, Ordered, InFlight, Store, Upsert,
     IdleCall
<1>5. Alone(c)'
  BY <1>0 DEF TokenTypeOK, ConnInv, Alone, InFlight, Store, Upsert, IdleCall
<1>6. Matched(c)'
  BY <1>0 DEF TokenTypeOK, Calls, AllPolicies, ConnInv, Untouched, Bounded,
     Honoured, NewestUnderWay, Ordered, Matched, Survives, InFlight, Carries, Store,
     Upsert, IdleCall
<1>7. Survives(c)'
  <2>1. CASE call[q].conn # c
    BY <1>0, <2>1 DEF TokenTypeOK, Calls, ConnInv, Survives, Carries, Store, Upsert, IdleCall
  <2>2. CASE call[q].conn = c /\ ~Ordered(c)
    BY <2>2 DEF Survives, Ordered, Store
  <2>3. CASE call[q].conn = c /\ Ordered(c)
    <3>1. row'[c] = issued[c] /\ live' = live
      BY <1>0, <2>3 DEF TokenTypeOK, ConnInv, NewestUnderWay, InFlight, Store, Upsert
    <3>2. ASSUME policy[c] # "revokes", row'[c] # NoRow PROVE row'[c] \in live'[c]
      BY <1>0, <3>1, <3>2 DEF ConnInv, Honoured
    <3>3. ASSUME policy[c] = "revokes", c \notin lost, c \notin overlap
          PROVE  row'[c] \in live'[c]
      <4>1. row[c] # NoRow
        BY <1>0, <2>3 DEF ConnInv, Untouched, Matched, InFlight, Store
      <4>2. PICK s \in Refreshes : Carries(s, c)
        BY <1>0, <2>3, <3>3, <4>1
        DEF TokenTypeOK, ConnInv, Survives, NewestUnderWay, Ordered, Bounded, InFlight, Store
      <4>3. s = q
        BY <1>0, <2>3, <3>3, <4>2 DEF ConnInv, NewestUnderWay, Carries, InFlight, Store
      <4>4. QED
        BY <2>3, <3>1, <4>2, <4>3, <1>0 DEF ConnInv, NewestUnderWay, Carries, InFlight, Store
    <3>4. QED
      BY <1>0, <3>2, <3>3 DEF Survives, Store, TokenTypeOK
  <2>4. QED
    BY <2>1, <2>2, <2>3
<1>8. Latest(c)'
  <2>1. CASE call[q].conn # c
    BY <1>0, <2>1 DEF TokenTypeOK, Calls, ConnInv, Latest, Carries, Store, Upsert, IdleCall
  <2>2. CASE call[q].conn = c /\ ~Ordered(c)
    BY <2>2 DEF Latest, Ordered, Store
  <2>3. CASE call[q].conn = c /\ Ordered(c)
    BY <1>0, <2>3 DEF TokenTypeOK, ConnInv, NewestUnderWay, InFlight, Latest, Store, Upsert
  <2>4. QED
    BY <2>1, <2>2, <2>3
<1>9. QED
  BY <1>1, <1>2, <1>3, <1>4, <1>5, <1>6, <1>7, <1>8 DEF ConnInv

(* The connection is gone, and with it the row the call would have written. *)
LEMMA StoreFailsKeeps ==
  ASSUME TokenInv, TokenTypeOK', NEW q \in Refreshes, StoreFails(q),
         NEW c \in Conns
  PROVE  ConnInv(c)'
<1> USE OAuthTokensAssumption DEF NoRow
<1>0. TokenTypeOK /\ ConnInv(c)
  BY DEF TokenInv
<1>1. Untouched(c)'
  BY <1>0 DEF TokenTypeOK, ConnInv, Untouched, InFlight, StoreFails,
     IdleCall
<1>2. Bounded(c)'
  BY <1>0 DEF TokenTypeOK, ConnInv, Bounded, InFlight, StoreFails, IdleCall
<1>3. Honoured(c)'
  BY <1>0 DEF TokenTypeOK, ConnInv, Honoured, StoreFails, IdleCall
<1>4. NewestUnderWay(c)'
  BY <1>0 DEF TokenTypeOK, ConnInv, NewestUnderWay, Ordered, InFlight, StoreFails,
     IdleCall
<1>5. Alone(c)'
  BY <1>0 DEF TokenTypeOK, ConnInv, Alone, InFlight, StoreFails, IdleCall
<1>6. Matched(c)'
  BY <1>0 DEF TokenTypeOK, ConnInv, Matched, StoreFails, IdleCall
<1>7. Survives(c)'
  BY <1>0 DEF TokenTypeOK, Calls, AllPolicies, ConnInv, Untouched, Bounded,
     Honoured, NewestUnderWay, Ordered, Matched, Survives, InFlight, Carries,
     StoreFails, IdleCall
<1>8. Latest(c)'
  BY <1>0 DEF TokenTypeOK, Calls, ConnInv, Untouched, Bounded, Honoured,
     NewestUnderWay, Ordered, Alone, Matched, Latest, InFlight, Carries,
     StoreFails, IdleCall
<1>9. QED
  BY <1>1, <1>2, <1>3, <1>4, <1>5, <1>6, <1>7, <1>8 DEF ConnInv

(* A call that is abandoned leaves a request adrift or loses its pair.     *)
LEMMA TimeoutKeeps ==
  ASSUME TokenInv, TokenTypeOK', NEW q \in Refreshes, Timeout(q),
         NEW c \in Conns
  PROVE  ConnInv(c)'
<1> USE OAuthTokensAssumption DEF NoRow
<1>0. TokenTypeOK /\ ConnInv(c)
  BY DEF TokenInv
<1>1. Untouched(c)'
  BY <1>0 DEF TokenTypeOK, ConnInv, Untouched, InFlight, Timeout, IdleCall,
     Forsaken, Unstored
<1>2. Bounded(c)'
  BY <1>0 DEF TokenTypeOK, ConnInv, Bounded, InFlight, Timeout, IdleCall,
     Forsaken, Unstored
<1>3. Honoured(c)'
  BY <1>0 DEF TokenTypeOK, ConnInv, Honoured, Timeout, IdleCall, Forsaken,
     Unstored
<1>4. NewestUnderWay(c)'
  BY <1>0 DEF TokenTypeOK, ConnInv, NewestUnderWay, Ordered, InFlight, Timeout,
     IdleCall, Forsaken, Unstored
<1>5. Alone(c)'
  BY <1>0 DEF TokenTypeOK, ConnInv, Alone, InFlight, Timeout, IdleCall,
     Forsaken, Unstored
<1>6. Matched(c)'
  BY <1>0 DEF TokenTypeOK, ConnInv, Matched, Timeout, IdleCall, Forsaken,
     Unstored
<1>7. Survives(c)'
  BY <1>0 DEF TokenTypeOK, ConnInv, Survives, Timeout, IdleCall, Forsaken,
     Unstored, Carries
<1>8. Latest(c)'
  BY <1>0 DEF TokenTypeOK, ConnInv, Latest, Carries, Timeout, IdleCall,
     Forsaken, Unstored
<1>9. QED
  BY <1>1, <1>2, <1>3, <1>4, <1>5, <1>6, <1>7, <1>8 DEF ConnInv

(* A request adrift that is granted loses the pair.                        *)
LEMMA HandleAdriftKeeps ==
  ASSUME TokenInv, TokenTypeOK', NEW k \in adrift, HandleAdrift(k),
         NEW c \in Conns
  PROVE  ConnInv(c)'
<1> USE OAuthTokensAssumption DEF NoRow
<1>0. TokenTypeOK /\ ConnInv(c)
  BY DEF TokenInv
<1>1. Untouched(c)'
  BY <1>0 DEF TokenTypeOK, ConnInv, Untouched, InFlight, HandleAdrift,
     Honours, Honour, Reject
<1>2. Bounded(c)'
  BY <1>0 DEF TokenTypeOK, Calls, ConnInv, Untouched, Bounded, InFlight,
     HandleAdrift, Honours, Honour, Reject
<1>3. Honoured(c)'
  BY <1>0 DEF TokenTypeOK, ConnInv, Honoured, HandleAdrift, Honours, Honour,
     Reject
<1>4. NewestUnderWay(c)'
  <2>1. CASE k.conn # c
    BY <1>0, <2>1 DEF TokenTypeOK, Calls, ConnInv, NewestUnderWay, Ordered, InFlight,
       HandleAdrift, Honour, Reject
  <2>2. CASE k.conn = c /\ policy[c] # "overlaps"
    BY <1>0, <2>2 DEF TokenTypeOK, Calls, ConnInv, Untouched, Bounded, InFlight,
       NewestUnderWay, Ordered, HandleAdrift, Honours, Honour, Reject
  <2>3. CASE k.conn = c /\ policy[c] = "overlaps"
    <3>1. /\ UNCHANGED <<call, policy, overlap>>
          /\ issued[c] \in Nat /\ (issued'[c] = issued[c] \/ issued'[c] = issued[c] + 1)
      BY <1>0, <2>3 DEF TokenTypeOK, HandleAdrift, Honour, Reject
    <3>2. ASSUME NEW r \in Refreshes, InFlight(r, c)', call'[r].pc = "granted"
          PROVE  call'[r].got >= 1 /\ call'[r].got <= issued'[c]
      <4>1. call[r].got >= 1 /\ call[r].got <= issued[c] /\ call[r].got \in Nat
        BY <1>0, <3>1, <3>2 DEF TokenTypeOK, Calls, ConnInv, NewestUnderWay, InFlight
      <4>2. QED
        BY <3>1, <4>1
    <3>3. ASSUME NEW r \in Refreshes, InFlight(r, c)'
          PROVE  ~Ordered(c)'
      BY <1>0, <2>3, <3>1, <3>3 DEF ConnInv, Alone, Ordered, InFlight
    <3>4. QED
      BY <3>2, <3>3 DEF NewestUnderWay
  <2>4. QED
    BY <2>1, <2>2, <2>3
<1>5. Alone(c)'
  BY <1>0 DEF TokenTypeOK, ConnInv, Alone, InFlight, HandleAdrift, Honours,
     Honour, Reject
<1>6. Matched(c)'
  BY <1>0 DEF TokenTypeOK, ConnInv, Matched, HandleAdrift, Honours, Honour,
     Reject
<1>7. Survives(c)'
  BY <1>0 DEF TokenTypeOK, Calls, AllPolicies, ConnInv, Untouched, Bounded,
     Honoured, NewestUnderWay, Ordered, Alone, Matched, Survives, InFlight, Carries,
     HandleAdrift, Honours, Honour, Reject
<1>8. Latest(c)'
  BY <1>0 DEF TokenTypeOK, Calls, ConnInv, Untouched, Bounded, Honoured,
     NewestUnderWay, Ordered, Alone, Matched, Latest, InFlight, Carries,
     HandleAdrift, Honours, Honour, Reject
<1>9. QED
  BY <1>1, <1>2, <1>3, <1>4, <1>5, <1>6, <1>7, <1>8 DEF ConnInv

(* A crash abandons every call.                                            *)
LEMMA CrashKeeps ==
  ASSUME TokenInv, TokenTypeOK', Crash,
         NEW c \in Conns
  PROVE  ConnInv(c)'
<1> USE OAuthTokensAssumption DEF NoRow
<1>0. TokenTypeOK /\ ConnInv(c)
  BY DEF TokenInv
<1>1. Untouched(c)'
  BY <1>0 DEF TokenTypeOK, ConnInv, Untouched, InFlight, Crash, DropCalls,
     IdleCall, Forsaken, Unstored
<1>2. Bounded(c)'
  BY <1>0 DEF TokenTypeOK, ConnInv, Bounded, InFlight, Crash, DropCalls,
     IdleCall, Forsaken, Unstored
<1>3. Honoured(c)'
  BY <1>0 DEF TokenTypeOK, ConnInv, Honoured, Crash, DropCalls, IdleCall,
     Forsaken, Unstored
<1>4. NewestUnderWay(c)'
  BY <1>0 DEF TokenTypeOK, ConnInv, NewestUnderWay, Ordered, Crash, DropCalls,
     IdleCall, Forsaken, Unstored
<1>5. Alone(c)'
  BY <1>0 DEF TokenTypeOK, ConnInv, Alone, InFlight, Crash, DropCalls,
     IdleCall, Forsaken, Unstored
<1>6. Matched(c)'
  BY <1>0 DEF TokenTypeOK, ConnInv, Matched, Crash, DropCalls, IdleCall,
     Forsaken, Unstored
<1>7. Survives(c)'
  BY <1>0 DEF TokenTypeOK, ConnInv, Survives, Crash, DropCalls, IdleCall,
     Forsaken, Unstored, Carries
<1>8. Latest(c)'
  BY <1>0 DEF TokenTypeOK, ConnInv, Latest, Carries, Crash, DropCalls,
     IdleCall, Forsaken, Unstored
<1>9. QED
  BY <1>1, <1>2, <1>3, <1>4, <1>5, <1>6, <1>7, <1>8 DEF ConnInv

(* A crash between the two inserts leaves a connection nobody refreshes.   *)
LEMMA CrashInLoginKeeps ==
  ASSUME TokenInv, TokenTypeOK', NEW d \in Conns, CrashInLogin(d),
         NEW c \in Conns
  PROVE  ConnInv(c)'
<1> USE OAuthTokensAssumption DEF NoRow
<1>0. TokenTypeOK /\ ConnInv(c)
  BY DEF TokenInv
<1>1. Untouched(c)'
  BY <1>0 DEF TokenTypeOK, ConnInv, Untouched, InFlight, CrashInLogin,
     DropCalls, IdleCall, Forsaken, Unstored
<1>2. Bounded(c)'
  BY <1>0 DEF TokenTypeOK, ConnInv, Bounded, InFlight, CrashInLogin,
     DropCalls, IdleCall, Forsaken, Unstored
<1>3. Honoured(c)'
  BY <1>0 DEF TokenTypeOK, ConnInv, Honoured, CrashInLogin, DropCalls,
     IdleCall, Forsaken, Unstored
<1>4. NewestUnderWay(c)'
  BY <1>0 DEF TokenTypeOK, ConnInv, NewestUnderWay, Ordered, CrashInLogin, DropCalls,
     IdleCall, Forsaken, Unstored
<1>5. Alone(c)'
  BY <1>0 DEF TokenTypeOK, ConnInv, Alone, InFlight, CrashInLogin,
     DropCalls, IdleCall, Forsaken, Unstored
<1>6. Matched(c)'
  BY <1>0 DEF TokenTypeOK, ConnInv, Matched, CrashInLogin, DropCalls,
     IdleCall, Forsaken, Unstored
<1>7. Survives(c)'
  BY <1>0 DEF TokenTypeOK, ConnInv, Survives, CrashInLogin, DropCalls,
     IdleCall, Forsaken, Unstored, Carries
<1>8. Latest(c)'
  BY <1>0 DEF TokenTypeOK, ConnInv, Latest, Carries, CrashInLogin,
     DropCalls, IdleCall, Forsaken, Unstored
<1>9. QED
  BY <1>1, <1>2, <1>3, <1>4, <1>5, <1>6, <1>7, <1>8 DEF ConnInv

(* The older tokens retire: the newest stays, and is stored or under way.  *)
LEMMA RetireKeeps ==
  ASSUME TokenInv, TokenTypeOK', NEW d \in Conns, Retire(d),
         NEW c \in Conns
  PROVE  ConnInv(c)'
<1> USE OAuthTokensAssumption DEF NoRow
<1>0. TokenTypeOK /\ ConnInv(c)
  BY DEF TokenInv
<1>1. Untouched(c)'
  BY <1>0 DEF TokenTypeOK, ConnInv, Untouched, InFlight, Retire
<1>2. Bounded(c)'
  <2>1. CASE c = d
    <3>1. issued[c] # 0 /\ issued[c] \in Nat
      BY <1>0, <2>1 DEF TokenTypeOK, ConnInv, Bounded, Retire
    <3>2. live'[c] = {issued[c]} /\ issued'[c] = issued[c]
      BY <2>1 DEF TokenTypeOK, TokenInv, Retire
    <3>3. QED
      BY <1>0, <3>1, <3>2 DEF TokenTypeOK, ConnInv, Bounded, InFlight, Retire
  <2>2. CASE c # d
    BY <1>0, <2>2 DEF TokenTypeOK, ConnInv, Bounded, InFlight, Retire
  <2>3. QED
    BY <2>1, <2>2
<1>3. Honoured(c)'
  BY <1>0 DEF TokenTypeOK, ConnInv, Honoured, Retire
<1>4. NewestUnderWay(c)'
  BY <1>0 DEF TokenTypeOK, ConnInv, NewestUnderWay, Ordered, InFlight, Retire
<1>5. Alone(c)'
  BY <1>0 DEF TokenTypeOK, ConnInv, Alone, InFlight, Retire
<1>6. Matched(c)'
  BY <1>0 DEF TokenTypeOK, ConnInv, Matched, Retire
<1>7. Latest(c)' /\ Survives(c)'
  <2>1. CASE c = d
    <3>1. /\ live'[c] = {issued[c]} /\ policy[c] = "overlaps"
          /\ UNCHANGED <<row, call, policy, issued, lost, overlap>>
      BY <2>1 DEF TokenTypeOK, TokenInv, Retire
    <3>2. \A r \in Refreshes : Carries(r, c) /\ Ordered(c) => Carries(r, c)'
      BY <1>0, <3>1 DEF ConnInv, NewestUnderWay, Carries, InFlight
    <3>3. QED
      BY <1>0, <3>1, <3>2 DEF ConnInv, Latest, Survives, Ordered
  <2>2. CASE c # d
    BY <1>0, <2>2 DEF TokenTypeOK, ConnInv, Latest, Survives, Carries, Retire
  <2>3. QED
    BY <2>1, <2>2
<1>8. QED
  BY <1>1, <1>2, <1>3, <1>4, <1>5, <1>6, <1>7 DEF ConnInv

-----------------------------------------------------------------------------
(* The invariant holds initially, and every step keeps it.                 *)
LEMMA InvInit == TokenInit => TokenInv
<1> SUFFICES ASSUME TokenInit, NEW c \in Conns PROVE ConnInv(c)
  BY TypesInit DEF TokenInv
<1> QED
  BY DEF TokenInit, IdleCall, NoRow, ConnInv, Untouched, Bounded, Honoured,
     NewestUnderWay, Ordered, Alone, Matched, Survives, Latest, InFlight

LEMMA InvKept == TokenInv /\ [Next]_tokenVars => TokenInv'
<1> SUFFICES ASSUME TokenInv, [Next]_tokenVars PROVE TokenInv'
  OBVIOUS
<1>0. TokenTypeOK'
  BY TypesKept DEF TokenInv
<1> SUFFICES ASSUME NEW c \in Conns PROVE ConnInv(c)'
  BY <1>0 DEF TokenInv
<1>1. ASSUME NEW d \in Conns, Login(d) PROVE ConnInv(c)'
  BY <1>0, <1>1, LoginKeeps
<1>2. ASSUME NEW d \in Conns, Delete(d) PROVE ConnInv(c)'
  BY <1>0, <1>2, DeleteKeeps
<1>3. ASSUME NEW q \in Refreshes, NEW d \in Conns, Ask(q, d) PROVE ConnInv(c)'
  BY <1>0, <1>3, AskKeeps
<1>4. ASSUME NEW q \in Refreshes, Grant(q) PROVE ConnInv(c)'
  BY <1>0, <1>4, GrantKeeps
<1>5. ASSUME NEW q \in Refreshes, Deny(q) PROVE ConnInv(c)'
  BY <1>0, <1>5, DenyKeeps
<1>6. ASSUME NEW q \in Refreshes, GiveUp(q) PROVE ConnInv(c)'
  BY <1>0, <1>6, GiveUpKeeps
<1>7. ASSUME NEW q \in Refreshes, Store(q) PROVE ConnInv(c)'
  BY <1>0, <1>7, StoreKeeps
<1>8. ASSUME NEW q \in Refreshes, StoreFails(q) PROVE ConnInv(c)'
  BY <1>0, <1>8, StoreFailsKeeps
<1>9. ASSUME NEW q \in Refreshes, Timeout(q) PROVE ConnInv(c)'
  BY <1>0, <1>9, TimeoutKeeps
<1>10. ASSUME NEW m \in adrift, HandleAdrift(m) PROVE ConnInv(c)'
  BY <1>0, <1>10, HandleAdriftKeeps
<1>11. ASSUME Crash PROVE ConnInv(c)'
  BY <1>0, <1>11, CrashKeeps
<1>12. ASSUME NEW d \in Conns, CrashInLogin(d) PROVE ConnInv(c)'
  BY <1>0, <1>12, CrashInLoginKeeps
<1>13. ASSUME NEW d \in Conns, Retire(d) PROVE ConnInv(c)'
  BY <1>0, <1>13, RetireKeeps
<1>14. CASE UNCHANGED tokenVars
  <2>1. ConnInv(c)
    BY DEF TokenInv
  <2>2. QED
    BY <2>1, <1>14 DEF tokenVars, ConnInv, Untouched, Bounded, Honoured,
       NewestUnderWay, Ordered, Alone, Matched, Survives, Latest,
       Carries, InFlight
<1>15. QED
  BY <1>1, <1>2, <1>3, <1>4, <1>5, <1>6, <1>7, <1>8, <1>9, <1>10, <1>11, <1>12, <1>13,
     <1>14
  DEF Next, RefreshNext, Return

(* The inductive invariant holds in every reachable state.                 *)
THEOREM TokenInvariant == TokenSpec => []TokenInv
BY InvInit, InvKept, PTL DEF TokenSpec

-----------------------------------------------------------------------------
(* The stored refresh token is honoured, or its successor under way,       *)
(* however many calls of refreshOAuthToken overlap and however their       *)
(* answers are ordered, unless an issued pair was lost on the way; at a    *)
(* provider that revokes or retires, unless two calls overlapped as well.  *)
THEOREM SessionsSurvive == TokenSpec => []SessionSurvives
<1>1. TokenInv => SessionSurvives
  BY DEF TokenInv, ConnInv, Survives, SessionSurvives
<1>2. QED
  BY <1>1, TokenInvariant, PTL

(* No refresh leaves a token row without a connection, or a connection     *)
(* without its row.                                                        *)
THEOREM TokensMatch == TokenSpec => []TokensMatchConnections
<1>1. TokenInv => TokensMatchConnections
  BY DEF TokenInv, ConnInv, Matched, TokensMatchConnections
<1>2. QED
  BY <1>1, TokenInvariant, PTL

(* refreshOAuthToken never puts an older refresh token over a newer one,   *)
(* except at a provider that honours older tokens for a while, and there   *)
(* only for a connection that two calls have refreshed at once.            *)
THEOREM TokensNeverRollBack == TokenSpec => NeverRollsBack
<1> DEFINE Forward ==
      \A c \in Conns :
        (/\ row'[c] # NoRow
         /\ policy[c] = "overlaps" => c \notin overlap)
          => row'[c] >= row[c]
<1>1. TokenInv /\ [Next]_tokenVars => [Forward]_tokenVars
  <2> SUFFICES ASSUME TokenInv, Next, NEW c \in Conns, row'[c] # NoRow, Ordered(c)
               PROVE  row'[c] >= row[c]
    BY DEF Forward, Ordered
  <2> USE DEF NoRow
  <2>0. TokenTypeOK /\ ConnInv(c)
    BY DEF TokenInv
  <2>1. ASSUME NEW d \in Conns, Login(d) PROVE row'[c] >= row[c]
    BY <2>0, <2>1 DEF TokenTypeOK, ConnInv, Untouched, Login, Upsert
  <2>2. ASSUME NEW d \in Conns, Delete(d) PROVE row'[c] >= row[c]
    BY <2>0, <2>2 DEF TokenTypeOK, Delete
  <2>3. ASSUME NEW q \in Refreshes, Store(q) PROVE row'[c] >= row[c]
    BY <2>0, <2>3
    DEF TokenTypeOK, Calls, ConnInv, Bounded, NewestUnderWay, Ordered, InFlight, Store, Upsert
  <2>4. ASSUME row' = row PROVE row'[c] >= row[c]
    BY <2>0, <2>4 DEF TokenTypeOK
  <2>5. QED
    BY <2>1, <2>2, <2>3, <2>4
    DEF Next, RefreshNext, Return, Ask, Grant, Deny, GiveUp, StoreFails, Timeout,
        HandleAdrift, Crash, CrashInLogin, Retire
<1>2. QED
  BY <1>1, TokenInvariant, PTL DEF TokenSpec, NeverRollsBack
=============================================================================
