---------------------------- MODULE OAuthTokens ----------------------------
(***************************************************************************)
(* The oauth_tokens table and its refresh (lib/oauth/refresh.ts,           *)
(* lib/db/oauthTokens.ts, lib/oauth/persist.ts).                           *)
(*                                                                         *)
(* refreshOAuthToken reads the row, awaits the provider's token endpoint   *)
(* and writes the answer back; nothing keeps two requests from refreshing  *)
(* the same connection at once.  The provider is external: it is modelled  *)
(* by which refresh tokens of a connection it would still honour.  Refresh *)
(* tokens are numbered in the order the provider issues them, and a token  *)
(* pair is its refresh token.                                              *)
(*                                                                         *)
(* The request may have reached the provider when the client gives up on   *)
(* it (REFRESH_TIMEOUT_MS) or the process dies: it then stays "adrift".    *)
(***************************************************************************)
EXTENDS Naturals

CONSTANTS
  Conns,       \* connection ids; AUTOINCREMENT never reuses one
  Refreshes,   \* concurrently running calls of refreshOAuthToken (slots)
  Policies,    \* how the providers of this instance treat a used token
  MaxIssued    \* bound: token pairs a provider issues per connection

(* What a token endpoint does with a refresh token that it has honoured:   *)
(* it stays good and the answer names no other; it is spent and the answer *)
(* names its successor; the same, and presenting a spent one again revokes *)
(* the whole login; the answer names a successor, but the token stays good *)
(* until the provider retires all but the newest (a grace period, RFC 6749 *)
(* section 6).                                                             *)
AllPolicies == {"keeps", "rotates", "revokes", "overlaps"}

ASSUME OAuthTokensAssumption ==
  /\ Policies \subseteq AllPolicies
  /\ MaxIssued \in Nat

NoRow == 0     \* token numbers start at 1

VARIABLES
  exists,   \* the connections that are in the connections table
  used,     \* the connection ids ever given out
  row,      \* [Conns -> Nat]: oauth_tokens, the stored refresh token or NoRow
  call,     \* [Refreshes -> record]: the running calls of refreshOAuthToken
  policy,   \* [Conns -> Policies]: external, what its provider does
  live,     \* [Conns -> SUBSET Nat]: external, tokens the provider honours
  issued,   \* [Conns -> Nat]: external, how many tokens it has issued
  adrift,   \* requests to a token endpoint nobody waits for any more
  lost,     \* history: connections an issued pair of which was never stored
  overlap,  \* history: connections refreshed by two calls at once
  torn      \* history: connections whose creation a crash cut in two

tokenVars ==
  <<exists, used, row, call, policy, live, issued, adrift, lost, overlap, torn>>

-----------------------------------------------------------------------------
IdleCall == [pc |-> "idle", conn |-> NoRow, sent |-> NoRow, got |-> NoRow]

Calls ==
  [pc : {"idle", "asking", "granted", "denied"},
   conn : Conns \cup {NoRow}, sent : Nat, got : Nat]

TokenTypeOK ==
  /\ exists \subseteq used
  /\ used \subseteq Conns
  /\ row \in [Conns -> Nat]
  /\ call \in [Refreshes -> Calls]
  /\ \A r \in Refreshes :
       call[r].pc # "idle" => call[r].conn \in Conns /\ call[r].sent # NoRow
  /\ policy \in [Conns -> Policies]
  /\ live \in [Conns -> SUBSET Nat]
  /\ issued \in [Conns -> Nat]
  /\ adrift \subseteq [conn : Conns, sent : Nat]
  /\ lost \subseteq Conns
  /\ overlap \subseteq Conns
  /\ torn \subseteq Conns

TokenInit ==
  /\ exists = {}
  /\ used = {}
  /\ row = [c \in Conns |-> NoRow]
  /\ call = [r \in Refreshes |-> IdleCall]
  /\ policy \in [Conns -> Policies]
  /\ live = [c \in Conns |-> {}]
  /\ issued = [c \in Conns |-> 0]
  /\ adrift = {}
  /\ lost = {}
  /\ overlap = {}
  /\ torn = {}

-----------------------------------------------------------------------------
(* The provider: honour the token t of connection c.  Issue is the pair it *)
(* hands out, the sent token itself when the answer names no other one.    *)
Honours(c, t) == t \in live[c]

Successor(c, t) == IF policy[c] = "keeps" THEN t ELSE issued[c] + 1

Honour(c, t) ==
  IF policy[c] = "keeps"
  THEN UNCHANGED <<live, issued>>
  ELSE /\ issued[c] < MaxIssued
       /\ live' = [live EXCEPT ![c] = {issued[c] + 1} \cup
                                      (IF policy[c] = "overlaps" THEN @ ELSE {})]
       /\ issued' = [issued EXCEPT ![c] = @ + 1]

Reject(c, t) ==
  /\ live' = IF policy[c] = "revokes" THEN [live EXCEPT ![c] = {}] ELSE live
  /\ UNCHANGED issued

(* External: the grace period of the older tokens is over.                 *)
Retire(c) ==
  /\ policy[c] = "overlaps"
  /\ live[c] # {} /\ live[c] # {issued[c]}
  /\ live' = [live EXCEPT ![c] = {issued[c]}]
  /\ UNCHANGED <<exists, used, row, call, policy, issued, adrift, lost, overlap, torn>>

-----------------------------------------------------------------------------
(* upsertOAuthToken of connection c; its foreign key wants the connection. *)
Upsert(c, t) == row' = [row EXCEPT ![c] = t]

(* persistOAuthConnection: the connection row, then its token row.  A code *)
(* exchange or a device poll has just issued the first pair of the login.  *)
Login(c) ==
  /\ c \notin used
  /\ exists' = exists \cup {c}
  /\ used' = used \cup {c}
  /\ issued' = [issued EXCEPT ![c] = 1]
  /\ live' = [live EXCEPT ![c] = {1}]
  /\ Upsert(c, 1)
  /\ UNCHANGED <<call, policy, adrift, lost, overlap, torn>>

(* ON DELETE CASCADE takes the token row along.                            *)
Delete(c) ==
  /\ c \in exists
  /\ exists' = exists \ {c}
  /\ row' = [row EXCEPT ![c] = NoRow]
  /\ UNCHANGED <<used, call, policy, live, issued, adrift, lost, overlap, torn>>

(* A request got a 401 and refreshes: without a stored refresh token there *)
(* is nothing to await.                                                    *)
Ask(r, c) ==
  /\ call[r].pc = "idle"
  /\ row[c] # NoRow
  /\ call' = [call EXCEPT ![r] = [pc |-> "asking", conn |-> c,
                                  sent |-> row[c], got |-> NoRow]]
  /\ overlap' = IF \/ \E s \in Refreshes : call[s].pc # "idle" /\ call[s].conn = c
                   \/ \E m \in adrift : m.conn = c
                THEN overlap \cup {c} ELSE overlap
  /\ UNCHANGED <<exists, used, row, policy, live, issued, adrift, lost, torn>>

(* External: the token endpoint answers the request of call r.             *)
Grant(r) ==
  LET c == call[r].conn
      t == call[r].sent
  IN /\ call[r].pc = "asking"
     /\ Honours(c, t)
     /\ call' = [call EXCEPT ![r].pc = "granted", ![r].got = Successor(c, t)]
     /\ Honour(c, t)
     /\ UNCHANGED <<exists, used, row, policy, adrift, lost, overlap, torn>>

Deny(r) ==
  LET c == call[r].conn
      t == call[r].sent
  IN /\ call[r].pc = "asking"
     /\ ~Honours(c, t)
     /\ call' = [call EXCEPT ![r].pc = "denied"]
     /\ Reject(c, t)
     /\ UNCHANGED <<exists, used, row, policy, adrift, lost, overlap, torn>>

(* A deliberate fault: on a refusal the tokens are put back as they were   *)
(* read before the await.                                                  *)
GiveUpRestoring(r) ==
  /\ call[r].pc = "denied"
  /\ row' = [row EXCEPT ![call[r].conn] =
                IF call[r].conn \in exists THEN call[r].sent ELSE NoRow]
  /\ call' = [call EXCEPT ![r] = IdleCall]
  /\ UNCHANGED <<exists, used, policy, live, issued, adrift, lost, overlap, torn>>

(* !response.ok: refreshOAuthToken returns null and writes nothing.        *)
GiveUp(r) ==
  /\ call[r].pc = "denied"
  /\ call' = [call EXCEPT ![r] = IdleCall]
  /\ UNCHANGED <<exists, used, row, policy, live, issued, adrift, lost, overlap, torn>>

(* Deliberate faults: the write does not mind a deleted connection; what   *)
(* is written back is the token that was sent.                             *)
StoreUnowned(r) ==
  /\ call[r].pc = "granted"
  /\ Upsert(call[r].conn, call[r].got)
  /\ call' = [call EXCEPT ![r] = IdleCall]
  /\ UNCHANGED <<exists, used, policy, live, issued, adrift, lost, overlap, torn>>

StoreSent(r) ==
  /\ call[r].pc = "granted"
  /\ call[r].conn \in exists
  /\ Upsert(call[r].conn, call[r].sent)
  /\ call' = [call EXCEPT ![r] = IdleCall]
  /\ UNCHANGED <<exists, used, policy, live, issued, adrift, lost, overlap, torn>>

(* The answer is stored: result.refreshToken ?? current.refreshToken, where*)
(* current is the row as it was before the await.                          *)
Store(r) ==
  /\ call[r].pc = "granted"
  /\ call[r].conn \in exists
  /\ Upsert(call[r].conn, call[r].got)
  /\ call' = [call EXCEPT ![r] = IdleCall]
  /\ UNCHANGED <<exists, used, policy, live, issued, adrift, lost, overlap, torn>>

(* The connection was deleted during the await: the foreign key refuses    *)
(* the row and refreshOAuthToken rejects.                                  *)
StoreFails(r) ==
  /\ call[r].pc = "granted"
  /\ call[r].conn \notin exists
  /\ call' = [call EXCEPT ![r] = IdleCall]
  /\ UNCHANGED <<exists, used, row, policy, live, issued, adrift, lost, overlap, torn>>

(* What becomes of call k when nobody waits for its answer any more.       *)
Forsaken(k) == IF k.pc = "asking" THEN {[conn |-> k.conn, sent |-> k.sent]} ELSE {}

Unstored(k) == IF k.pc = "granted" THEN {k.conn} ELSE {}

(* A deliberate fault: the timer is cleared as soon as the fetch is sent.  *)
TimeoutUnarmed(r) ==
  /\ call[r].pc \in {"granted", "denied"}
  /\ adrift' = adrift \cup Forsaken(call[r])
  /\ lost' = lost \cup Unstored(call[r])
  /\ call' = [call EXCEPT ![r] = IdleCall]
  /\ UNCHANGED <<exists, used, row, policy, live, issued, overlap, torn>>

(* REFRESH_TIMEOUT_MS aborts the fetch, wherever the request or its answer *)
(* is: also the body is read under the timer.                              *)
Timeout(r) ==
  /\ call[r].pc \in {"asking", "granted", "denied"}
  /\ adrift' = adrift \cup Forsaken(call[r])
  /\ lost' = lost \cup Unstored(call[r])
  /\ call' = [call EXCEPT ![r] = IdleCall]
  /\ UNCHANGED <<exists, used, row, policy, live, issued, overlap, torn>>

(* External: a request adrift is handled, or never gets there.             *)
HandleAdrift(m) ==
  /\ m \in adrift
  /\ adrift' = adrift \ {m}
  /\ \/ /\ Honours(m.conn, m.sent)
        /\ Honour(m.conn, m.sent)
        /\ lost' = IF policy[m.conn] = "keeps" THEN lost ELSE lost \cup {m.conn}
     \/ ~Honours(m.conn, m.sent) /\ Reject(m.conn, m.sent) /\ UNCHANGED lost
     \/ UNCHANGED <<live, issued, lost>>
  /\ UNCHANGED <<exists, used, row, call, policy, overlap, torn>>

(* The process dies and starts again: the tables stay, the calls are gone. *)
DropCalls ==
  /\ adrift' = adrift \cup UNION {Forsaken(call[r]) : r \in Refreshes}
  /\ lost' = lost \cup UNION {Unstored(call[r]) : r \in Refreshes}
  /\ call' = [r \in Refreshes |-> IdleCall]

Crash ==
  /\ DropCalls
  /\ UNCHANGED <<exists, used, row, policy, live, issued, overlap, torn>>

(* It dies between the two inserts of persistOAuthConnection.              *)
CrashInLogin(c) ==
  /\ c \notin used
  /\ exists' = exists \cup {c}
  /\ used' = used \cup {c}
  /\ torn' = torn \cup {c}
  /\ DropCalls
  /\ UNCHANGED <<row, policy, live, issued, overlap>>

-----------------------------------------------------------------------------
Return(r) == Store(r) \/ StoreFails(r) \/ GiveUp(r) \/ Timeout(r)

RefreshNext ==
  \/ \E r \in Refreshes : Grant(r) \/ Deny(r) \/ Return(r)
  \/ \E r \in Refreshes, c \in Conns : Ask(r, c)
  \/ \E c \in Conns : Delete(c) \/ CrashInLogin(c) \/ Retire(c)
  \/ \E m \in adrift : HandleAdrift(m)
  \/ Crash

Next == RefreshNext \/ \E c \in Conns : Login(c)

TokenSpec == TokenInit /\ [][Next]_tokenVars

(* Node runs a settled await, and the timer that aborts the fetch.  The    *)
(* provider owes nothing: no fairness for Grant and Deny.                  *)
TokenFairness == \A r \in Refreshes : WF_tokenVars(Return(r))

FairTokenSpec == TokenSpec /\ TokenFairness

-----------------------------------------------------------------------------
(* Properties.                                                             *)

(* Call r carries a pair that the provider honours and the row lacks.      *)
Carries(r, c) ==
  call[r].pc = "granted" /\ call[r].conn = c /\ call[r].got \in live[c]

(* A login survives its refreshes: as long as no issued pair was lost to a *)
(* timeout or a crash, the stored refresh token of a connection is one its *)
(* provider honours, or a running call is about to store such a one,       *)
(* however many requests refresh the connection at once and in whatever    *)
(* order their answers come.  Two kinds of provider need one thing more    *)
(* that refresh.ts:95-131 does not give, that no two calls overlap: one    *)
(* that revokes the login when a spent token is presented again, and one   *)
(* that issues successors while it honours older tokens, whose newest pair *)
(* another call may have overwritten when the older ones are retired.      *)
SessionSurvives ==
  \A c \in Conns :
    (/\ row[c] # NoRow
     /\ c \notin lost
     /\ policy[c] \in {"revokes", "overlaps"} => c \notin overlap)
       => row[c] \in live[c] \/ \E r \in Refreshes : Carries(r, c)

(* Tokens and connections come and go together: a refresh that outlives    *)
(* its connection leaves no token row behind, and a connection without one *)
(* was left by a crash between the two inserts, never by a refresh.        *)
TokensMatchConnections ==
  \A c \in Conns :
    /\ row[c] # NoRow => c \in exists
    /\ c \in exists /\ row[c] = NoRow => c \in torn

(* A late answer never puts an older refresh token back over a newer one,  *)
(* although the token sent was read before the await.  It is the provider  *)
(* that prevents it: a token that is spent when honoured cannot have been  *)
(* honoured for two calls.  Where older tokens stay good for a while, two  *)
(* calls that overlap can both be granted, and refresh.ts:95-131 stores    *)
(* their pairs in the order the answers come: there the promise is only    *)
(* made of connections that no two calls refreshed at once.                *)
NeverRollsBack ==
  [][\A c \in Conns :
       (/\ row'[c] # NoRow
        /\ policy[c] = "overlaps" => c \notin overlap)
         => row'[c] >= row[c]]_tokenVars

(* The request that waits for a refresh gets an answer although the token  *)
(* endpoint may never send one, and although the write may fail.           *)
EveryRefreshEnds ==
  \A r \in Refreshes : call[r].pc # "idle" ~> call[r].pc = "idle"
=============================================================================
