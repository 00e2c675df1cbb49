------------------------------ MODULE ToolSet ------------------------------
(***************************************************************************)
(* The tools of MCP servers in a chat request: native mode's cached union  *)
(* of what the servers advertise (lib/mcp/nativeToolSet.ts), the calls the *)
(* loop makes with it (lib/mcp/loop.ts), and trigger mode, which calls one *)
(* tool of the first server whose pattern matches (lib/mcp/trigger.ts).    *)
(*                                                                         *)
(* Servers are visited one after the other in the order of their ids: for  *)
(* each the request awaits a connection and then an answer.  Requests run  *)
(* side by side, the dashboard changes the table meanwhile, and all native *)
(* requests share one cache that none of them locks.                       *)
(*                                                                         *)
(* A server's row is what its allowlist exposes, or Off when the row is    *)
(* disabled, has no allowlist, or is deleted.  Every server is taken to    *)
(* implement every tool, so that every name that two rows expose collides. *)
(***************************************************************************)
EXTENDS Naturals, FiniteSets

CONSTANTS
  Requests,      \* chat requests with a tool mode
  Servers,       \* ids of mcp_servers rows, 1 .. their number
  Tools,         \* tool names
  Allowlists,    \* the allowlists an operator may give a row: sets of Tools
  CacheTicks,    \* CACHE_TTL_MS in ticks
  ConnectTicks,  \* DISCOVERY_TIMEOUT_MS in ticks
  AnswerTicks    \* external: the MCP client's own request timeout in ticks

ASSUME ToolSetAssumption ==
  /\ IsFiniteSet(Servers) /\ Servers = 1 .. Cardinality(Servers)
  /\ Allowlists \subseteq SUBSET Tools
  /\ {CacheTicks, ConnectTicks, AnswerTicks} \subseteq Nat \ {0}

Off == {"off"}      \* no allowlist: tool names are not called "off"
NoServer == 0
EndOfList == Cardinality(Servers) + 1
NoOwners == [t \in Tools |-> NoServer]

(* How long a fill may take at most, and the longest that a cached tool    *)
(* set may lag behind the table.                                           *)
FillTicks == Cardinality(Servers) * (ConnectTicks + AnswerTicks)
MaxLag == FillTicks + CacheTicks

VARIABLES
  rows,       \* [Servers -> Allowlists or Off]: mcp_servers
  req,        \* [Requests -> record]: the running requests
  cached,     \* [left, owner]: the module's cache; left = 0 when expired
  clients,    \* [req, at]: open clients that some request awaits or awaited
  late,       \* servers with a connection that came up after its timer
  advertised, \* history: [Requests -> owners when the request got its tools]
  offFor      \* history: [Servers -> ticks since the row was last not Off]

vars == <<rows, req, cached, clients, late, advertised, offFor>>

-----------------------------------------------------------------------------
(* mode "fill" is a discovery, "fire" a trigger; pc names the await; view  *)
(* is the table at the start; at the server awaited; owner what has been   *)
(* collected, or the set in use; heard the servers that answered; blocks   *)
(* how many blocks the trigger produced.                                   *)
IdleReq ==
  [mode |-> "none", pc |-> "idle", view |-> [s \in Servers |-> Off],
   at |-> NoServer, left |-> 0, owner |-> NoOwners, heard |-> {}, blocks |-> 0]

ReqRecords ==
  [mode : {"none", "fill", "fire"},
   pc : {"idle", "connecting", "answering", "ready", "calling", "done"},
   view : [Servers -> Allowlists \cup {Off}],
   at : 0 .. EndOfList,
   left : 0 .. ConnectTicks + AnswerTicks,
   owner : [Tools -> Servers \cup {NoServer}],
   heard : SUBSET Servers,
   blocks : 0 .. 1]

TypeOK ==
  /\ rows \in [Servers -> Allowlists \cup {Off}]
  /\ req \in [Requests -> ReqRecords]
  /\ cached \in [left : 0 .. CacheTicks, owner : [Tools -> Servers \cup {NoServer}]]
  /\ clients \subseteq [req : Requests, at : Servers]
  /\ late \subseteq Servers
  /\ advertised \in [Requests -> [Tools -> Servers \cup {NoServer}]]
  /\ offFor \in [Servers -> 0 .. MaxLag]

Init ==
  /\ rows \in [Servers -> Allowlists \cup {Off}]
  /\ req = [r \in Requests |-> IdleReq]
  /\ cached = [left |-> 0, owner |-> NoOwners]
  /\ clients = {}
  /\ late = {}
  /\ advertised = [r \in Requests |-> NoOwners]
  /\ offFor = [s \in Servers |-> IF rows[s] = Off THEN MaxLag ELSE 0]

-----------------------------------------------------------------------------
(* The servers of view that a discovery visits.                            *)
Listed(view) == {s \in Servers : view[s] # Off}

NextStop(list, s) ==
  CHOOSE n \in (list \cup {EndOfList}) :
    n > s /\ \A m \in list : m > s => n <= m

(* The for loop goes on behind server s: it awaits the next connection, or *)
(* is through.                                                             *)
Visit(k, list, s) ==
  LET n == NextStop(list, s)
  IN [k EXCEPT !.at = n,
               !.pc = IF n = EndOfList THEN "done" ELSE "connecting",
               !.left = IF n = EndOfList THEN 0 ELSE ConnectTicks]

(* What becomes of a request whose fill is through: it caches the set and  *)
(* uses it, whatever has been cached since it began.                       *)
Settle(r, k) ==
  IF k.pc = "done" /\ k.mode = "fill"
  THEN /\ req' = [req EXCEPT ![r] = [k EXCEPT !.pc = "ready"]]
       /\ cached' = [left |-> CacheTicks, owner |-> k.owner]
       /\ advertised' = [advertised EXCEPT ![r] = k.owner]
  ELSE /\ req' = [req EXCEPT ![r] = k]
       /\ UNCHANGED <<cached, advertised>>

(* A deliberate fault: using the cache renews it.                          *)
HitRenewing(r) ==
  /\ req[r].pc = "idle"
  /\ cached.left > 0
  /\ req' = [req EXCEPT ![r] = [IdleReq EXCEPT !.mode = "fill", !.pc = "ready",
                                               !.owner = cached.owner]]
  /\ cached' = [cached EXCEPT !.left = CacheTicks]
  /\ advertised' = [advertised EXCEPT ![r] = cached.owner]
  /\ UNCHANGED <<rows, clients, late, offFor>>

(* getNativeToolSet on a fresh cache.                                      *)
Hit(r) ==
  /\ req[r].pc = "idle"
  /\ cached.left > 0
  /\ req' = [req EXCEPT ![r] = [IdleReq EXCEPT !.mode = "fill", !.pc = "ready",
                                               !.owner = cached.owner]]
  /\ advertised' = [advertised EXCEPT ![r] = cached.owner]
  /\ UNCHANGED <<rows, cached, clients, late, offFor>>

(* getNativeToolSet without one: the table is read once, here.             *)
Miss(r) ==
  /\ req[r].pc = "idle"
  /\ cached.left = 0
  /\ Settle(r, Visit([IdleReq EXCEPT !.mode = "fill", !.view = rows],
                     Listed(rows), NoServer))
  /\ UNCHANGED <<rows, clients, late, offFor>>

(* runTriggerMode: matching is the set of servers whose pattern matches    *)
(* the last user message; one without an allowlisted name is passed over.  *)
Exposing(view) == {s \in Servers : view[s] \notin {Off, {}}}

Fire(r) ==
  /\ req[r].pc = "idle"
  /\ \E matching \in SUBSET Exposing(rows) :
       LET view == [s \in Servers |-> IF s \in matching THEN rows[s] ELSE Off]
       IN Settle(r, Visit([IdleReq EXCEPT !.mode = "fire", !.view = view],
                          matching, NoServer))
  /\ UNCHANGED <<rows, clients, late, offFor>>

GoOn(r) == Settle(r, Visit(req[r], Listed(req[r].view), req[r].at))

Here(r) == [req |-> r, at |-> req[r].at]

(* connectMcpClient resolves.                                              *)
Connected(r) ==
  /\ req[r].pc = "connecting"
  /\ req' = [req EXCEPT ![r].pc = "answering", ![r].left = AnswerTicks]
  /\ clients' = clients \cup {Here(r)}
  /\ UNCHANGED <<rows, cached, late, advertised, offFor>>

(* It rejects: this server is left out, the others are still asked.        *)
Refused(r) ==
  /\ req[r].pc = "connecting"
  /\ GoOn(r)
  /\ UNCHANGED <<rows, clients, late, offFor>>

(* The discovery timer wins the race; the connection attempt goes on, and  *)
(* if it succeeds after all nobody closes that client.                     *)
TimedOut(r) ==
  /\ req[r].pc = "connecting"
  /\ req[r].mode = "fill"
  /\ req[r].left = 0
  /\ \E comesUp \in BOOLEAN :
       late' = IF comesUp THEN late \cup {req[r].at} ELSE late
  /\ GoOn(r)
  /\ UNCHANGED <<rows, clients, offFor>>

(* A deliberate fault: the later registration of a name wins.              *)
MergedLastWins(k) ==
  [t \in Tools |-> IF t \in k.view[k.at] THEN k.at ELSE k.owner[t]]

(* First registration wins.                                                *)
Merged(k) ==
  [t \in Tools |-> IF k.owner[t] = NoServer /\ t \in k.view[k.at]
                   THEN k.at ELSE k.owner[t]]

(* listTools answers: close, filter by the allowlist of the snapshot, and  *)
(* add what is new.                                                        *)
Listing(r) ==
  LET k == req[r]
  IN /\ k.pc = "answering" /\ k.mode = "fill"
     /\ clients' = clients \ {Here(r)}
     /\ Settle(r, Visit([k EXCEPT !.owner = Merged(k), !.heard = @ \cup {k.at}],
                        Listed(k.view), k.at))
     /\ UNCHANGED <<rows, late, offFor>>

(* callTool answers: the block ends the pass, an empty text does not.      *)
Fired(r) ==
  LET k == req[r]
  IN /\ k.pc = "answering" /\ k.mode = "fire"
     /\ clients' = clients \ {Here(r)}
     /\ \/ req' = [req EXCEPT ![r].pc = "done", ![r].blocks = k.blocks + 1,
                              ![r].left = 0, ![r].heard = @ \cup {k.at}]
           /\ UNCHANGED <<cached, advertised>>
        \/ GoOn(r)
     /\ UNCHANGED <<rows, late, offFor>>

(* A deliberate fault: a client whose request failed is not closed.        *)
FailedUnclosed(r) ==
  /\ req[r].pc = "answering"
  /\ GoOn(r)
  /\ UNCHANGED <<rows, clients, late, offFor>>

(* The answer is an error, or the client's own timer runs out: close, and  *)
(* try the next server.                                                    *)
Failed(r) ==
  /\ req[r].pc = "answering"
  /\ clients' = clients \ {Here(r)}
  /\ GoOn(r)
  /\ UNCHANGED <<rows, late, offFor>>

-----------------------------------------------------------------------------
(* A deliberate fault: names are looked up in the module's cache.          *)
ResolveCached(r, t) == cached.owner[t]

(* executeOneToolCall: the model asks for tool t.  The server is the one   *)
(* that the request's own tool set names, as its row was then.  Connecting *)
(* and calling are one await here, with one end.                           *)
Resolve(r, t) == req[r].owner[t]

Call(r, t) ==
  /\ req[r].pc = "ready"
  /\ Resolve(r, t) # NoServer
  /\ req' = [req EXCEPT ![r].pc = "calling", ![r].at = Resolve(r, t),
                        ![r].left = ConnectTicks + AnswerTicks]
  /\ clients' = clients \cup {[req |-> r, at |-> Resolve(r, t)]}
  /\ UNCHANGED <<rows, cached, late, advertised, offFor>>

CallReturns(r) ==
  /\ req[r].pc = "calling"
  /\ clients' = clients \ {Here(r)}
  /\ req' = [req EXCEPT ![r].pc = "ready", ![r].left = 0]
  /\ UNCHANGED <<rows, cached, late, advertised, offFor>>

(* The request is answered.                                                *)
Finish(r) ==
  /\ req[r].pc \in {"ready", "done"}
  /\ req' = [req EXCEPT ![r] = IdleReq]
  /\ advertised' = [advertised EXCEPT ![r] = NoOwners]
  /\ UNCHANGED <<rows, cached, clients, late, offFor>>

(* The dashboard: PATCH, DELETE and POST of mcp-servers.                   *)
Configure(s) ==
  /\ \E a \in (Allowlists \cup {Off}) \ {rows[s]} :
       /\ rows' = [rows EXCEPT ![s] = a]
       /\ offFor' = [offFor EXCEPT ![s] = 0]
  /\ UNCHANGED <<req, cached, clients, late, advertised>>

Longer(s) ==
  IF rows[s] = Off /\ offFor[s] < MaxLag THEN offFor[s] + 1 ELSE offFor[s]

(* A tick passes; no await outlasts its timer.                             *)
Tick ==
  /\ \A r \in Requests :
       req[r].pc \in {"connecting", "answering", "calling"} => req[r].left > 0
  /\ req' = [r \in Requests |->
               [req[r] EXCEPT !.left = IF @ > 0 THEN @ - 1 ELSE 0]]
  /\ cached' = [cached EXCEPT !.left = IF @ > 0 THEN @ - 1 ELSE 0]
  /\ offFor' = [s \in Servers |-> Longer(s)]
  /\ UNCHANGED <<rows, clients, late, advertised>>

-----------------------------------------------------------------------------
Step(r) ==
  \/ Hit(r) \/ Miss(r) \/ Fire(r)
  \/ Connected(r) \/ Refused(r) \/ TimedOut(r)
  \/ Listing(r) \/ Fired(r) \/ Failed(r)
  \/ CallReturns(r) \/ Finish(r)
  \/ \E t \in Tools : Call(r, t)

Next ==
  \/ \E r \in Requests : Step(r)
  \/ \E s \in Servers : Configure(s)
  \/ Tick

Spec == Init /\ [][Next]_vars

-----------------------------------------------------------------------------
(* Properties.                                                             *)

(* Of the servers that answered a discovery, the one registered first owns *)
(* a name, and every name that one of them exposes is there: a server that *)
(* refuses, hangs or fails costs its own tools and no others               *)
(* (nativeToolSet.ts:8-10 and :87-91).                                     *)
ToolsOfAllWhoAnswered ==
  \A r \in Requests : req[r].mode = "fill" /\ req[r].pc = "ready" =>
    \A t \in Tools :
      LET offering == {s \in req[r].heard : t \in req[r].view[s]}
      IN IF offering = {}
         THEN req[r].heard # {} => req[r].owner[t] = NoServer
         ELSE /\ req[r].owner[t] \in offering
              /\ \A s \in offering : req[r].owner[t] <= s

(* A tool call goes to the server under which the tool was advertised to   *)
(* the model in this request, although other requests refill the shared    *)
(* cache and the dashboard changes the table between rounds.               *)
CallsReachTheAdvertiser ==
  \A r \in Requests : req[r].pc = "calling" =>
    \E t \in Tools : advertised[r][t] = req[r].at

(* Every client (for stdio servers: a child process) that a request got is *)
(* closed again before the request goes on, whichever way its call ended.  *)
(* Not so a connection that came up after the discovery timer: see late.   *)
ClientsAreClosed ==
  \A c \in clients :
    req[c.req].pc \in {"answering", "calling"} /\ req[c.req].at = c.at

(* Tools of a server that was disabled or deleted fade: however many       *)
(* requests discover at once, and although the slowest of them overwrites  *)
(* the cache last with the oldest view, what the cache offers never lags   *)
(* behind the table by as much as one discovery and one time to live.      *)
StaleToolsFade ==
  cached.left > 0 =>
    \A t \in Tools : \A s \in Servers :
      cached.owner[t] = s /\ rows[s] = Off => offFor[s] < MaxLag
=============================================================================
