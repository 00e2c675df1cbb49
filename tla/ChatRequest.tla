----------------------------- MODULE ChatRequest -----------------------------
(***************************************************************************)
(* One chat completion from its arrival to its answer (jroute/handleChat), *)
(* with native tool calling (src/lib/mcp/loop.ts), on top of what          *)
(* dispatchWithFailover promises (FailoverPromise, which Dispatch is       *)
(* checked to implement).  The module is about the books: what the client  *)
(* is told, the usage_logs rows the dashboard reads, and the tokens folded *)
(* into a connection's quota window.                                       *)
(*                                                                         *)
(* Abstractions: the tokens of an answer are one small number, with 0 for  *)
(* a missing or null count; a tool call is one await, whatever its result  *)
(* (executeOneToolCall turns every failure into a result); quota tokens    *)
(* are those of one window, longer than the run.                           *)
(***************************************************************************)
EXTENDS Naturals, Sequences, FiniteSets

CONSTANTS
  NConns,      \* connections of the provider
  Requests,    \* chat requests, each handled once
  MaxRounds,   \* NativeLoopDeps.maxRounds
  MaxTokens,   \* most tokens one answer reports
  MaxCalls     \* most tool calls one answer asks for

ASSUME ChatAssumption ==
  /\ NConns \in Nat
  /\ MaxRounds \in Nat \ {0}
  /\ MaxTokens \in Nat
  /\ MaxCalls \in Nat \ {0}

VARIABLES
  phase, fired, offered, answer,   \* the dispatch of each request
  chat,                            \* the handler's locals, its answer, its rows
  quota                            \* [Conns -> Nat]: quota_windows.tokens

Failover == INSTANCE FailoverPromise

dispatchVars == <<phase, fired, offered, answer>>
vars == <<phase, fired, offered, answer, chat, quota>>

Conns == 1..NConns
Tokens == 0..MaxTokens

(* usage_logs: connection, tokens and whether the error column is set.     *)
Rows == [conn : 0..NConns, tokens : Nat, error : BOOLEAN]

Responses ==
  {"none", "200", "rejected", "499", "500", "503", "504", "failed", "unresolved"}

(* relayed, reported, dispatches and deaf are history: the answer was an   *)
(* OpenAI-shaped stream, tokens upstreams reported to this request, its    *)
(* dispatches, and those begun with the client gone.                       *)
Arrived ==
  [pc |-> "idle", native |-> FALSE, converted |-> FALSE, here |-> TRUE,
   late |-> FALSE, round |-> 0, calls |-> 0, tokens |-> 0, lastConn |-> 0,
   response |-> "none", rows |-> <<>>, relayed |-> FALSE,
   reported |-> 0, dispatches |-> 0, deaf |-> 0]

ChatRecords ==
  [pc : {"idle", "preparing", "toolset", "dispatching", "tooling", "streaming", "done"},
   native : BOOLEAN, converted : BOOLEAN, here : BOOLEAN, late : BOOLEAN,
   round : 0..MaxRounds, calls : 0..MaxCalls, tokens : Nat, lastConn : 0..NConns,
   response : Responses, rows : Seq(Rows), relayed : BOOLEAN,
   reported : Nat, dispatches : Nat, deaf : Nat]

TypeOK ==
  /\ Failover!PromiseTypeOK
  /\ chat \in [Requests -> ChatRecords]
  /\ quota \in [Conns -> Nat]

Init ==
  /\ Failover!Init
  /\ chat = [r \in Requests |-> Arrived]
  /\ quota = [c \in Conns |-> 0]

-----------------------------------------------------------------------------
(* Answers and rows.                                                       *)

Respond(q, response) == [q EXCEPT !.pc = "done", !.response = response]

Log(q, conn, tokens, error) ==
  [q EXCEPT !.rows = Append(@, [conn |-> conn, tokens |-> tokens, error |-> error])]

Step(r, q) == chat' = [chat EXCEPT ![r] = q]

Charge(c, tokens) == quota' = [quota EXCEPT ![c] = @ + tokens]

(* A deliberate fault: a client that hung up is logged as an error.        *)
RefusalLoggingHangups(q, a) ==
  CASE a.kind = "aborted" -> Respond(Log(q, a.conn, 0, TRUE), "499")
    [] a.kind = "threw" -> Respond(q, "500")
    [] a.kind = "noCandidates" -> Respond(q, "503")
    [] a.kind = "failed" -> Respond(Log(q, a.conn, 0, TRUE), "failed")

(* handleChat after a dispatch that did not succeed.  A rejected dispatch  *)
(* is caught by the route handler.                                         *)
Refusal(q, a) ==
  CASE a.kind = "aborted" -> Respond(q, "499")
    [] a.kind = "threw" -> Respond(q, "500")
    [] a.kind = "noCandidates" -> Respond(q, "503")
    [] a.kind = "failed" -> Respond(Log(q, a.conn, 0, TRUE), "failed")

(* runNativeToolLoop returns status, message, connection and clientAborted *)
(* of the failed round, but not noCandidates; handleChat logs whatever is  *)
(* not a client abort.                                                     *)
NativeRefusal(q, a) ==
  CASE a.kind = "aborted" -> Respond(q, "499")
    [] a.kind = "threw" -> Respond(q, "500")
    [] a.kind = "noCandidates" -> Respond(Log(q, a.conn, 0, TRUE), "503")
    [] a.kind = "failed" -> Respond(Log(q, a.conn, 0, TRUE), "failed")

-----------------------------------------------------------------------------
(* Arrival.  req.json() and, in trigger mode, the MCP call are awaited     *)
(* before the dispatch.                                                    *)

Receive(r) ==
  /\ chat[r].pc = "idle"
  /\ \E native, converted \in BOOLEAN :
       Step(r, [chat[r] EXCEPT !.pc = "preparing", !.native = native,
                               !.converted = converted])
  /\ UNCHANGED <<dispatchVars, quota>>

(* Invalid body, unknown model, or no converter for the wire format.       *)
Reject(r) ==
  /\ chat[r].pc = "preparing"
  /\ Step(r, Respond(chat[r], "rejected"))
  /\ UNCHANGED <<dispatchVars, quota>>

BeginDispatch(r, q) ==
  /\ Failover!Open(r) \/ Failover!Refuse(r)
  /\ Step(r, [q EXCEPT !.pc = "dispatching", !.dispatches = @ + 1,
                       !.deaf = IF q.here THEN @ ELSE @ + 1])

DispatchOnce(r) ==
  /\ chat[r].pc = "preparing"
  /\ ~chat[r].native
  /\ BeginDispatch(r, chat[r])
  /\ UNCHANGED quota

AwaitToolSet(r) ==
  /\ chat[r].pc = "preparing"
  /\ chat[r].native
  /\ Step(r, [chat[r] EXCEPT !.pc = "toolset"])
  /\ UNCHANGED <<dispatchVars, quota>>

-----------------------------------------------------------------------------
(* The single-shot path.                                                   *)

(* The answer is taken; the signal of a later dispatch has already fired   *)
(* if the client is gone, and starts a new round timer if it is not.       *)
TakeAnswer(r) == Failover!Take(r) /\ fired'[r] = ~chat[r].here

DispatchFailed(r) ==
  /\ chat[r].pc = "dispatching"
  /\ answer[r].kind # "ok"
  /\ TakeAnswer(r)
  /\ Step(r, IF chat[r].native THEN NativeRefusal(chat[r], answer[r])
                               ELSE Refusal(chat[r], answer[r]))
  /\ UNCHANGED quota

Served(r) ==
  /\ chat[r].pc = "dispatching"
  /\ answer[r].kind = "ok"
  /\ TakeAnswer(r)

AnswerJson(r) ==
  LET q == chat[r]
      c == answer[r].conn
  IN /\ Served(r)
     /\ ~q.native
     /\ \E t \in Tokens :
          /\ Step(r, Respond(Log([q EXCEPT !.reported = t], c, t, FALSE), "200"))
          /\ Charge(c, t)

(* A 2xx whose body is not JSON: result.json is null.  The Anthropic and   *)
(* Gemini response converters read a property of it; so does the tool loop *)
(* whatever the wire format.  The route handler answers 500.               *)
AnswerUnreadable(r) ==
  /\ Served(r)
  /\ Step(r, IF chat[r].native \/ chat[r].converted
             THEN Respond(chat[r], "500")
             ELSE Respond(Log(chat[r], answer[r].conn, 0, FALSE), "200"))
  /\ UNCHANGED quota

(* A converted stream is logged when it ends.  An OpenAI-shaped one is     *)
(* relayed, with whatever tokens it reports to the client, and is logged   *)
(* at once, without any.                                                   *)
AnswerStream(r) ==
  LET q == chat[r]
      c == answer[r].conn
  IN /\ Served(r)
     /\ ~q.native
     /\ \/ /\ q.converted
           /\ Step(r, [q EXCEPT !.pc = "streaming", !.response = "200", !.lastConn = c])
        \/ /\ ~q.converted
           /\ \E t \in Tokens :
                Step(r, Respond(Log([q EXCEPT !.relayed = TRUE, !.reported = t],
                                    c, 0, FALSE), "200"))
     /\ UNCHANGED quota

(* The stream converter hears of tokens.                                   *)
StreamReports(r) ==
  /\ chat[r].pc = "streaming"
  /\ chat[r].reported < MaxTokens
  /\ Step(r, [chat[r] EXCEPT !.reported = @ + 1])
  /\ UNCHANGED <<dispatchVars, quota>>

(* A deliberate fault: a broken stream is not charged.                     *)
StreamEndsUncharged(r) ==
  LET q == chat[r]
  IN /\ q.pc = "streaming"
     /\ \E error \in BOOLEAN, t \in {q.reported, 0} :
          /\ ~error => t = q.reported
          /\ Step(r, Respond(Log(q, q.lastConn, t, error), "200"))
          /\ Charge(q.lastConn, IF error THEN 0 ELSE t)
     /\ UNCHANGED dispatchVars

(* onComplete: finished, broken off with what was reported so far (an      *)
(* error event, or the client left), or cut off with nothing confirmed.    *)
StreamEnds(r) ==
  LET q == chat[r]
  IN /\ q.pc = "streaming"
     /\ \E error \in BOOLEAN, t \in {q.reported, 0} :
          /\ ~error => t = q.reported
          /\ Step(r, Respond(Log(q, q.lastConn, t, error), "200"))
          /\ Charge(q.lastConn, t)
     /\ UNCHANGED dispatchVars

-----------------------------------------------------------------------------
(* The native tool loop.                                                   *)

(* The top of the for loop.                                                *)
BeginRound(r, q) ==
  IF q.round = MaxRounds
  THEN Step(r, Respond(Log(q, q.lastConn, 0, TRUE), "unresolved")) /\ UNCHANGED dispatchVars
  ELSE IF q.late
  THEN Step(r, Respond(Log(q, q.lastConn, 0, TRUE), "504")) /\ UNCHANGED dispatchVars
  ELSE BeginDispatch(r, q)

ToolSetReady(r) ==
  /\ chat[r].pc = "toolset"
  /\ BeginRound(r, chat[r])
  /\ UNCHANGED quota

Finish(q) == Respond(Log(q, q.lastConn, q.tokens, FALSE), "200")

(* A deliberate fault: the totals are those of the last round only.        *)
RoundAnsweredOverwriting(r) ==
  /\ chat[r].native
  /\ Served(r)
  /\ \E t \in Tokens, calls \in 0..MaxCalls :
       LET q == [chat[r] EXCEPT !.lastConn = answer[r].conn, !.tokens = t,
                                !.reported = @ + t]
       IN Step(r, IF calls = 0 \/ q.round = MaxRounds - 1
                  THEN Finish(q)
                  ELSE [q EXCEPT !.pc = "tooling", !.calls = calls])
  /\ UNCHANGED quota

(* A deliberate fault: the last round is recognized one round too late.    *)
RoundAnsweredOffByOne(r) ==
  /\ chat[r].native
  /\ Served(r)
  /\ \E t \in Tokens, calls \in 0..MaxCalls :
       LET q == [chat[r] EXCEPT !.lastConn = answer[r].conn, !.tokens = @ + t,
                                !.reported = @ + t]
       IN Step(r, IF calls = 0 \/ q.round = MaxRounds
                  THEN Finish(q)
                  ELSE [q EXCEPT !.pc = "tooling", !.calls = calls])
  /\ UNCHANGED quota

(* Plain text, or the last round whatever it holds, answers the client;    *)
(* otherwise the calls run one after the other.                            *)
RoundAnswered(r) ==
  /\ chat[r].native
  /\ Served(r)
  /\ \E t \in Tokens, calls \in 0..MaxCalls :
       LET q == [chat[r] EXCEPT !.lastConn = answer[r].conn, !.tokens = @ + t,
                                !.reported = @ + t]
       IN Step(r, IF calls = 0 \/ q.round = MaxRounds - 1
                  THEN Finish(q)
                  ELSE [q EXCEPT !.pc = "tooling", !.calls = calls])
  /\ UNCHANGED quota

(* A deliberate fault: a call without a time limit that never returns.     *)
ToolReturnsNever(r) ==
  /\ chat[r].pc = "tooling"
  /\ UNCHANGED vars

ToolReturns(r) ==
  LET q == [chat[r] EXCEPT !.calls = @ - 1]
  IN /\ q.pc = "tooling"
     /\ IF q.calls > 0
        THEN Step(r, q) /\ UNCHANGED dispatchVars
        ELSE BeginRound(r, [q EXCEPT !.round = @ + 1])
     /\ UNCHANGED quota

-----------------------------------------------------------------------------
(* The environment.                                                        *)

(* Upstreams answer the dispatch in flight.                                *)
Settle(r) ==
  /\ Failover!Withdraw(r) \/ Failover!Serve(r) \/ Failover!Fail(r)
  /\ UNCHANGED <<chat, quota>>

(* A deliberate fault: rounds listen to their timer only.                  *)
HangupUnheard(r) ==
  /\ chat[r].pc \in {"preparing", "toolset", "dispatching", "tooling"}
  /\ chat[r].here
  /\ phase[r] # "answered"
  /\ Step(r, [chat[r] EXCEPT !.here = FALSE])
  /\ UNCHANGED <<dispatchVars, quota>>

(* req.signal fires.  Nothing runs between an answer and its continuation. *)
Hangup(r) ==
  /\ chat[r].pc \in {"preparing", "toolset", "dispatching", "tooling"}
  /\ chat[r].here
  /\ phase[r] # "answered"
  /\ Step(r, [chat[r] EXCEPT !.here = FALSE])
  /\ IF fired[r] THEN UNCHANGED dispatchVars ELSE Failover!Fire(r)
  /\ UNCHANGED quota

(* AbortSignal.timeout(roundTimeoutMs) of the round in flight.             *)
RoundTimeout(r) ==
  /\ chat[r].native
  /\ phase[r] = "open"
  /\ Failover!Fire(r)
  /\ UNCHANGED <<chat, quota>>

(* Date.now() passes loopDeadline.                                         *)
DeadlinePasses(r) ==
  /\ chat[r].native
  /\ chat[r].pc \in {"dispatching", "tooling"}
  /\ ~chat[r].late
  /\ Step(r, [chat[r] EXCEPT !.late = TRUE])
  /\ UNCHANGED <<dispatchVars, quota>>

(* Every request has been answered.                                        *)
AllDone ==
  /\ \A r \in Requests : chat[r].pc = "done"
  /\ UNCHANGED vars

-----------------------------------------------------------------------------
Handle(r) ==
  \/ Reject(r)
  \/ DispatchOnce(r)
  \/ AwaitToolSet(r)
  \/ DispatchFailed(r)
  \/ AnswerJson(r)
  \/ AnswerUnreadable(r)
  \/ AnswerStream(r)
  \/ ToolSetReady(r)
  \/ RoundAnswered(r)
  \/ ToolReturns(r)
  \/ Settle(r)

Next ==
  \/ \E r \in Requests :
       \/ Receive(r)
       \/ Handle(r)
       \/ StreamReports(r)
       \/ StreamEnds(r)
       \/ Hangup(r)
       \/ RoundTimeout(r)
       \/ DeadlinePasses(r)
  \/ AllDone

Spec == Init /\ [][Next]_vars

(* Awaits settle: the dispatch by Dispatch's EveryDispatchEnds, discovery  *)
(* and tool calls by their timeouts.  A stream may run for ever.           *)
FairSpec == Spec /\ \A r \in Requests : WF_vars(Handle(r))

-----------------------------------------------------------------------------
(* Properties.                                                             *)

(* What the client saw and what usage_logs says agree: a finished 200 and  *)
(* a failed request leave exactly one row each, the failure marked as      *)
(* such; a client abort, a crash or a rejected request leaves none; and no *)
(* request ever leaves two.  A 503 because no connection was eligible      *)
(* leaves no row on the single-shot path.  In native mode it leaves an     *)
(* error row, as loop.ts:238-246 drops noCandidates; the comments at       *)
(* handleChat.ts:434-437 and dispatchAttempt.ts:45-52 want none of any     *)
(* such request, and here the property follows the code.                   *)
RowsTellTheAnswer ==
  \A r \in Requests :
    LET q == chat[r]
        failed == {"failed", "504", "unresolved"} \cup (IF q.native THEN {"503"} ELSE {})
    IN /\ Len(q.rows) <= 1
       /\ q.pc # "done" => q.rows = <<>>
       /\ q.response \in {"499", "500", "503", "rejected"} \ failed => q.rows = <<>>
       /\ q.pc = "done" /\ q.response = "200" => Len(q.rows) = 1 /\ q.rows[1].conn \in Conns
       /\ q.response \in failed => Len(q.rows) = 1 /\ q.rows[1].error

(* A row without an error accounts for every token that upstreams reported *)
(* to the request, over all rounds of the tool loop, whichever connections *)
(* served them.  One exception, which handleChat.ts:475-477 admits: the    *)
(* row of an OpenAI-shaped stream is written before the stream is read and *)
(* has no tokens, whatever the upstream reports in it.                     *)
SuccessTokensComplete ==
  \A r \in Requests : \A i \in 1..Len(chat[r].rows) :
    ~chat[r].rows[i].error =>
      chat[r].rows[i].tokens = (IF chat[r].relayed THEN 0 ELSE chat[r].reported)

(* Outside the tool loop, a connection's quota window holds exactly the    *)
(* tokens of its usage rows, those of streams that broke off included: as  *)
(* many as there are pairs of a request and a token that its row reports.  *)
(* The tokens of a relayed stream are neither in its row nor in the quota. *)
LoggedTokens(q, c) ==
  IF ~q.native /\ q.rows # <<>> /\ q.rows[1].conn = c THEN q.rows[1].tokens ELSE 0

TokensOf(r, c) == {r} \X (1..LoggedTokens(chat[r], c))

TokensIn(c) == UNION {TokensOf(r, c) : r \in Requests}

QuotaMatchesRows == \A c \in Conns : quota[c] = Cardinality(TokensIn(c))

(* Once the client is gone at most one more dispatch begins, however many  *)
(* rounds and tool calls are left: the loop learns of the hangup from it.  *)
HangupEndsTheLoop == \A r \in Requests : chat[r].deaf <= 1

(* The tool loop makes at most MaxRounds dispatches and always resolves:   *)
(* its fall-through after the for loop is never reached.                   *)
RoundBudget ==
  \A r \in Requests :
    /\ chat[r].dispatches <= (IF chat[r].native THEN MaxRounds ELSE 1)
    /\ chat[r].response # "unresolved"

(* Every request that arrives is answered.                                 *)
EveryChatIsAnswered ==
  \A r \in Requests : chat[r].pc = "preparing" ~> chat[r].response # "none"

(* loop.ts:51-56 says of clientAborted: "True when a round's dispatch      *)
(* failed because the CLIENT disconnected, not because the upstream        *)
(* failed", and only then the caller answers a bare 499.                   *)
BareAnswerMeansHangup ==
  \A r \in Requests : chat[r].response = "499" => ~chat[r].here
=============================================================================
