# JRoute: specifications, model checking and proofs

JRoute is a self-hosted proxy in front of LLM providers. A client sends an
OpenAI-style chat request with a JRoute API key; JRoute picks one of the
operator's connections to the provider, dials it, fails over to the next one
when it must, converts the wire format, optionally runs tools, cleans up the
text, and accounts for what was spent. The modules in this directory model the
parts of it where order, interleaving and failure matter, check them with TLC
and prove the central ones with TLAPS.

Paths are relative to the repository's root.

## 1. Inventory

The program is one Node process. Its database (better-sqlite3) is synchronous,
so **the code between two awaits is one atomic step**; interleaving happens at
awaits only: upstream dials, token refreshes, tool calls, stream reads. Every
request shares the database with all other requests and with the dashboard. A
second process on the same `DATA_DIR` is possible (`jroute dev` beside
`jroute start`; the code sets `busy_timeout` and speaks of "a concurrent
writer"); it matters for `Startup` only.

| Component | State it keeps | Operations | Hard behaviour | Correct when |
|---|---|---|---|---|
| Connection dispatch (`jroute/dispatchAttempt.ts`, `selectConnection.ts`, `executor.ts`) | locals of the failover loop; cooldowns; the routing cursor | select, dial, fail over, refresh and retry, park, rotate | candidates are a snapshot taken before the first await; the retry steps the loop counter back; hangups anywhere | each candidate is tried once and in order, the failure reported is a real one, a hangup stops it, only a blamed connection is parked |
| Connections table and dashboard (`src/lib/db/connections.ts`, `src/app/api/connections/`) | rows, priority, key, cooldown | list, toggle, re-key, reorder, delete | runs between any two steps of a dispatch | bookkeeping of running requests survives it |
| Quota windows (`src/lib/db/quotaWindows.ts`) | requests and tokens per connection and bucket | record, isOverQuota | checked at selection, counted after the dial | the overshoot is bounded; tokens match the usage rows |
| Chat completion handler (`jroute/handleChat.ts`, the route) | locals, `usage_logs` | validate, dispatch, convert, answer, log | six places log usage, one of them in a callback after the response was returned | exactly the row that belongs to the answer |
| Native tool loop (`src/lib/mcp/loop.ts`) | round, running totals, deadline | dispatch a round, run its tools, answer | a timer and the client's signal merged into one; deadline looked at between rounds only | bounded rounds, every token accounted for, a hangup ends it |
| Tool set cache, trigger mode (`src/lib/mcp/nativeToolSet.ts`, `trigger.ts`, `client.ts`) | cached discovery and its expiry; open clients | discover, merge, call, fire a trigger, configure | discoveries race and overwrite each other; one server hangs or fails | first registration wins, calls go to who advertised, clients are closed, stale tools fade |
| Streaming pipeline (`jroute/convert/*/stream.ts`, `jroute/*StreamTransform.ts`, `src/lib/prompts/reasoningTagScanner.ts`, `jroute/sse.ts`) | scanner phase and buffer, committed text, terminated flags | one frame through all stages, flush, cancel | text held back across frames, three ways to end, aborts | the client reads what it would have got without streaming; one completion |
| OAuth tokens (`src/lib/oauth/refresh.ts`, `persist.ts`, `src/lib/db/oauthTokens.ts`) | token rows | login, refresh, delete | two refreshes of one token; answers lost, late or stored after a deletion | the stored token is one the provider honours |
| OAuth callback flow (`src/lib/oauth/callbackState.ts`, `server.ts`, the route, the dialog) | the one flow of a provider, its port, its timers | start, call back, poll, exchange, clean up | several dialogs and tabs on one flow; timers of earlier flows | a code is used once and under its own label; the port is given back |
| Database start (`src/lib/db/bootstrap.ts`, `migrationRunner.ts`, `providers.ts`, `models.ts`) | schema, tracking table, seeded rows | plan, apply, seed; delete and add providers | crash between two migrations, two processes, lost tracking rows | up means current; rows once; deleted stays deleted |
| Prompt assembly and request conversion (`handleChat.ts`, `src/lib/prompts/richAssemble.ts`, `jroute/convert/`) | none | assemble, merge, hoist, absorb, place, strip | indices into a list that each pass changes | every text arrives once, in order, at its depth |
| Lorebooks (`src/lib/lorebooks/`) | per-scope variables | run scripts in a sandbox | a script runs synchronously to its end | see section 8 |
| Response conversion; keys, sessions, guard; pages, installer, command line; leftovers of the project JRoute was forked from | table rows or nothing | lookups, pure functions | none of the kind above | see section 8 |

A request enters the route handler, which calls `handleChat`. That assembles the
prompt (lorebooks and triggers included), then calls `dispatchWithFailover` once
(plain mode) or hands it to the tool loop, which calls it once per round and runs
the tools of the shared tool set in between. The dispatch converts the request
and reads and writes connections, quota windows, OAuth tokens and the routing
cursor. Its answer is converted to JSON, or its stream is piped through converter,
reasoning stage, regex stage and keepalive to the client; the converter's
`onComplete` writes the usage row.

## 2. The modules

| Module | Models | Notes |
|---|---|---|
| `FailoverPromise` | what a dispatch promises its caller | abstract: a shrinking offer of connections, one answer |
| `Dispatch` | dispatch, connections, cooldowns, request quota, cursor, dashboard | implements `FailoverPromise` (`KeepsPromise`) |
| `ChatRequest` | `handleChat` and the native tool loop | composed with `FailoverPromise`: it uses `Failover!Open`, `Serve`, ... as its dispatch |
| `ToolSet` | discovery, its cache, trigger mode, tool calls, `mcp_servers` | what `ChatRequest` takes to be awaits that return |
| `OAuthTokens` | the token table under concurrent refreshes | what `Dispatch` takes to be an await with three outcomes |
| `OAuthCallback` | the loopback login: flow store, callback server, routes, dialogs | where the logins of `OAuthTokens` come from |
| `Startup` | `getDb`, the migration runner, the seeding of providers and models | two processes |
| `Prompt` | prompt assembly and the three request converters | one action per pass of a converter, or per round of a pass's loop |
| `TagScanner` | `reasoningTagScanner.ts` | pure; its loop is a recursive function over the turns |
| `Streams` | converters' stream ends, reasoning stage, regex stage | uses `TagScanner` |
| `DispatchProofs`, `OAuthTokensProofs`, `OAuthCallbackProofs`, `ChatProofs`, `ToolSetProofs`, `StartupProofs`, `StreamsProofs`, `PromptProofs` | theorems about those modules | TLAPS |
| `MCDispatch`, `MCChat`, `MCStreams`, `MCToolSet`, `MCStartup` | values for the constants | no definition of the models is replaced |

Operators with `A deliberate fault` in their comment are never used by a
specification. Each is the definition below it with a plausible bug; put in its
place, the property it is listed with (`PROJECT.json`, "mutants") fails.

### Dispatch

One action is the whole synchronous segment between two awaits of
`dispatchWithFailover`. `Start` takes the snapshot of candidates (eligible,
sorted, rotated) and walks to the first dial. `DialOk`, `DialAborted`,
`DialRetryable`, `DialFatal`, `DialUnauthorized`, `DialUnauthorizedForGood` are
the six things a dial can come back with, `RefreshOk`, `RefreshFailed`,
`RefreshThrew` the three of a token refresh (the last is the foreign-key failure
when the connection was deleted meanwhile). Each runs on to the next dial or to
the answer, cooldown, quota, cursor and skipped unreadable credentials included.
`Abort` is the client's signal, `Tick` the clock, `Toggle`, `Rekey`, `Reorder`,
`Delete`, `SetStrategy` the dashboard. `Release` ends a slot so that it can
serve the next request.

Time is relative: `cool[c]` is what is left of a cooldown and `phase` the
clock's position inside the quota window, so no unbounded clock is needed.

### ChatRequest

`Receive`, `Reject`, `DispatchOnce`, `AnswerJson`, `AnswerUnreadable` (a 2xx that
is not JSON), `AnswerStream`, `StreamReports`, `StreamEnds` are `handleChat`;
`AwaitToolSet`, `ToolSetReady`, `RoundAnswered`, `ToolReturns`, `RoundTimeout`,
`DeadlinePasses` the tool loop. `Hangup` is the client's. The dispatch itself is
whatever `FailoverPromise` allows, which `KeepsPromise` justifies: TLC for one
request over three connections, `DispatchProofs` for any number of both. Tokens
are small numbers; a tool call is one await whatever its result, because
`executeOneToolCall` turns every failure into a result. The tokens an OpenAI-shaped
stream reports to its client are `reported` here too, although no row ever has them.

### ToolSet

A request is at one of its awaits: connecting to the next server, waiting for its
answer, or waiting for a tool call. `Hit` and `Miss` are `getNativeToolSet`, `Fire`
is `runTriggerMode`; `Connected`, `Refused`, `TimedOut` end the first await,
`Listing`, `Fired`, `Failed` the second, and each goes on to the next server. The
last server of a discovery writes the cache, whatever is in it by then. `Call` and
`CallReturns` are `executeOneToolCall`. `Configure` is the dashboard. Connecting and
listing in a discovery and calling a tool are under timers, so `Tick` never passes one
that has run out. Three awaits of the code are not: `client.close()`, and the connects
of trigger mode (trigger.ts:58) and of a tool call (loop.ts:111). The model takes a
close to return at once and bounds those connects by the same ticks; a server that hangs
there holds the request up in the code and not in the model.
No property rests on it: `ClientsAreClosed` and `StaleToolsFade` are about what a
request has got and about discoveries. Two servers may expose
one name; every server is taken to implement every tool, the worst case for
collisions.

### OAuthTokens

A refresh token is a number in the order the provider issues them. `Ask` reads the
row and awaits; `Grant` and `Deny` are the provider's, which `keeps` a token,
`rotates` it, `revokes` the login when a spent one is presented, or `overlaps`: it
issues a successor and honours the older tokens until it retires them (`Retire`, the
grace period of RFC 6749 section 6); `Store`, `StoreFails` (the connection is gone:
the foreign key refuses), `GiveUp` and `Timeout` end the call. A call that is cut
off leaves its request `adrift`: it may still reach the provider. `Login`, `Delete`
are the dashboard, `Crash` and `CrashInLogin` (between its two inserts) end the
process.

### OAuthCallback

`StartFlow` replaces the one flow of the provider and opens a browser tab;
`Callback` is any tab calling back, also one of an earlier flow; `PollEarly`,
`PollExchanges`, `PollRefused` are the route that the dialogs poll; `ExchangeOk` and
`ExchangeFails` its awaited exchange; `Cleanup` the timer every flow leaves behind.
A flow is recognized by its age, as the code recognizes it by `startedAt`.

### Startup

A step is one transaction or one autocommitted statement. `Open`, `Plan` and `Apply`
are the runner: what is missing is applied in version order, a file that fails with a
duplicate column is marked, any other failure ends the boot, and the next request
opens again. `SeedDefaults`, `ReadDeleted`, `SeedCatalog` follow. `DeleteProvider`,
`AddProvider` / `FinishAdding` and `DeleteModel` are the operator. `Busy` is a
write lock held by the other process beyond `busy_timeout`, `Lose` the loss of
tracking rows, `Upgrade` the installation of a release with one file more. The
four files of `MCStartup` have the shapes of 001, 002, 013 and 014.

### Prompt

`Assemble` is the assembly of the prompt. The client's first system message, which a
rich preset may take over, goes where the preset has its `charDescription` entry
(`Taken`): in front of the history, behind it, or to a depth. For OpenAI follow
`MergePrepended`, `Splice` (one injection) and `Append1`. For Anthropic and Gemini a
pass is a loop, and a round of it an action: `Hoist`; `Map` (one message) and
`Mapped`; `Absorb` (one turn of the model's at the beginning) and `Absorbed`;
`Place` (one injection) and `Placed`; then `Strip`, `Drop` and `Finish`. `stage` is
where the converter is, `body` the messages it has not read, `todo` the injections
not placed yet; `IsNext` picks the one that `orderInjections` sorts first. A text is
an item that keeps its identity, so that "once" and "in order" can be said of it.

### Streams and TagScanner

Frames flow in order through TransformStreams, and what a stage sends is a function
of the frames it got. So one action takes one upstream frame through all stages
(`Reason` sends on to `Regex`, that to `Deliver`; `Close` runs their flushes;
`Becomes` writes the line of the three back to the variables): `SendRole`,
`SendDelta`, `SendFinish`, `SendDone`, `SendGeminiFinish`. `BreakOff` is an upstream
that closes early or sends what the converter does not understand, `Reset` a broken
connection (no stage flushes), `Hangup` the client. Every text over the alphabet,
cut into deltas in every way, with the finish reason in a frame of its own or
(OpenAI) on the last text, is sent through every combination of wire format, tag
pairs and scripts. A text is a sequence of letters here because the properties are
about single letters. The scanner's loop and the scripts' replacements are recursive
functions (`Drive`, `Substitute`, `Applied`), not RECURSIVE operators, so that they
can be reasoned about.

## 3. What the runs check

Passing runs:

| Run | Bounds | Checks |
|---|---|---|
| `failover` | 1 dispatch slot (reused), 3 OAuth connections, one token row unreadable, deletes, strategy changes, retry-after 0 or 3 | `DialBudget`: one dial per connection, two after a refresh. `HangupStopsBilling`. `FailoverOrder`: candidates in order, none passed over unless unreadable. `FailureAttribution`: status, message and connection of a failure are one real dial's. `ParkingIsBlamed`: who gets a cooldown, and when. `EveryDispatchEnds` (liveness). `KeepsPromise` (refinement) |
| `contention` | 2 slots, 2 connections, a quota of one request, reordering, re-keying, toggling | `QuotaOvershootBounded`: how far stale snapshots overshoot. `RotationAdvances`: the shared cursor |
| `chat` | 1 request, every mode, 3 connections, 4 rounds, 2 tool calls, 2 tokens | `RowsTellTheAnswer`, `SuccessTokensComplete`, `QuotaMatchesRows`, `HangupEndsTheLoop`, `RoundBudget`, `EveryChatIsAnswered` (liveness) |
| `tool_set` | 2 requests, 2 servers that expose the same tool, times of 1 and 2 ticks | `ToolsOfAllWhoAnswered`, `CallsReachTheAdvertiser`, `ClientsAreClosed`, `StaleToolsFade` |
| `oauth_tokens` | 3 refreshes of 1 connection, 3 tokens, providers that keep, rotate, revoke or overlap | `SessionSurvives`, `TokensMatchConnections`, `NeverRollsBack`, `EveryRefreshEnds` (liveness) |
| `oauth_callback` | 2 dialogs, 3 flows, timers of 2 ticks | `CodeOnce`, `LabelsAreTheirs`, `TimerSpares`, `PortIsReleased` (liveness) |
| `startup` | 2 processes, 4 files (3 in the first release), 2 catalog providers, 2 faults, 2 operations | `UpMeansCurrent`, `RowsOnce`, `DeletedProvidersStayDeleted`, `ComesUp` (liveness) |
| `prompt` | histories of up to 4 messages of 6 kinds, up to 2 injections of depth 0 to 2, a card in front, behind or at a depth | `InjectionsReachTheModel`, `InjectionsHonourDepth`, `ClientTextKept`, `ResultsFollowCalls` |
| `streams` | 3 letters, answers of up to 6, deltas of up to 3, cap 2, margin 2, 3 tag presets, 3 script lists, 3 wire formats | `SameTextAsJson`, `NothingLostOrDoubled`, `AnnouncementsArrive`, `CompletionOnce`, `HoldsBounded` |

Why these bounds are enough to be interesting. Three connections give a
beginning, a middle and an end of a candidate list, and an unreadable one in
the middle; the theorems of section 5 remove the bound. Two slots are the least
with a race and two connections the least with a rotation; a quota of one is
overshot by both. Four rounds have a first, an inner, a last-but-one and a
last round. Two servers collide, and a cache that outlives a server's timers by one
tick can be refilled by the slower request; three refreshes allow one to be stored
between two others; three flows put a stale tab and a stale timer beside a current
flow. Two faults are a crash or a lock timeout on top of lost tracking rows; each
kind of migration file is there once. Four messages hold a greeting, a call with
two results, and a turn after them. In `streams`, tags have two letters, so six
letters hold a block with text around it, an over-long block that is discarded and
closed again, and a stray close tag; a cap and a margin of two are passed by them,
and every position of a tag or a match can fall on either side of a delta's end.

Runs that show a disagreement between the code and what it says of itself:

| Run | Property | What happens |
|---|---|---|
| `round_timeout` | `BareAnswerMeansHangup` | a round that exceeds its own timer is answered, and logged, as if the client had left |
| `bundled_text` | `NeverDropsText` | finish_reason on a delta with content: what the reasoning stage releases after it is lost in the regex stage |
| `injected_role` | `InjectionsAreSystemMessages` | to an OpenAI-shaped upstream a lorebook's or a trigger's text is a message with the role `lorebook` or `mcp-trigger` |

### What the properties except

- `SameTextAsJson` admits two exceptions that are visible to the stage itself: the
  scanner gave up looking for an implicit block at the cap, and the regex stage found
  that the text already sent no longer fits (`Outrun`). In the second case
  `NothingLostOrDoubled` still holds: a transformed beginning and the raw rest. A third
  one, for both, is text `Stranded` between the stages: the run `bundled_text`.
- `QuotaMatchesRows` is about plain mode; the tool loop folds no tokens into quota
  windows. `SuccessTokensComplete` excepts OpenAI-shaped streams, whose row is written
  before they are read and has no tokens (handleChat.ts:475-477 says so).
- `ParkingIsBlamed` says who may park a connection, not who may clear a cooldown: a
  success of another request does, and the last write wins.
- `SessionSurvives` excepts a pair that was issued but never received, and refreshes that
  overlapped at a provider that revokes or overlaps: nothing in the code prevents either.
- `TokensMatchConnections` excepts the state after a crash inside a login, and
  `DeletedProvidersStayDeleted` a deletion between two statements of another process's
  boot.

### Disagreements that the properties state without a run of their own

In each of these the code does something else than it says elsewhere, or than one would
want. The property named follows the code and says so in its comment.

- A refusal because no connection was eligible is to leave no usage row
  (dispatchAttempt.ts:45-52, handleChat.ts:434-437). In native mode loop.ts:238-246 drops
  `noCandidates`, and handleChat.ts:326 writes an error row: `RowsTellTheAnswer`.
- reasoningStreamTransform.ts:76 drops a frame nothing of whose text may be sent yet, and
  with it a finish reason that came in it. The regex stage keeps it
  (regexStreamTransform.ts:164), and line 72 speaks of the "identical fix":
  `AnnouncementsArrive`.
- convert/anthropic/stream.ts:216-222 counts an error of the upstream's side as
  "upstream-closed". A connection that is reset runs `cancel`, which reports
  "client-hangup": `CompletionOnce` constrains the number of reports then, not the reason.
- At a provider that honours older refresh tokens for a while, two refreshes of one
  connection can both be granted, and refresh.ts:95-131 stores the two pairs in the order
  the answers come, so that an older one may stay: `NeverRollsBack` and `SessionSurvives`
  are stated for connections that no two calls refreshed at once.
- A `charDescription` entry with `injection_position` 1 makes a depth-injection of the
  client's system message, and handleChat.ts:173 removes it from the messages. If the
  history has no turn of the user's, Anthropic's converter (request.ts:275) and Gemini's
  have nowhere to put it, and it is lost: `ClientTextKept`, which also excepts what
  Anthropic's converter drops on purpose, assistant turns at the very end.

## 4. Fairness

| Specification | Weak fairness of | Because |
|---|---|---|
| `Dispatch!FairSpec` | `Settle(r)`, the return of an await | the HTTP client bounds a silent upstream by its headers and body timeouts, a refresh is bounded by `REFRESH_TIMEOUT_MS` |
| `ChatRequest!FairSpec` | `Handle(r)` | a dispatch ends by `EveryDispatchEnds`; discovery ends by its timers and so does a tool call, which is assumed here and not checked (the awaits without one, section 2, included) |
| `OAuthTokens!FairTokenSpec` | `Return(r)` | Node runs a settled await and the timer that aborts the fetch; the provider owes nothing |
| `OAuthCallback!FairSpec` | `Tick`, `Cleanup`, the end of an exchange, `GiveUp` | timers fire; users and providers owe nothing |
| `Startup!FairStartupSpec` | `Boot(p)`, and `Open(p)` after a failure | a boot is synchronous code; requests keep asking for the database |

Nothing is assumed of clients, of the dashboard, or of a stream: a stream may run
for ever, which is why no property says that it ends. `EveryChatIsAnswered` says
that the response is begun.

## 5. What is proved

From the named assumptions about the constants, and that Z3, Zenon and LS4 are right.
`DispatchProofs`, for every number of connections and concurrent requests, every
quota, cooldown and set of dashboard operations (`DispatchAssumption`):

| Theorem | States |
|---|---|
| `TypeCorrect` | `Spec => []TypeOK` |
| `DialsAreBudgeted` | `Spec => []DialBudget` |
| `FailoverIsOrderly` | `Spec => []FailoverOrder` |
| `FailureIsAttributed` | `Spec => []FailureAttribution` |
| `HangupIsHonoured` | `Spec => []HangupStopsBilling` |
| `DispatchKeepsPromise` | `Spec => KeepsPromise` |

None of the four invariants is inductive. That a connection is not dialed
twice needs that a candidate list names no connection twice, that what lies
behind the current attempt is untouched, and that a refreshed connection was
dialed before; that the failure is attributed needs that the loop's `last*`
locals always name the last answered dial. `ReqInv` collects this for a request
that waits at an await, `ReadyAt` is the same at the top of the loop. The argument
then has three parts: a segment that answers or continues leaves the locals at
`ReadyAt` (one lemma per outcome: `DialRetryableInv`, `RetryEffect`, ...);
`LoopRuns` goes from `ReadyAt` over skipped credentials to the next dial
(`DialEffect`) or to the answer (`ExhaustionEffect`), both of which establish
`ReqInv`; and no other action touches a request's locals (`EnvironmentInv`).
`NextInv` puts them together, `InvImpliesProperties` reads the properties off.
The loop is not recursive in the model: the next readable candidate is
described as the least one, so no induction over the list is needed.

Its second half is about what dispatches do to the tables they share, under the same
assumption:

| Theorem | States |
|---|---|
| `ParkingBlames` | `Spec => ParkingIsBlamed` |
| `RotationDoesAdvance` | `Spec => RotationAdvances` |
| `QuotaOvershootIsBounded` | `Spec => []QuotaOvershootBounded` |

The promise of a request is a function of its locals, so the refinement is proved
request by request: one lemma per operation of the promise says when a change of
the locals is that operation (`WithdrawStep`, `ServeStep`, ...), and one per group of
actions shows that it applies. That the offer shrinks strictly at a failover needs
`Injective` candidate lists from `ReqInv`; that a retry leaves it alone needs that the
retried candidate is still readable. `QuotaOvershootBounded` is not inductive:
`QuotaInv` books ahead, on top of what is counted, one dial for each request that has
the connection on offer and one more for each that can still refresh its token. Every
counted dial uses up a booking (`SettledBooks`), and only `Start` makes bookings, when
the connection is below its threshold.

`OAuthTokensProofs`, for every number of connections, concurrent refreshes and
tokens, every expiry threshold and the four kinds of provider (`OAuthTokensAssumption`):

| Theorem | States |
|---|---|
| `TokensTyped` | `TokenSpec => []TokenTypeOK` |
| `TokenInvariant` | `TokenSpec => []TokenInv` |
| `SessionsSurvive` | `TokenSpec => []SessionSurvives` |
| `TokensMatch` | `TokenSpec => []TokensMatchConnections` |
| `TokensNeverRollBack` | `TokenSpec => NeverRollsBack` |

`SessionSurvives` says that the stored token is one the provider honours. By itself
that is not inductive: a store can only be judged by what is known about the answer
it stores. `ConnInv(c)` says it of one connection: tokens not issued yet are in no
answer (`Untouched`, `Bounded`); of a provider's pairs only the newest counts, and
at most one answer under way carries it (`NewestUnderWay`); where no two refreshes
ever overlapped there is one request at most, and it was sent with the stored token
(`Alone`), which is what the order of the answers rests on at a provider that
honours older tokens (`Ordered`, `Latest`: when those retire, the newest is stored
or under way); the row's token is the newest pair unless that is under way or was
lost (`Matched`). One lemma per action shows that it keeps `ConnInv` of every
connection, `InvKept` collects them.

`OAuthCallbackProofs`, for every number of dialogs and flows and all times
(`OAuthCallbackAssumption`):

| Theorem | States |
|---|---|
| `TypeCorrect` | `Spec => []TypeOK` |
| `CodesAreSpentOnce` | `Spec => []CodeOnce` |
| `LabelsMatch` | `Spec => []LabelsAreTheirs` |
| `TimersSpareLaterFlows` | `Spec => TimerSpares` |

A code is spent in the step that clears its flow, and numbers are not given out
again: `Unspent` says that the codes of the current flow and of later ones are unspent,
`Issued` that the current one was started. `Timed` is what the timer needs: of a running
flow there is a timer whose time left and the flow's age add up to `AUTO_CLEANUP_MS`.

`ChatProofs`, for every number of requests, connections, rounds, tokens and tool calls
(`ChatAssumption`):

| Theorem | States |
|---|---|
| `TypeCorrect` | `Spec => []TypeOK` |
| `RowsMatchAnswers` | `Spec => []RowsTellTheAnswer` |
| `SuccessIsAccounted` | `Spec => []SuccessTokensComplete` |
| `HangupsEndLoops` | `Spec => []HangupEndsTheLoop` |
| `RoundsAreBudgeted` | `Spec => []RoundBudget` |
| `QuotaIsTheRows` | `Spec => []QuotaMatchesRows` |

The invariant relates a request's record to what the promise knows of its dispatch
(`Sound`): who waits at a dispatch and what it got (`SeatOf`), that the signal fired
when the client left and that a dispatch whose signal fired does not succeed
(`SignalOf`), how rounds are numbered (`RoundsOf`), that there is no row before the
answer and that the running totals are complete until then (`LedgerOf`), and the
rows afterwards (`BookedOf`). `Balanced` is for the quota: what a connection's
window has counted is the number of tokens in its rows. The tokens form a set (who
recorded them, and which of his), so that a row adds to it without any sum over
rows.

`ToolSetProofs`, for every number of requests, servers and tools and all times
(`ToolSetAssumption`):

| Theorem | States |
|---|---|
| `TypeCorrect` | `Spec => []TypeOK` |
| `ToolsAreComplete` | `Spec => []ToolsOfAllWhoAnswered` |
| `CallsFindAdvertiser` | `Spec => []CallsReachTheAdvertiser` |
| `ClientsClose` | `Spec => []ClientsAreClosed` |
| `StaleFades` | `Spec => []StaleToolsFade` |

`Collected` says what a discovery knows at the server it awaits, `Spent` how long it has
taken at the least if every timer before it ran out, `CacheLag` that what is in the
cache lags behind the table by a whole discovery and the time it has been cached,
whichever request wrote it.

`StreamsProofs`, for every alphabet, all tags no one of which is part of another, all
scripts, every margin and cap and answers of every length (`StreamsAssumption`):

| Theorem | States |
|---|---|
| `StreamTypes` | `Spec => []Typed` |
| `ScannerIsBounded` | `Spec => []HoldsBounded` |
| `CompletesOnce` | `Spec => []CompletionOnce` |
| `HoldingBackIsSafe` | `Spec => []AnnouncementsArrive` |
| `EveryLetterOnce` | `Spec => []NothingLostOrDoubled` |
| `StreamsLikeJson` | `Spec => []SameTextAsJson` |

The last three except what section 3 says of a finish reason that comes with text.
The proofs look at a frame's walk through the stages: `Went` says what one does to
the line of scanner, regex stage and client, `Steps` that every step of `Next` is
such a walk, the close of the stream or the client's leaving. The invariants are
then about walks: `Typed` (every stage is at rest between frames, so the scanner's
loop ends), `Ending`, `Announced`, `Kept` (what the client has is what the regex
stage accounts for, and the stages flush in order) and `Faithful`: until it flushes,
the scanner with what it has sent so far is the scanner that got the text in one
piece.

That a text may be cut anywhere is the heart of it, and a statement about the
scanner alone: `DriveJoins`, by induction over the turns of its loop. A turn that
finds a tag does the same if more text follows (`HitTurns`, since no tag is part of
another and so nothing that follows can be found earlier). A turn that finds none
forgets part of the text, and then the next turn must find in the rest what it would
have found in the whole: outside a block because every beginning of a tag at the end
is kept (`OutsideJoins`), in a block that is discarded because one letter less than
the longest close tag is kept (`DiscardingJoins`). In the phase that looks for an
implicit block it is false once the cap is passed, which is why the property excepts
`gaveUp`.

Induction is over sets, `{n \in Nat : ...}`, from the well-foundedness of the
numbers (`LeastOf`, `Induction`, `RankInduction`); `Recursion` gives the recursive
functions their defining equations.

`PromptProofs`, for histories of every length and order, any number of injections at any
depth, every preset and the three wire formats (`PromptAssumption`):

| Theorem | States |
|---|---|
| `PromptIsConsistent` | `PromptSpec => []Inv` |
| `EveryInjectionArrives` | `PromptSpec => []InjectionsReachTheModel` |
| `DepthsAreHonoured` | `PromptSpec => []InjectionsHonourDepth` |
| `NoTextIsLost` | `PromptSpec => []ClientTextKept` |
| `CallsKeepTheirResults` | `PromptSpec => []ResultsFollowCalls` |

The properties speak of the request that is sent, so the invariant must say what
every pass leaves for the next. `Inv` has four parts. `Base`: which messages have
been read and where the injections are. `Said`: which items are in the prompt
(`Known`), that those which have been read still are (`Kept`; the card that a rich
preset puts at a depth or behind the history is in neither the messages nor the
prompt until it is placed, `Held` and `Appended`), each once (`Distinct`) and in
order (`Sorted`), in whose turn (`Speakers`), and that a user's turn comes first
once the model's have been absorbed (`UserTurn`), so that there is a turn to place a
block behind. `Deep`: where the injections placed so far are; since they are placed
deepest first, the next one moves those before it and none behind it. `Calls`: a
call is followed by the turn of its results, or it is open and its message was read
last.

A pass adds items to a part, inserts a turn, removes one, or moves the items of the
first turn to the system field. `Carries` is what these have in common: every item
comes from a place of the prompt before, in the same order, and the rest is new.
What that keeps is proved once (`CarriesDistinct` and those after it), and `Grows`,
`Inserts`, `Removes` and `Absorbs` show it of the four. Calls need more than that,
because an insertion keeps the order of items and may still come between a call and
its results: there `UserAdds` (a block joins a user's turn, behind the results),
`RemovedCalls` and `MapAppends` go turn by turn. No lemma is an induction over data:
a pass is a loop of single steps in the model as in the code, so that the invariant
does the induction.

`StartupProofs`, for every number of processes, files, providers, faults and
operations (`StartupAssumption`: a column is added by one file only, a row is inserted
by one file only, and a file that inserts rows also adds a column or creates a table
that must not exist; the files of the repository are of this kind):

| Theorem | States |
|---|---|
| `ServersAreCurrent` | `StartupSpec => []UpMeansCurrent` |
| `RowsAreInsertedOnce` | `StartupSpec => []RowsOnce` |
| `DeletionsLast` | `StartupSpec => []DeletedProvidersStayDeleted` |

`Whole` carries the first two: a file that left a column behind was applied as a whole,
so that marking it without running it is right, and running it a second time fails.
`Buried` carries the third: every process that may still seed has read the deletion.

## 6. What is only model-checked

- Liveness (`EveryDispatchEnds`, `EveryChatIsAnswered`, `EveryRefreshEnds`,
  `PortIsReleased`, `ComesUp`): beyond the proof system.

## 7. Plan

Done: `FailoverPromise`, `Dispatch` and its proofs; `ChatRequest`; `TagScanner`,
`Streams`; `OAuthTokens` and its proofs; `OAuthCallback`; `ToolSet`; `Startup`;
`Prompt`.

The safety properties of every module that runs are proved, and so is the refinement.

Left, in order:

1. A byte level under `Streams`: frames that end in `\r\n\r\n`, a last frame without
   its blank line, keepalive comments between two halves of a frame.
2. The installer: a restart that waits half a second for a server with five seconds
   of grace, an update that records what it has not built yet.

## 8. What is not modelled, and why

- Token thresholds as a selection criterion: in `Dispatch` every threshold is on
  requests; tokens appear in `ChatRequest` as what is recorded.
- Frame splitting, the keepalive timer, regular expressions beyond fixed strings
  (a script is a fixed text and its replacement; every occurrence is replaced,
  as the code forces the global flag).
- What is not in `Prompt`: an entry's role other than system, two entries that are both
  `charDescription` (the text then comes twice), a `charDescription` with
  `injection_order` 0, where it ties with lorebooks, images and tool definitions, a depth
  that is negative or a fraction (`injection_depth` is any number; the Anthropic and
  Gemini converters then index beyond the turns), and a greeting that holds tool calls
  (`absorbLeadingAssistant` leaves their results without a call; `CallsAreAnswered`
  excludes it). Macros and logit bias are pure functions of one request.
- The sandbox of lorebooks: a script runs synchronously, reads its variables before
  and writes them after, and no other request runs in between.
- Response conversion: pure functions of one body.
- In `Startup`: the pre-migration backup, and the repair tables of the runner for
  versions this repository does not have. The mass-migration check looks at
  `applied.size > 0`, so a tracking table that lost all of its rows is not refused
  (migrationRunner.ts:820 says such a wipe is); with plain CREATEs in 013 the boot
  then fails instead, which `Apply` models and `ComesUp` excepts.
- Default models: `DeleteModel` and the seeding are modelled; that a deleted one comes
  back at the next boot is what the code does, and no property objects.
- Keys, sessions, the guard: single synchronous lookups and updates.
- The dashboard's pages but one dialog, the installer, the command line, logging: no
  state the modelled parts depend on.
- Code inherited from the project JRoute was forked from that no live path reaches.

## 9. Running it

`tlc -config Failover.cfg MCDispatch.tla`, and likewise for the other
configurations (`PROJECT.json` names the module of each); `tlapm DispatchProofs.tla`
and likewise for the other proof modules. No run takes more than two or three
minutes; the proofs take several.
