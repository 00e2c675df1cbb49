--------------------------- MODULE OAuthCallback ---------------------------
(***************************************************************************)
(* The loopback login of xai-oauth: the flow store and its callback server *)
(* (lib/oauth/callbackState.ts, server.ts), the two routes that use it     *)
(* (api/oauth/[provider]/[action]/route.ts) and the dialogs that poll      *)
(* (AddOAuthConnectionModal.tsx).                                          *)
(*                                                                         *)
(* A provider key has one flow, one port and one poll endpoint, whoever    *)
(* asks: several dialogs, browser tabs left over from earlier flows, and a *)
(* cleanup timer per flow ever started.  startLocalServer's await resolves *)
(* before the next I/O event of the process, so that a start is one step.  *)
(*                                                                         *)
(* Time is counted in coarse ticks.  A flow and a timer of the same tick   *)
(* have the same startedAt: the age of one and the time left of the other  *)
(* add up to AUTO_CLEANUP_MS.                                              *)
(***************************************************************************)
EXTENDS Naturals

CONSTANTS
  Modals,        \* open "add connection" dialogs
  MaxFlows,      \* bound: flows ever started
  CleanupTicks,  \* AUTO_CLEANUP_MS in ticks
  PollTicks      \* POLL_TIMEOUT_MS in ticks

ASSUME OAuthCallbackAssumption ==
  /\ MaxFlows \in Nat
  /\ CleanupTicks \in Nat \ {0}
  /\ PollTicks \in Nat

Flows == 1 .. MaxFlows     \* a flow: its state, code verifier and label
NoFlow == 0
NoParams == 0
Denied == MaxFlows + 1     \* callback parameters with an error instead of a code

VARIABLES
  started,   \* how many flows have been started
  flow,      \* states[providerKey]: its number, its age, its callbackParams
  timers,    \* times left of the cleanup timers
  tabs,      \* external: flows whose authorization page was opened
  modal,     \* [Modals -> record]: the dialogs
  exchange,  \* [Modals -> record]: poll-callback handlers that await a token
  spent,     \* [Flows -> Nat]: how often the code of a flow was presented
  logins     \* connections created: the flow of the label and of the code

vars == <<started, flow, timers, tabs, modal, exchange, spent, logins>>

-----------------------------------------------------------------------------
NoState == [n |-> NoFlow, age |-> 0, params |-> NoParams]

Closed == [pc |-> "form", left |-> 0]

NoExchange == [n |-> NoFlow, code |-> NoFlow]

FlowStates == [n : 0 .. MaxFlows, age : 0 .. CleanupTicks, params : 0 .. MaxFlows + 1]

Dialogs ==
  [pc : {"form", "waiting", "exchanging", "done", "failed"}, left : 0 .. PollTicks]

Exchanges == [n : 0 .. MaxFlows, code : 0 .. MaxFlows]

TypeOK ==
  /\ started \in 0 .. MaxFlows
  /\ flow \in FlowStates
  /\ timers \subseteq 0 .. CleanupTicks
  /\ tabs \subseteq 1 .. started
  /\ modal \in [Modals -> Dialogs]
  /\ exchange \in [Modals -> Exchanges]
  /\ spent \in [Flows -> Nat]
  /\ logins \subseteq [label : Flows, code : Flows]

Init ==
  /\ started = 0
  /\ flow = NoState
  /\ timers = {}
  /\ tabs = {}
  /\ modal = [d \in Modals |-> Closed]
  /\ exchange = [d \in Modals |-> NoExchange]
  /\ spent = [n \in Flows |-> 0]
  /\ logins = {}

Running == flow.n # NoFlow      \* the callback server listens

-----------------------------------------------------------------------------
(* start-callback-server: a flow in flight is torn down and replaced, the  *)
(* dialog opens the authorization page and polls from now on.              *)
StartFlow(d) ==
  /\ modal[d].pc = "form"
  /\ started < MaxFlows
  /\ started' = started + 1
  /\ flow' = [n |-> started + 1, age |-> 0, params |-> NoParams]
  /\ timers' = timers \cup {CleanupTicks}
  /\ tabs' = tabs \cup {started + 1}
  /\ modal' = [modal EXCEPT ![d] = [pc |-> "waiting", left |-> PollTicks]]
  /\ UNCHANGED <<exchange, spent, logins>>

(* Another program holds the port: the dialog shows the error on its form, *)
(* and the old flow is gone all the same.                                  *)
StartFails(d) ==
  /\ modal[d].pc = "form"
  /\ started < MaxFlows
  /\ flow' = NoState
  /\ UNCHANGED <<started, timers, tabs, modal, exchange, spent, logins>>

(* The browser is redirected to the one port there is, or the page is      *)
(* loaded once more; the parameters go to whatever flow is current.        *)
Callback(n) ==
  /\ n \in tabs
  /\ Running
  /\ \E p \in {n, Denied} : flow' = [flow EXCEPT !.params = p]
  /\ UNCHANGED <<started, timers, tabs, modal, exchange, spent, logins>>

Answered(d, pc) == modal' = [modal EXCEPT ![d].pc = pc]

MayPoll(d) == modal[d].pc = "waiting" /\ modal[d].left > 0

(* poll-callback without a flow, or with one that nobody called back.      *)
PollEarly(d) ==
  /\ MayPoll(d)
  /\ flow.params = NoParams
  /\ Answered(d, IF Running THEN "waiting" ELSE "failed")
  /\ UNCHANGED <<started, flow, timers, tabs, exchange, spent, logins>>

(* A deliberate fault: the state of the callback is not compared.          *)
PollExchangesUnchecked(d) ==
  /\ MayPoll(d)
  /\ flow.params \in Flows
  /\ flow' = NoState
  /\ spent' = [spent EXCEPT ![flow.params] = @ + 1]
  /\ exchange' = [exchange EXCEPT ![d] = [n |-> flow.n, code |-> flow.params]]
  /\ Answered(d, "exchanging")
  /\ UNCHANGED <<started, timers, tabs, logins>>

(* A deliberate fault: the flow is cleared when its exchange is over, not  *)
(* before it begins.                                                       *)
PollExchangesThenClears(d) ==
  /\ MayPoll(d)
  /\ flow.params = flow.n /\ Running
  /\ spent' = [spent EXCEPT ![flow.params] = @ + 1]
  /\ exchange' = [exchange EXCEPT ![d] = [n |-> flow.n, code |-> flow.params]]
  /\ Answered(d, "exchanging")
  /\ UNCHANGED <<started, flow, timers, tabs, logins>>

(* With the code of its own flow: the flow is cleared, then its code goes  *)
(* to the token endpoint.  A dialog that was closed in the middle of an    *)
(* exchange has room for the next one when that is over.                   *)
PollExchanges(d) ==
  /\ MayPoll(d)
  /\ Running
  /\ flow.params = flow.n
  /\ exchange[d] = NoExchange
  /\ flow' = NoState
  /\ spent' = [spent EXCEPT ![flow.n] = @ + 1]
  /\ exchange' = [exchange EXCEPT ![d] = [n |-> flow.n, code |-> flow.params]]
  /\ Answered(d, "exchanging")
  /\ UNCHANGED <<started, timers, tabs, logins>>

(* error, no code, or the state of another flow: the flow is gone as well. *)
PollRefused(d) ==
  /\ MayPoll(d)
  /\ flow.params \notin {NoParams, flow.n}
  /\ flow' = NoState
  /\ Answered(d, "failed")
  /\ UNCHANGED <<started, timers, tabs, exchange, spent, logins>>

(* persistOAuthConnection, with the label kept in the flow.                *)
ExchangeOk(d) ==
  /\ exchange[d] # NoExchange
  /\ logins' = logins \cup {[label |-> exchange[d].n, code |-> exchange[d].code]}
  /\ exchange' = [exchange EXCEPT ![d] = NoExchange]
  /\ Answered(d, IF modal[d].pc = "exchanging" THEN "done" ELSE modal[d].pc)
  /\ UNCHANGED <<started, flow, timers, tabs, spent>>

(* The token endpoint refuses, or its timer runs out: 502.                 *)
ExchangeFails(d) ==
  /\ exchange[d] # NoExchange
  /\ exchange' = [exchange EXCEPT ![d] = NoExchange]
  /\ Answered(d, IF modal[d].pc = "exchanging" THEN "failed" ELSE modal[d].pc)
  /\ UNCHANGED <<started, flow, timers, tabs, spent, logins>>

(* pollLoopback finds its deadline passed.                                 *)
GiveUp(d) ==
  /\ modal[d].pc = "waiting"
  /\ modal[d].left = 0
  /\ Answered(d, "failed")
  /\ UNCHANGED <<started, flow, timers, tabs, exchange, spent, logins>>

(* The dialog is closed; a handler that awaits a token goes on.            *)
CloseModal(d) ==
  /\ modal[d].pc # "form"
  /\ modal' = [modal EXCEPT ![d] = Closed]
  /\ UNCHANGED <<started, flow, timers, tabs, exchange, spent, logins>>

(* Deliberate faults: the cleanup timer closes whatever flow it finds; it  *)
(* only ever looks for the flow that was first to start.                   *)
CleanupUnasked ==
  /\ 0 \in timers
  /\ timers' = timers \ {0}
  /\ flow' = NoState
  /\ UNCHANGED <<started, tabs, modal, exchange, spent, logins>>

CleanupFirst ==
  /\ 0 \in timers
  /\ timers' = timers \ {0}
  /\ flow' = IF flow.n = 1 THEN NoState ELSE flow
  /\ UNCHANGED <<started, tabs, modal, exchange, spent, logins>>

(* The cleanup timer of a flow runs out: it closes the flow that has its   *)
(* own startedAt.                                                          *)
Cleanup ==
  /\ 0 \in timers
  /\ timers' = timers \ {0}
  /\ flow' = IF Running /\ flow.age = CleanupTicks THEN NoState ELSE flow
  /\ UNCHANGED <<started, tabs, modal, exchange, spent, logins>>

Older(k) == IF k < CleanupTicks THEN k + 1 ELSE k

(* A tick passes; a timer that has run out is served first.                *)
Tick ==
  /\ 0 \notin timers
  /\ Running \/ timers # {} \/ \E d \in Modals : modal[d].left > 0
  /\ timers' = {k - 1 : k \in timers}
  /\ flow' = IF Running THEN [flow EXCEPT !.age = Older(@)] ELSE flow
  /\ modal' = [d \in Modals |->
                 [modal[d] EXCEPT !.left = IF @ > 0 THEN @ - 1 ELSE 0]]
  /\ UNCHANGED <<started, tabs, exchange, spent, logins>>

(* The process dies and starts again: its globals are gone, polls fail.    *)
Restart ==
  /\ flow' = NoState
  /\ timers' = {}
  /\ exchange' = [d \in Modals |-> NoExchange]
  /\ modal' = [d \in Modals |->
                 IF modal[d].pc = "exchanging"
                 THEN [modal[d] EXCEPT !.pc = "failed"] ELSE modal[d]]
  /\ UNCHANGED <<started, tabs, spent, logins>>

-----------------------------------------------------------------------------
Exchanged(d) == ExchangeOk(d) \/ ExchangeFails(d)

Polled(d) == PollEarly(d) \/ PollExchanges(d) \/ PollRefused(d) \/ GiveUp(d)

Next ==
  \/ \E d \in Modals : StartFlow(d) \/ StartFails(d) \/ CloseModal(d)
  \/ \E d \in Modals : Polled(d) \/ Exchanged(d)
  \/ \E n \in Flows : Callback(n)
  \/ Cleanup \/ Tick \/ Restart

Spec == Init /\ [][Next]_vars

(* Timers fire, a waiting dialog polls every two seconds, and the exchange *)
(* is under a timer (EXCHANGE_TIMEOUT_MS).  Users and providers owe        *)
(* nothing.                                                                *)
Fairness ==
  /\ WF_vars(Tick) /\ WF_vars(Cleanup)
  /\ \A d \in Modals : WF_vars(Exchanged(d)) /\ WF_vars(GiveUp(d))

FairSpec == Spec /\ Fairness

-----------------------------------------------------------------------------
(* Properties.                                                             *)

(* A code is presented to the token endpoint at most once, whichever       *)
(* dialogs poll the one flow, however often its callback page is loaded,   *)
(* and although the exchange is awaited: presenting it twice makes         *)
(* providers revoke what they issued for it (route.ts: poll-callback       *)
(* clears the flow before the await).                                      *)
CodeOnce == \A n \in Flows : spent[n] <= 1

(* Every connection carries the label under which its own authorization    *)
(* was started, and none carries two: a tab of an earlier flow that calls  *)
(* back into a later one, labelled for another account, creates nothing.   *)
LabelsAreTheirs ==
  \A l \in logins :
    l.label = l.code /\ \A k \in logins : k.label = l.label => k = l

(* A flow that is fresh is never closed by the timer of an earlier one:    *)
(* when a cleanup timer takes a flow away, it has been there for all of    *)
(* AUTO_CLEANUP_MS.                                                        *)
TimerSpares ==
  [][timers' = timers \ {0} /\ 0 \in timers /\ Running /\ flow'.n = NoFlow
       => flow.age = CleanupTicks]_vars

(* The callback port does not stay taken: every flow is closed or replaced *)
(* in the end, even if all dialogs are closed and no browser calls back.   *)
PortIsReleased ==
  \A n \in Flows : flow.n = n ~> flow.n # n
=============================================================================
