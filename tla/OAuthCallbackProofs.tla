------------------------ MODULE OAuthCallbackProofs ------------------------
(***************************************************************************)
(* Proofs about OAuthCallback, for any number of dialogs and flows and any *)
(* times.                                                                  *)
(*                                                                         *)
(* That a code is spent once follows from the flow being cleared in the    *)
(* step that spends it, and from numbers never being given out again.      *)
(* That a timer spares later flows is about the clock: a running flow has  *)
(* a timer whose time left and the flow's age add up to AUTO_CLEANUP_MS.   *)
(***************************************************************************)
EXTENDS OAuthCallback, TLAPS

(* The current flow is one that was started.                               *)
Issued == flow.n <= started

(* The code of the current flow, and of those still to come, is unspent.   *)
Unspent ==
  \A n \in Flows :
    /\ spent[n] <= 1
    /\ n > started \/ n = flow.n => spent[n] = 0

(* What is exchanged is the code that belongs to the label.                *)
Labelled ==
  /\ \A d \in Modals : exchange[d].n = exchange[d].code
  /\ \A d \in Modals : exchange[d] # NoExchange => exchange[d].n # NoFlow
  /\ \A l \in logins : l.label = l.code

(* The timer of the current flow is still to come.                         *)
Timed == Running => \E k \in timers : k + flow.age = CleanupTicks

IInv == TypeOK /\ Issued /\ Unspent /\ Labelled /\ Timed

-----------------------------------------------------------------------------
LEMMA InitKeeps == Init => IInv
BY OAuthCallbackAssumption
   DEF Init, IInv, TypeOK, Issued, Unspent, Labelled, Timed, Running, NoState,
       FlowStates, Dialogs, Exchanges, NoFlow, NoParams, Flows, Closed, NoExchange

(* A flow starts fresh, with a timer of its own.                           *)
LEMMA StartFlowKeeps ==
  ASSUME IInv, NEW d \in Modals, StartFlow(d)
  PROVE  IInv'
<1> USE OAuthCallbackAssumption 
       DEF NoFlow, Flows, Running, NoState, NoParams, NoExchange
<1>1. TypeOK'
  <2>1. flow' \in FlowStates
    BY DEF IInv, TypeOK, Issued, FlowStates, Denied, StartFlow
  <2>2. modal' \in [Modals -> Dialogs]
    BY DEF IInv, TypeOK, Issued, Dialogs, StartFlow
  <2>3. exchange' \in [Modals -> Exchanges]
    BY DEF IInv, TypeOK, Issued, Exchanges, StartFlow
  <2>4. logins' \subseteq [label : Flows, code : Flows]
    BY DEF IInv, TypeOK, Labelled, Exchanges, StartFlow
  <2>5. /\ started' \in 0 .. MaxFlows
       /\ timers' \subseteq 0 .. CleanupTicks
       /\ tabs' \subseteq 1 .. started'
       /\ spent' \in [Flows -> Nat]
    BY DEF IInv, TypeOK, FlowStates, StartFlow
  <2>6. QED
    BY <2>1, <2>2, <2>3, <2>4, <2>5 DEF TypeOK
<1>2. Issued'
  BY DEF IInv, TypeOK, Issued, StartFlow
<1>3. Unspent'
  BY DEF IInv, TypeOK, Issued, Unspent, StartFlow
<1>4. Labelled'
  BY DEF IInv, TypeOK, Labelled, StartFlow
<1>5. Timed'
  BY DEF IInv, TypeOK, Timed, StartFlow
<1>6. QED
  BY <1>1, <1>2, <1>3, <1>4, <1>5 DEF IInv

(* Without a flow nothing is promised of one.                              *)
LEMMA StartFailsKeeps ==
  ASSUME IInv, NEW d \in Modals, StartFails(d)
  PROVE  IInv'
<1> USE OAuthCallbackAssumption 
       DEF NoFlow, Flows, Running, NoState, NoParams, NoExchange
<1>1. TypeOK'
  BY DEF IInv, TypeOK, FlowStates, StartFails
<1>2. Issued'
  BY DEF IInv, TypeOK, Issued, StartFails
<1>3. Unspent'
  BY DEF IInv, TypeOK, Issued, Unspent, StartFails
<1>4. Labelled'
  BY DEF IInv, TypeOK, Labelled, StartFails
<1>5. Timed'
  BY DEF IInv, TypeOK, Timed, StartFails
<1>6. QED
  BY <1>1, <1>2, <1>3, <1>4, <1>5 DEF IInv

(* A dialog that closes leaves flow, timers and exchanges alone.           *)
LEMMA CloseModalKeeps ==
  ASSUME IInv, NEW d \in Modals, CloseModal(d)
  PROVE  IInv'
<1> USE OAuthCallbackAssumption 
       DEF NoFlow, Flows, Running, NoState, NoParams, NoExchange
<1>1. TypeOK'
  BY DEF IInv, TypeOK, Dialogs, CloseModal, Closed
<1>2. Issued'
  BY DEF IInv, TypeOK, Issued, CloseModal, Closed
<1>3. Unspent'
  BY DEF IInv, TypeOK, Issued, Unspent, CloseModal, Closed
<1>4. Labelled'
  BY DEF IInv, TypeOK, Labelled, CloseModal, Closed
<1>5. Timed'
  BY DEF IInv, TypeOK, Timed, CloseModal, Closed
<1>6. QED
  BY <1>1, <1>2, <1>3, <1>4, <1>5 DEF IInv

(* Nothing to exchange yet.                                                *)
LEMMA PollEarlyKeeps ==
  ASSUME IInv, NEW d \in Modals, PollEarly(d)
  PROVE  IInv'
<1> USE OAuthCallbackAssumption 
       DEF NoFlow, Flows, Running, NoState, NoParams, NoExchange
<1>1. TypeOK'
  BY DEF IInv, TypeOK, Dialogs, PollEarly, MayPoll, Answered
<1>2. Issued'
  BY DEF IInv, TypeOK, Issued, PollEarly, MayPoll, Answered
<1>3. Unspent'
  BY DEF IInv, TypeOK, Issued, Unspent, PollEarly, MayPoll, Answered
<1>4. Labelled'
  BY DEF IInv, TypeOK, Labelled, PollEarly, MayPoll, Answered
<1>5. Timed'
  BY DEF IInv, TypeOK, Timed, PollEarly, MayPoll, Answered
<1>6. QED
  BY <1>1, <1>2, <1>3, <1>4, <1>5 DEF IInv

(* The code that is spent was not spent before, and its flow is gone.      *)
LEMMA PollExchangesKeeps ==
  ASSUME IInv, NEW d \in Modals, PollExchanges(d)
  PROVE  IInv'
<1> USE OAuthCallbackAssumption 
       DEF NoFlow, Flows, Running, NoState, NoParams, NoExchange
<1>1. TypeOK'
  <2>1. flow' \in FlowStates
    BY DEF IInv, TypeOK, FlowStates, PollExchanges, MayPoll, Answered
  <2>2. modal' \in [Modals -> Dialogs]
    BY DEF IInv, TypeOK, Issued, Dialogs, PollExchanges, MayPoll, Answered
  <2>3. exchange' \in [Modals -> Exchanges]
    BY DEF IInv, TypeOK, FlowStates, Exchanges, PollExchanges, MayPoll, Answered
  <2>4. logins' \subseteq [label : Flows, code : Flows]
    BY DEF IInv, TypeOK, Labelled, Exchanges, PollExchanges, MayPoll, Answered
  <2>5. /\ started' \in 0 .. MaxFlows
       /\ timers' \subseteq 0 .. CleanupTicks
       /\ tabs' \subseteq 1 .. started'
       /\ spent' \in [Flows -> Nat]
    BY DEF IInv, TypeOK, FlowStates, PollExchanges, MayPoll, Answered
  <2>6. QED
    BY <2>1, <2>2, <2>3, <2>4, <2>5 DEF TypeOK
<1>2. Issued'
  BY DEF IInv, TypeOK, Issued, PollExchanges, MayPoll, Answered
<1>3. Unspent'
  BY DEF IInv, TypeOK, Issued, Unspent, PollExchanges, MayPoll, Answered
<1>4. Labelled'
  BY DEF IInv, TypeOK, Labelled, PollExchanges, MayPoll, Answered
<1>5. Timed'
  BY DEF IInv, TypeOK, Timed, PollExchanges, MayPoll, Answered
<1>6. QED
  BY <1>1, <1>2, <1>3, <1>4, <1>5 DEF IInv

(* The flow is gone, its code unspent.                                     *)
LEMMA PollRefusedKeeps ==
  ASSUME IInv, NEW d \in Modals, PollRefused(d)
  PROVE  IInv'
<1> USE OAuthCallbackAssumption 
       DEF NoFlow, Flows, Running, NoState, NoParams, NoExchange
<1>1. TypeOK'
  BY DEF IInv, TypeOK, FlowStates, Dialogs, PollRefused, MayPoll, Answered
<1>2. Issued'
  BY DEF IInv, TypeOK, Issued, PollRefused, MayPoll, Answered
<1>3. Unspent'
  BY DEF IInv, TypeOK, Issued, Unspent, PollRefused, MayPoll, Answered
<1>4. Labelled'
  BY DEF IInv, TypeOK, Labelled, PollRefused, MayPoll, Answered
<1>5. Timed'
  BY DEF IInv, TypeOK, Timed, PollRefused, MayPoll, Answered
<1>6. QED
  BY <1>1, <1>2, <1>3, <1>4, <1>5 DEF IInv

(* A dialog that gives up leaves the flow behind.                          *)
LEMMA GiveUpKeeps ==
  ASSUME IInv, NEW d \in Modals, GiveUp(d)
  PROVE  IInv'
<1> USE OAuthCallbackAssumption 
       DEF NoFlow, Flows, Running, NoState, NoParams, NoExchange
<1>1. TypeOK'
  BY DEF IInv, TypeOK, Dialogs, GiveUp, Answered
<1>2. Issued'
  BY DEF IInv, TypeOK, Issued, GiveUp, Answered
<1>3. Unspent'
  BY DEF IInv, TypeOK, Issued, Unspent, GiveUp, Answered
<1>4. Labelled'
  BY DEF IInv, TypeOK, Labelled, GiveUp, Answered
<1>5. Timed'
  BY DEF IInv, TypeOK, Timed, GiveUp, Answered
<1>6. QED
  BY <1>1, <1>2, <1>3, <1>4, <1>5 DEF IInv

(* The login carries label and code of one exchange.                       *)
LEMMA ExchangeOkKeeps ==
  ASSUME IInv, NEW d \in Modals, ExchangeOk(d)
  PROVE  IInv'
<1> USE OAuthCallbackAssumption 
       DEF NoFlow, Flows, Running, NoState, NoParams, NoExchange
<1>1. TypeOK'
  <2>1. flow' \in FlowStates
    BY DEF IInv, TypeOK, Issued, FlowStates, Denied, ExchangeOk, Answered
  <2>2. modal' \in [Modals -> Dialogs]
    BY DEF IInv, TypeOK, Issued, Dialogs, ExchangeOk, Answered
  <2>3. exchange' \in [Modals -> Exchanges]
    BY DEF IInv, TypeOK, Issued, Exchanges, ExchangeOk, Answered
  <2>4. logins' \subseteq [label : Flows, code : Flows]
    BY DEF IInv, TypeOK, Labelled, Exchanges, ExchangeOk, Answered
  <2>5. /\ started' \in 0 .. MaxFlows
       /\ timers' \subseteq 0 .. CleanupTicks
       /\ tabs' \subseteq 1 .. started'
       /\ spent' \in [Flows -> Nat]
    BY DEF IInv, TypeOK, FlowStates, ExchangeOk, Answered
  <2>6. QED
    BY <2>1, <2>2, <2>3, <2>4, <2>5 DEF TypeOK
<1>2. Issued'
  BY DEF IInv, TypeOK, Issued, ExchangeOk, Answered
<1>3. Unspent'
  BY DEF IInv, TypeOK, Issued, Unspent, ExchangeOk, Answered
<1>4. Labelled'
  BY DEF IInv, TypeOK, Labelled, ExchangeOk, Answered
<1>5. Timed'
  BY DEF IInv, TypeOK, Timed, ExchangeOk, Answered
<1>6. QED
  BY <1>1, <1>2, <1>3, <1>4, <1>5 DEF IInv

(* An exchange that fails is forgotten.                                    *)
LEMMA ExchangeFailsKeeps ==
  ASSUME IInv, NEW d \in Modals, ExchangeFails(d)
  PROVE  IInv'
<1> USE OAuthCallbackAssumption 
       DEF NoFlow, Flows, Running, NoState, NoParams, NoExchange
<1>1. TypeOK'
  <2>1. modal' \in [Modals -> Dialogs]
    BY DEF IInv, TypeOK, Dialogs, ExchangeFails, Answered
  <2>2. exchange' \in [Modals -> Exchanges]
    BY DEF IInv, TypeOK, Exchanges, ExchangeFails
  <2>3. QED
    BY <2>1, <2>2 DEF IInv, TypeOK, ExchangeFails
<1>2. Issued'
  BY DEF IInv, TypeOK, Issued, ExchangeFails, Answered
<1>3. Unspent'
  BY DEF IInv, TypeOK, Issued, Unspent, ExchangeFails, Answered
<1>4. Labelled'
  BY DEF IInv, TypeOK, Labelled, ExchangeFails, Answered
<1>5. Timed'
  BY DEF IInv, TypeOK, Timed, ExchangeFails, Answered
<1>6. QED
  BY <1>1, <1>2, <1>3, <1>4, <1>5 DEF IInv

(* Only the parameters of the flow change.                                 *)
LEMMA CallbackKeeps ==
  ASSUME IInv, NEW n \in Flows, Callback(n)
  PROVE  IInv'
<1> USE OAuthCallbackAssumption 
       DEF NoFlow, Flows, Running, NoState, NoParams, NoExchange
<1>1. TypeOK'
  <2>1. PICK p \in {n, Denied} : flow' = [flow EXCEPT !.params = p]
    BY DEF Callback
  <2>2. p \in 0 .. MaxFlows + 1
    BY DEF Denied
  <2>3. flow' \in FlowStates
    BY <2>1, <2>2 DEF IInv, TypeOK, FlowStates
  <2>4. QED
    BY <2>3 DEF IInv, TypeOK, Callback
<1>2. Issued'
  BY DEF IInv, TypeOK, Issued, Callback
<1>3. Unspent'
  BY DEF IInv, TypeOK, Issued, Unspent, Callback
<1>4. Labelled'
  BY DEF IInv, TypeOK, Labelled, Callback
<1>5. Timed'
  BY DEF IInv, TypeOK, Timed, Callback
<1>6. QED
  BY <1>1, <1>2, <1>3, <1>4, <1>5 DEF IInv

(* A timer goes; if it was the one of the flow, so does the flow.          *)
LEMMA CleanupKeeps ==
  ASSUME IInv, Cleanup
  PROVE  IInv'
<1> USE OAuthCallbackAssumption 
       DEF NoFlow, Flows, Running, NoState, NoParams, NoExchange
<1>1. TypeOK'
  BY DEF IInv, TypeOK, FlowStates, Cleanup
<1>2. Issued'
  BY DEF IInv, TypeOK, Issued, Cleanup
<1>3. Unspent'
  BY DEF IInv, TypeOK, Issued, Unspent, Cleanup
<1>4. Labelled'
  BY DEF IInv, TypeOK, Labelled, Cleanup
<1>5. Timed'
  <2> SUFFICES ASSUME Running, flow.age # CleanupTicks
               PROVE  \E k \in timers \ {0} : k + flow.age = CleanupTicks
    BY DEF Cleanup, Timed
  <2>1. PICK k \in timers : k + flow.age = CleanupTicks
    BY DEF IInv, Timed
  <2>2. k \in timers \ {0}
    BY <2>1 DEF IInv, TypeOK, FlowStates
  <2>3. QED
    BY <2>1, <2>2
<1>6. QED
  BY <1>1, <1>2, <1>3, <1>4, <1>5 DEF IInv

(* A flow ages as its timer runs down.                                     *)
LEMMA TickKeeps ==
  ASSUME IInv, Tick
  PROVE  IInv'
<1> USE OAuthCallbackAssumption 
       DEF NoFlow, Flows, Running, NoState, NoParams, NoExchange
<1>1. TypeOK'
  <2>1. flow' \in FlowStates
    BY DEF IInv, TypeOK, Issued, FlowStates, Denied, Tick, Older
  <2>2. modal' \in [Modals -> Dialogs]
    <3>1. ASSUME NEW d \in Modals
          PROVE  [modal[d] EXCEPT !.left = IF @ > 0 THEN @ - 1 ELSE 0] \in Dialogs
      <4>1. modal[d] \in Dialogs
        BY DEF IInv, TypeOK
      <4>2. QED
        BY <4>1 DEF Dialogs
    <3>2. QED
      BY <3>1 DEF Tick
  <2>3. exchange' \in [Modals -> Exchanges]
    BY DEF IInv, TypeOK, Issued, Exchanges, Tick, Older
  <2>4. logins' \subseteq [label : Flows, code : Flows]
    BY DEF IInv, TypeOK, Labelled, Exchanges, Tick, Older
  <2>5. /\ started' \in 0 .. MaxFlows
       /\ timers' \subseteq 0 .. CleanupTicks
       /\ tabs' \subseteq 1 .. started'
       /\ spent' \in [Flows -> Nat]
    BY DEF IInv, TypeOK, FlowStates, Tick, Older
  <2>6. QED
    BY <2>1, <2>2, <2>3, <2>4, <2>5 DEF TypeOK
<1>2. Issued'
  BY DEF IInv, TypeOK, Issued, Tick, Older
<1>3. Unspent'
  BY DEF IInv, TypeOK, Issued, Unspent, Tick, Older
<1>4. Labelled'
  BY DEF IInv, TypeOK, Labelled, Tick, Older
<1>5. Timed'
  <2> SUFFICES ASSUME Running
               PROVE  \E k \in timers' : k + flow'.age = CleanupTicks
    BY DEF Tick, Timed
  <2>1. PICK k \in timers : k + flow.age = CleanupTicks
    BY DEF IInv, Timed
  <2>2. k \in Nat \ {0} /\ flow.age \in Nat
    BY <2>1 DEF IInv, TypeOK, FlowStates, Tick
  <2>3. k - 1 \in timers'
    BY DEF Tick
  <2>4. flow'.age = flow.age + 1
    BY <2>1, <2>2 DEF IInv, TypeOK, FlowStates, Tick, Older
  <2>5. (k - 1) + flow'.age = CleanupTicks
    BY <2>1, <2>2, <2>4
  <2>6. QED
    BY <2>3, <2>5
<1>6. QED
  BY <1>1, <1>2, <1>3, <1>4, <1>5 DEF IInv

(* Nothing is left.                                                        *)
LEMMA RestartKeeps ==
  ASSUME IInv, Restart
  PROVE  IInv'
<1> USE OAuthCallbackAssumption 
       DEF NoFlow, Flows, Running, NoState, NoParams, NoExchange
<1>1. TypeOK'
  <2>1. flow' \in FlowStates
    BY DEF IInv, TypeOK, Issued, FlowStates, Denied, Restart
  <2>2. modal' \in [Modals -> Dialogs]
    BY DEF IInv, TypeOK, Issued, Dialogs, Restart
  <2>3. exchange' \in [Modals -> Exchanges]
    BY DEF IInv, TypeOK, Issued, Exchanges, Restart
  <2>4. logins' \subseteq [label : Flows, code : Flows]
    BY DEF IInv, TypeOK, Labelled, Exchanges, Restart
  <2>5. /\ started' \in 0 .. MaxFlows
       /\ timers' \subseteq 0 .. CleanupTicks
       /\ tabs' \subseteq 1 .. started'
       /\ spent' \in [Flows -> Nat]
    BY DEF IInv, TypeOK, FlowStates, Restart
  <2>6. QED
    BY <2>1, <2>2, <2>3, <2>4, <2>5 DEF TypeOK
<1>2. Issued'
  BY DEF IInv, TypeOK, Issued, Restart
<1>3. Unspent'
  BY DEF IInv, TypeOK, Issued, Unspent, Restart
<1>4. Labelled'
  BY DEF IInv, TypeOK, Labelled, Restart
<1>5. Timed'
  BY DEF IInv, TypeOK, Timed, Restart
<1>6. QED
  BY <1>1, <1>2, <1>3, <1>4, <1>5 DEF IInv

-----------------------------------------------------------------------------
(* Every step keeps the invariant.                                         *)
LEMMA NextKeeps ==
  ASSUME IInv, [Next]_vars
  PROVE  IInv'
<1>1. CASE UNCHANGED vars
  BY <1>1 DEF vars, IInv, TypeOK, Issued, Unspent, Labelled, Timed, Running
<1>2. ASSUME NEW d \in Modals, StartFlow(d) \/ StartFails(d) \/ CloseModal(d)
      PROVE  IInv'
  BY <1>2, StartFlowKeeps, StartFailsKeeps, CloseModalKeeps
<1>3. ASSUME NEW d \in Modals, Polled(d)
      PROVE  IInv'
  BY <1>3, PollEarlyKeeps, PollExchangesKeeps, PollRefusedKeeps, GiveUpKeeps
     DEF Polled
<1>4. ASSUME NEW d \in Modals, Exchanged(d)
      PROVE  IInv'
  BY <1>4, ExchangeOkKeeps, ExchangeFailsKeeps DEF Exchanged
<1>5. CASE Cleanup \/ Tick \/ Restart
  BY <1>5, CleanupKeeps, TickKeeps, RestartKeeps
<1>6. QED
  BY <1>1, <1>2, <1>3, <1>4, <1>5, CallbackKeeps DEF Next

(* Type correctness.                                                       *)
THEOREM TypeCorrect == Spec => []TypeOK
<1>1. IInv => TypeOK
  BY DEF IInv
<1>2. QED
  BY <1>1, InitKeeps, NextKeeps, PTL DEF Spec

(* No authorization code is presented to the token endpoint twice, however *)
(* many dialogs poll and tabs call back (api/oauth poll-callback).         *)
THEOREM CodesAreSpentOnce == Spec => []CodeOnce
<1>1. IInv => CodeOnce
  BY DEF IInv, Unspent, CodeOnce
<1>2. QED
  BY <1>1, InitKeeps, NextKeeps, PTL DEF Spec

(* Every connection has the label its own authorization was started with,  *)
(* and no authorization makes two (api/oauth poll-callback).               *)
THEOREM LabelsMatch == Spec => []LabelsAreTheirs
<1>1. IInv => LabelsAreTheirs
  <2> SUFFICES ASSUME IInv, NEW l \in logins, NEW k \in logins, k.label = l.label
               PROVE  l.label = l.code /\ k = l
    BY DEF IInv, Labelled, LabelsAreTheirs
  <2>1. l.label = l.code /\ k.label = k.code
    BY DEF IInv, Labelled
  <2>2. l \in [label : Flows, code : Flows] /\ k \in [label : Flows, code : Flows]
    BY DEF IInv, TypeOK
  <2>3. QED
    BY <2>1, <2>2
<1>2. QED
  BY <1>1, InitKeeps, NextKeeps, PTL DEF Spec

(* A cleanup timer never takes a flow that has not had all of its time     *)
(* (callbackState.ts: the timer compares startedAt).                       *)
THEOREM TimersSpareLaterFlows == Spec => TimerSpares
<1> DEFINE Spares == timers' = timers \ {0} /\ 0 \in timers /\ Running /\ flow'.n = NoFlow
                       => flow.age = CleanupTicks
<1>1. IInv /\ [Next]_vars => [Spares]_vars
  <2> SUFFICES ASSUME IInv, Next, timers' = timers \ {0}, 0 \in timers,
                      Running, flow'.n = NoFlow
               PROVE  flow.age = CleanupTicks
    OBVIOUS
  <2> USE OAuthCallbackAssumption
  <2>1. timers \subseteq Nat /\ flow.age \in Nat
    BY DEF IInv, TypeOK, FlowStates
  <2>2. ASSUME NEW d \in Modals, StartFlow(d)
        PROVE  FALSE
    BY <2>2 DEF StartFlow
  <2>3. CASE Cleanup
    BY <2>3 DEF Cleanup, Running
  <2>4. CASE Restart
    BY <2>1, <2>4 DEF Restart, IInv, Timed
  <2>5. CASE UNCHANGED timers
    BY <2>5
  <2>6. CASE Tick
    BY <2>6 DEF Tick
  <2>7. QED
    BY <2>2, <2>3, <2>4, <2>5, <2>6
       DEF Next, Polled, Exchanged, StartFails, CloseModal, PollEarly,
           PollExchanges, PollRefused, GiveUp, ExchangeOk, ExchangeFails, Callback
<1>2. QED
  BY <1>1, InitKeeps, NextKeeps, PTL DEF Spec, TimerSpares
=============================================================================
