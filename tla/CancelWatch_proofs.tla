--------------------------- MODULE CancelWatch_proofs ---------------------------
(***************************************************************************)
(* Proofs about CancelWatch: IInv is an inductive invariant for any number *)
(* of calls, and the safety properties follow from it.                     *)
(***************************************************************************)
EXTENDS CancelWatch, TLAPS

\* Groups of variables are abbreviations, visible everywhere.
USE DEF callVars, watchVars, serverVars, AppGoes, WatcherGoes

\* What Step may do, one disjunct for each action.
StepOf(k) ==
    \/ \E how \in {"conn", "ping", "stmt"} : Start(k, how)
    \/ BeginTx(k) \/ EndTx(k)
    \/ Refused(k) \/ Send(k) \/ Ends(k) \/ ConnFinish(k) \/ StmtFinish(k)
    \/ Fires(k) \/ TakesToken(k) \/ Marks(k)
    \/ DialFails(k) \/ DialSucceeds(k) \/ StartsTLS(k)
    \/ SeesEOF(k) \/ LosesCancel(k)
    \/ ContextEnds(k) \/ ServerCancels(k)

LEMMA Steps == ASSUME Next PROVE (\E k \in Calls : StepOf(k)) \/ ServerDone
BY DEF Next, Step, StepOf, AppStep, WatcherStep

--------------------------------------------------------------------------------
(* The initial states *)

LEMMA InitInv == Init => IInv
<1> SUFFICES ASSUME Init PROVE IInv
  OBVIOUS
<1>1. TypeOK
  BY TLSAssumption DEF Init, TypeOK
<1>2. UseInv
  BY CallsAssumption DEF Init, UseInv
<1>3. TokenInv
  BY DEF Init, TokenInv
<1>4. RequestInv
  BY DEF Init, RequestInv, Cancelling
<1>5. CancelHitsOwn
  BY DEF Init, CancelHitsOwn
<1> QED
  BY <1>1, <1>2, <1>3, <1>4, <1>5 DEF IInv

--------------------------------------------------------------------------------
(* Types *)

LEMMA TypeStep ==
    ASSUME TypeOK, UNCHANGED useTLS, NEW k \in Calls, StepOf(k)
    PROVE  TypeOK'
<1> USE DEF TypeOK
<1>1. CASE \E how \in {"conn", "ping", "stmt"} : Start(k, how)
  BY <1>1 DEF Start, Watch
<1>2. CASE BeginTx(k) \/ EndTx(k)
  BY <1>2 DEF BeginTx, EndTx, Watch
<1>3. CASE Refused(k) \/ Send(k) \/ Ends(k)
  BY <1>3 DEF Refused, Send, Ends
<1>4. CASE ConnFinish(k)
  BY <1>4 DEF ConnFinish, MarkBad, LeavesToken, Over
<1>5. CASE StmtFinish(k)
  BY <1>5 DEF StmtFinish, MeetsWatcher, Over
<1>6. CASE Fires(k) \/ TakesToken(k) \/ Marks(k)
  BY <1>6 DEF Fires, TakesToken, Marks
<1>7. CASE DialFails(k) \/ DialSucceeds(k) \/ StartsTLS(k)
  BY <1>7 DEF DialFails, DialSucceeds, StartsTLS, Dialled, SendsCancel, CancelReturns
<1>8. CASE SeesEOF(k) \/ LosesCancel(k)
  BY <1>8 DEF SeesEOF, LosesCancel, CancelReturns
<1>9. CASE ContextEnds(k)
  BY <1>9 DEF ContextEnds
<1>10. CASE ServerCancels(k)
  BY <1>10 DEF ServerCancels
<1> QED
  BY <1>1, <1>2, <1>3, <1>4, <1>5, <1>6, <1>7, <1>8, <1>9, <1>10 DEF StepOf

--------------------------------------------------------------------------------
(* The use of the connection *)

LEMMA UseStep ==
    ASSUME TypeOK, UseInv, NEW k \in Calls, StepOf(k)
    PROVE  UseInv'
<1> USE CallsAssumption DEF TypeOK, UseInv
<1>1. CASE \E how \in {"conn", "ping", "stmt"} : Start(k, how)
  BY <1>1 DEF Start, Watch
<1>2. CASE BeginTx(k)
  BY <1>2 DEF BeginTx, Watch
<1>3. CASE EndTx(k)
  BY <1>3 DEF EndTx
<1>4. CASE Refused(k) \/ Send(k) \/ Ends(k)
  BY <1>4 DEF Refused, Send, Ends
<1>5. CASE ConnFinish(k)
  BY <1>5 DEF ConnFinish, Over
<1>6. CASE StmtFinish(k)
  BY <1>6 DEF StmtFinish, MeetsWatcher, Over
<1>7. CASE Fires(k) \/ TakesToken(k) \/ Marks(k)
  BY <1>7 DEF Fires, TakesToken, Marks
<1>8. CASE DialFails(k) \/ DialSucceeds(k) \/ StartsTLS(k)
  BY <1>8 DEF DialFails, DialSucceeds, StartsTLS, Dialled, SendsCancel, CancelReturns
<1>9. CASE SeesEOF(k) \/ LosesCancel(k)
  BY <1>9 DEF SeesEOF, LosesCancel, CancelReturns
<1>10. CASE ContextEnds(k) \/ ServerCancels(k)
  BY <1>10 DEF ContextEnds, ServerCancels
<1> QED
  BY <1>1, <1>2, <1>3, <1>4, <1>5, <1>6, <1>7, <1>8, <1>9, <1>10 DEF StepOf

--------------------------------------------------------------------------------
(* The tokens *)

LEMMA TokenStep ==
    ASSUME TypeOK, UseInv, TokenInv, NEW k \in Calls, StepOf(k)
    PROVE  TokenInv'
<1> USE DEF TypeOK, TokenInv
<1>1. CASE \E how \in {"conn", "ping", "stmt"} : Start(k, how)
  BY <1>1 DEF Start, Watch, UseInv
<1>2. CASE BeginTx(k) \/ EndTx(k)
  BY <1>2 DEF BeginTx, EndTx, Watch, UseInv
<1>3. CASE Refused(k) \/ Send(k) \/ Ends(k)
  BY <1>3 DEF Refused, Send, Ends
<1>4. CASE ConnFinish(k)
  BY <1>4 DEF ConnFinish, LeavesToken, Over
<1>5. CASE StmtFinish(k)
  BY <1>5 DEF StmtFinish, MeetsWatcher, Over
<1>6. CASE Fires(k) \/ TakesToken(k) \/ Marks(k)
  BY <1>6 DEF Fires, TakesToken, Marks
<1>7. CASE DialFails(k) \/ DialSucceeds(k) \/ StartsTLS(k)
  BY <1>7 DEF DialFails, DialSucceeds, StartsTLS, Dialled, SendsCancel, CancelReturns
<1>8. CASE SeesEOF(k) \/ LosesCancel(k)
  BY <1>8 DEF SeesEOF, LosesCancel, CancelReturns
<1>9. CASE ContextEnds(k) \/ ServerCancels(k)
  BY <1>9 DEF ContextEnds, ServerCancels
<1> QED
  BY <1>1, <1>2, <1>3, <1>4, <1>5, <1>6, <1>7, <1>8, <1>9 DEF StepOf

--------------------------------------------------------------------------------
(* The requests *)

LEMMA RequestStep ==
    ASSUME TypeOK, UseInv, TokenInv, RequestInv, NEW k \in Calls, StepOf(k)
    PROVE  RequestInv'
<1> USE DEF TypeOK, RequestInv, Cancelling
<1>1. CASE \E how \in {"conn", "ping", "stmt"} : Start(k, how)
  BY <1>1 DEF Start, Watch, UseInv
<1>2. CASE BeginTx(k) \/ EndTx(k)
  BY <1>2 DEF BeginTx, EndTx, Watch, UseInv
<1>3. CASE Refused(k) \/ Ends(k)
  BY <1>3 DEF Refused, Ends
<1>4. CASE Send(k)
  BY <1>4 DEF Send
<1>5. CASE ConnFinish(k)
  BY <1>5 DEF ConnFinish, MarkBad, LeavesToken, Over, UseInv, TokenInv
<1>6. CASE StmtFinish(k)
  BY <1>6 DEF StmtFinish, MeetsWatcher, Over
<1>7. CASE Fires(k) \/ TakesToken(k) \/ Marks(k)
  BY <1>7 DEF Fires, TakesToken, Marks, TokenInv
<1>8. CASE DialFails(k) \/ DialSucceeds(k) \/ StartsTLS(k)
  BY <1>8 DEF DialFails, DialSucceeds, StartsTLS, Dialled, SendsCancel, CancelReturns
<1>9. CASE SeesEOF(k) \/ LosesCancel(k)
  BY <1>9 DEF SeesEOF, LosesCancel, CancelReturns
<1>10. CASE ContextEnds(k) \/ ServerCancels(k)
  BY <1>10 DEF ContextEnds, ServerCancels
<1> QED
  BY <1>1, <1>2, <1>3, <1>4, <1>5, <1>6, <1>7, <1>8, <1>9, <1>10 DEF StepOf

--------------------------------------------------------------------------------
(* What cancel requests hit *)

LEMMA HitsStep ==
    ASSUME TypeOK, UseInv, TokenInv, RequestInv, CancelHitsOwn,
           NEW k \in Calls, StepOf(k)
    PROVE  CancelHitsOwn'
<1> USE CallsAssumption DEF TypeOK, CancelHitsOwn
<1>1. CASE \E how \in {"conn", "ping", "stmt"} : Start(k, how)
  BY <1>1 DEF Start, UseInv
<1>2. CASE BeginTx(k) \/ EndTx(k)
  BY <1>2 DEF BeginTx, EndTx
<1>3. CASE Refused(k) \/ Send(k) \/ Ends(k)
  BY <1>3 DEF Refused, Send, Ends
<1>4. CASE ConnFinish(k) \/ StmtFinish(k)
  BY <1>4 DEF ConnFinish, StmtFinish, Over
<1>5. CASE Fires(k) \/ TakesToken(k) \/ Marks(k)
  BY <1>5 DEF Fires, TakesToken, Marks
<1>6. CASE DialFails(k) \/ DialSucceeds(k) \/ StartsTLS(k)
  BY <1>6 DEF DialFails, DialSucceeds, StartsTLS, Dialled
<1>7. CASE SeesEOF(k) \/ LosesCancel(k)
  BY <1>7 DEF SeesEOF, LosesCancel
<1>8. CASE ContextEnds(k)
  BY <1>8 DEF ContextEnds
<1>9. CASE ServerCancels(k)
  \* The call that is hit waits for its answer: it uses the connection.
  <2> SUFFICES ASSUME NEW j \in Calls, app[j] = "run"
               PROVE  k = j \/ (kind[k] = "tx" /\ owner[j] = k)
                        \/ (kind[k] = "stmt" /\ k \in lost)
    BY <1>9 DEF ServerCancels
  <2>1. k \in requests /\ cur = j
    BY <1>9 DEF ServerCancels, UseInv
  \* A statement over and not lost from sight has its cancel behind it.
  <2>2. CASE kind[k] = "stmt" /\ k \notin lost
    <3>1. watcher[k] = "await"
      BY <2>1, <2>2 DEF RequestInv
    <3>2. app[k] \in {"call", "run", "finish"}
      BY <3>1, <2>2 DEF TokenInv, UseInv
    <3> QED
      BY <3>2, <2>1 DEF UseInv
  \* Any other call is not over, or no call would run.
  <2>3. CASE kind[k] # "stmt"
    <3>1. app[k] # "over"
      BY <2>1, <2>3 DEF RequestInv
    <3>2. watcher[k] # "none"
      BY <2>1 DEF RequestInv
    <3>3. CASE kind[k] = "tx"
      BY <3>1, <3>3, <2>1 DEF UseInv
    <3>4. CASE kind[k] # "tx"
      BY <3>1, <3>2, <3>4, <2>1 DEF UseInv
    <3> QED
      BY <3>3, <3>4
  <2> QED
    BY <2>2, <2>3
<1> QED
  BY <1>1, <1>2, <1>3, <1>4, <1>5, <1>6, <1>7, <1>8, <1>9 DEF StepOf

--------------------------------------------------------------------------------
(* The invariant *)

LEMMA StepInv == IInv /\ [Next]_vars => IInv'
<1> SUFFICES ASSUME IInv, [Next]_vars PROVE IInv'
  OBVIOUS
<1> USE DEF IInv
<1>1. CASE UNCHANGED vars
  BY <1>1 DEF vars, TypeOK, UseInv, TokenInv, RequestInv, Cancelling, CancelHitsOwn
<1>2. CASE Next /\ \E k \in Calls : StepOf(k)
  <2> PICK k \in Calls : StepOf(k)
    BY <1>2
  <2>1. UNCHANGED useTLS
    BY <1>2 DEF Next
  <2> QED
    BY <2>1, TypeStep, UseStep, TokenStep, RequestStep, HitsStep
<1>3. CASE Next /\ ServerDone
  BY <1>3 DEF Next, ServerDone, TypeOK, UseInv, TokenInv, RequestInv, Cancelling,
              CancelHitsOwn
<1> QED
  BY <1>1, <1>2, <1>3, Steps

\* For any number of calls, the invariant holds of every reachable state: who
\* uses the connection, who put a token in finished, and what is left of a
\* cancel when its call is over.
THEOREM Invariance == Spec => []IInv
<1>1. Init => IInv
  BY InitInv
<1>2. IInv /\ [Next]_vars => IInv'
  BY StepInv
<1> QED
  BY <1>1, <1>2, PTL DEF Spec

\* Every variable has its type.
THEOREM TypeCorrect == Spec => []TypeOK
<1>1. IInv => TypeOK
  BY DEF IInv
<1> QED
  BY <1>1, Invariance, PTL

\* A call that has returned leaves no cancel behind it on a connection that is
\* used again.
THEOREM CallsAreSettled == Spec => []FinishSettles
<1>1. IInv => FinishSettles
  BY DEF IInv, TypeOK, TokenInv, RequestInv, FinishSettles, Cancelling
<1> QED
  BY <1>1, Invariance, PTL

\* A cancel request cancels the call or the transaction it was made for, with
\* the one exception of a statement's that was lost from sight.
THEOREM CancelsHitTheirOwn == Spec => []CancelHitsOwn
<1>1. IInv => CancelHitsOwn
  BY DEF IInv
<1> QED
  BY <1>1, Invariance, PTL

\* finish never calls syncErr.set with the nil error of a context that goes on.
THEOREM NilIsNeverSet == Spec => []NilNeverSet
<1>1. IInv => NilNeverSet
  BY DEF IInv, TypeOK, TokenInv, NilNeverSet
<1> QED
  BY <1>1, Invariance, PTL
================================================================================
