----------------------- MODULE GuardedProcessPoolProofs -----------------------
(***************************************************************************)
(* Proofs about GuardedProcessPool, for any set of guards: what a guard    *)
(* leaves behind, where its exit code is, and that the pool implements     *)
(* GuardContract.                                                          *)
(***************************************************************************)
EXTENDS GuardedProcessPool, TLAPS

Nowhere == lost \cup unwatched

\* A guard, its process, the thread and the exit code between them.  The code
\* of a process is with the thread or with the receive, or nowhere in a
\* clean-up that was begun without it; a process without a thread is one that
\* was restarted and whose callback has not returned.
GuardRight(g) ==
  /\ pc[g] = "none" => /\ process[g] = "none" /\ waiter[g] = "none"
                       /\ g \notin handed \cup Nowhere \cup fatal
  /\ pc[g] = "done" => waiter[g] = "none" /\ g \notin handed \cup Nowhere
  /\ pc[g] \in Receiving => (waiter[g] # "none") # (g \in handed \cup Nowhere)
  /\ pc[g] \notin {"none", "callback"} /\ g \notin unwatched /\ waiter[g] # "waiting"
       => process[g] = "dead"
  /\ g \notin handed \/ g \notin Nowhere
  /\ pc[g] = "callback" => waiter[g] = "none" /\ g \notin handed /\ ~closed
  /\ pc[g] \in {"receive", "callback"} => g \notin Nowhere \cup fatal
  /\ pc[g] \in {"grace", "last"} => closed \/ g \in fatal

IInv == TypeOK /\ \A g \in Guards : GuardRight(g)

Up == {g \in Guards : pc[g] \notin {"none", "done"}}

\* A pool that has started nothing satisfies the invariant.
LEMMA InitIInv == Init => IInv
BY DEF Init, IInv, TypeOK, GuardRight, Places, Receiving, Nowhere

\* Every step of the thread, the process and the guards, and the close, keeps
\* the types.
LEMMA StepType ==
  ASSUME TypeOK, [Next]_vars
  PROVE  TypeOK'
<1> USE DEF TypeOK, Places, pastVars
<1>1. CASE Close
  BY <1>1 DEF Close, CleanUp, CleanUpPlace, Suspended
<1>2. ASSUME NEW g \in Guards, Start(g) \/ Exits(g) \/ ThreadStep(g) PROVE TypeOK'
  BY <1>2 DEF Start, Exits, ThreadStep, WaiterSends, HandOver
<1>3. ASSUME NEW g \in Guards, GuardStep(g) PROVE TypeOK'
  <2>1. CASE ProcessExited(g)
    BY <2>1 DEF ProcessExited
  <2>2. CASE ExitCodeLost(g)
    BY <2>2 DEF ExitCodeLost, CleanUp, CleanUpPlace
  <2>3. CASE CallbackThrows(g)
    BY <2>3 DEF CallbackThrows, CleanUp, CleanUpPlace
  <2>4. CASE CallbackReturns(g) \/ CleanedUp(g)
    BY <2>4 DEF CallbackReturns, CleanedUp
  <2>5. CASE CallbackCloses(g)
    BY <2>5 DEF CallbackCloses, CleanUp, CleanUpPlace, Suspended
  <2> QED
    BY <1>3, <2>1, <2>2, <2>3, <2>4, <2>5 DEF GuardStep
<1>4. ASSUME NEW g \in Guards, GraceExpires(g) PROVE TypeOK'
  BY <1>4 DEF GraceExpires
<1>5. CASE UNCHANGED vars
  BY <1>5 DEF vars
<1> QED
  BY <1>1, <1>2, <1>3, <1>4, <1>5 DEF Next

\* A step that changes nothing about a guard leaves it right.
LEMMA Untouched ==
  ASSUME NEW g \in Guards, GuardRight(g), closed' = closed, pc'[g] = pc[g],
         process'[g] = process[g], waiter'[g] = waiter[g],
         g \in handed' <=> g \in handed, g \in fatal' <=> g \in fatal,
         g \in lost' <=> g \in lost, g \in unwatched' <=> g \in unwatched
  PROVE  GuardRight(g)'
BY DEF GuardRight, Nowhere

\* The steps of the process and of the thread that waits for it.
LEMMA ThreadRight ==
  ASSUME IInv, NEW g \in Guards, Start(g) \/ Exits(g) \/ ThreadStep(g),
         NEW h \in Guards
  PROVE  GuardRight(h)'
<1>1. CASE h # g
  BY <1>1, Untouched
     DEF IInv, TypeOK, pastVars, Start, Exits, ThreadStep, WaiterSends, HandOver
<1>2. CASE h = g
  <2> USE <1>2 DEF IInv, TypeOK, GuardRight, Places, Receiving, Nowhere, pastVars
  <2>1. CASE Start(g)
    BY <2>1 DEF Start
  <2>2. CASE Exits(g)
    BY <2>2 DEF Exits
  <2>3. CASE WaiterSends(g)
    BY <2>3 DEF WaiterSends
  <2>4. CASE HandOver(g)
    BY <2>4 DEF HandOver
  <2> QED
    BY <2>1, <2>2, <2>3, <2>4 DEF ThreadStep
<1> QED
  BY <1>1, <1>2

\* The turns of the coroutine of a guard, and the end of its grace period.
LEMMA CoroutineRight ==
  ASSUME IInv, NEW g \in Guards, GuardStep(g) \/ GraceExpires(g),
         ~CallbackCloses(g), NEW h \in Guards
  PROVE  GuardRight(h)'
<1>1. CASE h # g
  BY <1>1, Untouched
     DEF IInv, TypeOK, pastVars, GuardStep, ProcessExited, ExitCodeLost, CallbackReturns,
         CallbackThrows, CleanedUp, GraceExpires, CleanUp
<1>2. CASE h = g
  <2> USE <1>2 DEF IInv, TypeOK, GuardRight, Places, Receiving, Nowhere, pastVars
  <2>1. CASE ProcessExited(g)
    BY <2>1 DEF ProcessExited
  <2>2. CASE ExitCodeLost(g)
    BY <2>2 DEF ExitCodeLost, CleanUp, CleanUpPlace
  <2>3. CASE CallbackReturns(g)
    BY <2>3 DEF CallbackReturns
  <2>4. CASE CallbackThrows(g)
    BY <2>4 DEF CallbackThrows, CleanUp, CleanUpPlace
  <2>5. CASE CleanedUp(g)
    BY <2>5 DEF CleanedUp
  <2>6. CASE GraceExpires(g)
    BY <2>6 DEF GraceExpires
  <2> QED
    BY <2>1, <2>2, <2>3, <2>4, <2>5, <2>6 DEF GuardStep
<1> QED
  BY <1>1, <1>2

\* The close of the pool: a guard that waits begins its clean-up, one that has
\* been handed a code stays until it resumes.  Either the close comes from
\* outside, or from the callback of a guard g, which then gets its thread.
LEMMA CloseRight ==
  ASSUME IInv, NEW h \in Guards,
         Close \/ \E g \in Guards : CallbackCloses(g)
  PROVE  GuardRight(h)'
<1> DEFINE C == pc[h] = "callback" \/ (pc[h] = "receive" /\ h \notin handed)
<1>1. /\ closed' /\ pc'[h] = IF C THEN CleanUpPlace ELSE pc[h]
      /\ process' = process /\ handed' = handed /\ fatal' = fatal /\ lost' = lost
  BY DEF Close, CallbackCloses, CleanUp, Suspended
<1>2. CleanUpPlace \in {"grace", "last"}
  BY DEF CleanUpPlace
<1>3. \/ /\ waiter'[h] = waiter[h]
         /\ h \in unwatched' <=> h \in unwatched \/ pc[h] = "callback"
      \/ /\ pc[h] = "callback" /\ waiter'[h] = "waiting"
         /\ h \in unwatched' <=> h \in unwatched
  <2>1. CASE Close
    BY <2>1 DEF Close
  <2>2. ASSUME NEW g \in Guards, CallbackCloses(g) PROVE <1>3
    BY <2>2 DEF CallbackCloses, IInv, TypeOK
  <2> QED
    BY <2>1, <2>2
<1> QED
  BY <1>1, <1>2, <1>3 DEF IInv, TypeOK, GuardRight, Places, Receiving, Nowhere

\* The invariant is inductive.
LEMMA StepIInv ==
  ASSUME IInv, [Next]_vars
  PROVE  IInv'
<1>1. TypeOK'
  BY StepType DEF IInv
<1>2. ASSUME NEW h \in Guards PROVE GuardRight(h)'
  <2>1. CASE Close \/ \E g \in Guards : CallbackCloses(g)
    BY <2>1, CloseRight
  <2>2. CASE \E g \in Guards : Start(g) \/ Exits(g) \/ ThreadStep(g)
    BY <2>2, ThreadRight
  <2>3. CASE \E g \in Guards : GuardStep(g) \/ GraceExpires(g)
    BY <2>1, <2>3, CoroutineRight
  <2>4. CASE UNCHANGED vars
    BY <2>4, Untouched DEF vars, pastVars, IInv
  <2> QED
    BY <2>1, <2>2, <2>3, <2>4 DEF Next
<1> QED
  BY <1>1, <1>2 DEF IInv

\* The invariant holds in every state of the pool.
LEMMA Invariant == Spec => []IInv
BY InitIInv, StepIInv, PTL DEF Spec

\* The state of the pool keeps its type, for any set of guards.
THEOREM TypeCorrect == Spec => []TypeOK
<1>1. IInv => TypeOK
  BY DEF IInv
<1> QED
  BY <1>1, Invariant, PTL

\* looper leaves no process, no thread and no exit code behind when it ends,
\* and it does not end without the exit code of its last process: a guard that
\* was cancelled or failed in its restart callback waits for ever.
THEOREM DoneLeavesNothing == Spec => []DoneIsClean
<1>1. IInv => DoneIsClean
  BY DEF IInv, DoneIsClean, GuardRight, Nowhere
<1> QED
  BY <1>1, Invariant, PTL

\* The exit code that exitChannel carries is never in two places; it is in
\* none while the restart callback runs, when a cancelled receive has lost it,
\* and in the clean-up of a guard that was cancelled or failed in its callback.
THEOREM CodeIsKept == Spec => []ExitCodeKept
<1>1. IInv => ExitCodeKept
  BY DEF IInv, ExitCodeKept, GuardRight, Nowhere
<1> QED
  BY <1>1, Invariant, PTL

\* A step of the pool is a step of its contract or changes nothing there: a
\* fast exit and a callback that throws are Fail, the end of a clean-up is End.
LEMMA StepContract ==
  ASSUME IInv, [Next]_vars
  PROVE  [Contract!Next]_(Contract!vars)
<1> USE DEF Contract!vars
<1>1. CASE Close
  <2>1. Up' = Up
    BY <1>1 DEF Up, Close, CleanUp, CleanUpPlace, Suspended, IInv, TypeOK
  <2> QED
    BY <1>1, <2>1 DEF Up, Close, Contract!Next, Contract!Close
<1>2. ASSUME NEW g \in Guards, Start(g) PROVE Contract!Start(g)
  <2>1. Up' = Up \cup {g} /\ g \notin Up \cup fatal
    BY <1>2 DEF Up, Start, IInv, TypeOK, GuardRight
  <2> QED
    BY <1>2, <2>1 DEF Up, Start, Contract!Start
<1>3. ASSUME NEW g \in Guards, ProcessExited(g)
      PROVE  Contract!Fail(g) \/ UNCHANGED Contract!vars
  <2>1. g \in Up \ fatal /\ ~closed
    BY <1>3 DEF Up, ProcessExited, IInv, GuardRight
  <2>2. CASE fatal' = fatal \cup {g} /\ pc' = [pc EXCEPT ![g] = "done"]
    <3>1. Up' = Up \ {g}
      BY <2>2 DEF Up, IInv, TypeOK
    <3> QED
      BY <1>3, <2>1, <2>2, <3>1 DEF Up, ProcessExited, Contract!Fail
  <2>3. CASE /\ fatal' = fatal
             /\ pc' = [pc EXCEPT ![g] = IF g \in WithCallback THEN "callback"
                                                            ELSE "receive"]
    <3>1. Up' = Up
      BY <2>1, <2>3 DEF Up, IInv, TypeOK
    <3> QED
      BY <1>3, <2>3, <3>1 DEF Up, ProcessExited
  <2> QED
    BY <1>3, <2>2, <2>3 DEF ProcessExited
<1>4. ASSUME NEW g \in Guards, CallbackThrows(g) PROVE Contract!Fail(g)
  <2>1. Up' = Up /\ g \in Up \ fatal /\ ~closed
    BY <1>4 DEF Up, CallbackThrows, CleanUp, CleanUpPlace, IInv, TypeOK, GuardRight
  <2> QED
    BY <1>4, <2>1 DEF Up, CallbackThrows, Contract!Fail
<1>5. ASSUME NEW g \in Guards, CleanedUp(g) PROVE Contract!End(g)
  <2>1. Up' = Up \ {g} /\ g \in Up /\ (closed \/ g \in fatal)
    BY <1>5 DEF Up, CleanedUp, IInv, TypeOK, GuardRight
  <2> QED
    BY <1>5, <2>1 DEF Up, CleanedUp, Contract!End
<1>6. ASSUME NEW g \in Guards,
             \/ Exits(g) \/ ThreadStep(g) \/ ExitCodeLost(g)
             \/ CallbackReturns(g) \/ GraceExpires(g)
      PROVE  UNCHANGED Contract!vars
  <2>1. Up' = Up
    BY <1>6 DEF Up, IInv, TypeOK, Exits, ThreadStep, WaiterSends, HandOver,
                ExitCodeLost, CleanUp, CleanUpPlace, CallbackReturns, GraceExpires
  <2> QED
    BY <1>6, <2>1 DEF Up, Exits, ThreadStep, WaiterSends, HandOver, ExitCodeLost,
                      CallbackReturns, GraceExpires
<1>7. ASSUME NEW g \in Guards, CallbackCloses(g) PROVE Contract!Close
  <2>1. Up' = Up
    BY <1>7 DEF Up, CallbackCloses, CleanUp, CleanUpPlace, Suspended, IInv, TypeOK
  <2> QED
    BY <1>7, <2>1 DEF Up, CallbackCloses, Contract!Close
<1>8. CASE UNCHANGED vars
  BY <1>8 DEF vars
<1> QED
  BY <1>1, <1>2, <1>3, <1>4, <1>5, <1>6, <1>7, <1>8 DEF Next, GuardStep, Contract!Next

\* The pool implements GuardContract: a guard ends only if it has failed or the
\* pool is closed, fails only in an open pool, and calls onFatal once.
THEOREM PoolImplementsContract == Spec => ImplementsContract
<1>1. Init => Contract!Init
  BY DEF Init, Contract!Init
<1> QED
  BY <1>1, Invariant, StepContract, PTL DEF Spec, ImplementsContract, Contract!Spec

=============================================================================
