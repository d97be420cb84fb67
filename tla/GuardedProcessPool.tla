------------------------- MODULE GuardedProcessPool -------------------------
(***************************************************************************)
(* A GuardedProcessPool: each guard starts a process and a thread that     *)
(* waits for its exit, and restarts the process when it ends.  The thread  *)
(* hands the exit code to the guard's coroutine over a rendezvous channel. *)
(*                                                                         *)
(* The coroutine runs on the main thread, the thread does not.  A receive  *)
(* that has been handed a value resumes in a later turn of the main        *)
(* looper; when its coroutine is cancelled, or its timeout expires, before *)
(* that turn, it throws and the value is gone (the prompt cancellation of  *)
(* kotlinx.coroutines 1.6).                                                *)
(*                                                                         *)
(* The thread is created at the top of the loop, so a process that was     *)
(* restarted has none until onRestartCallback has returned.                *)
(***************************************************************************)
EXTENDS Naturals

CONSTANTS Guards,       \* the commands that are started
          WithCallback  \* the ones with an onRestartCallback

ASSUME CallbackAssumption == WithCallback \subseteq Guards

VARIABLES
  sdk,      \* Build.VERSION.SDK_INT: below 26 there is no destroyForcibly
  closed,   \* the pool's job is cancelled
  pc,       \* where the guard's coroutine waits
  process,  \* the process of each guard
  signal,   \* whether the guard has told the process to end
  waiter,   \* the thread that waits for the process
  handed,   \* the guards whose receive has a value and has not resumed yet
  fatal,    \* the guards that have posted onFatal
  lost,     \* history: the guards whose receive lost its value
  unwatched \* history: the guards that left the loop without a thread

pastVars == <<lost, unwatched>>
vars == <<sdk, closed, pc, process, signal, waiter, handed, fatal, pastVars>>

Places == {"none", "receive", "callback", "grace", "last", "done"}
Receiving == {"receive", "grace", "last"}

TypeOK ==
  /\ sdk \in {24, 26}
  /\ closed \in BOOLEAN
  /\ pc \in [Guards -> Places]
  /\ process \in [Guards -> {"none", "alive", "dead"}]
  /\ signal \in [Guards -> BOOLEAN]
  /\ waiter \in [Guards -> {"none", "waiting", "sending"}]
  /\ handed \subseteq Guards /\ fatal \subseteq Guards
  /\ lost \subseteq Guards /\ unwatched \subseteq Guards

Init ==
  /\ sdk \in {24, 26}
  /\ closed = FALSE
  /\ pc = [g \in Guards |-> "none"]
  /\ process = [g \in Guards |-> "none"]
  /\ signal = [g \in Guards |-> FALSE]
  /\ waiter = [g \in Guards |-> "none"]
  /\ handed = {} /\ fatal = {} /\ lost = {} /\ unwatched = {}

-----------------------------------------------------------------------------
(***************************************************************************)
(* The process and the thread that waits for it.                           *)
(***************************************************************************)

Exits(g) ==
  /\ process[g] = "alive"
  /\ process' = [process EXCEPT ![g] = "dead"]
  /\ UNCHANGED <<sdk, closed, pc, signal, waiter, handed, fatal, pastVars>>

\* process.waitFor() returns; the thread blocks in exitChannel.send.
WaiterSends(g) ==
  /\ waiter[g] = "waiting"
  /\ process[g] = "dead"
  /\ waiter' = [waiter EXCEPT ![g] = "sending"]
  /\ UNCHANGED <<sdk, closed, pc, process, signal, handed, fatal, pastVars>>

\* Sender and receiver meet; the receiver's resumption is posted.
HandOver(g) ==
  /\ waiter[g] = "sending"
  /\ pc[g] \in Receiving
  /\ g \notin handed
  /\ waiter' = [waiter EXCEPT ![g] = "none"]
  /\ handed' = handed \cup {g}
  /\ UNCHANGED <<sdk, closed, pc, process, signal, fatal, pastVars>>

-----------------------------------------------------------------------------
(***************************************************************************)
(* The guard.                                                              *)
(***************************************************************************)

\* start() and the first turn of looper().
Start(g) ==
  /\ ~closed
  /\ pc[g] = "none"
  /\ pc' = [pc EXCEPT ![g] = "receive"]
  /\ process' = [process EXCEPT ![g] = "alive"]
  /\ waiter' = [waiter EXCEPT ![g] = "waiting"]
  /\ UNCHANGED <<sdk, closed, signal, handed, fatal, pastVars>>

\* The finally block while the process runs: process.destroy(), then a receive
\* with a timeout (grace) or, before API 26, one without (last).
CleanUpPlace == IF sdk >= 26 THEN "grace" ELSE "last"
\* Mutant: the process is not told to end.
CleanUpPatiently(gs) ==
  /\ pc' = [g \in Guards |-> IF g \in gs THEN CleanUpPlace ELSE pc[g]]
  /\ UNCHANGED signal

CleanUp(gs) ==
  /\ pc' = [g \in Guards |-> IF g \in gs THEN CleanUpPlace ELSE pc[g]]
  /\ signal' = [g \in Guards |-> g \in gs \/ signal[g]]

\* An exit code arrives in an open pool: the process exited too fast or cannot
\* be started again, or it is restarted.  Without a callback the loop goes on
\* and creates the next thread in the same turn.
ProcessExited(g) ==
  /\ pc[g] = "receive"
  /\ g \in handed
  /\ ~closed
  /\ handed' = handed \ {g}
  /\ \/ /\ fatal' = fatal \cup {g}
        /\ pc' = [pc EXCEPT ![g] = "done"]
        /\ UNCHANGED <<process, waiter>>
     \/ /\ process' = [process EXCEPT ![g] = "alive"]
        /\ pc' = [pc EXCEPT ![g] = IF g \in WithCallback THEN "callback" ELSE "receive"]
        /\ waiter' = [waiter EXCEPT ![g] = IF g \in WithCallback THEN "none" ELSE "waiting"]
        /\ UNCHANGED fatal
  /\ UNCHANGED <<sdk, closed, signal, pastVars>>

\* Mutant: the cancellation is taken for a failure.
ExitCodeLostFatal(g) ==
  /\ pc[g] = "receive"
  /\ g \in handed
  /\ closed
  /\ handed' = handed \ {g}
  /\ fatal' = fatal \cup {g}
  /\ CleanUp({g})
  /\ UNCHANGED <<sdk, closed, process, waiter, pastVars>>

\* The receive that was handed the exit code resumes in a cancelled pool.
ExitCodeLost(g) ==
  /\ pc[g] = "receive"
  /\ g \in handed
  /\ closed
  /\ handed' = handed \ {g}
  /\ lost' = lost \cup {g}
  /\ CleanUp({g})
  /\ UNCHANGED <<sdk, closed, process, waiter, fatal, unwatched>>

\* onRestartCallback returns and the loop creates the thread.
CallbackReturns(g) ==
  /\ pc[g] = "callback"
  /\ pc' = [pc EXCEPT ![g] = "receive"]
  /\ waiter' = [waiter EXCEPT ![g] = "waiting"]
  /\ UNCHANGED <<sdk, closed, process, signal, handed, fatal, pastVars>>

\* Mutant: the guard fails without ending the process it has just restarted.
CallbackThrowsRunning(g) ==
  /\ pc[g] = "callback"
  /\ fatal' = fatal \cup {g}
  /\ pc' = [pc EXCEPT ![g] = "done"]
  /\ UNCHANGED <<sdk, closed, process, signal, waiter, handed, pastVars>>

\* It throws the IOException of sendFd.  The clean-up waits for an exit code
\* that no thread will send.
CallbackThrows(g) ==
  /\ pc[g] = "callback"
  /\ fatal' = fatal \cup {g}
  /\ unwatched' = unwatched \cup {g}
  /\ CleanUp({g})
  /\ UNCHANGED <<sdk, closed, process, waiter, handed, lost>>

\* The clean-up receives the exit code.
CleanedUp(g) ==
  /\ pc[g] \in {"grace", "last"}
  /\ g \in handed
  /\ handed' = handed \ {g}
  /\ pc' = [pc EXCEPT ![g] = "done"]
  /\ UNCHANGED <<sdk, closed, process, signal, waiter, fatal, pastVars>>

\* withTimeoutOrNull gives up on its receive, which may have been handed the
\* exit code; process.destroyForcibly().
GraceExpires(g) ==
  /\ pc[g] = "grace"
  /\ pc' = [pc EXCEPT ![g] = "last"]
  /\ handed' = handed \ {g}
  /\ lost' = lost \cup (handed \cap {g})
  /\ UNCHANGED <<sdk, closed, process, signal, waiter, fatal, unwatched>>

\* The guards that a cancellation resumes in the same turn: those that are
\* suspended and not about to resume.
Suspended == {g \in Guards : pc[g] = "callback" \/ (pc[g] = "receive" /\ g \notin handed)}

\* close().  A guard in its callback has no thread.
Close ==
  /\ ~closed
  /\ closed' = TRUE
  /\ CleanUp(Suspended)
  /\ unwatched' = unwatched \cup {g \in Guards : pc[g] = "callback"}
  /\ UNCHANGED <<sdk, process, waiter, handed, fatal, lost>>

\* The callback itself stops the service (VpnService, ErrnoException), which
\* closes the pool, and returns: its guard creates the thread, and then its
\* receive throws.
CallbackCloses(g) ==
  /\ pc[g] = "callback"
  /\ ~closed
  /\ closed' = TRUE
  /\ CleanUp(Suspended)
  /\ waiter' = [waiter EXCEPT ![g] = "waiting"]
  /\ unwatched' = unwatched \cup {h \in Guards \ {g} : pc[h] = "callback"}
  /\ UNCHANGED <<sdk, process, handed, fatal, lost>>

-----------------------------------------------------------------------------
ThreadStep(g) == WaiterSends(g) \/ HandOver(g)
GuardStep(g) ==
  \/ ProcessExited(g) \/ ExitCodeLost(g) \/ CallbackReturns(g)
  \/ CallbackThrows(g) \/ CallbackCloses(g) \/ CleanedUp(g)

Next ==
  \/ Close
  \/ \E g \in Guards : Start(g) \/ Exits(g) \/ ThreadStep(g) \/ GuardStep(g) \/ GraceExpires(g)

Spec == Init /\ [][Next]_vars

\* A guard that is done leaves no process, and no thread that waits for one or
\* for a receiver that will never come; and it has got the exit code of its
\* last process: a guard that cannot get it never ends.
DoneIsClean ==
  \A g \in Guards :
    pc[g] = "done" =>
      process[g] = "dead" /\ waiter[g] = "none" /\ g \notin handed \cup lost \cup unwatched

\* The exit code that a receive waits for is in one place: with the thread, or
\* handed over; or it is in none, because a cancelled receive has lost it or
\* because the guard was cancelled, or failed, in its restart callback.
ExitCodeKept ==
  \A g \in Guards :
    /\ pc[g] \in Receiving =>
         (waiter[g] # "none") # (g \in handed \cup lost \cup unwatched)
    /\ pc[g] = "callback" => waiter[g] = "none" /\ g \notin handed
    /\ ~(g \in handed /\ g \in lost \cup unwatched)

Contract == INSTANCE GuardContract WITH
  up <- {g \in Guards : pc[g] \notin {"none", "done"}}

\* The pool does what BaseService relies on: above all, a guard of a closed
\* pool never calls onFatal.
ImplementsContract == Contract!Spec

(***************************************************************************)
(* Liveness.  The main looper runs its turns, threads go on, and a process *)
(* that is told to end does: SIGTERM is not ignored by sslocal, tun2socks  *)
(* and redsocks, and SIGKILL by nothing.                                   *)
(***************************************************************************)
Fairness ==
  \A g \in Guards :
    /\ WF_vars(signal[g] /\ Exits(g))
    /\ WF_vars(ThreadStep(g))
    /\ WF_vars(GuardStep(g))
    /\ WF_vars(GraceExpires(g))
FairSpec == Spec /\ Fairness

\* A closed pool can be joined, with two exceptions: a cancelled receive has
\* lost the exit code, or the pool was closed, or the callback threw, while a
\* guard was in its restart callback and no thread waited for the process.
CloseCompletes ==
  \A g \in Guards :
    closed ~> (pc[g] \in {"none", "done"} \/ g \in lost \cup unwatched)

\* `withContext(NonCancellable) { // clean-up cannot be cancelled`: a clean-up
\* that has begun comes to its end.
CleanUpCompletes == \A g \in Guards : pc[g] \in {"grace", "last"} ~> pc[g] = "done"
=============================================================================
