---------------------------- MODULE TrafficMonitor ----------------------------
(***************************************************************************)
(* The traffic of a session: ss-local counts it and reports the count over *)
(* a socket, one connection a report; the monitor's thread takes it over,  *)
(* the loop of the binder turns it into rates on the main thread, and the  *)
(* end of the session, or of the system, adds it to the profile.  Received *)
(* traffic is treated like sent traffic and left out.                      *)
(***************************************************************************)
EXTENDS Integers, Sequences

CONSTANTS
  MaxBytes,     \* bound: what ss-local transfers in a behaviour
  MaxReports    \* bound: reports on their way

ASSUME TrafficAssumption == MaxBytes \in Nat /\ MaxReports \in Nat \ {0}

VARIABLES
  counted,     \* the counter of the running ss-local
  inbox,       \* its reports not yet accepted, oldest first
  thread,      \* the monitor's thread: "accepting" or "marking"
  monitor,     \* there is a monitor: a session runs
  current,     \* current.txTotal
  dirty,
  out,         \* out.txTotal
  rate,        \* out.txRate, up to the length of the interval
  main,        \* requestUpdate: "idle", or "copied" before dirty is cleared
  profile,     \* the traffic of the profile, Gone once it is deleted
  persists,    \* history: what this monitor has persisted, in order
  total,       \* history: what all sessions have transferred
  restarted,   \* history: ss-local was restarted in this session
  again,       \* history: some monitor has persisted more than once
  late         \* history: a count came between the last copy and its end

historyVars == <<persists, total, restarted, again, late>>
vars == <<counted, inbox, thread, monitor, current, dirty, out, rate, main,
          profile, historyVars>>

Gone == -1
Bytes == 0 .. MaxBytes

TypeOK ==
  /\ {counted, current, out, total} \subseteq Bytes
  /\ inbox \in Seq(Bytes) /\ Len(inbox) <= MaxReports
  /\ thread \in {"accepting", "marking"} /\ main \in {"idle", "copied"}
  /\ {monitor, dirty, restarted, again, late} \subseteq BOOLEAN
  /\ rate \in -MaxBytes .. MaxBytes
  /\ profile \in {Gone} \cup 0 .. 2 * MaxBytes
  /\ persists \in Seq(Bytes) /\ Len(persists) <= 2

\* Mutant: the next session counts on where the last one ended.
FreshKeepsTotal ==
  /\ counted' = 0 /\ inbox' = <<>> /\ thread' = "accepting"
  /\ dirty' = FALSE /\ out' = 0 /\ rate' = 0
  /\ persists' = <<>> /\ restarted' = FALSE /\ late' = FALSE
  /\ UNCHANGED current

\* The fields of a monitor that was just made.
Fresh ==
  /\ counted' = 0 /\ inbox' = <<>> /\ thread' = "accepting"
  /\ current' = 0 /\ dirty' = FALSE /\ out' = 0 /\ rate' = 0
  /\ persists' = <<>> /\ restarted' = FALSE /\ late' = FALSE

Init ==
  /\ counted = 0 /\ inbox = <<>> /\ thread = "accepting"
  /\ current = 0 /\ dirty = FALSE /\ out = 0 /\ rate = 0
  /\ persists = <<>> /\ restarted = FALSE /\ late = FALSE
  /\ monitor = FALSE
  /\ main = "idle"
  /\ profile = 0
  /\ total = 0
  /\ again = FALSE

-----------------------------------------------------------------------------
(***************************************************************************)
(* ss-local and its guard.                                                 *)
(***************************************************************************)

Transfer ==
  /\ monitor
  /\ total < MaxBytes
  /\ counted' = counted + 1
  /\ total' = total + 1
  /\ UNCHANGED <<inbox, thread, monitor, current, dirty, out, rate, main, profile,
                 persists, restarted, again, late>>

Report ==
  /\ monitor
  /\ Len(inbox) < MaxReports
  /\ inbox' = Append(inbox, counted)
  /\ UNCHANGED <<counted, thread, monitor, current, dirty, out, rate, main, profile,
                 historyVars>>

\* A process that exits is started again and counts from zero.
ProcessRestarts ==
  /\ monitor
  /\ counted' = 0
  /\ restarted' = TRUE
  /\ UNCHANGED <<inbox, thread, monitor, current, dirty, out, rate, main, profile,
                 persists, total, again, late>>

-----------------------------------------------------------------------------
(***************************************************************************)
(* The monitor's thread.                                                   *)
(***************************************************************************)

\* Mutant: the connections are served concurrently, in any order.
AcceptConcurrently ==
  /\ monitor
  /\ thread = "accepting"
  /\ \E i \in DOMAIN inbox :
       /\ inbox' = SubSeq(inbox, 1, i - 1) \o SubSeq(inbox, i + 1, Len(inbox))
       /\ current' = inbox[i]
       /\ thread' = IF current # inbox[i] THEN "marking" ELSE "accepting"
       /\ late' = (late \/ main = "copied")
  /\ UNCHANGED <<counted, monitor, dirty, out, rate, main, profile, persists,
                 total, restarted, again>>

\* Mutant: only a count that has grown is marked.
AcceptMarksGrowth ==
  /\ monitor
  /\ thread = "accepting"
  /\ inbox # <<>>
  /\ inbox' = Tail(inbox)
  /\ current' = Head(inbox)
  /\ thread' = IF current < Head(inbox) THEN "marking" ELSE "accepting"
  /\ late' = (late \/ main = "copied")
  /\ UNCHANGED <<counted, monitor, dirty, out, rate, main, profile, persists,
                 total, restarted, again>>

acceptInternal ==
  /\ monitor
  /\ thread = "accepting"
  /\ inbox # <<>>
  /\ inbox' = Tail(inbox)
  /\ current' = Head(inbox)
  /\ thread' = IF current # Head(inbox) THEN "marking" ELSE "accepting"
  /\ late' = (late \/ main = "copied")
  /\ UNCHANGED <<counted, monitor, dirty, out, rate, main, profile, persists,
                 total, restarted, again>>

MarkDirty ==
  /\ monitor
  /\ thread = "marking"
  /\ thread' = "accepting"
  /\ dirty' = TRUE
  /\ UNCHANGED <<counted, inbox, monitor, current, out, rate, main, profile, historyVars>>

-----------------------------------------------------------------------------
(***************************************************************************)
(* The main thread.  requestUpdate takes a copy of the monitor's fields    *)
(* and then clears the flag the monitor's thread sets: two steps.          *)
(***************************************************************************)

\* requestUpdate while dirty, at some time since the last one.
requestUpdate ==
  /\ monitor
  /\ main = "idle"
  /\ IF dirty
       THEN /\ out' = current
            /\ rate' = current - out
            /\ main' = "copied"
            /\ late' = FALSE
       ELSE rate' = 0 /\ UNCHANGED <<out, main, late>>
  /\ UNCHANGED <<counted, inbox, thread, monitor, current, dirty, profile,
                 persists, total, restarted, again>>

ClearDirty ==
  /\ main = "copied"
  /\ main' = "idle"
  /\ dirty' = FALSE
  /\ UNCHANGED <<counted, inbox, thread, monitor, current, out, rate, profile, historyVars>>

\* `persisted` and `current` are one object, so the check between them passes.
persistStats ==
  /\ profile' = IF profile = Gone THEN Gone ELSE profile + current
  /\ again' = (again \/ persists # <<>>)

Begin ==
  /\ ~monitor
  /\ main = "idle"
  /\ monitor' = TRUE
  /\ Fresh
  /\ UNCHANGED <<main, profile, total, again>>

\* The system is about to shut down; the service goes on until it is killed.
Shutdown ==
  /\ monitor
  /\ main = "idle"
  /\ persists = <<>>
  /\ persistStats
  /\ persists' = Append(persists, current)
  /\ UNCHANGED <<counted, inbox, thread, monitor, current, dirty, out, rate, main,
                 total, restarted, late>>

\* ProxyInstance.shutdown.  The thread may still serve a connection, but nobody
\* looks at the monitor any more.
Stop ==
  /\ monitor
  /\ main = "idle"
  /\ persistStats
  /\ persists' = Append(persists, current)
  /\ monitor' = FALSE
  /\ UNCHANGED <<counted, inbox, thread, current, dirty, out, rate, main,
                 total, restarted, late>>

DeleteProfile ==
  /\ profile # Gone
  /\ profile' = Gone
  /\ UNCHANGED <<counted, inbox, thread, monitor, current, dirty, out, rate, main,
                 historyVars>>

Next ==
  \/ Transfer \/ Report \/ ProcessRestarts
  \/ acceptInternal \/ MarkDirty
  \/ requestUpdate \/ ClearDirty
  \/ Begin \/ Shutdown \/ Stop \/ DeleteProfile

Spec == Init /\ [][Next]_vars

-----------------------------------------------------------------------------
\* No byte is charged to the profile twice over its sessions, as long as no
\* monitor persists more than once.
CountedOnce == ~again => profile <= total

\* While ss-local is not restarted the listeners see no negative rate, however
\* its reports and the two threads interleave.
RateNonNegative == monitor /\ ~restarted => rate >= 0

\* A count the thread took over and marked is shown, or will be at the next
\* update; the exception is one that came between the copy of requestUpdate
\* and its clearing of the mark, which waits for the next change of the count.
UpdateShown ==
  monitor /\ thread = "accepting" /\ main = "idle" /\ ~dirty /\ ~late =>
    out = current
=============================================================================
