------------------------------- MODULE BPending -------------------------------
(***************************************************************************)
(* The pending jobs of the event loop of tun2socks (BPending.c, BReactor): *)
(* a stack, the job set last runs first.  An operator takes a world w, the *)
(* state the code works on, and returns the next one: w.jobs is the stack, *)
(* its top first, and w.failed the assertions that did not hold (a release *)
(* build leaves the assertions out and runs on).                           *)
(***************************************************************************)
EXTENDS Integers, Sequences

Check(w, holds, name) ==
  IF holds THEN w ELSE [w EXCEPT !.failed = @ \cup {name}]

BPending_Set(w, job) ==
  [w EXCEPT !.jobs = <<job>> \o SelectSeq(@, LAMBDA j : j # job)]

BPending_Free(w, freed) ==
  [w EXCEPT !.jobs = SelectSeq(@, LAMBDA j : j \notin freed)]

\* The state of an interface of the flow library, which carries one
\* operation at a time: none, one that is scheduled, one that its provider
\* works on, one that is done with its handler scheduled; or closed.
Interface == {"none", "op", "busy", "done", "closed"}

=============================================================================
