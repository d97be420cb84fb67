------------------------------ MODULE EventBase ------------------------------
(***************************************************************************)
(* The event loop of libevent, which redsocks runs on.  An operator takes  *)
(* a world w, the state the code works on, and returns the next one.       *)
(* w.pending are the events that were added, w.polled those the last wait  *)
(* made active, which run in any order (epoll sorts by descriptor), and    *)
(* w.active those that were activated by hand, which run after them.       *)
(* w.failed are the assertions that did not hold.                          *)
(***************************************************************************)
EXTENDS Integers, Sequences

Check(w, holds, name) ==
  IF holds THEN w ELSE [w EXCEPT !.failed = @ \cup {name}]

IsActive(w, e) ==
  e \in w.polled \/ \E i \in 1 .. Len(w.active) : w.active[i] = e

\* An event of a descriptor that is active and not added is not added.
event_add(w, e) ==
  IF IsActive(w, e) THEN w ELSE [w EXCEPT !.pending = @ \cup {e}]

\* Mutant: an event that is active stays so.
DelKeepsActive(w, es) == [w EXCEPT !.pending = @ \ es]

\* An event that is deleted does not run, active or not.
event_del(w, es) ==
  [w EXCEPT !.pending = @ \ es, !.polled = @ \ es,
            !.active = SelectSeq(@, LAMBDA e : e \notin es)]

\* A timer that has run out and waits for its turn is set again instead.
event_add_timeout(w, e) ==
  [event_del(w, {e}) EXCEPT !.pending = @ \cup {e}]

event_active(w, e) ==
  IF IsActive(w, e) THEN w ELSE [w EXCEPT !.active = Append(@, e)]

\* A timer that has run out and waits for its turn still counts.
event_pending(w, e) == e \in w.pending \/ IsActive(w, e)

\* The loop waits when nothing is left to run.
Idle(w) == w.polled = {} /\ w.active = <<>>

event_base_loop(w, es) == [w EXCEPT !.polled = es]

\* Polled events run first; an event that is not persistent is deleted.
Runs(w, e) ==
  IF w.polled # {} THEN e \in w.polled
  ELSE w.active # <<>> /\ e = Head(w.active)

event_process_active(w, e, persistent) ==
  LET a == IF e \in w.polled THEN [w EXCEPT !.polled = @ \ {e}]
           ELSE [w EXCEPT !.active = Tail(@)]
  IN  IF persistent THEN a ELSE event_del(a, {e})

=============================================================================
