---------------------------- MODULE CallbackGate ----------------------------
(***************************************************************************)
(* The admission gate for the user callbacks of one wrapper object:        *)
(* CallbackGate of wirestead/wrapper/callback_guard.hpp.  Every member     *)
(* function holds the gate's mutex throughout, so each is one step on the  *)
(* record.  threads is the set of threads_: the nested leases of a thread  *)
(* end before or with its outermost one.                                   *)
(***************************************************************************)
EXTENDS Naturals

NewGate == [closed |-> FALSE, generation |-> 0, threads |-> {}]

FaultAdmits(g, generation) == ~g.closed
\* What enter() decides, under the lock that also registers the lease.
admitted(g, generation) == ~g.closed /\ generation = g.generation
enter(g, thread) == [g EXCEPT !.threads = @ \cup {thread}]
release(g, thread) == [g EXCEPT !.threads = @ \ {thread}]

close(g) == [g EXCEPT !.closed = TRUE]
open_new_generation(g) == [g EXCEPT !.closed = FALSE, !.generation = @ + 1]

active_on_this_thread(g, thread) == thread \in g.threads
idle(g) == g.threads = {}
=============================================================================
