----------------------------- MODULE WriteQueue -----------------------------
(***************************************************************************)
(* The reservation and backpressure helpers every stream transport shares: *)
(* wirestead/transport/base/bp_utils.hpp and bp_state_machine.hpp.  They   *)
(* are pure functions of three byte counters and one flag:                 *)
(*                                                                         *)
(*   queue      bytes in tx_, in the batch being written, and reserved by  *)
(*              accepted try-writes whose handler has not run yet          *)
(*   pending    bytes in pending_, held back while backpressure is active  *)
(*   inflight   bytes reserved by accepted plain writes whose handler has  *)
(*              not run yet                                                *)
(*   active     backpressure_active_                                       *)
(*                                                                         *)
(* A transport's module decides when each is applied and by which thread.  *)
(***************************************************************************)
EXTENDS Naturals, Sequences

\* Definitions whose name starts with Fault are seeded faults: each replaces the
\* definition after it to show that a property notices.

\* Try-write admission: the mutex overload, which shrinks the limit by the
\* in-flight reservations and then runs the check of the first overload.
try_reserve_write_bytes(queue, pending, inflight, active, bytes, high, limit) ==
    /\ bytes > 0
    /\ ~active
    /\ queue + bytes <= high
    /\ queue + pending + inflight + bytes <= limit

\* The in-flight reservations are forgotten.
FaultForgetsInflight(queue, pending, inflight, bytes, limit) ==
    /\ bytes > 0
    /\ queue + pending + bytes <= limit

\* Plain admission: every counter is weighed against the hard limit, and
\* backpressure does not refuse.
try_reserve_limit_bytes(queue, pending, inflight, bytes, limit) ==
    /\ bytes > 0
    /\ queue + pending + inflight + bytes <= limit

\* The subtraction does not saturate, or does not happen.
FaultUnsaturated(counter, bytes) == counter - bytes
FaultNoRelease(counter, bytes) == counter

\* release_reserved_write_bytes: a subtraction that saturates at zero.
release_reserved_write_bytes(counter, bytes) ==
    IF counter > bytes THEN counter - bytes ELSE 0

\* release_reserved_limit_bytes, and the same subtraction inside
\* commit_reserved_limit_bytes.
release_reserved_limit_bytes(inflight, bytes) ==
    IF inflight > bytes THEN inflight - bytes ELSE 0

\* Where an accepted plain write goes when its handler runs.
decide_enqueue(queue, pending, active, bytes, limit) ==
    IF queue + pending + bytes > limit THEN "Rejected"
    ELSE IF active THEN "Pending" ELSE "Immediate"

\* The two edges of report_backpressure.
RisingEdge(active, queued, high) == ~active /\ queued >= high
FallingEdge(active, queued, low) == active /\ queued <= low

\* The loop condition of take_gather_batch.
GatherMore(tx, batch, total, maxBuffers, maxBytes) ==
    /\ tx # <<>>
    /\ Len(batch) < maxBuffers
    /\ total < maxBytes
=============================================================================
