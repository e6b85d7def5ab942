-------------------------- MODULE UdsServerSession --------------------------
(***************************************************************************)
(* One accepted connection of a Unix domain socket:                        *)
(* wirestead/transport/uds/uds_server_session.cc.                          *)
(*                                                                         *)
(* The state and the write path are those of TcpServerSession, statement   *)
(* for statement, and are taken from there.  What differs is defined here: *)
(* there is no handshake and no cancel(), a finished write does not count  *)
(* as activity for the idle timer, and do_close takes writing_ back while  *)
(* a gather write may still be with the socket.  The constructor leaves    *)
(* bp_low_ at 0 for a threshold of 0, so the model is for thresholds of 1  *)
(* and more, which is all the configuration lets through.                  *)
(***************************************************************************)
EXTENDS TcpServerSession

UdsInit == Init

-----------------------------------------------------------------------------
(* Caller threads and the owner.                                             *)

UdsStart == Start
UdsWrite(n) == Write(n)
UdsTryWrite(n) == TryWrite(n)
uds_request_stop == request_stop
uds_cancel_write_wait == cancel_write_wait
uds_async_stop == async_stop

-----------------------------------------------------------------------------
(* The strand.                                                               *)

\* do_close; unlike TCP's it marks the writer free.
uds_do_close(f, cb) ==
    /\ do_close(f, cb)
    /\ CloseFrame
    /\ writing' = (writing /\ cleanup_done)

\* The handler start_with_notification posts: notify the owner, then read.
UdsRunStart ==
    /\ Running("start")
    /\ Done
    /\ IF Usable THEN reset_idle_timer /\ io' = io \cup {"read"}
                 ELSE UNCHANGED <<idle, io>>
    /\ UNCHANGED <<life, counters, queues, write, observers, accepted, fate,
                   wire, reserved>>

UdsRunRead == RunRead

\* A handler that closes the session when its condition holds.
UdsCloses(op, condition, cb) ==
    /\ Running(op)
    /\ Done
    /\ IF condition THEN uds_do_close(fate, cb) ELSE Skip /\ UNCHANGED writing
    /\ UNCHANGED <<batch, bytes_to_write, io>>

UdsRunReadFailed == UdsCloses("read failed", Usable, callbacks)
UdsRunIdle == UdsCloses("idle", idle # "armed" /\ Usable, callbacks)
UdsRunStop == UdsCloses("stop", TRUE, FALSE)

UdsRunPlainClosed == RunPlainClosed
UdsRunPlain == RunPlain
UdsCommit == Commit
UdsRunTry == RunTry
UdsReport == Report

\* The end of an enqueue handler or of a write's completion: do_write, unless a
\* write is in flight.
UdsDoWrite ==
    /\ pc = "after"
    /\ IF ~Usable \/ tx = <<>> \/ (writing /\ ~completing)
       THEN /\ pc' = "idle"
            /\ writing' = (writing /\ ~completing)
            /\ UNCHANGED <<batch, bytes_to_write>>
       ELSE /\ pc' = "gather"
            /\ writing' = TRUE
            /\ batch' = <<>> /\ bytes_to_write' = 0
    /\ completing' = FALSE
    /\ UNCHANGED <<life, counters, queues, strand, decision, io, idle,
                   observers, accepted, fate, wire, reserved>>

UdsBeginBatch == BeginBatch
UdsHandoff == Handoff

UdsHandoffThrows ==
    /\ pc = "initiate"
    /\ uds_do_close(LedgerEnd(fate, "loss"), callbacks)
    /\ pc' = "idle"
    /\ UNCHANGED <<batch, bytes_to_write, strand, decision, completing, io>>

UdsRunWroteClosed == RunWroteClosed
UdsRunWrote == RunWrote

UdsRunWriteFailed ==
    /\ Running("write failed")
    /\ Usable
    /\ batch' = <<>> /\ bytes_to_write' = 0
    /\ Done
    /\ uds_do_close(LedgerEnd(LedgerComplete(fate, batch, Head(strand).n), "loss"),
                    callbacks)
    /\ UNCHANGED io

-----------------------------------------------------------------------------
UdsCallers == \E n \in 1 .. MaxSize : UdsWrite(n) \/ UdsTryWrite(n)
UdsOwner == UdsStart \/ uds_request_stop \/ uds_cancel_write_wait \/ uds_async_stop
UdsKernel ==
    \/ CompleteRead \/ FailRead
    \/ CompleteWrite \/ FailWrite
    \/ ExpireIdle
UdsStrand ==
    \/ UdsRunStart \/ UdsRunRead \/ UdsRunReadFailed \/ UdsRunIdle \/ UdsRunStop
    \/ UdsRunPlainClosed \/ UdsRunPlain \/ UdsCommit \/ UdsRunTry
    \/ UdsReport \/ ClearBackpressure \/ RearmBackpressure
    \/ UdsDoWrite \/ Gather \/ UdsBeginBatch \/ UdsHandoff \/ UdsHandoffThrows
    \/ UdsRunWroteClosed \/ UdsRunWrote \/ UdsRunWriteFailed

UdsNext == UdsCallers \/ UdsOwner \/ UdsKernel \/ UdsStrand

UdsSpec == UdsInit /\ [][UdsNext]_vars
=============================================================================
