----------------------------- MODULE MCWrappers -----------------------------
(***************************************************************************)
(* The seven wrappers on one instance: w.kind says which of them a         *)
(* behaviour is of.                                                        *)
(***************************************************************************)
EXTENDS Wrapper

Tcp == INSTANCE TcpClientWrapper
Uds == INSTANCE UdsClientWrapper
Port == INSTANCE SerialWrapper
Udp == INSTANCE UdpWrapper
TcpServer == INSTANCE TcpServerWrapper
UdsServer == INSTANCE UdsServerWrapper
UdpServer == INSTANCE UdpServerWrapper

Init ==
    \/ Tcp!Init \/ Uds!Init \/ Port!Init \/ Udp!Init
    \/ TcpServer!Init \/ UdsServer!Init \/ UdpServer!Init

Next ==
    \/ w.kind = "tcp"        /\ Tcp!Next
    \/ w.kind = "uds"        /\ Uds!Next
    \/ w.kind = "serial"     /\ Port!Next
    \/ w.kind = "udp"        /\ Udp!Next
    \/ w.kind = "tcp_server" /\ TcpServer!Next
    \/ w.kind = "uds_server" /\ UdsServer!Next
    \/ w.kind = "udp_server" /\ UdpServer!Next

Spec == Init /\ [][Next]_w

\* A handler goes on once it runs, a callback returns when it is not inside a
\* call, what was posted to the strand runs, and the threads inside stop() and
\* send are scheduled.  Nothing is assumed of peers, timers or callers.
IoGoesOn ==
    \/ Alive \/ Admission \/ HandlerEnds \/ StopProceeds("io") \/ SendProceeds("io")
    \/ w.kind = "tcp"        /\ Tcp!Io
    \/ w.kind = "uds"        /\ Uds!Io
    \/ w.kind = "serial"     /\ Port!Io
    \/ w.kind = "udp"        /\ Udp!Io
    \/ w.kind = "tcp_server" /\ TcpServer!Io
    \/ w.kind = "uds_server" /\ UdsServer!Io
    \/ w.kind = "udp_server" /\ UdpServer!Io

LiveSpec ==
    /\ Spec
    /\ WF_w(IoGoesOn) /\ SF_w(UserReturns) /\ WF_w(Cleanup)
    /\ WF_w(StopProceeds("owner")) /\ WF_w(SendProceeds("sender"))
=============================================================================
