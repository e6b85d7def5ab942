------------------------------ MODULE MCClients ------------------------------
(***************************************************************************)
(* The transports with one socket on one instance: c.kind says which of    *)
(* them a behaviour is of.                                                 *)
(***************************************************************************)
EXTENDS ClientChannel

Tcp == INSTANCE TcpClient
Uds == INSTANCE UdsClient
Port == INSTANCE Serial
Udp == INSTANCE UdpChannel

Init == Tcp!Init \/ Uds!Init \/ Port!Init \/ Udp!Init

Next ==
    \/ c.kind = "tcp"    /\ Tcp!Next
    \/ c.kind = "uds"    /\ Uds!Next
    \/ c.kind = "serial" /\ Port!Next
    \/ c.kind = "udp"    /\ Udp!Next

Spec == Init /\ [][Next]_c

\* A virtual session's own byte counters stay exact (release_session_bytes and
\* what it undoes in udp.cc): UdpChannel's property, of its behaviours.
SessionBytesExact == c.kind = "udp" => Udp!SessionBytesExact

\* Nothing of an expired session is handed to the socket (expire_session and the
\* ledger check of do_write in udp.cc): UdpChannel's property, of its behaviours.
ExpiryFences == c.kind = "udp" => Udp!ExpiryFences
=============================================================================
