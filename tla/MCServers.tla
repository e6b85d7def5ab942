------------------------------ MODULE MCServers ------------------------------
(***************************************************************************)
(* The two stream servers on one instance: v.kind says which of them a     *)
(* behaviour is of.                                                        *)
(***************************************************************************)
EXTENDS TcpServer, UdsServer

ServersInit == Init \/ UdsInit

ServersNext ==
    \/ v.kind = "tcp" /\ Next
    \/ v.kind = "uds" /\ UdsNext

ServersSpec == ServersInit /\ [][ServersNext]_v
=============================================================================
