------------------------- MODULE MCTcpServerSession -------------------------
(* The two server sessions for model checking.  A behaviour is one of a TCP  *)
(* session or one of a UDS session.                                          *)
EXTENDS UdsServerSession

VARIABLE kind

SessionInit == (kind = "tcp" /\ Init) \/ (kind = "uds" /\ UdsInit)
SessionStrand == (kind = "tcp" /\ Strand) \/ (kind = "uds" /\ UdsStrand)
SessionNext ==
    /\ (kind = "tcp" /\ Next) \/ (kind = "uds" /\ UdsNext)
    /\ UNCHANGED kind

SessionSpec == SessionInit /\ [][SessionNext]_<<vars, kind>>

\* FairSpec's fairness, for either session.
SessionFairSpec ==
    /\ SessionSpec
    /\ WF_vars(SessionStrand)
    /\ WF_vars(CompleteWrite \/ FailWrite)
    /\ WF_vars(~open /\ FailHandshake)
    /\ WF_vars(~open /\ FailRead)
=============================================================================
