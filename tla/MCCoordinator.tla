--------------------------- MODULE MCCoordinator ---------------------------
(* Small instances of Coordinator for TLC: which codes the cloud uses for   *)
(* locked and open, and what may go wrong.                                  *)
EXTENDS Coordinator

MCCloudCodes == {"1", "6"}
\* For the event poll: failed and empty answers, refused logins, restarts.
MCEventFaults == {"fail", "auth", "empty", "restart"}
\* For the commands: failed answers and logins, and the error code in the cloud.
MCCommandFaults == {"fail", "auth", "jam"}
=============================================================================
