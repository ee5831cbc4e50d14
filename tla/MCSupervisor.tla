---------------------------- MODULE MCSupervisor ----------------------------
(***************************************************************************)
(* A supervisor with an entry that is kept running (the router) and one    *)
(* that is started now and then and that netinit may not signal.           *)
(***************************************************************************)
EXTENDS Supervisor

MCType == [e \in Entries |-> IF e = "router" THEN "RESTART" ELSE "CRON"]
=============================================================================
