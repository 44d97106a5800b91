------------------------------ MODULE MCRunLock ------------------------------
(***************************************************************************)
(* The daemon with the pressure watcher and an HTTP request, and one CLI   *)
(* process; three runs, so that a stop for a finished run can meet the     *)
(* next one, in either process.                                            *)
(***************************************************************************)
EXTENDS RunLock

CONSTANTS watcher, http, cli, daemonP, cliP

MCThreads == {watcher, http, cli}
MCProcs == {daemonP, cliP}
MCProcOf == [t \in MCThreads |-> IF t = cli THEN cliP ELSE daemonP]
=============================================================================
