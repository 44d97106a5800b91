------------------------------- MODULE MCRuns --------------------------------
(***************************************************************************)
(* Two runs.  A request and the watcher, or a request and a CLI process,   *)
(* compete for the slot.                                                   *)
(***************************************************************************)
EXTENDS Runs

CONSTANTS h1, watcher, cli

Pressure == {h1, watcher}
Processes == {h1, cli}
TriggerOf(set) ==
  [t \in set |-> CASE t = watcher -> "disk_pressure" [] t = cli -> "cli"
                    [] OTHER -> "http"]
TriggerPressure == TriggerOf(Pressure)
TriggerProcesses == TriggerOf(Processes)

LiveEngine == {[live |-> TRUE, actor |-> TRUE]}
BothModes == LiveEngine \cup {[live |-> FALSE, actor |-> TRUE]}
=============================================================================
