------------------------------- MODULE MCActor -------------------------------
(***************************************************************************)
(* Two torrents: a pack of two files, both imported by *arr, and one with  *)
(* no import, which in the cross-seeded volume shares a file with the      *)
(* pack.  Two runs, so that the second meets what the first left behind    *)
(* and may target a torrent again.                                         *)
(***************************************************************************)
EXTENDS Actor

CONSTANTS pack, single, c1, c2, c3

MCTorrents == {pack, single}
MCInodes == {c1, c2, c3}
MCContent == [t \in MCTorrents |-> IF t = pack THEN {c1, c2} ELSE {c3}]
MCCrossSeeded == [t \in MCTorrents |-> IF t = pack THEN {c1, c2} ELSE {c2}]
MCImports == [t \in MCTorrents |-> IF t = pack THEN {1, 2} ELSE {}]
MCInodeOf == [f \in {1, 2} |-> IF f = 1 THEN c1 ELSE c2]

Live(n, s) == [mode |-> "live", by |-> "http", cap |-> n, items |-> s]
MCPlans == {Live(0, <<pack, single>>), Live(0, <<single>>)}
MCInputs == MCPlans \cup
  {Live(1, <<single, pack>>),
   [mode |-> "dry-run", by |-> "disk_pressure", cap |-> 0, items |-> <<pack>>],
   [mode |-> "live", by |-> "cron", cap |-> 0, items |-> <<pack>>]}
=============================================================================
