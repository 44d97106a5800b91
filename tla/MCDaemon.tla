------------------------------- MODULE MCDaemon -------------------------------
EXTENDS Daemon

\* The settings: two clients, two requests, one edit of the file.  A threshold of
\* 3 needs a target of 4.
MCFiles == {[limits |-> [threshold |-> 1, target |-> 2], conns |-> {"arr"}],
            [limits |-> [threshold |-> 0, target |-> 2], conns |-> {}]}
MCTables == <<"arr">>
MCEntry(k, v) == [key |-> k, value |-> v]
MCBodies == {<<MCEntry("target", 4), MCEntry("threshold", 3)>>,
             <<MCEntry("threshold", 3)>>, <<MCEntry("target", 2)>>}

\* The connections: an *arr whose URL has no host, which only the YAML may have, a
\* client, and a kind without a backend.
MCConn(url, secret, on) == [url |-> url, secret |-> secret, enabled |-> on]
MCYaml == ("sonarr" :> MCConn("bare", "k0", TRUE)) @@
          ("qbittorrent" :> MCConn("absolute", "blank", TRUE)) @@
          ("transmission" :> MCConn("blank", "blank", FALSE))
MCInputs == {MCConn("absolute", "blank", TRUE), MCConn("absolute", "k1", TRUE),
             MCConn("bare", "k1", TRUE), MCConn("blank", "blank", FALSE)}

\* The health notifications: two *arrs, a torrent client, and two providers.
MCLists == <<<<"radarr", "sonarr">>, <<"qbit">>>>
MCProviders == <<"all", "errors">>
MCRouting == [p \in {"all", "errors"} |->
  IF p = "all" THEN [min |-> 0, mute |-> {}] ELSE [min |-> 2, mute |-> {}]]

\* The rate limits: no limit, or the default.
MCCaps == {-1, 0}

\* The migrations: two processes of the next version of the program, one of this.
MCEmbedded == [p \in {"old", "new", "cli"} |-> IF p = "old" THEN {1} ELSE {1, 2}]
=============================================================================
