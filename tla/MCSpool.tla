------------------------------ MODULE MCSpool ------------------------------
(* An instance of Spool for TLC: three recordings of different sizes.       *)
EXTENDS Spool, EpisodeIds, TLC

CONSTANTS e1, e2, e3

MCEpisodes == {e1, e2, e3}

\* e1 and e2 share a shard; e3 nearly fills one alone.
MCSize == (e1 :> 4) @@ (e2 :> 6) @@ (e3 :> 9)
MCShardSize == 10

\* As the systemd unit runs it, ...
MCDaemon == {[once |-> FALSE, delete |-> TRUE]}
\* ... and by hand: a single pass that keeps the local files.
MCDaemonOrDryRun == MCDaemon \cup {[once |-> TRUE, delete |-> FALSE]}

\* Two flat recordings and one in a session directory, under one root.
OneRoot == (e1 :> <<"r1", <<<<"t1">>>>>>) @@ (e2 :> <<"r1", <<<<"t2">>>>>>)
           @@ (e3 :> <<"r1", <<<<"s">>, <<"t1">>>>>>)

MCIdOf == [e \in MCEpisodes |-> EpisodeId(OneRoot[e][1], OneRoot[e][2])]
MCIds == {MCIdOf[e] : e \in MCEpisodes}
=============================================================================
