--------------------------- MODULE MCArchiveCatalog ---------------------------
(* Small instances of ArchiveCatalog for TLC. *)
EXTENDS ArchiveCatalog

Job(server, name, volumes, hot, cold, keepCold) ==
    [server |-> server, name |-> name, volumes |-> volumes, hot |-> hot, cold |-> cold,
     keep |-> 1, keepCold |-> keepCold]

\* Names without underscores: a job with two volumes, and one with the directories of its own.
Plain == << Job(<<"s">>, <<"web">>, {<<"db">>, <<"log">>}, "hot", "cold", 1),
            Job(<<"s">>, <<"db">>, {}, "fast", "nas", 0) >>

\* Two volumes whose names share their first part, as those of a compose project do.
Compose == << Job(<<"s">>, <<"web">>, {<<"app">>, <<"app", "db">>}, "hot", "cold", 1) >>

\* A job whose name contains an underscore.
Underscore == << Job(<<"s">>, <<"web">>, {<<"db">>}, "hot", "cold", 1),
                 Job(<<"s">>, <<"web", "db">>, {}, "hot", "cold", 1) >>

RankOfPart == [p \in {"", "app", "db", "log", "s", "web"} |->
    CASE p = "" -> 0 [] p = "app" -> 1 [] p = "db" -> 2 [] p = "log" -> 3 [] p = "s" -> 4 [] p = "web" -> 5]
===============================================================================
