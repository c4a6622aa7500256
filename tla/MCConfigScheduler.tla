-------------------------- MODULE MCConfigScheduler --------------------------
(* ConfigScheduler for TLC: nothing but a server section in config.yaml. *)
EXTENDS ConfigScheduler

NoBase == <<>>
OneBase == <<[name |-> "j1", version |-> "v1"]>>

\* Handlers are alike.
ClientSymmetry == Permutations(Clients)

\* Where requests overlap, two of them.
FewOverlapping == "overlap" \in faults => ops <= 2

\* The files to start with: one refused definition at most and, where requests overlap,
\* one server.
FewFiles ==
    ops = 0 => /\ disk["j2"] # "bad"
               /\ "overlap" \in faults => disk["s2"] = "none" /\ disk["s3"] = "none"
==============================================================================
