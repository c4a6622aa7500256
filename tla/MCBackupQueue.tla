----------------------------- MODULE MCBackupQueue -----------------------------
(* Small instances of BackupQueue: two servers with one job each (j1 makes   *)
(* one archive), a third job whose server has been removed.                  *)
EXTENDS BackupQueue, FiniteSets, TLC

CONSTANTS r1, r2, r3, c, j1, j2, gone

MCHostOf == [j \in Jobs |-> IF j = j1 THEN "s1_a" ELSE IF j = j2 THEN "s2_b" ELSE "s3_c"]
MCHosts == {"s1_a", "s2_b", "s3_c"}
MCLabelOf == [j \in Jobs |-> IF j = j1 THEN "s1/a (...)" ELSE IF j = j2 THEN "s2/b (...)"
                                                                       ELSE "s3/c (...)"]
MCLabels == {"s1/a (...)", "s2/b (...)", "s3/c (...)"}

OneEach == [j \in Jobs |-> 1]
OneAndTwo == [j \in Jobs |-> IF j = j2 THEN 2 ELSE 1]

AllJobs == {Jobs}
EachJob == {{j} : j \in Jobs}

Symmetry == Permutations(Runs)
===============================================================================
