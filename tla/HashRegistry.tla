------------------------------ MODULE HashRegistry ------------------------------
(***************************************************************************)
(* The hashes of one job's archives (executeBackupCommand, SaveHash,       *)
(* ValidateHashes): each archive of the backup directory may be salted     *)
(* with the hash of a previous one and gets a row in archive_hashes; a     *)
(* sweep compares the rows with the files and marks what differs.          *)
(*                                                                         *)
(* A row's hash is that of the salt and the complete file (see             *)
(* ArchiveWriter); it is abstracted to the archive whose hash is the salt. *)
(* The YAML mirror is written and never read, and left out.                *)
(***************************************************************************)
EXTENDS Integers, FiniteSets

CONSTANTS
    MaxArchives,  \* bound on the archives
    Sweeps        \* concurrent ValidateHashes handlers

ASSUME RegistryAssumption == MaxArchives \in Nat

Ids == 1 .. MaxArchives

VARIABLES
    streaming,  \* whether a run is writing the newest archive
    made,       \* the number of archives so far
    kind,       \* FULL or INC, part of the name
    files,      \* what is in the directory
    altered,    \* the archives somebody has changed on disk
    salt,       \* the archive whose hash was hashed first, 0: none
    row,        \* the status of each archive's row, "none": no row
    sweep       \* per handler: the files to do, the one whose row was read, and
                \* what was altered when it began

vars == <<streaming, made, kind, files, altered, salt, row, sweep>>

SweepState == [on : BOOLEAN, todo : SUBSET Ids, reading : 0 .. MaxArchives, before : SUBSET Ids]

NoSweep == [on |-> FALSE, todo |-> {}, reading |-> 0, before |-> {}]

\* The type invariant; a row has one of the two statuses the code looks for.
TypeOK ==
    /\ streaming \in BOOLEAN /\ made \in 0 .. MaxArchives
    /\ kind \in [Ids -> {"FULL", "INC"}]
    /\ files \subseteq 1 .. made /\ altered \subseteq 1 .. made
    /\ salt \in [Ids -> 0 .. MaxArchives]
    /\ row \in [Ids -> {"none", "VALID", "COMPROMISED"}]
    /\ sweep \in [Sweeps -> SweepState]

Init ==
    /\ streaming = FALSE /\ made = 0
    /\ kind = [a \in Ids |-> "FULL"]
    /\ files = {} /\ altered = {}
    /\ salt = [a \in Ids |-> 0]
    /\ row = [a \in Ids |-> "none"]
    /\ sweep = [s \in Sweeps |-> NoSweep]

-------------------------------------------------------------------------------
(* A run.                                                                   *)

\* The order of the file names: FULL and INC come before the time stamp.
Before(k, a, b) == IF k[a] = k[b] THEN a < b ELSE k[a] = "FULL"

\* GetHash: no row, no salt.
SaltOf(last) == IF row[last] # "none" THEN last ELSE 0

\* "the most recent backup": the greatest name, the new file's included.
Latest(k, fs) == CHOOSE a \in fs : \A b \in fs \ {a} : Before(k, b, a)

\* Seeded bug: the row is there before the archive is complete.
CreateWithRow(t) ==
    /\ ~streaming /\ made < MaxArchives
    /\ t = "INC" => \E a \in files : kind[a] = "FULL"
    /\ streaming' = TRUE
    /\ made' = made + 1
    /\ kind' = [kind EXCEPT ![made + 1] = t]
    /\ files' = files \cup {made + 1}
    /\ LET last == Latest(kind', files')
       IN  salt' = [salt EXCEPT ![made + 1] = SaltOf(last)]
    /\ row' = [row EXCEPT ![made + 1] = "VALID"]
    /\ UNCHANGED <<altered, sweep>>

\* An INC needs a FULL archive.  The file is created, then the directory is read for
\* the salt.
Create(t) ==
    /\ ~streaming /\ made < MaxArchives
    /\ t = "INC" => \E a \in files : kind[a] = "FULL"
    /\ streaming' = TRUE
    /\ made' = made + 1
    /\ kind' = [kind EXCEPT ![made + 1] = t]
    /\ files' = files \cup {made + 1}
    /\ LET last == Latest(kind', files')
       IN  salt' = [salt EXCEPT ![made + 1] = SaltOf(last)]
    /\ UNCHANGED <<altered, row, sweep>>

\* Exit code 0 saves the hash, or fails to; 1 keeps the file without one; any other
\* removes it.
Finish ==
    /\ streaming
    /\ streaming' = FALSE
    /\ \/ /\ row' \in {row, [row EXCEPT ![made] = "VALID"]}
          /\ UNCHANGED files
       \/ /\ files' = files \ {made}
          /\ UNCHANGED row
    /\ UNCHANGED <<made, kind, altered, salt, sweep>>

\* Retention and RemoveBackup take files away and leave their rows.
Remove(a) ==
    /\ a \in files /\ (streaming => a # made)
    /\ files' = files \ {a}
    /\ UNCHANGED <<streaming, made, kind, altered, salt, row, sweep>>

\* Somebody changes an archive on disk; without a row nobody can tell.
Alter(a) ==
    /\ a \in files \ altered /\ row[a] # "none"
    /\ altered' = altered \cup {a}
    /\ UNCHANGED <<streaming, made, kind, files, salt, row, sweep>>

-------------------------------------------------------------------------------
(* ValidateHashes.                                                          *)

List(s) ==
    /\ ~sweep[s].on
    /\ sweep' = [sweep EXCEPT ![s] = [on |-> TRUE, todo |-> files, reading |-> 0,
                                      before |-> altered]]
    /\ UNCHANGED <<streaming, made, kind, files, altered, salt, row>>

First(k, fs) == CHOOSE a \in fs : \A b \in fs \ {a} : Before(k, a, b)

\* GetHash, in the order of the names: an archive with no row is passed over.
ReadRow(s) ==
    /\ sweep[s].on /\ sweep[s].reading = 0 /\ sweep[s].todo # {}
    /\ LET a == First(kind, sweep[s].todo)
       IN  sweep' = [sweep EXCEPT ![s].todo = @ \ {a},
                                 ![s].reading = IF row[a] = "none" THEN 0 ELSE a]
    /\ UNCHANGED <<streaming, made, kind, files, altered, salt, row>>

\* Seeded bug: the second of two sweeps resets the mark.
MarkedUntilSame(a, differs) == [row EXCEPT ![a] = IF @ = "VALID" /\ differs THEN "COMPROMISED" ELSE "VALID"]

Marked(a, differs) == [row EXCEPT ![a] = IF differs THEN "COMPROMISED" ELSE @]

\* The file is hashed, without salt; one that is gone is passed over.
Differs(a) == a \in altered \/ salt[a] # 0 \/ (streaming /\ a = made)

ReadFile(s) ==
    /\ sweep[s].on /\ sweep[s].reading # 0
    /\ LET a == sweep[s].reading
       IN  row' = IF a \in files THEN Marked(a, Differs(a)) ELSE row
    /\ sweep' = [sweep EXCEPT ![s].reading = 0]
    /\ UNCHANGED <<streaming, made, kind, files, altered, salt>>

Swept(s) == sweep[s].on /\ sweep[s].todo = {} /\ sweep[s].reading = 0

Done(s) ==
    /\ Swept(s)
    /\ sweep' = [sweep EXCEPT ![s] = NoSweep]
    /\ UNCHANGED <<streaming, made, kind, files, altered, salt, row>>

Next ==
    \/ \E t \in {"FULL", "INC"} : Create(t)
    \/ Finish
    \/ \E a \in Ids : Remove(a) \/ Alter(a)
    \/ \E s \in Sweeps : List(s) \/ ReadRow(s) \/ ReadFile(s) \/ Done(s)

Spec == Init /\ [][Next]_vars

-------------------------------------------------------------------------------

\* What is marked COMPROMISED was altered, or carries the salt that ValidateHashes
\* leaves out: a sweep during a run never takes an unfinished archive for an
\* altered one.
MarkedForAReason == \A a \in Ids : row[a] = "COMPROMISED" => a \in altered \/ salt[a] # 0

\* A sweep finds every archive that was altered before it began, although runs
\* and removals go on and other sweeps write to the same rows.
SweepFindsAltered ==
    \A s \in Sweeps : Swept(s) =>
        \A a \in sweep[s].before \cap files : row[a] = "COMPROMISED"

\* What the two rest on: an archive has no row before it is complete, a row is never
\* taken away, and a sweep still has to do what it has not found.
UnfinishedHasNoRow ==
    /\ streaming => made \in files
    /\ \A a \in Ids : a > made \/ (streaming /\ a = made) => row[a] = "none"

RowsStay ==
    /\ \A a \in altered : row[a] # "none"
    /\ \A a \in Ids : salt[a] # 0 => a <= made
    /\ \A s \in Sweeps : sweep[s].reading # 0 => row[sweep[s].reading] # "none"

SweepsProgress ==
    \A s \in Sweeps :
        /\ sweep[s].todo \subseteq 1 .. made
        /\ sweep[s].before \subseteq altered
        /\ sweep[s].on => \A a \in sweep[s].before \cap files :
              a \in sweep[s].todo \/ a = sweep[s].reading \/ row[a] = "COMPROMISED"

RegistryInv ==
    UnfinishedHasNoRow /\ RowsStay /\ SweepsProgress /\ MarkedForAReason

\* CHANGELOG: "'INC' payloads are cryptographically salted with the hash of their
\* parent archive": an INC made when its predecessor had a hash has that as salt.
IncsAreSalted ==
    \A a \in 2 .. made : kind[a] = "INC" /\ {a - 1, a} \subseteq files /\ row[a - 1] # "none" =>
        salt[a] = a - 1

\* ValidateHashes counts an archive as compromised only if it was altered.
NoFalseAlarm == \A a \in Ids : row[a] = "COMPROMISED" => a \in altered
===============================================================================
