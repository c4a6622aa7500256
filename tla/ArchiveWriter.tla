----------------------------- MODULE ArchiveWriter -----------------------------
(***************************************************************************)
(* How one archive is written (executeBackupCommand, backup.go): the       *)
(* command's output goes through a gzip writer, which passes full blocks   *)
(* on to the target file and to a SHA-256, in this order.  When the        *)
(* command has ended the file is closed, the hash is saved and the result  *)
(* is recorded; the gzip writer is closed by a deferred call, last.        *)
(*                                                                         *)
(* The output is the sequence 1, 2, ... of its chunks, compression keeps   *)
(* it, and a hash is the sequence that was hashed.                         *)
(***************************************************************************)
EXTENDS Integers, SequencesExt

CONSTANTS
    MaxChunks,   \* bound on the command's output
    Block,       \* chunks that the compressor holds before it writes
    Salts,       \* what may be hashed first: <<>>, or the previous archive's hash
    Codes        \* what cmd.Run may return: "0", "1", "other" exit codes

ASSUME WriterAssumption ==
    /\ MaxChunks \in Nat /\ Block \in Nat \ {0}
    /\ Codes \subseteq {"0", "1", "other"}
    /\ Salts \subseteq Seq(STRING)

VARIABLES
    pc,        \* new, stream, ended, hashed, recorded, done
    produced,  \* chunks read from the command
    buffer,    \* what the gzip writer holds
    started,   \* whether the gzip writer has written its header
    file,      \* what has reached the file
    open,      \* whether the file is open
    exists,    \* whether it is in the directory
    hasher,    \* what has been hashed
    salt,      \* what was hashed first
    copied,    \* whether every write so far has succeeded
    code,      \* what cmd.Run has returned
    saved,     \* the registered hash, a set of at most one
    result     \* the recorded result

vars == <<pc, produced, buffer, started, file, open, exists, hasher, salt, copied, code, saved, result>>

\* The type invariant: each stage of executeBackupCommand leaves its values in range,
\* and the compressor never holds a whole block.
TypeOK ==
    /\ pc \in {"new", "stream", "ended", "hashed", "recorded", "done"}
    /\ produced \in 0 .. MaxChunks
    /\ started \in BOOLEAN /\ open \in BOOLEAN /\ exists \in BOOLEAN /\ copied \in BOOLEAN
    /\ Len(buffer) < Block
    /\ code \in Codes \cup {"none", "broken"}
    /\ result \in {"none", "SUCCESS", "WARNING", "FAILED"}

Init ==
    /\ pc = "new" /\ produced = 0
    /\ buffer = <<>> /\ started = FALSE
    /\ file = <<>> /\ open = FALSE /\ exists = FALSE
    /\ hasher = <<>> /\ salt = <<>>
    /\ copied = TRUE /\ code = "none" /\ saved = {} /\ result = "none"

\* The file is created (or the function returns) and the salt is hashed.
Open ==
    /\ pc = "new"
    /\ \/ /\ salt' \in Salts
          /\ hasher' = salt'
          /\ open' = TRUE /\ exists' = TRUE
          /\ pc' = "stream"
       \/ /\ pc' = "done"
          /\ UNCHANGED <<salt, hasher, open, exists>>
    /\ UNCHANGED <<produced, buffer, started, file, copied, code, saved, result>>

\* Seeded bug: the hasher comes before the file, and sees data the file refuses.
OutHashFirst(data) ==
    /\ hasher' = hasher \o data
    /\ \E n \in 0 .. Len(data) :
        /\ n < Len(data) => copied' = FALSE
        /\ n = Len(data) => UNCHANGED copied
        /\ file' = IF open THEN file \o SubSeq(data, 1, n) ELSE file

\* io.MultiWriter(outFile, hasher): the hasher is reached only if the file has taken
\* all the data.  A closed file takes nothing, an open one may take a part.
Out(data) ==
    \/ /\ open
       /\ file' = file \o data
       /\ hasher' = hasher \o data
       /\ UNCHANGED copied
    \/ /\ data # <<>>
       /\ \E n \in 0 .. Len(data) - 1 :
            file' = IF open THEN file \o SubSeq(data, 1, n) ELSE file
       /\ copied' = FALSE
       /\ UNCHANGED hasher

Header == IF started THEN <<>> ELSE <<"header">>

Full(held) == Len(held) = Block

\* A chunk arrives: the header goes out before the first one, and a block when it
\* is full.
Stream ==
    /\ pc = "stream" /\ copied /\ produced < MaxChunks
    /\ produced' = produced + 1
    /\ started' = TRUE
    /\ LET held == Append(buffer, produced + 1)
       IN  /\ Out(Header \o IF Full(held) THEN held ELSE <<>>)
           /\ buffer' = IF Full(held) THEN <<>> ELSE held
    /\ UNCHANGED <<pc, open, exists, salt, code, saved, result>>

\* Seeded bug: the file is left open, for a deferred close.
CommandEndsOpen ==
    /\ pc = "stream"
    /\ \E c \in Codes : code' = IF c = "0" /\ ~copied THEN "broken" ELSE c
    /\ pc' = "ended"
    /\ UNCHANGED <<produced, buffer, started, file, open, exists, hasher, salt, copied, saved, result>>

\* cmd.Run returns, and the file is closed.  A failed write is reported only if
\* the command itself has ended with 0.
CommandEnds ==
    /\ pc = "stream"
    /\ \E c \in Codes : code' = IF c = "0" /\ ~copied THEN "broken" ELSE c
    /\ open' = FALSE
    /\ pc' = "ended"
    /\ UNCHANGED <<produced, buffer, started, file, exists, hasher, salt, copied, saved, result>>

\* Seeded bug: a hash is saved whatever the command has returned.
SaveHashAlways ==
    /\ pc = "ended"
    /\ saved' \in {{hasher}, saved}
    /\ pc' = "hashed"
    /\ UNCHANGED <<produced, buffer, started, file, open, exists, hasher, salt, copied, code, result>>

\* The hash is saved only if the command has succeeded; saving may fail.
SaveHash ==
    /\ pc = "ended"
    /\ saved' \in (IF code = "0" THEN {{hasher}} ELSE {}) \cup {saved}
    /\ pc' = "hashed"
    /\ UNCHANGED <<produced, buffer, started, file, open, exists, hasher, salt, copied, code, result>>

Record ==
    /\ pc = "hashed"
    /\ result' = IF code = "0" THEN "SUCCESS" ELSE IF code = "1" THEN "WARNING" ELSE "FAILED"
    /\ exists' = (code \in {"0", "1"})
    /\ pc' = "recorded"
    /\ UNCHANGED <<produced, buffer, started, file, open, hasher, salt, copied, code, saved>>

\* The deferred gzipWriter.Close: the last block and the trailer, to a closed file;
\* after a failed write it does nothing.
CloseGzip ==
    /\ pc = "recorded"
    /\ IF copied
       THEN Out(Header \o buffer \o <<"trailer">>)
       ELSE UNCHANGED <<file, hasher, copied>>
    /\ buffer' = <<>>
    /\ pc' = "done"
    /\ UNCHANGED <<produced, started, open, exists, salt, code, saved, result>>

Next == Open \/ Stream \/ CommandEnds \/ SaveHash \/ Record \/ CloseGzip

Spec == Init /\ [][Next]_vars
-------------------------------------------------------------------------------

\* A registered hash is that of the file as it is left, after the salt: neither a
\* disk that fails nor the deferred close makes a difference between the two.
HashIsOfFile ==
    pc = "done" /\ exists => \A s \in saved : s = salt \o file

\* No hash is registered for an archive that is not kept.
HashedIsKept == pc = "done" /\ saved # {} => exists

\* What the two rest on: as long as every write has succeeded, the hasher has seen
\* what the file has taken; a hash is saved only then, and the file no longer grows.
WriterInv ==
    /\ copied => hasher = salt \o file
    /\ open => pc = "stream"
    /\ pc = "new" => file = <<>>
    /\ pc \in {"ended", "hashed", "recorded"} /\ code = "0" => copied
    /\ pc \in {"new", "stream"} => code = "none"
    /\ pc \in {"new", "stream", "ended"} => saved = {}
    /\ \A h \in saved : code = "0" /\ h = salt \o file
    /\ pc \in {"recorded", "done"} /\ code = "0" => exists

\* "Ensure the gzip trailer is written at the end": the archive of a SUCCESS has
\* the whole output of the command between the header and the trailer.
SuccessIsComplete ==
    pc = "done" /\ result = "SUCCESS" /\ produced > 0 =>
        file = <<"header">> \o [i \in 1 .. produced |-> i] \o <<"trailer">>
===============================================================================
