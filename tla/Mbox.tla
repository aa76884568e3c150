-------------------------------- MODULE Mbox --------------------------------
(***************************************************************************)
(* Delivery to one mbox file by several cooperating writers                *)
(* (src/src/delivery/mbox.rs, and acquire_flock_fd of local_lock.rs).      *)
(*                                                                         *)
(* Every writer opens the mailbox, takes the kernel flock with bounded     *)
(* retries, records the length of the file, writes its record with several *)
(* write(2) calls at its own file offset (the descriptor is not O_APPEND), *)
(* performs the syncs DURABILITY asks for, and unlocks.  A failure before  *)
(* the unlock truncates the file back to the recorded length while the     *)
(* lock is still held.  Any system call may fail and any writer may be     *)
(* killed between two calls; the kernel then drops its lock.               *)
(*                                                                         *)
(* A record is Chunks pieces, <<w, 1>> .. <<w, Chunks>>: the properties    *)
(* tell apart only who wrote a byte and which part of the record it is.    *)
(***************************************************************************)
EXTENDS Integers, Sequences

CONSTANTS
    Writers,      \* concurrent deliveries to the same mailbox
    Chunks,       \* write(2) calls that one record takes
    NoWriter,     \* "nobody holds the flock"
    Platform      \* "linux" or "portable": how the parent directory is opened

ASSUME MboxAssumption ==
    /\ Chunks \in Nat \ {0}
    /\ NoWriter \notin Writers
    /\ Platform \in {"linux", "portable"}

VARIABLES
    mailbox,      \* the bytes of the file, as a sequence of chunks
    synced,       \* the contents the last successful fsync made durable
    holder,       \* the writer that owns the flock, or NoWriter
    pc,           \* where each writer stands in open / lock / append
    at,           \* original_len of each writer
    written,      \* chunks that the writer's write_record has written
    durability,   \* DURABILITY of each writer
    result,       \* what append returned
    faulty        \* a system call failed for this writer

vars == <<mailbox, synced, holder, pc, at, written, durability, result, faulty>>

Durability == {"none", "file", "full"}

\* "failed": Err with published = false; "norollback": the same with a rollback
\* error; "late": Err with published = true; "killed": the process is gone.
Result == {"pending", "published", "late", "failed", "norollback", "killed"}

PC == {"open", "lock", "seek", "write", "syncfile", "syncdir",
       "truncate", "resync", "unlock", "done"}

Chunk == Writers \X (1..Chunks)

Init ==
    /\ mailbox = <<>>
    /\ synced = <<>>
    /\ holder = NoWriter
    /\ pc = [w \in Writers |-> "open"]
    /\ at = [w \in Writers |-> 0]
    /\ written = [w \in Writers |-> 0]
    /\ durability \in [Writers -> Durability]
    /\ result = [w \in Writers |-> "pending"]
    /\ faulty = [w \in Writers |-> FALSE]

-----------------------------------------------------------------------------
\* write(2) at offset pos of a file that is at least that long.
PutAt(file, pos, chunk) ==
    [i \in 1..(IF pos < Len(file) THEN Len(file) ELSE pos + 1) |->
        IF i = pos + 1 THEN chunk ELSE file[i]]

Step(w, from, to) == pc[w] = from /\ pc' = [pc EXCEPT ![w] = to]

\* The handle goes out of scope: closing the descriptor releases the flock.
Return(w, from, r) ==
    /\ Step(w, from, "done")
    /\ result' = [result EXCEPT ![w] = r]
    /\ holder' = IF holder = w THEN NoWriter ELSE holder

Fault(w) == faulty' = [faulty EXCEPT ![w] = TRUE]

\* MboxFile::open creates the file when it is missing; it may also refuse it.
Open(w) ==
    \/ Step(w, "open", "lock")
       /\ UNCHANGED <<mailbox, synced, holder, at, written, durability, result, faulty>>
    \/ Return(w, "open", "failed") /\ Fault(w)
       /\ UNCHANGED <<mailbox, synced, at, written, durability>>

\* Mutant of Lock: the append does not wait for the flock.
LockIgnoresHolder(w) ==
    /\ Step(w, "lock", "seek")
    /\ holder' = w
    /\ UNCHANGED <<mailbox, synced, at, written, durability, result, faulty>>

\* One round of acquire_flock_fd_with: the nonblocking flock succeeds, or the
\* loop gives up (a signal, LOCKTIMEOUT elapsed, a terminal error).
Lock(w) ==
    \/ holder = NoWriter /\ Step(w, "lock", "seek") /\ holder' = w
       /\ UNCHANGED <<mailbox, synced, at, written, durability, result, faulty>>
    \/ Return(w, "lock", "failed") /\ Fault(w)
       /\ UNCHANGED <<mailbox, synced, at, written, durability>>

\* original_len = seek(End); a failing seek has nothing to roll back.
SeekEnd(w) ==
    \/ Step(w, "seek", "write") /\ at' = [at EXCEPT ![w] = Len(mailbox)]
       /\ UNCHANGED <<mailbox, synced, holder, written, durability, result, faulty>>
    \/ Return(w, "seek", "failed") /\ Fault(w)
       /\ UNCHANGED <<mailbox, synced, at, written, durability>>

\* Mutant of AfterWrite: DURABILITY is ignored.
AfterWriteUnlock(w) == "unlock"

AfterWrite(w) == IF durability[w] = "none" THEN "unlock" ELSE "syncfile"

\* write_record: one write call per chunk at the descriptor's own offset.
WriteRecord(w) ==
    \/ /\ written[w] < Chunks
       /\ Step(w, "write", IF written[w] + 1 = Chunks THEN AfterWrite(w) ELSE "write")
       /\ mailbox' = PutAt(mailbox, at[w] + written[w], <<w, written[w] + 1>>)
       /\ written' = [written EXCEPT ![w] = @ + 1]
       /\ UNCHANGED <<synced, holder, at, durability, result, faulty>>
    \/ Step(w, "write", "truncate") /\ Fault(w)
       /\ UNCHANGED <<mailbox, synced, holder, at, written, durability, result>>

SyncFile(w) ==
    \/ Step(w, "syncfile", IF durability[w] = "full" THEN "syncdir" ELSE "unlock")
       /\ synced' = mailbox
       /\ UNCHANGED <<mailbox, holder, at, written, durability, result, faulty>>
    \/ Step(w, "syncfile", "truncate") /\ Fault(w)
       /\ UNCHANGED <<mailbox, synced, holder, at, written, durability, result>>

\* fsync of the parent handle.  open_directory_path opens it O_PATH on Linux,
\* and fsync of an O_PATH descriptor is EBADF without any system fault.
SyncParent(w) ==
    \/ Platform # "linux" /\ Step(w, "syncdir", "unlock")
       /\ UNCHANGED <<mailbox, synced, holder, at, written, durability, result, faulty>>
    \/ Step(w, "syncdir", "truncate")
       /\ faulty' = [faulty EXCEPT ![w] = @ \/ Platform # "linux"]
       /\ UNCHANGED <<mailbox, synced, holder, at, written, durability, result>>

\* Mutants of Truncate: one chunk of the neighbour goes too, or the first chunk
\* of the failed record stays.
TruncateTooFar(w) ==
    /\ Step(w, "truncate", "resync")
    /\ mailbox' = SubSeq(mailbox, 1, at[w] - 1)
    /\ UNCHANGED <<synced, holder, at, written, durability, result, faulty>>

TruncateOffByOne(w) ==
    /\ Step(w, "truncate", "resync")
    /\ mailbox' = SubSeq(mailbox, 1, IF at[w] < Len(mailbox) THEN at[w] + 1 ELSE at[w])
    /\ UNCHANGED <<synced, holder, at, written, durability, result, faulty>>

\* rollback_with, first call: ftruncate back to original_len.  The unlock that
\* follows a failed truncate is the same step.
Truncate(w) ==
    \/ Step(w, "truncate", "resync")
       /\ mailbox' = SubSeq(mailbox, 1, at[w])
       /\ UNCHANGED <<synced, holder, at, written, durability, result, faulty>>
    \/ Return(w, "truncate", "norollback") /\ Fault(w)
       /\ UNCHANGED <<mailbox, synced, at, written, durability>>

\* Mutant of ResyncAfterRollback: the truncation is not synced.
ResyncForgotten(w) ==
    /\ Return(w, "resync", "failed")
    /\ UNCHANGED <<mailbox, synced, at, written, durability, faulty>>

\* rollback_with, the rest: seek, then sync unless DURABILITY=none; then unlock.
ResyncAfterRollback(w) ==
    \/ /\ Return(w, "resync", "failed")
       /\ synced' = IF durability[w] = "none" THEN synced ELSE mailbox
       /\ UNCHANGED <<mailbox, at, written, durability, faulty>>
    \/ Return(w, "resync", "norollback") /\ Fault(w)
       /\ UNCHANGED <<mailbox, synced, at, written, durability>>

\* The final flock(Unlock).  Its failure is reported after publication; the
\* descriptor is closed either way.
Unlock(w) ==
    \/ Return(w, "unlock", "published")
       /\ UNCHANGED <<mailbox, synced, at, written, durability, faulty>>
    \/ Return(w, "unlock", "late") /\ Fault(w)
       /\ UNCHANGED <<mailbox, synced, at, written, durability>>

\* SIGKILL or a crash of the process between two system calls.
Kill(w) ==
    /\ pc[w] # "done"
    /\ Return(w, pc[w], "killed")
    /\ Fault(w)
    /\ UNCHANGED <<mailbox, synced, at, written, durability>>

Terminated ==
    /\ \A w \in Writers : pc[w] = "done"
    /\ UNCHANGED vars

Deliver(w) ==
    \/ Open(w)
    \/ Lock(w)
    \/ SeekEnd(w)
    \/ WriteRecord(w)
    \/ SyncFile(w)
    \/ SyncParent(w)
    \/ Truncate(w)
    \/ ResyncAfterRollback(w)
    \/ Unlock(w)
    \/ Kill(w)

Next == (\E w \in Writers : Deliver(w)) \/ Terminated

Spec == Init /\ [][Next]_vars

-----------------------------------------------------------------------------
TypeOK ==
    /\ mailbox \in Seq(Chunk)
    /\ synced \in Seq(Chunk)
    /\ holder \in Writers \cup {NoWriter}
    /\ pc \in [Writers -> PC]
    /\ at \in [Writers -> Nat]
    /\ written \in [Writers -> 0..Chunks]
    /\ durability \in [Writers -> Durability]
    /\ result \in [Writers -> Result]
    /\ faulty \in [Writers -> BOOLEAN]

\* The whole record of w stands in file from offset at[w] on.
RecordIn(file, w) ==
    /\ at[w] + Chunks <= Len(file)
    /\ \A k \in 1..Chunks : file[at[w] + k] = <<w, k>>

NoChunkIn(file, w) == \A i \in 1..Len(file) : file[i][1] # w

\* A delivery that append reported as published, with or without an unlock
\* error, keeps its complete contiguous record in the mailbox whatever other
\* writers append, roll back or leave behind when they are killed
\* (append_with_operations, README "Mbox format and locking").
PublishedRecordsIntact ==
    \A w \in Writers :
        result[w] \in {"published", "late"} => RecordIn(mailbox, w)

\* A delivery reported as failed before publication, with no rollback error,
\* has left no byte in the mailbox, and none in the durable image when the
\* rollback had to be synced (rollback_with): retrying it cannot duplicate.
FailedLeavesNothing ==
    \A w \in Writers :
        result[w] = "failed" => NoChunkIn(mailbox, w) /\ NoChunkIn(synced, w)

\* DURABILITY=file and full: a delivery reported as published survives the loss
\* of everything that was not synced, also when a later writer rolls back or
\* syncs on its own account (sync before the unlock in append_with_operations).
ReportedIsDurable ==
    \A w \in Writers :
        /\ result[w] \in {"published", "late"}
        /\ durability[w] # "none"
        => RecordIn(synced, w)

\* As long as no writer was killed and no rollback failed, everything in front
\* of the region of the current lock holder is a concatenation of complete
\* records: every chunk but the first of a record follows its predecessor and
\* every record starts after the end of another one.  So the postmark of the
\* next record always begins a new line (write_record's ending).
SettledLength ==
    IF holder # NoWriter /\ pc[holder] \notin {"seek", "done"}
    THEN at[holder] ELSE Len(mailbox)

WholeRecords ==
    (\A w \in Writers : result[w] \notin {"killed", "norollback"}) =>
        \A i \in 1..SettledLength :
            LET w == mailbox[i][1] k == mailbox[i][2] IN
            /\ k > 1 => i > 1 /\ mailbox[i - 1] = <<w, k - 1>>
            /\ k = 1 => i = 1 \/ mailbox[i - 1][2] = Chunks
            /\ i = SettledLength => k = Chunks

\* A step of the system never changes what an earlier delivery published: the
\* settled part of the file only grows (the lock covers record, rollback and
\* sync as one unit).
SettledOnlyGrows ==
    [][ /\ SettledLength <= SettledLength'
        /\ \A i \in 1..SettledLength : mailbox'[i] = mailbox[i] ]_vars

\* DURABILITY=full as documented for mbox (Documentation/Delivery.md, table
\* "Durability": "As `file`, then `fsync` the parent directory"): a delivery
\* for which no system call failed ends as published.
FaultFreePublishes ==
    \A w \in Writers :
        pc[w] = "done" /\ ~faulty[w] => result[w] = "published"
=============================================================================
