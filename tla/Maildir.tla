------------------------------- MODULE Maildir -------------------------------
(***************************************************************************)
(* Deliveries into one Maildir (src/src/delivery/maildir.rs with its two   *)
(* backends maildir/linux.rs and maildir/portable.rs).                     *)
(*                                                                         *)
(* Each sink is a delivery of its own process; they share only the tmp     *)
(* directory and the target directory (new, or cur when the message has a  *)
(* status), and a mail reader removes entries from the target at any time. *)
(* Names are drawn at random; the model draws them from a set so small     *)
(* that they collide.                                                      *)
(***************************************************************************)
EXTENDS Integers

CONSTANTS
    Sinks,
    Chunks,
    Names,         \* names unique_name can return
    MaxAttempts,   \* MAX_NAME_ATTEMPTS
    Platforms,     \* the backends to consider, of {"linux", "portable"}
    Absent         \* "no such directory entry", and "no name"

ASSUME MaildirAssumption ==
    /\ Chunks \in Nat \ {0}
    /\ MaxAttempts \in Nat \ {0}
    /\ Absent \notin Sinks
    /\ Absent \notin Names
    /\ Platforms \subseteq {"linux", "portable"}

VARIABLES
    platform,      \* the backend this build uses
    durability,    \* DURABILITY of each delivery
    tmp,           \* directory entry -> the sink whose inode it names
    target,        \* the same for new (or cur)
    pc,
    written,       \* chunks in the inode of each sink
    flushed,       \* the inode was fsynced after its last write
    dirsynced,     \* directories fsynced since the sink was published
    name,          \* the name the sink owns in tmp or in the target
    tries,         \* names tried so far
    result,        \* what create, commit or abort returned
    seen,          \* sinks that became visible in the target at some time
    stray          \* sinks whose own tmp entry could not be removed

vars == <<platform, durability, tmp, target, pc, written, flushed, dirsynced,
          name, tries, result, seen, stray>>

PC == {"create", "write", "commit", "link", "verify", "cleanup",
       "synctmp", "synctarget", "drop", "done"}

Result == {"pending", "published", "late", "failed", "aborted", "killed"}

Init ==
    /\ platform \in Platforms
    /\ durability \in [Sinks -> {"none", "file", "full"}]
    /\ tmp = [n \in Names |-> Absent]
    /\ target = [n \in Names |-> Absent]
    /\ pc = [s \in Sinks |-> "create"]
    /\ written = [s \in Sinks |-> 0]
    /\ flushed = [s \in Sinks |-> FALSE]
    /\ dirsynced = [s \in Sinks |-> {}]
    /\ name = [s \in Sinks |-> Absent]
    /\ tries = [s \in Sinks |-> 0]
    /\ result = [s \in Sinks |-> "pending"]
    /\ seen = {}
    /\ stray = {}

files == <<tmp, target, seen, stray>>
inode == <<written, flushed, dirsynced>>
naming == <<name, tries>>

Step(s, from, to) == pc[s] = from /\ pc' = [pc EXCEPT ![s] = to]

Report(s, r) == result' = [result EXCEPT ![s] = r]

\* Both loops over unique_name: the name is taken, try another one.
Retry(s) ==
    /\ tries[s] + 1 < MaxAttempts
    /\ tries' = [tries EXCEPT ![s] = @ + 1]
    /\ UNCHANGED name

Own(s, n) ==
    /\ name' = [name EXCEPT ![s] = n]
    /\ tries' = [tries EXCEPT ![s] = 0]

-----------------------------------------------------------------------------
\* MaildirSink::create.  Linux opens an unnamed O_TMPFILE inode; the portable
\* backend creates a name in tmp exclusively.  Any open may fail.
Create(s) ==
    /\ UNCHANGED <<platform, durability, inode, target, seen, stray>>
    /\ \/ /\ platform = "linux"
          /\ Step(s, "create", "write")
          /\ UNCHANGED <<tmp, naming, result>>
       \/ /\ platform = "portable"
          /\ \E n \in Names :
                \/ /\ tmp[n] = Absent
                   /\ Step(s, "create", "write")
                   /\ tmp' = [tmp EXCEPT ![n] = s]
                   /\ Own(s, n)
                   /\ UNCHANGED result
                \/ /\ tmp[n] # Absent
                   /\ Step(s, "create", "create")
                   /\ Retry(s)
                   /\ UNCHANGED <<tmp, result>>
       \/ Step(s, "create", "done") /\ Report(s, "failed") /\ UNCHANGED <<tmp, naming>>

\* One write call; a failing write makes the caller abort the sink.
Write(s) ==
    /\ UNCHANGED <<platform, durability, files, naming, result, dirsynced>>
    /\ \/ /\ written[s] < Chunks
          /\ Step(s, "write", "write")
          /\ written' = [written EXCEPT ![s] = @ + 1]
          /\ flushed' = [flushed EXCEPT ![s] = FALSE]
       \/ Step(s, "write", "drop") /\ UNCHANGED <<written, flushed>>

\* Mutant of SyncFile: DURABILITY=file does not sync the file.
SyncOnlyFull(s) ==
    /\ written[s] = Chunks
    /\ Step(s, "write", "commit")
    /\ flushed' = [flushed EXCEPT ![s] = durability[s] = "full"]
    /\ UNCHANGED <<platform, durability, files, naming, written, dirsynced, result>>

\* commit_with: fsync the file unless DURABILITY=none; a failed sync returns
\* before publication and drops the pending file.
SyncFile(s) ==
    /\ written[s] = Chunks
    /\ UNCHANGED <<platform, durability, files, naming, written, dirsynced>>
    /\ \/ /\ Step(s, "write", "commit")
          /\ flushed' = [flushed EXCEPT ![s] = durability[s] # "none"]
          /\ UNCHANGED result
       \/ /\ durability[s] # "none"
          /\ Step(s, "write", "drop")
          /\ Report(s, "failed")
          /\ UNCHANGED flushed

\* Mutant of LinkUnnamed: a rename that replaces an existing entry.
LinkReplacing(s) ==
    /\ platform = "linux"
    /\ Step(s, "commit", "synctmp")
    /\ \E n \in Names : Own(s, n) /\ target' = [target EXCEPT ![n] = s]
    /\ seen' = seen \cup {s}
    /\ UNCHANGED <<platform, durability, inode, tmp, stray, result>>

\* linux.rs, publish/link_unique: linkat of the unnamed inode never replaces;
\* a collision draws another name until the attempts are used up.
LinkUnnamed(s) ==
    /\ platform = "linux"
    /\ UNCHANGED <<platform, durability, inode, tmp, stray>>
    /\ \/ \E n \in Names :
            \/ /\ target[n] = Absent
               /\ Step(s, "commit", "synctmp")
               /\ target' = [target EXCEPT ![n] = s]
               /\ seen' = seen \cup {s}
               /\ Own(s, n)
               /\ UNCHANGED result
            \/ /\ target[n] # Absent
               /\ Step(s, "commit", "commit")
               /\ Retry(s)
               /\ UNCHANGED <<target, seen, result>>
       \/ /\ Step(s, "commit", "done")
          /\ Report(s, "failed")
          /\ UNCHANGED <<target, seen, naming>>

\* portable.rs, publish: verify_named_file on the tmp name, then linkat to the
\* same name in the target.  Either may fail; a taken name is not retried.
VerifyTmp(s) ==
    /\ platform = "portable"
    /\ UNCHANGED <<platform, durability, inode, files, naming>>
    /\ \/ Step(s, "commit", "link") /\ tmp[name[s]] = s /\ UNCHANGED result
       \/ Step(s, "commit", "drop") /\ Report(s, "failed")

LinkNamed(s) ==
    /\ UNCHANGED <<platform, durability, inode, naming, tmp, stray>>
    /\ \/ /\ Step(s, "link", "verify")
          /\ target[name[s]] = Absent
          /\ target' = [target EXCEPT ![name[s]] = tmp[name[s]]]
          /\ seen' = seen \cup {tmp[name[s]]}
          /\ UNCHANGED result
       \/ /\ Step(s, "link", "drop")
          /\ Report(s, "failed")
          /\ UNCHANGED <<target, seen>>

\* Mutant of VerifyTarget: the failure is reported as before publication.
VerifyTargetBefore(s) ==
    /\ UNCHANGED <<platform, durability, inode, files, naming>>
    /\ \/ Step(s, "verify", "cleanup") /\ target[name[s]] = s /\ UNCHANGED result
       \/ Step(s, "verify", "drop") /\ Report(s, "failed")

\* The second verify_named_file: a reader may already have moved the message,
\* and then the delivery is reported as failed after publication.
VerifyTarget(s) ==
    /\ UNCHANGED <<platform, durability, inode, files, naming>>
    /\ \/ Step(s, "verify", "cleanup") /\ target[name[s]] = s /\ UNCHANGED result
       \/ Step(s, "verify", "drop") /\ Report(s, "late")

\* Mutant of RemoveTmp: the name in tmp is forgotten.
RemoveTmpForgotten(s) == UNCHANGED tmp

\* PendingFile::cleanup: remove the tmp name if it still is this inode's.
RemoveTmp(s) == tmp' = [n \in Names |-> IF tmp[n] = s /\ n = name[s] THEN Absent ELSE tmp[n]]

Cleanup(s) ==
    /\ UNCHANGED <<platform, durability, inode, target, seen, naming>>
    /\ \/ /\ Step(s, "cleanup", "synctmp")
          /\ RemoveTmp(s)
          /\ UNCHANGED <<stray, result>>
       \/ /\ Step(s, "cleanup", "drop")
          /\ Report(s, "late")
          /\ UNCHANGED <<tmp, stray>>

\* Mutant of SyncTmp: the target directory is not synced.
SyncTmpOnly(s) ==
    /\ Step(s, "synctmp", "done")
    /\ dirsynced' = [dirsynced EXCEPT ![s] = {"tmp"}]
    /\ Report(s, "published")
    /\ UNCHANGED <<platform, durability, written, flushed, files, naming>>

\* commit_with after publish: DURABILITY=full syncs tmp, then the target
\* directory; everybody else is done.
SyncTmp(s) ==
    /\ UNCHANGED <<platform, durability, written, flushed, files, naming>>
    /\ \/ /\ durability[s] # "full"
          /\ Step(s, "synctmp", "done")
          /\ Report(s, "published")
          /\ UNCHANGED dirsynced
       \/ /\ durability[s] = "full"
          /\ Step(s, "synctmp", "synctarget")
          /\ dirsynced' = [dirsynced EXCEPT ![s] = @ \cup {"tmp"}]
          /\ UNCHANGED result
       \/ /\ durability[s] = "full"
          /\ Step(s, "synctmp", "done")
          /\ Report(s, "late")
          /\ UNCHANGED dirsynced

SyncTarget(s) ==
    /\ UNCHANGED <<platform, durability, written, flushed, files, naming>>
    /\ Step(s, "synctarget", "done")
    /\ \/ /\ dirsynced' = [dirsynced EXCEPT ![s] = @ \cup {"target"}]
          /\ Report(s, "published")
       \/ Report(s, "late") /\ UNCHANGED dirsynced

\* The caller aborts an unpublished sink (another sink failed, a signal).
Abort(s) ==
    /\ Step(s, "write", "drop")
    /\ Report(s, "aborted")
    /\ UNCHANGED <<platform, durability, inode, files, naming>>

\* Drop of the pending file: close it, and on the portable backend try cleanup
\* once more.  Errors are ignored, so the entry may stay.
Drop(s) ==
    /\ Step(s, "drop", "done")
    /\ UNCHANGED <<platform, durability, inode, target, seen, naming>>
    /\ IF result[s] = "pending" THEN Report(s, "aborted") ELSE UNCHANGED result
    /\ \/ RemoveTmp(s) /\ UNCHANGED stray
       \/ /\ platform = "portable"
          /\ name[s] # Absent
          /\ tmp[name[s]] = s
          /\ stray' = stray \cup {s}
          /\ UNCHANGED tmp

Kill(s) ==
    /\ pc[s] # "done"
    /\ pc' = [pc EXCEPT ![s] = "done"]
    /\ result' = [result EXCEPT ![s] = "killed"]
    /\ UNCHANGED <<platform, durability, inode, files, naming>>

\* A mail reader moves or deletes a message it found in the target directory.
ReaderTakes(n) ==
    /\ target[n] # Absent
    /\ target' = [target EXCEPT ![n] = Absent]
    /\ UNCHANGED <<platform, durability, inode, tmp, seen, stray, pc, naming, result>>

Terminated == (\A s \in Sinks : pc[s] = "done") /\ UNCHANGED vars

Deliver(s) ==
    \/ Create(s)
    \/ Write(s)
    \/ SyncFile(s)
    \/ LinkUnnamed(s)
    \/ VerifyTmp(s)
    \/ LinkNamed(s)
    \/ VerifyTarget(s)
    \/ Cleanup(s)
    \/ SyncTmp(s)
    \/ SyncTarget(s)
    \/ Abort(s)
    \/ Drop(s)
    \/ Kill(s)

Next ==
    \/ \E s \in Sinks : Deliver(s)
    \/ \E n \in Names : ReaderTakes(n)
    \/ Terminated

Spec == Init /\ [][Next]_vars

-----------------------------------------------------------------------------
TypeOK ==
    /\ platform \in Platforms
    /\ durability \in [Sinks -> {"none", "file", "full"}]
    /\ tmp \in [Names -> Sinks \cup {Absent}]
    /\ target \in [Names -> Sinks \cup {Absent}]
    /\ pc \in [Sinks -> PC]
    /\ written \in [Sinks -> 0..Chunks]
    /\ flushed \in [Sinks -> BOOLEAN]
    /\ dirsynced \in [Sinks -> SUBSET {"tmp", "target"}]
    /\ name \in [Sinks -> Names \cup {Absent}]
    /\ tries \in [Sinks -> 0..(MaxAttempts - 1)]
    /\ result \in [Sinks -> Result]
    /\ seen \subseteq Sinks
    /\ stray \subseteq Sinks

\* Whatever a mail reader finds in the target directory is a whole message, and
\* one whose data reached the disk first unless DURABILITY=none (commit_with
\* syncs and publishes only a completely written pending file).
VisibleIsComplete ==
    \A n \in Names : target[n] # Absent =>
        /\ written[target[n]] = Chunks
        /\ durability[target[n]] # "none" => flushed[target[n]]

\* Publication never replaces an entry, whatever names the deliveries draw, and
\* a message is never published a second time, not even after a reader removed
\* it (linkat in both backends, the retry loop of link_unique).
PublishedOnceWithoutReplacing ==
    [][ \A n \in Names : target'[n] \notin {target[n], Absent} =>
            target[n] = Absent /\ target'[n] \notin seen ]_vars

\* DURABILITY=full: when commit returns Ok, the message was made durable and
\* both directories were synced with the tmp entry already gone (commit_with).
FullIsDurable ==
    \A s \in Sinks : result[s] = "published" /\ durability[s] = "full" =>
        /\ flushed[s]
        /\ dirsynced[s] = {"tmp", "target"}
        /\ \A n \in Names : tmp[n] # s

\* A delivery that came to an end on its own leaves no name in tmp, on success
\* and on every error path, unless removing the name itself failed or the
\* process was killed (PendingFile::cleanup and Drop).
TmpReleased ==
    \A s \in Sinks :
        pc[s] = "done" /\ result[s] # "killed" /\ s \notin stray =>
            \A n \in Names : tmp[n] # s

\* What the trait says of every sink holds of a Maildir delivery: publication is
\* one step taken with the whole message written, and the outcome commit or
\* abort reports tells exactly whether the message became visible.
Contract == INSTANCE PendingSink WITH
    phase <- [s \in Sinks |->
                CASE pc[s] = "done" -> result[s]
                  [] pc[s] = "create" -> "absent"
                  [] OTHER -> IF s \in seen THEN "visible" ELSE "pending"],
    visible <- seen

SinkContract == Contract!SinkSpec
=============================================================================
