--------------------------- MODULE RemoteDownload ---------------------------
(***************************************************************************)
(* The file-system protocol of a download                                  *)
(* (src/src/sftp/remote-download-service.ts), from the worker's first step *)
(* to the status the queue gives the job                                   *)
(* (src/src/sftp/transfer-queue.ts, run()).                                *)
(*                                                                         *)
(* All downloads ask for the same local name, so they compete for the      *)
(* numbered candidates of numberedDestination().  The user cancels at any  *)
(* await, any system call may fail, and other programs create files under  *)
(* candidate names and put files into a directory being filled.            *)
(***************************************************************************)
EXTENDS Naturals

CONSTANTS
  FileJobs,     \* downloads of one file
  DirJobs,      \* downloads of a directory
  LastIndex     \* last candidate tried, MAX_UNIQUE_ATTEMPTS

ASSUME JobsAssumption == FileJobs \cap DirJobs = {}
ASSUME LastIndexAssumption == LastIndex \in Nat

Downloads == FileJobs \cup DirJobs

VARIABLES
  jobStatus,     \* the job's status in the queue
  pc,         \* the await at which the worker is suspended
  abortedAt,  \* where the worker was when cancel() raised its signal
  result,     \* how the worker ended; "named": the error names what it left
  partial,    \* content of the private ".partial" file
  at,         \* index of the candidate name being tried or owned
  place,      \* where the job's file or directory is
  published,  \* content of that file, or of that directory
  marker,     \* the ownership marker is in the directory
  foreign,    \* files of somebody else in the directory, by what the manifest says
              \* of their names: "listed", "unlisted"
  taken,      \* candidate names that belong to somebody else
  broken      \* a system call of the marking or the cleanup itself failed

downloadVars == <<jobStatus, pc, abortedAt, result, partial, at, place, published, marker,
          foreign, taken, broken>>

fs == <<partial, at, place, published, marker, foreign>>

Never == "never"

Names == {"listed", "unlisted"}

DownloadInit ==
  /\ jobStatus = [j \in Downloads |-> "queued"]
  /\ pc = [j \in Downloads |-> "idle"]
  /\ abortedAt = [j \in Downloads |-> Never]
  /\ result = [j \in Downloads |-> "none"]
  /\ partial = [j \in FileJobs |-> "absent"]
  /\ at = [j \in Downloads |-> 0]
  /\ place = [j \in Downloads |-> "nowhere"]
  /\ published = [j \in Downloads |-> "absent"]
  /\ marker = [j \in DirJobs |-> FALSE]
  /\ foreign = [j \in DirJobs |-> {}]
  /\ taken = {}
  /\ broken = [j \in Downloads |-> FALSE]

Aborted(j) == abortedAt[j] # Never

\* A candidate name that exists: EEXIST for link, copyFile and mkdir.
Exists(i) == i \in taken \/ \E k \in Downloads : place[k] = "destination" /\ at[k] = i

-----------------------------------------------------------------------------
(* Control.                                                                *)

GoTo(j, next) == pc' = [pc EXCEPT ![j] = next]

\* The worker settles: with a value, or with an error.
Settle(j, outcome) == GoTo(j, "settle") /\ result' = [result EXCEPT ![j] = outcome]

\* An exception inside the try of downloadFile or downloadDirectory: to the
\* finally or the catch block.
Unwind(j) ==
  /\ GoTo(j, IF j \in FileJobs THEN "drop" ELSE "readMarker")
  /\ UNCHANGED result

\* No candidate is left, TRANSFER_CONFLICT: inside the try of downloadFile, but
\* before that of downloadDirectory.
Exhausted(j) == IF j \in FileJobs THEN Unwind(j) ELSE Settle(j, "error")

\* The loops over numberedDestination().
NextCandidate(j, again) ==
  \/ /\ at[j] < LastIndex
     /\ at' = [at EXCEPT ![j] = @ + 1]
     /\ GoTo(j, again)
     /\ UNCHANGED result
  \/ /\ at[j] = LastIndex
     /\ Exhausted(j)
     /\ UNCHANGED at

\* pump() starts the worker, which runs to its first await.
Start(j) ==
  /\ jobStatus[j] = "queued"
  /\ jobStatus' = [jobStatus EXCEPT ![j] = "running"]
  /\ GoTo(j, "stat")
  /\ UNCHANGED <<abortedAt, result, fs, taken, broken>>

\* cancel() of a running job, at whatever await the worker is.
Cancel(j) ==
  /\ jobStatus[j] = "running"
  /\ ~Aborted(j)
  /\ abortedAt' = [abortedAt EXCEPT ![j] = pc[j]]
  /\ UNCHANGED <<jobStatus, pc, result, fs, taken, broken>>

\* transport.stat and validateRemoteSource.
StatSource(j) ==
  /\ pc[j] = "stat"
  /\ \/ GoTo(j, IF j \in FileJobs THEN "reserve" ELSE "manifest") /\ UNCHANGED result
     \/ Settle(j, "error")
  /\ UNCHANGED <<jobStatus, abortedAt, fs, taken, broken>>

-----------------------------------------------------------------------------
(* downloadFile.                                                           *)

\* open(partial, "wx"): the name is fresh.
Reserve(j) ==
  /\ pc[j] = "reserve"
  /\ \/ /\ partial' = [partial EXCEPT ![j] = "empty"]
        /\ GoTo(j, "transfer")
        /\ UNCHANGED result
     \/ Settle(j, "error") /\ UNCHANGED partial
  /\ UNCHANGED <<jobStatus, abortedAt, at, place, published, marker, foreign, taken,
                 broken>>

\* runTransfer(): rclone copies everything, or stops on the way; the signal is
\* looked at once it has exited.
RunTransfer(j, before) ==
  {[content |-> "whole", ok |-> ~Aborted(j)]}
    \cup [content : {before, "part"}, ok : {FALSE}]

\* Mutant: the signal is not looked at when the transport returns.
TransferUnchecked(j) ==
  /\ pc[j] = "transfer"
  /\ \E t \in RunTransfer(j, partial[j]) :
       /\ partial' = [partial EXCEPT ![j] = t.content]
       /\ IF t.content # "whole" THEN Unwind(j)
          ELSE (GoTo(j, "inspect") /\ UNCHANGED result)
  /\ UNCHANGED <<jobStatus, abortedAt, at, place, published, marker, foreign, taken,
                 broken>>

\* transport.downloadFile into the partial.
Transfer(j) ==
  /\ pc[j] = "transfer"
  /\ \E t \in RunTransfer(j, partial[j]) :
       /\ partial' = [partial EXCEPT ![j] = t.content]
       /\ IF t.ok THEN (GoTo(j, "inspect") /\ UNCHANGED result) ELSE Unwind(j)
  /\ UNCHANGED <<jobStatus, abortedAt, at, place, published, marker, foreign, taken,
                 broken>>

\* lstat and chmod of the partial.
Inspect(j) ==
  /\ pc[j] = "inspect"
  /\ \/ GoTo(j, "link") /\ UNCHANGED result
     \/ Unwind(j)
  /\ UNCHANGED <<jobStatus, abortedAt, fs, taken, broken>>

\* link(partial, candidate): the name appears with all its content, or not.
Link(j) ==
  /\ pc[j] = "link"
  /\ \/ /\ ~Exists(at[j])
        /\ place' = [place EXCEPT ![j] = "destination"]
        /\ published' = [published EXCEPT ![j] = partial[j]]
        /\ GoTo(j, "tidy")
        /\ UNCHANGED <<at, result>>
     \/ Exists(at[j]) /\ NextCandidate(j, "link") /\ UNCHANGED <<place, published>>
     \/ GoTo(j, "copy") /\ UNCHANGED <<at, place, published, result>>
     \/ Unwind(j) /\ UNCHANGED <<at, place, published>>
  /\ UNCHANGED <<jobStatus, abortedAt, partial, marker, foreign, taken, broken>>

\* copyFile(partial, candidate, COPYFILE_EXCL), where hard links are not
\* supported: the name appears first, the content follows.
CopyBegins(j) ==
  /\ pc[j] = "copy"
  /\ \/ /\ ~Exists(at[j])
        /\ place' = [place EXCEPT ![j] = "destination"]
        /\ published' = [published EXCEPT ![j] = "part"]
        /\ GoTo(j, "copying")
        /\ UNCHANGED <<at, result>>
     \/ Exists(at[j]) /\ NextCandidate(j, "link") /\ UNCHANGED <<place, published>>
     \/ Unwind(j) /\ UNCHANGED <<at, place, published>>
  /\ UNCHANGED <<jobStatus, abortedAt, partial, marker, foreign, taken, broken>>

\* A copy that fails is removed by the runtime, or left truncated.
CopyEnds(j) ==
  /\ pc[j] = "copying"
  /\ \/ /\ published' = [published EXCEPT ![j] = "whole"]
        /\ GoTo(j, "chmodCopy")
        /\ UNCHANGED <<place, result, broken>>
     \/ /\ place' = [place EXCEPT ![j] = "nowhere"]
        /\ published' = [published EXCEPT ![j] = "absent"]
        /\ Unwind(j)
        /\ UNCHANGED broken
     \/ /\ Unwind(j)
        /\ broken' = [broken EXCEPT ![j] = TRUE]
        /\ UNCHANGED <<place, published>>
  /\ UNCHANGED <<jobStatus, abortedAt, partial, at, marker, foreign, taken>>

\* chmod of the copy; when it fails the copy stays.
ChmodCopy(j) ==
  /\ pc[j] = "chmodCopy"
  /\ \/ GoTo(j, "tidy") /\ UNCHANGED <<result, broken>>
     \/ Unwind(j) /\ broken' = [broken EXCEPT ![j] = TRUE]
  /\ UNCHANGED <<jobStatus, abortedAt, fs, taken>>

\* Mutant: a partial that cannot be unlinked is not reported.
TidySilently(j) ==
  /\ pc[j] = "tidy"
  /\ Settle(j, "ok")
  /\ partial' \in {partial, [partial EXCEPT ![j] = "absent"]}
  /\ UNCHANGED <<jobStatus, abortedAt, at, place, published, marker, foreign, taken,
                 broken>>

\* finally, published: unlink(partial); its failure is the worker's.
Tidy(j) ==
  /\ pc[j] = "tidy"
  /\ \/ /\ partial' = [partial EXCEPT ![j] = "absent"]
        /\ Settle(j, "ok")
        /\ UNCHANGED broken
     \/ /\ Settle(j, "error")
        /\ broken' = [broken EXCEPT ![j] = TRUE]
        /\ UNCHANGED partial
  /\ UNCHANGED <<jobStatus, abortedAt, at, place, published, marker, foreign, taken>>

\* finally, not published: removeOwnedPartialFile.
Drop(j) ==
  /\ pc[j] = "drop"
  /\ Settle(j, "error")
  /\ \/ partial' = [partial EXCEPT ![j] = "absent"] /\ UNCHANGED broken
     \/ broken' = [broken EXCEPT ![j] = TRUE] /\ UNCHANGED partial
  /\ UNCHANGED <<jobStatus, abortedAt, at, place, published, marker, foreign, taken>>

-----------------------------------------------------------------------------
(* downloadDirectory and cleanupOwnedDirectory.                            *)

\* transport.manifestDirectory and signal.throwIfAborted().
Manifest(j) ==
  /\ pc[j] = "manifest"
  /\ \/ ~Aborted(j) /\ GoTo(j, "mkdir") /\ UNCHANGED result
     \/ Settle(j, "error")
  /\ UNCHANGED <<jobStatus, abortedAt, fs, taken, broken>>

\* Mutant: mkdir with { recursive: true }, which accepts a name that exists.
MakeDirectoryRecursive(j) ==
  /\ pc[j] = "mkdir"
  /\ \/ /\ place' = [place EXCEPT ![j] = "destination"]
        /\ GoTo(j, "mark")
        /\ UNCHANGED result
     \/ Settle(j, "error") /\ UNCHANGED place
  /\ UNCHANGED <<jobStatus, abortedAt, partial, at, published, marker, foreign, taken,
                 broken>>

\* reserveUniqueDirectory: mkdir fails when the name exists.
MakeDirectory(j) ==
  /\ pc[j] = "mkdir"
  /\ \/ /\ ~Exists(at[j])
        /\ place' = [place EXCEPT ![j] = "destination"]
        /\ GoTo(j, "mark")
        /\ UNCHANGED <<at, result>>
     \/ /\ Exists(at[j])
        /\ NextCandidate(j, "mkdir")
        /\ UNCHANGED place
     \/ Settle(j, "error") /\ UNCHANGED <<at, place>>
  /\ UNCHANGED <<jobStatus, abortedAt, partial, published, marker, foreign, taken,
                 broken>>

\* Bun.write of the marker, before the try: when it fails nothing is cleaned.
Mark(j) ==
  /\ pc[j] = "mark"
  /\ \/ /\ marker' = [marker EXCEPT ![j] = TRUE]
        /\ GoTo(j, "fill")
        /\ UNCHANGED <<result, broken>>
     \/ /\ Settle(j, "error")
        /\ broken' = [broken EXCEPT ![j] = TRUE]
        /\ UNCHANGED marker
  /\ UNCHANGED <<jobStatus, abortedAt, partial, at, place, published, foreign, taken>>

\* transport.downloadDirectory into the directory.
Fill(j) ==
  /\ pc[j] = "fill"
  /\ \E t \in RunTransfer(j, published[j]) :
       /\ published' = [published EXCEPT ![j] = t.content]
       /\ IF t.ok THEN (GoTo(j, "unmark") /\ UNCHANGED result) ELSE Unwind(j)
  /\ UNCHANGED <<jobStatus, abortedAt, partial, at, place, marker, foreign, taken,
                 broken>>

\* unlink(markerPath): the directory is the user's from here on.
Unmark(j) ==
  /\ pc[j] = "unmark"
  /\ \/ marker' = [marker EXCEPT ![j] = FALSE] /\ Settle(j, "ok")
     \/ Unwind(j) /\ UNCHANGED marker
  /\ UNCHANGED <<jobStatus, abortedAt, partial, at, place, published, foreign, taken,
                 broken>>

\* The marker proves the directory is this job's.
ReadMarker(j) ==
  /\ pc[j] = "readMarker"
  /\ \/ marker[j] /\ GoTo(j, "quarantine") /\ UNCHANGED result
     \/ Settle(j, "named")
  /\ UNCHANGED <<jobStatus, abortedAt, fs, taken, broken>>

\* Mutant: the tree is examined and removed in place.
QuarantineSkipped(j) ==
  /\ pc[j] = "quarantine"
  /\ GoTo(j, "scan")
  /\ UNCHANGED <<jobStatus, abortedAt, result, fs, taken, broken>>

\* rename(destination, quarantine): out of the reach of the other programs.
Quarantine(j) ==
  /\ pc[j] = "quarantine"
  /\ \/ /\ place' = [place EXCEPT ![j] = "quarantine"]
        /\ GoTo(j, "scan")
        /\ UNCHANGED result
     \/ Settle(j, "named") /\ UNCHANGED place
  /\ UNCHANGED <<jobStatus, abortedAt, partial, at, published, marker, foreign, taken,
                 broken>>

\* containsOnlyExpectedPaths compares names: a file of somebody else under a name
\* of the manifest passes.  It also refuses links, special files and a tree of more
\* than MAX_CLEANUP_ENTRIES entries, the download's own; a readdir that fails throws.
Scan(j) ==
  /\ pc[j] = "scan"
  /\ \/ Settle(j, "named") /\ UNCHANGED broken
     \/ "unlisted" \notin foreign[j] /\ GoTo(j, "remove") /\ UNCHANGED <<result, broken>>
     \/ Settle(j, "error") /\ broken' = [broken EXCEPT ![j] = TRUE]
  /\ UNCHANGED <<jobStatus, abortedAt, fs, taken>>

\* rm(quarantine, recursive): everything in it goes.
Remove(j) ==
  /\ pc[j] = "remove"
  /\ Settle(j, "error")
  /\ \/ /\ place' = [place EXCEPT ![j] = "nowhere"]
        /\ published' = [published EXCEPT ![j] = "absent"]
        /\ marker' = [marker EXCEPT ![j] = FALSE]
        /\ foreign' = [foreign EXCEPT ![j] = {}]
        /\ UNCHANGED broken
     \/ /\ broken' = [broken EXCEPT ![j] = TRUE]
        /\ UNCHANGED <<place, published, marker, foreign>>
  /\ UNCHANGED <<jobStatus, abortedAt, partial, at, taken>>

-----------------------------------------------------------------------------
(* The queue's verdict, and the other programs.                            *)

\* run() resumes after the worker (transfer-queue.ts:231-252).
JobSettles(j) ==
  /\ pc[j] = "settle"
  /\ jobStatus' = [jobStatus EXCEPT ![j] =
        IF Aborted(j) THEN "cancelled"
        ELSE IF result[j] = "ok" THEN "completed" ELSE "failed"]
  /\ GoTo(j, "over")
  /\ UNCHANGED <<abortedAt, result, fs, taken, broken>>

OtherCreates(i) ==
  /\ ~Exists(i)
  /\ taken' = taken \cup {i}
  /\ UNCHANGED <<jobStatus, pc, abortedAt, result, fs, broken>>

OtherWritesInto(j) ==
  /\ place[j] = "destination"
  /\ \E name \in Names : foreign' = [foreign EXCEPT ![j] = @ \cup {name}]
  /\ UNCHANGED <<jobStatus, pc, abortedAt, result, partial, at, place, published,
                 marker, taken, broken>>

FileStep(j) ==
  \/ Reserve(j) \/ Transfer(j) \/ Inspect(j) \/ Link(j) \/ CopyBegins(j)
  \/ CopyEnds(j) \/ ChmodCopy(j) \/ Tidy(j) \/ Drop(j)

DirStep(j) ==
  \/ Manifest(j) \/ MakeDirectory(j) \/ Mark(j) \/ Fill(j) \/ Unmark(j)
  \/ ReadMarker(j) \/ Quarantine(j) \/ Scan(j) \/ Remove(j) \/ OtherWritesInto(j)

DownloadNext ==
  \/ \E j \in Downloads : Start(j) \/ Cancel(j) \/ StatSource(j) \/ JobSettles(j)
  \/ \E j \in FileJobs : FileStep(j)
  \/ \E j \in DirJobs : DirStep(j)
  \/ \E i \in 0..LastIndex : OtherCreates(i)

DownloadSpec == DownloadInit /\ [][DownloadNext]_downloadVars

-----------------------------------------------------------------------------
(* Properties.                                                             *)

Contents == {"absent", "empty", "part", "whole"}

Awaits ==
  {"idle", "stat", "reserve", "transfer", "inspect", "link", "copy", "copying",
   "chmodCopy", "tidy", "drop", "manifest", "mkdir", "mark", "fill", "unmark",
   "readMarker", "quarantine", "scan", "remove", "settle", "over"}

\* The types of the model's state.
DownloadTypeOK ==
  /\ jobStatus \in [Downloads -> {"queued", "running", "completed", "cancelled", "failed"}]
  /\ pc \in [Downloads -> Awaits]
  /\ abortedAt \in [Downloads -> Awaits \cup {Never}]
  /\ result \in [Downloads -> {"none", "ok", "error", "named"}]
  /\ partial \in [FileJobs -> Contents]
  /\ at \in [Downloads -> 0..LastIndex]
  /\ place \in [Downloads -> {"nowhere", "destination", "quarantine"}]
  /\ published \in [Downloads -> Contents]
  /\ marker \in [DirJobs -> BOOLEAN]
  /\ foreign \in [DirJobs -> SUBSET Names]
  /\ taken \in SUBSET (0..LastIndex)
  /\ broken \in [Downloads -> BOOLEAN]

Over(j) == jobStatus[j] \in {"completed", "cancelled", "failed"}

\* A download never overwrites: of all the files and directories at the
\* candidate names, its own, another download's and other programs', no two
\* share a name.
NeverOverwrites ==
  \A j \in Downloads : place[j] = "destination" =>
    /\ at[j] \notin taken
    /\ \A k \in Downloads \ {j} : place[k] = "destination" => at[k] # at[j]

\* The recursive removal never takes a file whose name is not in the manifest,
\* however late another program put it there: a tree that was searched is out of
\* the other programs' reach.
UnlistedFilesKept ==
  [][\A j \in DirJobs : "unlisted" \in foreign[j] => "unlisted" \in foreign'[j]]_downloadVars

\* A file appears under its final name with all its content; only the copy used
\* where hard links are not supported shows less, and keeps it only when the
\* copy broke.  A job reported complete left its whole content at the name it
\* reports, with no partial or marker beside it.
PublishedWhole ==
  /\ \A j \in FileJobs :
       place[j] = "destination" =>
         published[j] = "whole" \/ pc[j] = "copying" \/ broken[j]
  /\ \A j \in Downloads : jobStatus[j] = "completed" =>
       /\ place[j] = "destination"
       /\ published[j] = "whole"
       /\ IF j \in FileJobs THEN partial[j] = "absent" ELSE ~marker[j]

\* A cancellation accepted while the transfer still ran publishes no file, and
\* leaves a directory only with its name in the error.
CancelledTransferLeavesNothing ==
  \A j \in Downloads :
    /\ Over(j)
    /\ abortedAt[j] \in {"stat", "reserve", "transfer", "manifest", "mkdir",
                         "mark", "fill"}
    => \/ place[j] = "nowhere" /\ (j \in FileJobs => partial[j] = "absent")
       \/ j \in DirJobs /\ result[j] = "named"
       \/ broken[j]

\* A job that failed left nothing, or, when it is a directory, its error names
\* what it left; unless the marker or the cleanup itself could not be written.
FailureLeavesNothingUnnamed ==
  \A j \in Downloads : jobStatus[j] = "failed" =>
    \/ place[j] = "nowhere" /\ (j \in FileJobs => partial[j] = "absent")
    \/ j \in DirJobs /\ result[j] = "named"
    \/ broken[j]

\* A download that did not succeed leaves nothing, or an error that names it,
\* wherever it was cancelled and whichever call failed.
DownloadConsistent ==
  /\ DownloadTypeOK
  /\ CancelledTransferLeavesNothing
  /\ FailureLeavesNothingUnnamed

\* docs/troubleshooting.md:158-160 promises of a directory download that failed
\* that its destination is removed, or named in the error, without exception.
\* The code does not keep this: README.md, "Known divergences".
FailedDirectoryIsNamed ==
  \A j \in DirJobs :
    jobStatus[j] = "failed" /\ place[j] # "nowhere" => result[j] = "named"

\* docs/troubleshooting.md:158-160 says that the marker and the manifest "prove"
\* that a removal is safe, and docs/architecture.md:189 that a tree is cleaned up
\* when its ownership can be proven.  A name proves nothing of who wrote the file:
\* one that another program put under a name of the manifest is removed as well.
\* README.md, "Known divergences".
ForeignFilesKept == [][\A j \in DirJobs : foreign[j] \subseteq foreign'[j]]_downloadVars
=============================================================================
