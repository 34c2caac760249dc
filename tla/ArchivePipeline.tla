--------------------------- MODULE ArchivePipeline ---------------------------
(***************************************************************************)
(* Daily trade archives: downloaded, unpacked, imported and deleted by     *)
(* Hangfire jobs that meet in the file system.                             *)
(*                                                                         *)
(* An archive (symbol and day) has a zip and an unpacked csv.  Both exist  *)
(* under their names before they are whole; a writer holds them locked     *)
(* (FileShare.None), until it ends or its process dies.  A job that throws *)
(* is tried again, a killed one is fetched again; between two statements   *)
(* other jobs of the same archive may run.                                 *)
(***************************************************************************)
EXTENDS Naturals

CONSTANTS
    Archive,
    Job,        \* slots of Hangfire's table; a finished job frees its slot
    Batches,    \* BulkInsertAsync calls that a whole csv takes
    Retries     \* by queued state: AutomaticRetry attempts of the method

Nobody == "nobody"

Downloads == {"toDownload", "writing"}
Unpacks   == {"toUnpack", "checked", "cleared", "extracting", "extracted", "found",
              "enqueued"}
Imports   == {"toImport", "reading", "cleaning"}
Queued    == {"toDownload", "toUnpack", "toImport", "toDelete"}
Places    == {"free"} \cup Queued \cup Downloads \cup Unpacks \cup Imports
Running   == Places \ (Queued \cup {"free"})

ASSUME ArchiveAssumption ==
    /\ Batches \in Nat \ {0}
    /\ Retries \in [Queued -> Nat]
    /\ Nobody \notin Job

VARIABLES
    zip,        \* what is under the zip's name
    csv,        \* what is under the csv's name
    zipWriter,  \* the job that is writing what is there, or Nobody
    csvWriter,
    job,        \* Hangfire's jobs; the batches an import has opened and inserted
    stored,     \* how many of the archive's batches are in Trades
    log,        \* ArchiveImportLog
    dropped,    \* archives whose month rotation has dropped
    disturbed   \* history: see Disturb

files == <<zip, csv, zipWriter, csvWriter>>
vars  == <<files, job, stored, log, dropped, disturbed>>

Content == {"none", "empty", "part", "whole"}

JobRecord ==
    [at: Places, file: Archive, tries: Nat, size: 0 .. Batches, done: 0 .. Batches]

TypeOK ==
    /\ zip \in [Archive -> Content]
    /\ csv \in [Archive -> Content \ {"empty"}]
    /\ zipWriter \in [Archive -> Job \cup {Nobody}]
    /\ csvWriter \in [Archive -> Job \cup {Nobody}]
    /\ job \in [Job -> JobRecord]
    /\ stored \in [Archive -> 0 .. Batches]
    /\ log \subseteq Archive
    /\ dropped \subseteq Archive
    /\ disturbed \subseteq Archive

JobAt(f, p, t) == [at |-> p, file |-> f, tries |-> t, size |-> 0, done |-> 0]
Fresh(f, p)    == JobAt(f, p, 0)

Init ==
    /\ zip = [f \in Archive |-> "none"]
    /\ csv = [f \in Archive |-> "none"]
    /\ zipWriter = [f \in Archive |-> Nobody]
    /\ csvWriter = [f \in Archive |-> Nobody]
    /\ \E f \in Archive :
          job = [j \in Job |-> Fresh(f, "free")]
    /\ stored = [f \in Archive |-> 0]
    /\ log = {}
    /\ dropped = {}
    /\ disturbed = {}

-----------------------------------------------------------------------------
(* Jobs and files *)

File(j) == job[j].file

\* Job j goes on to place p, or has finished.
MoveTo(j, p)  == job' = [job EXCEPT ![j] = JobAt(File(j), p, job[j].tries)]
Succeed(j)    == job' = [job EXCEPT ![j] = Fresh(File(j), "free")]

\* Where a job of this place starts again.
QueueOf(p) ==
    CASE p \in Downloads -> "toDownload"
      [] p \in Unpacks   -> "toUnpack"
      [] p \in Imports   -> "toImport"
      [] OTHER           -> p

\* File.Delete: the name goes; a job that has the file open keeps writing it.
DeleteZip(f) ==
    /\ zip' = [zip EXCEPT ![f] = "none"]
    /\ zipWriter' = [zipWriter EXCEPT ![f] = Nobody]

DeleteCsv(f) ==
    /\ csv' = [csv EXCEPT ![f] = "none"]
    /\ csvWriter' = [csvWriter EXCEPT ![f] = Nobody]

WritesZip(j) == zipWriter[File(j)] = j
WritesCsv(j) == csvWriter[File(j)] = j

\* The writers that remain when the jobs J let go of their files.
Without(writer, J) ==
    [f \in Archive |-> IF writer[f] \in J THEN Nobody ELSE writer[f]]

\* What can go wrong for an archive is recorded, and nothing reads it: its zip
\* is deleted by hand, two jobs unpack it at a time, or an import opens what
\* an interrupted extraction left.
Disturb(f, if) == disturbed' = IF if THEN disturbed \cup {f} ELSE disturbed

-----------------------------------------------------------------------------
(* The operator: ArchiveController *)

Enqueue(j, f, p) ==
    /\ job[j].at = "free"
    /\ job' = [job EXCEPT ![j] = Fresh(f, p)]

RequestDownload(j, f) ==
    /\ f \notin dropped
    /\ Enqueue(j, f, "toDownload")
    /\ UNCHANGED <<files, stored, log, dropped, disturbed>>

\* Process and Delete are offered for the zips that the page has listed.
RequestProcessing(j, f) ==
    /\ zip[f] # "none"
    /\ Enqueue(j, f, "toUnpack")
    /\ UNCHANGED <<files, stored, log, dropped, disturbed>>

RequestDeletion(j, f) ==
    /\ zip[f] # "none"
    /\ Enqueue(j, f, "toDelete")
    /\ UNCHANGED <<files, stored, log, dropped, disturbed>>

-----------------------------------------------------------------------------
(* DownloadArchiveAsync *)

\* Below the retention floor, or the file is there and not empty.
SkipDownload(j) ==
    /\ job[j].at = "toDownload"
    /\ File(j) \in dropped \/ zip[File(j)] \in {"part", "whole"}
    /\ Succeed(j)
    /\ UNCHANGED <<files, stored, log, dropped, disturbed>>

OpenZip(j) ==
    /\ job[j].at = "toDownload"
    /\ File(j) \notin dropped
    /\ zip[File(j)] \in {"none", "empty"}
    /\ zipWriter[File(j)] = Nobody
    /\ zip' = [zip EXCEPT ![File(j)] = "empty"]
    /\ zipWriter' = [zipWriter EXCEPT ![File(j)] = j]
    /\ MoveTo(j, "writing")
    /\ UNCHANGED <<csv, csvWriter, stored, log, dropped, disturbed>>

WriteZip(j) ==
    /\ job[j].at = "writing"
    /\ WritesZip(j)
    /\ zip' = [zip EXCEPT ![File(j)] = "part"]
    /\ UNCHANGED <<csv, zipWriter, csvWriter, job, stored, log, dropped, disturbed>>

\* The body is copied and the stream closed.
FinishZip(j) ==
    /\ job[j].at = "writing"
    /\ WritesZip(j)
    /\ zip' = [zip EXCEPT ![File(j)] = "whole"]
    /\ zipWriter' = Without(zipWriter, {j})
    /\ Succeed(j)
    /\ UNCHANGED <<csv, csvWriter, stored, log, dropped, disturbed>>

\* The same when the file was deleted under the job and another job is writing
\* one of that name: its length is what is looked at.
FinishUnlinked(j) ==
    /\ job[j].at = "writing"
    /\ ~WritesZip(j)
    /\ zip[File(j)] # "none"
    /\ IF zip[File(j)] = "empty" THEN DeleteZip(File(j)) ELSE UNCHANGED <<zip, zipWriter>>
    /\ Succeed(j)
    /\ UNCHANGED <<csv, csvWriter, stored, log, dropped, disturbed>>

\* 404, or an empty body: the file is deleted.
NothingToDownload(j) ==
    /\ job[j].at = "writing"
    /\ DeleteZip(File(j))
    /\ Succeed(j)
    /\ UNCHANGED <<csv, csvWriter, stored, log, dropped, disturbed>>

-----------------------------------------------------------------------------
(* UnpackArchiveAsync *)

SkipUnpacking(j) ==
    /\ job[j].at = "toUnpack"
    /\ zip[File(j)] = "none"
    /\ Succeed(j)
    /\ UNCHANGED <<files, stored, log, dropped, disturbed>>

\* ZipFile.OpenRead: neither a locked nor a truncated file opens.
Readable(f) == zip[f] = "whole"

UnpackedByOthers(j) ==
    \E k \in Job \ {j} : File(k) = File(j) /\ job[k].at \in Unpacks \ {"toUnpack"}

CheckZip(j) ==
    /\ job[j].at = "toUnpack"
    /\ Readable(File(j))
    /\ MoveTo(j, "checked")
    /\ Disturb(File(j), UnpackedByOthers(j))
    /\ UNCHANGED <<files, stored, log, dropped>>

ClearDirectory(j) ==
    /\ job[j].at = "checked"
    /\ DeleteCsv(File(j))
    /\ MoveTo(j, "cleared")
    /\ UNCHANGED <<zip, zipWriter, stored, log, dropped, disturbed>>

\* ExtractToDirectory opens the zip again and overwrites nothing.
StartExtraction(j) ==
    /\ job[j].at = "cleared"
    /\ Readable(File(j))
    /\ csv[File(j)] = "none"
    /\ csv' = [csv EXCEPT ![File(j)] = "part"]
    /\ csvWriter' = [csvWriter EXCEPT ![File(j)] = j]
    /\ MoveTo(j, "extracting")
    /\ UNCHANGED <<zip, zipWriter, stored, log, dropped, disturbed>>

FinishExtraction(j) ==
    /\ job[j].at = "extracting"
    /\ csv' = IF WritesCsv(j) THEN [csv EXCEPT ![File(j)] = "whole"] ELSE csv
    /\ csvWriter' = Without(csvWriter, {j})
    /\ MoveTo(j, "extracted")
    /\ UNCHANGED <<zip, zipWriter, stored, log, dropped, disturbed>>

FindCsv(j) ==
    /\ job[j].at = "extracted"
    /\ csv[File(j)] # "none"
    /\ MoveTo(j, "found")
    /\ UNCHANGED <<files, stored, log, dropped, disturbed>>

EnqueueImport(j, k) ==
    /\ job[j].at = "found"
    /\ job[k].at = "free"
    /\ job' = [job EXCEPT ![j] = JobAt(File(j), "enqueued", job[j].tries),
                          ![k] = Fresh(File(j), "toImport")]
    /\ UNCHANGED <<files, stored, log, dropped, disturbed>>

RemoveZip(j) ==
    /\ job[j].at = "enqueued"
    /\ DeleteZip(File(j))
    /\ Succeed(j)
    /\ UNCHANGED <<csv, csvWriter, stored, log, dropped, disturbed>>

-----------------------------------------------------------------------------
(* ImportFromCsvAsync *)

\* DisableConcurrentExecution: one import at a time, whatever its file.
ImportLockFree == \A k \in Job : job[k].at \notin Imports \ {"toImport"}

\* The batches that a csv yields: all, or fewer if its extraction did not end.
Yields(f, n) ==
    \/ csv[f] = "whole" /\ n = Batches
    \/ csv[f] = "part" /\ n < Batches

OpenCsv(j, n) ==
    /\ job[j].at = "toImport"
    /\ ImportLockFree
    /\ csvWriter[File(j)] = Nobody
    /\ Yields(File(j), n)
    /\ job' = [job EXCEPT ![j] =
                 [JobAt(File(j), "reading", job[j].tries) EXCEPT !.size = n]]
    /\ Disturb(File(j), csv[File(j)] = "part")
    /\ UNCHANGED <<files, stored, log, dropped>>

PastTheEnd(j) == job[j].done <= job[j].size   \* mutant
HasMore(j) == job[j].done < job[j].size

\* BulkInsertAsync is idempotent; a dropped month has no partition to insert into.
InsertBatch(j) ==
    LET n == job[j].done + 1 IN
    /\ job[j].at = "reading"
    /\ HasMore(j)
    /\ File(j) \notin dropped
    /\ stored' = [stored EXCEPT ![File(j)] = IF n > @ THEN n ELSE @]
    /\ job' = [job EXCEPT ![j].done = n]
    /\ UNCHANGED <<files, log, dropped, disturbed>>

HalfDone(j) == 2 * job[j].done >= job[j].size   \* mutant
AllInserted(j) == job[j].done = job[j].size

RecordImported(j) ==
    /\ job[j].at = "reading"
    /\ AllInserted(j)
    /\ log' = log \cup {File(j)}
    /\ MoveTo(j, "cleaning")
    /\ UNCHANGED <<files, stored, dropped, disturbed>>

\* The directory goes, whatever it holds by now.
RemoveDirectory(j) ==
    /\ job[j].at = "cleaning"
    /\ DeleteCsv(File(j))
    /\ Succeed(j)
    /\ UNCHANGED <<zip, zipWriter, stored, log, dropped, disturbed>>

-----------------------------------------------------------------------------
(* DeleteFileAsync, failures, the end of the process, rotation *)

DeleteFile(j) ==
    /\ job[j].at = "toDelete"
    /\ DeleteZip(File(j))
    /\ Disturb(File(j), zip[File(j)] # "none")
    /\ Succeed(j)
    /\ UNCHANGED <<csv, csvWriter, stored, log, dropped>>

\* A download that throws while it writes deletes what is under the zip's name.
DeletesBroken(j) == job[j].at \in {"writing", "checked", "cleared"}   \* mutant
DeletesZip(j) == job[j].at = "writing"

\* Any job may throw at any point, and must where no step above is enabled.
Throws(j) ==
    LET p == job[j].at
        q == QueueOf(p)
    IN
    /\ p # "free"
    /\ zip' = IF DeletesZip(j) THEN [zip EXCEPT ![File(j)] = "none"] ELSE zip
    /\ zipWriter' = [Without(zipWriter, {j}) EXCEPT
                       ![File(j)] = IF DeletesZip(j) THEN Nobody ELSE @]
    /\ csvWriter' = Without(csvWriter, {j})
    /\ job' = [job EXCEPT ![j] =
                 IF job[j].tries < Retries[q]
                 THEN JobAt(File(j), q, job[j].tries + 1)
                 ELSE Fresh(File(j), "free")]
    /\ UNCHANGED <<csv, stored, log, dropped, disturbed>>

\* The process dies; Hangfire fetches its jobs again (InvisibilityTimeout).
Kill ==
    /\ \E j \in Job : job[j].at \in Running
    /\ zipWriter' = Without(zipWriter, Job)
    /\ csvWriter' = Without(csvWriter, Job)
    /\ job' = [j \in Job |-> JobAt(File(j), QueueOf(job[j].at), job[j].tries)]
    /\ UNCHANGED <<zip, csv, stored, log, dropped, disturbed>>

\* sp_rotate_partitions drops the archive's month and leaves its log.
Rotate(f) ==
    /\ f \notin dropped
    /\ dropped' = dropped \cup {f}
    /\ stored' = [stored EXCEPT ![f] = 0]
    /\ UNCHANGED <<files, job, log, disturbed>>

-----------------------------------------------------------------------------
Operator(j, f) ==
    \/ RequestDownload(j, f)
    \/ RequestProcessing(j, f)
    \/ RequestDeletion(j, f)

Download(j) ==
    \/ SkipDownload(j)
    \/ OpenZip(j)
    \/ WriteZip(j)
    \/ FinishZip(j)
    \/ FinishUnlinked(j)
    \/ NothingToDownload(j)

Unpack(j) ==
    \/ SkipUnpacking(j)
    \/ CheckZip(j)
    \/ ClearDirectory(j)
    \/ StartExtraction(j)
    \/ FinishExtraction(j)
    \/ FindCsv(j)
    \/ \E k \in Job : EnqueueImport(j, k)
    \/ RemoveZip(j)

Import(j) ==
    \/ \E n \in 0 .. Batches : OpenCsv(j, n)
    \/ InsertBatch(j)
    \/ RecordImported(j)
    \/ RemoveDirectory(j)

Next ==
    \/ \E j \in Job, f \in Archive : Operator(j, f)
    \/ \E j \in Job : Download(j) \/ Unpack(j) \/ Import(j) \/ DeleteFile(j) \/ Throws(j)
    \/ Kill
    \/ \E f \in Archive : Rotate(f)

Spec == Init /\ [][Next]_vars

-----------------------------------------------------------------------------
(* Properties *)

\* ArchiveImportLog is the ground truth of coverage (ADR 0012): a logged day of
\* a kept month is in Trades, if no import opened a half-extracted csv, the
\* zip was not deleted by hand and only one job at a time unpacked it.
UndisturbedLogIsTrue ==
    \A f \in log \ (disturbed \cup dropped) : stored[f] = Batches

\* The same without the exceptions, as the comment before
\* RecordArchiveImportedAsync in CsvImportWorker has it.
LoggedDaysAreStored ==
    \A f \in log \ dropped : stored[f] = Batches

\* The trades of a downloaded archive are in its zip, in its unpacked csv, or
\* in Trades.
Held(f) == zip[f] = "whole" \/ csv[f] = "whole" \/ stored[f] = Batches

\* No step loses them: not the deletion of the zip after the import is queued,
\* not the clearing of a directory an import may be reading, no failure or
\* kill, however often, and no second download.
NothingIsLost ==
    [][ \A f \in Archive \ (disturbed' \cup dropped') : Held(f) => Held(f)' ]_vars
=============================================================================
